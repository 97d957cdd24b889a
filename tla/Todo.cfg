SPECIFICATION FairSpec
CONSTANTS
  f1 = f1  f2 = f2  f3 = f3  fin1 = fin1  fin2 = fin2  ana = ana
  org1 = org1  n1 = n1
  Factura = {f1, f2, f3}
  Financiadora = {fin1}
  Usuario = {ana}
  Organizacion = {org1}
  OrgDe <- MCOrgDe
  Folio = {n1}
  Campo = {"numeroFactura"}
  Peticion = {1, 2}
  Tipos = {"autorizar", "respaldo", "editar", "formulario", "dte"}
  Editables = {"status"}
  MaxActivas = 2
  ConFallos = TRUE
  FilasPrevias <- UnaFila
  EstadosCliente = {"PROCESANDO", "PENDIENTE_AUTORIZACION", "PUBLICADA"}
INVARIANTS TypeOK PermisoConOrigen PublicadaConOrigen
PROPERTIES RevocacionConMotivo TodoTermina
