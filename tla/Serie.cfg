SPECIFICATION FairSpec
CONSTANTS
  f1 = f1  f2 = f2  f3 = f3  fin1 = fin1  fin2 = fin2  ana = ana
  org1 = org1  n1 = n1
  Factura = {f1}
  Financiadora = {fin1, fin2}
  Usuario = {ana}
  Organizacion = {org1}
  OrgDe <- MCOrgDe
  Folio = {n1}
  Campo = {"numeroFactura"}
  Peticion = {1, 2, 3}
  Tipos = {"autorizar", "respaldo", "editar"}
  Editables = {"numeroFactura"}
  MaxActivas = 1
  ConFallos = FALSE
  FilasPrevias <- UnaFila
  EstadosCliente = {}
INVARIANT PublicadaSinNotas
PROPERTIES AceptarPublica NotasRetiranVista
