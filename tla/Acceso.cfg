SPECIFICATION Spec
CONSTANTS
  ana = ana  ben = ben  org1 = org1  s1 = s1  s2 = s2  s3 = s3
  q1 = q1  q2 = q2  q3 = q3  q4 = q4
  Usuario = {ana, ben}
  Organizacion = {org1}
  Solicitud = {s1, s2, s3}
  Peticion = {q1, q2, q3}
  Tipos = {"solicitar", "resolver", "cancelar", "consultar", "token", "rol", "remover"}
  MaxActivas = 2
  ConFallos = TRUE
  AdmiteOrgNula = TRUE
  SolicitudesPrevias <- UnaPendienteDeBen
  RolPrevio <- AnaAdmin
SYMMETRY Simetria
INVARIANTS TypeOK MiembroConOrigen AprobadaConFila UnaPendiente
PROPERTY EstadoFinal
