SPECIFICATION Spec
CONSTANTS
  rut1 = rut1  rut2 = rut2  c1 = c1  c2 = c2  ana = ana  ben = ben
  q1 = q1  q2 = q2  q3 = q3
  Rut = {rut1}
  Codigo = {c1, c2}
  Usuario = {ana, ben}
  Peticion = {q1, q2, q3}
  Previas <- UnaPrevia
  MaxActivas = 2
  ConFallos = TRUE
SYMMETRY Simetria
INVARIANTS TypeOK AltaCompleta ActividadesEnteras ActividadConVerificacion
