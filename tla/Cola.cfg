SPECIFICATION FairSpec
CONSTANTS
  m1 = m1  m2 = m2  m3 = m3  m4 = m4
  Mensaje = {m1, m2, m3, m4}
  MaxArranques = 2
  MaxFallos = 2
INVARIANT TypeOK
PROPERTIES PublicadoLlega ImplementaCola
