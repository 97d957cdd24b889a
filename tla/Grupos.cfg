SPECIFICATION Spec
CONSTANTS
  g1 = g1  g2 = g2
  ana = ana  ben = ben
  q1 = q1  q2 = q2  q3 = q3
  Grupo = {g1, g2}
  Usuario = {ana, ben}
  Conocido = {ana}
  Peticion = {q1, q2, q3}
  MaxActivas = 2
  LiderPrevio <- UnGrupoDeAna
SYMMETRY Simetria
INVARIANTS TypeOK UnaFila ListadoFiel
PROPERTY ImplementaGrupos
