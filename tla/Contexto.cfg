SPECIFICATION FairSpec
CONSTANTS
  c1 = c1  c2 = c2
  ana = ana  ben = ben
  Conexion = {c1, c2}
  Usuario = {ana, ben}
  Peticion = {1, 2, 3}
  Quienes <- PorTurno
  MaxFallos = 2
INVARIANTS TypeOK ContextoPropio ResultadoFiel PoolEntero
PROPERTY TodaTermina
