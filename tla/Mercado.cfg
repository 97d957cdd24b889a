SPECIFICATION Spec
CONSTANTS
  c1 = c1  c2 = c2
  Factura = {1, 2}
  Peticion = {c1, c2}
  Limites = {1}
  Marcadores = {0, 2}
  MaxPagina = 2
  Ttl = 2
  MaxDemora = 1
  MaxReloj = 4
  ConFallos = TRUE
SYMMETRY Simetria
INVARIANTS TypeOK RetiradaDesaparece PublicadaAparece RecorridoFiel
