SPECIFICATION Spec
CONSTANTS
  a1 = a1  a2 = a2  a3 = a3  d1 = d1  d2 = d2  l1 = l1  l2 = l2
  Pedido = {a1, a2}
  Documento = {d1, d2}
  Previas = {d2}
  Lote = {l1, l2}
  ConFallos = TRUE
SYMMETRY Simetria
INVARIANTS TypeOK LoteHeredado ArchivoConRastro
