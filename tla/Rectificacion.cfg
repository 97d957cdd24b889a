SPECIFICATION Spec
CONSTANTS
  ana = ana  ben = ben
  o1 = o1  o2 = o2
  Usuario = {ana, ben}
  Organizacion = {o1, o2}
  Gestor = ana
  Duena = o1
  ConFila <- Filas
  Peticion = {1, 2, 3}
  MaxActivas = 2
  MaxN = 2
  FilaPrevia <- PrimeraFila
  Tratados <- DosCampos
  Cuerpos <- CuerposPosibles
  Valores <- ValoresPosibles
  Documentos <- DocumentosPosibles
INVARIANTS TypeOK CambioConOrigen DiscrepanciaAnotada NotaVigente
