------------------------- MODULE MCFacturaPublicacion -------------------------
(***************************************************************************)
(* Small instances of FacturaPublicacion for TLC.                          *)
(***************************************************************************)
EXTENDS FacturaPropiedades, TLC

CONSTANTS f1, f2, f3, fin1, fin2, ana, org1, n1

\* Ana manages the facturas of an organization.
MCOrgDe == [u \in Usuario |-> org1]

\* One factura, Ana's, registered by the OCR of a stamped document.
UnaFila == f1 :> [gestor |-> ana, folio |-> n1, timbrada |-> TRUE]

\* The financiadoras are interchangeable.
Simetria == Permutations(Financiadora)
=============================================================================
