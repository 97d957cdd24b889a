-------------------------- MODULE MCSubidaDocumentos --------------------------
(***************************************************************************)
(* Small instances of SubidaDocumentos for TLC.                            *)
(***************************************************************************)
EXTENDS SubidaDocumentos, TLC

CONSTANTS a1, a2, a3, d1, d2, l1, l2

\* The requests are interchangeable.
Simetria == Permutations(Pedido)
=============================================================================
