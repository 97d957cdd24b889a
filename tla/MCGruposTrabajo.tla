---------------------------- MODULE MCGruposTrabajo ----------------------------
(***************************************************************************)
(* A small instance of GruposTrabajo for TLC.                              *)
(***************************************************************************)
EXTENDS GruposTrabajo, TLC

CONSTANTS g1, g2, ana, ben, q1, q2, q3

\* Ana leads a group.
UnGrupoDeAna == g1 :> ana

Simetria == Permutations(Peticion)
=============================================================================
