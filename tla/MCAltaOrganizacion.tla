-------------------------- MODULE MCAltaOrganizacion --------------------------
(***************************************************************************)
(* Small instances of AltaOrganizacion for TLC.                            *)
(***************************************************************************)
EXTENDS AltaOrganizacion, TLC

CONSTANTS rut1, rut2, c1, c2, ana, ben, q1, q2, q3

\* An organization that was there, its key split in two columns.
UnaPrevia == {<<rut1, "separado">>}

Simetria == Permutations(Peticion) \cup Permutations(Codigo)
=============================================================================
