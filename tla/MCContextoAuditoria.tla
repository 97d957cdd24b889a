-------------------------- MODULE MCContextoAuditoria --------------------------
(***************************************************************************)
(* A small instance of ContextoAuditoria for TLC.                          *)
(***************************************************************************)
EXTENDS ContextoAuditoria

CONSTANTS c1, c2, ana, ben

\* The first call comes for Ana, the others for Ben, Ana or nobody.
PorTurno == [p \in Peticion |-> CASE p = 1 -> {ana}
                                  [] p = 2 -> {ben, Nulo}
                                  [] OTHER -> {ana, Nulo}]
=============================================================================
