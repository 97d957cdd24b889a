------------------------- MODULE MCAccesoOrganizacion -------------------------
(***************************************************************************)
(* Small instances of AccesoOrganizacion for TLC.                          *)
(***************************************************************************)
EXTENDS AccesoPropiedades, TLC

CONSTANTS ana, ben, org1, s1, s2, s3, q1, q2, q3, q4

\* A token with Ben as its author is waiting.
UnaPendienteDeBen ==
    [s \in Solicitud |->
       [org |-> org1, quien |-> ben, rol |-> "COLABORADOR",
        estado |-> IF s = s1 THEN "PENDIENTE" ELSE "no creada",
        vencida |-> FALSE]]

\* Ana administers the organization.
AnaAdmin == [m \in Organizacion \X Usuario |->
               IF m[2] = ana THEN "ADMIN" ELSE "ninguno"]

Simetria == Permutations(Peticion) \cup Permutations({s2, s3})
=============================================================================
