--------------------------- MODULE AccesoPropiedades ---------------------------
(***************************************************************************)
(* What AccesoOrganizacion promises about requests of access and members.  *)
(***************************************************************************)
EXTENDS AccesoOrganizacion

\* Request p found its solicitud pending, was told to approve it, and made
\* its author a member of the organization m[1] with role r.
Incorporo(p, m, r) ==
    /\ ent[p].tipo = "resolver" /\ ent[p].decision = "APROBADA"
    /\ leida[p].estado = "PENDIENTE"
    /\ leida[p].org = m[1] /\ leida[p].quien = m[2] /\ leida[p].rol = r
    /\ pc[p] \in {"res_resolver", "fin", "fallo", "caida"}

CambioRol(p, m, r) ==
    /\ ent[p].tipo = "rol" /\ pc[p] = "fin"
    /\ ent[p].org = m[1] /\ ent[p].quien = m[2] /\ ent[p].rol = r

\* An active member has the role it had, the one of a pending solicitud that
\* was approved, or the one an administrator gave it, however the requests
\* interleave, fail or crash.
MiembroConOrigen ==
    \A m \in Organizacion \X Usuario :
       LET r == miembro[m].rol IN
       miembro[m].activo =>
          \/ r = RolPrevio[m]
          \/ \E p \in Peticion : Incorporo(p, m, r) \/ CambioRol(p, m, r)

\* A solicitud that is APROBADA brought its author in: the row of the member
\* is written before the state, so a crash in between does not lose it.
AprobadaConFila ==
    \A s \in Solicitud :
       sol[s].estado = "APROBADA" =>
          /\ sol[s].org \in Organizacion
          /\ miembro[sol[s].org, sol[s].quien].rol # "ninguno"

\* A solicitud that was resolved, cancelled or expired stays so, against every
\* other request, failure and crash, but for the hole that the check of the
\* use case ("La solicitud ya fue ...") leaves: the state is read, awaits
\* follow, and the UPDATE does not look at it again.  So what is final changes
\* in one step only, the answer of a request that has read it PENDIENTE, and
\* to the decision of that request.
EstadoFinal ==
    [][\A s \in Solicitud :
         sol[s].estado \in Finales /\ sol'[s] # sol[s] =>
            \E p \in Peticion :
               /\ ent[p].tipo = "resolver" /\ ent[p].sol = s
               /\ leida[p].estado = "PENDIENTE"
               /\ EnCurso(p) /\ pc'[p] = "fin"
               /\ sol'[s] = [sol[s] EXCEPT !.estado = ent[p].decision]]_vars

\* A user has more than one pending solicitud for an organization only when
\* two enrolment tokens were asked for at once and both requests had cancelled
\* the pending ones before either created its own: the requests of access, the
\* resolutions, the failures and the crashes in the middle of one never leave
\* a second.
UnaPendiente ==
    \A m \in Organizacion \X Usuario :
       Cardinality(Pendientes(m[1], m[2])) > 1 => m \in cruce
=============================================================================
