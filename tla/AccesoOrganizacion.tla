--------------------------- MODULE AccesoOrganizacion ---------------------------
(***************************************************************************)
(* How a user becomes, and stops being, a member of an organization:       *)
(* requests of access, their resolution by token, their cancellation and   *)
(* expiry, the enrolment tokens of an administrator, and the changes an    *)
(* administrator makes to the members.                                     *)
(*                                                                         *)
(* Each HTTP request is a process and one action is the code between two   *)
(* awaits.  No statement runs in a transaction with another.               *)
(***************************************************************************)
EXTENDS Naturals, FiniteSets

CONSTANTS
    Usuario, Organizacion,
    Solicitud,        \* the rows (and tokens) organizacion_solicitud_acceso may get
    Peticion,         \* the HTTP requests
    Tipos,            \* bound: the kinds of request that arrive
    MaxActivas,       \* bound: how many are handled at once
    ConFallos,        \* bound: whether a statement may fail and the process crash
    AdmiteOrgNula,    \* the column organizacion_id of a solicitud is nullable
    SolicitudesPrevias, RolPrevio \* the rows of the two tables at the beginning

Rol == {"ADMIN", "COLABORADOR"}

\* The null that existenSolicitudesPendientes gives as the organization.
SinOrg == "null"

EstadoSolicitud == {"no creada", "PENDIENTE", "APROBADA", "RECHAZADA",
                    "CANCELADA", "EXPIRADA"}

Finales == {"APROBADA", "RECHAZADA", "CANCELADA", "EXPIRADA"}

FilaSolicitud == [org: Organizacion \cup {SinOrg}, quien: Usuario, rol: Rol,
                  estado: EstadoSolicitud, vencida: BOOLEAN]

FilaMiembro == [rol: Rol \cup {"ninguno"}, activo: BOOLEAN]

Entrada == [tipo: {"", "solicitar", "resolver", "cancelar", "consultar",
                   "token", "rol", "remover"},
            sol: Solicitud, org: Organizacion, quien: Usuario, rol: Rol,
            decision: {"APROBADA", "RECHAZADA"}]

ASSUME ConstantesOK ==
    /\ Usuario # {} /\ Organizacion # {} /\ Solicitud # {}
    /\ SinOrg \notin Organizacion
    /\ MaxActivas \in Nat /\ ConFallos \in BOOLEAN /\ AdmiteOrgNula \in BOOLEAN
    /\ SolicitudesPrevias \in [Solicitud -> FilaSolicitud]
    /\ RolPrevio \in [Organizacion \X Usuario -> Rol \cup {"ninguno"}]

\* The two tables at the beginning are as requests that came one by one leave
\* them: the author of an approved solicitud has a row of member, and nobody
\* has two pending for an organization.
ASSUME PreviasOK ==
    \A s \in Solicitud :
       LET f == SolicitudesPrevias[s] IN
       /\ f.estado = "APROBADA" =>
             f.org \in Organizacion /\ RolPrevio[<<f.org, f.quien>>] # "ninguno"
       /\ f.estado = "PENDIENTE" /\ f.org \in Organizacion =>
             \A t \in Solicitud \ {s} :
                \/ SolicitudesPrevias[t].estado # "PENDIENTE"
                \/ SolicitudesPrevias[t].org # f.org
                \/ SolicitudesPrevias[t].quien # f.quien

VARIABLES
    sol,        \* organizacion_solicitud_acceso
    miembro,    \* organizacion_miembro; rol "ninguno" where there is no row
    pc, ent,    \* where a request is, and what it carries
    leida,      \* the row getSolicitudPorToken gave to it
    cruce       \* history: the pairs for which two tokens were about to be created

tablas == <<sol, miembro>>
vars == <<sol, miembro, pc, ent, leida, cruce>>

PasoDe == {"expirar", "expirar_otra", "sol_existen", "sol_crear", "res_leer",
           "res_asociar", "res_resolver", "can_cancelar", "tok_cancelar",
           "tok_crear", "mie_rol", "mie_remover"}

TypeOK ==
    /\ sol \in [Solicitud -> FilaSolicitud]
    /\ miembro \in [Organizacion \X Usuario -> FilaMiembro]
    /\ pc \in [Peticion -> PasoDe \cup {"libre", "fin", "fallo", "caida"}]
    /\ ent \in [Peticion -> Entrada]
    /\ leida \in [Peticion -> FilaSolicitud]
    /\ cruce \subseteq Organizacion \X Usuario

-----------------------------------------------------------------------------
Base == [tipo |-> "", sol |-> CHOOSE s \in Solicitud : TRUE,
         org |-> CHOOSE o \in Organizacion : TRUE,
         quien |-> CHOOSE u \in Usuario : TRUE,
         rol |-> "COLABORADOR", decision |-> "RECHAZADA"]

SinLeer == [org |-> SinOrg, quien |-> Base.quien, rol |-> "COLABORADOR",
            estado |-> "no creada", vencida |-> FALSE]

Init ==
    /\ sol = SolicitudesPrevias
    /\ miembro = [m \in Organizacion \X Usuario |->
                    [rol |-> RolPrevio[m], activo |-> RolPrevio[m] # "ninguno"]]
    /\ pc = [p \in Peticion |-> "libre"]
    /\ ent = [p \in Peticion |-> Base]
    /\ leida = [p \in Peticion |-> SinLeer]
    /\ cruce = {}

EnCurso(p) == pc[p] \in PasoDe

\* generarTokenEnrolamiento looks the organization up first: it is there.
PrimerPaso(tipo) == CASE tipo = "rol"     -> "mie_rol"
                      [] tipo = "remover" -> "mie_remover"
                      [] OTHER            -> "expirar"

Llega(p, e) ==
    /\ pc[p] = "libre" /\ e.tipo \in Tipos
    /\ Cardinality({q \in Peticion : EnCurso(q)}) < MaxActivas
    /\ pc' = [pc EXCEPT ![p] = PrimerPaso(e.tipo)]
    /\ ent' = [ent EXCEPT ![p] = e]
    /\ UNCHANGED <<tablas, leida, cruce>>

\* POST :id/solicitud-acceso.
LlegaSolicitud(p) ==
    \E o \in Organizacion, u \in Usuario, r \in Rol :
       Llega(p, [Base EXCEPT !.tipo = "solicitar", !.org = o, !.quien = u, !.rol = r])

\* POST :id/generar-token-enrolamiento, of the administrator u.
LlegaToken(p) ==
    \E o \in Organizacion, u \in Usuario, r \in Rol :
       Llega(p, [Base EXCEPT !.tipo = "token", !.org = o, !.quien = u, !.rol = r])

LlegaResolucion(p) ==
    \E s \in Solicitud, d \in {"APROBADA", "RECHAZADA"} :
       Llega(p, [Base EXCEPT !.tipo = "resolver", !.sol = s, !.decision = d])

LlegaCancelacion(p) ==
    \E s \in Solicitud, u \in Usuario :
       Llega(p, [Base EXCEPT !.tipo = "cancelar", !.sol = s, !.quien = u])

\* The two queries of solicitudes: all they change is what has expired.
LlegaConsulta(p) == Llega(p, [Base EXCEPT !.tipo = "consultar"])

\* PATCH and DELETE :id/miembros/:uuid.
LlegaCambioMiembro(p) ==
    \E o \in Organizacion, u \in Usuario :
       \/ \E r \in Rol : Llega(p, [Base EXCEPT !.tipo = "rol", !.org = o,
                                               !.quien = u, !.rol = r])
       \/ Llega(p, [Base EXCEPT !.tipo = "remover", !.org = o, !.quien = u])

LlegaAlguna(p) ==
    \/ LlegaSolicitud(p) \/ LlegaToken(p) \/ LlegaResolucion(p)
    \/ LlegaCancelacion(p) \/ LlegaConsulta(p) \/ LlegaCambioMiembro(p)

Ir(p, paso) == pc' = [pc EXCEPT ![p] = paso]

\* Any statement may fail, and then the handler throws.
Falla(p) ==
    /\ ConFallos /\ EnCurso(p)
    /\ Ir(p, "fallo")
    /\ UNCHANGED <<tablas, ent, leida, cruce>>

-----------------------------------------------------------------------------
(***************************************************************************)
(* Expiry.                                                                 *)
(***************************************************************************)

\* expira_en goes by.
Vence(s) ==
    /\ sol[s].estado = "PENDIENTE" /\ ~sol[s].vencida
    /\ sol' = [sol EXCEPT ![s].vencida = TRUE]
    /\ UNCHANGED <<miembro, pc, ent, leida, cruce>>

\* Mutant of MarcarExpiradas: a state that no other code knows.
MarcarVencidas ==
    sol' = [s \in Solicitud |->
              IF sol[s].estado = "PENDIENTE" /\ sol[s].vencida
              THEN [sol[s] EXCEPT !.estado = "VENCIDA"] ELSE sol[s]]

\* core.fn_marcar_solicitudes_expiradas().
MarcarExpiradas ==
    sol' = [s \in Solicitud |->
              IF sol[s].estado = "PENDIENTE" /\ sol[s].vencida
              THEN [sol[s] EXCEPT !.estado = "EXPIRADA"] ELSE sol[s]]

\* Every operation on solicitudes starts by marking the expired ones, and
\* getSolicitudPorToken marks them again.
Expirar(p) ==
    /\ pc[p] \in {"expirar", "expirar_otra"}
    /\ MarcarExpiradas
    /\ Ir(p, IF pc[p] = "expirar_otra" THEN "res_leer"
             ELSE CASE ent[p].tipo = "solicitar" -> "sol_existen"
                    [] ent[p].tipo = "resolver"  -> "expirar_otra"
                    [] ent[p].tipo = "cancelar"  -> "can_cancelar"
                    [] ent[p].tipo = "token"     -> "tok_cancelar"
                    [] OTHER                     -> "fin")
    /\ UNCHANGED <<miembro, ent, leida, cruce>>

-----------------------------------------------------------------------------
(***************************************************************************)
(* ExecuteSolicitarAcceso.                                                 *)
(***************************************************************************)
Pendientes(o, u) ==
    {s \in Solicitud : /\ sol[s].estado = "PENDIENTE"
                       /\ sol[s].org = o /\ sol[s].quien = u}

\* existenSolicitudesPendientes: a pending one is a conflict.
SolicitarExisten(p) ==
    /\ pc[p] = "sol_existen"
    /\ Ir(p, IF Pendientes(ent[p].org, ent[p].quien) # {}
             THEN "fallo" ELSE "sol_crear")
    /\ UNCHANGED <<tablas, ent, leida, cruce>>

\* A new row, PENDIENTE.
Crea(o, u, r) ==
    \E s \in Solicitud :
       /\ sol[s].estado = "no creada"
       /\ sol' = [sol EXCEPT ![s] = [org |-> o, quien |-> u, rol |-> r,
                                     estado |-> "PENDIENTE", vencida |-> FALSE]]

\* crearSolicitud gets the orgId of the query before, which is null because
\* that query found no row: the new one names no organization.
SolicitarCrear(p) ==
    /\ pc[p] = "sol_crear"
    /\ \/ /\ AdmiteOrgNula
          /\ Crea(SinOrg, ent[p].quien, ent[p].rol) /\ Ir(p, "fin")
       \/ ~AdmiteOrgNula /\ Ir(p, "fallo") /\ UNCHANGED sol
    /\ UNCHANGED <<miembro, ent, leida, cruce>>

-----------------------------------------------------------------------------
(***************************************************************************)
(* ExecuteResolverSolicitud.                                               *)
(***************************************************************************)

\* Mutant of TrasLeer: the approval goes straight to the solicitud.
TrasLeerDirecto(d) == "res_resolver"

TrasLeer(d) == IF d = "APROBADA" THEN "res_asociar" ELSE "res_resolver"

\* Mutant of Resoluble: the state of the solicitud is not looked at.
ResolubleSiempre(s) == sol[s].estado # "no creada"

\* Found, and PENDIENTE.
Resoluble(s) == sol[s].estado = "PENDIENTE"

\* getSolicitudPorToken, and the answers 404 and 409.  The view it reads may
\* leave out a solicitud that names no organization.
ResolverLeer(p) ==
    /\ pc[p] = "res_leer"
    /\ \/ /\ Resoluble(ent[p].sol)
          /\ leida' = [leida EXCEPT ![p] = sol[ent[p].sol]]
          /\ Ir(p, TrasLeer(ent[p].decision))
       \/ /\ ~Resoluble(ent[p].sol) \/ sol[ent[p].sol].org = SinOrg
          /\ Ir(p, "fallo") /\ UNCHANGED leida
    /\ UNCHANGED <<tablas, ent, cruce>>

\* INSERT ... ON CONFLICT DO UPDATE SET activo = true, rol_codigo = ...
Asocia(o, u, r) ==
    miembro' = [miembro EXCEPT ![<<o, u>>] = [rol |-> r, activo |-> TRUE]]

\* asociarUsuarioAOrganizacion; the null organization is read as number 0,
\* which no organization has.
ResolverAsociar(p) ==
    /\ pc[p] = "res_asociar"
    /\ \/ /\ leida[p].org # SinOrg
          /\ Asocia(leida[p].org, leida[p].quien, leida[p].rol)
          /\ Ir(p, "res_resolver")
       \/ leida[p].org = SinOrg /\ Ir(p, "fallo") /\ UNCHANGED miembro
    /\ UNCHANGED <<sol, ent, leida, cruce>>

\* solveSolicitud: by token, whatever the state is by now.
ResolverResolver(p) ==
    /\ pc[p] = "res_resolver"
    /\ sol' = [sol EXCEPT ![ent[p].sol].estado = ent[p].decision]
    /\ Ir(p, "fin")
    /\ UNCHANGED <<miembro, ent, leida, cruce>>

-----------------------------------------------------------------------------
(***************************************************************************)
(* ExecuteCancelarSolicitud.                                               *)
(***************************************************************************)

\* Mutant of Cancelable: the state is left out of the WHERE clause.
CancelableSiempre(s, u) == sol[s].estado # "no creada" /\ sol[s].quien = u

Cancelable(s, u) == sol[s].estado = "PENDIENTE" /\ sol[s].quien = u

\* An UPDATE that matches nothing is answered as a cancellation all the same.
Cancelar(p) ==
    /\ pc[p] = "can_cancelar"
    /\ sol' = IF Cancelable(ent[p].sol, ent[p].quien)
              THEN [sol EXCEPT ![ent[p].sol].estado = "CANCELADA"] ELSE sol
    /\ Ir(p, "fin")
    /\ UNCHANGED <<miembro, ent, leida, cruce>>

-----------------------------------------------------------------------------
(***************************************************************************)
(* generarTokenEnrolamiento: the administrator's own pending solicitudes   *)
(* are cancelled, and a new one is created in the administrator's name.    *)
(***************************************************************************)

\* Mutant of PropiasPendientes: only the expired ones are cancelled.
PropiasPendientesVencidas(o, u) == {s \in Pendientes(o, u) : sol[s].vencida}

PropiasPendientes(o, u) == Pendientes(o, u)

\* Those that have cancelled the pending ones and will now create theirs.
Creando(m) == {q \in Peticion : pc[q] = "tok_crear" /\ <<ent[q].org, ent[q].quien>> = m}

TokenCancelar(p) ==
    /\ pc[p] = "tok_cancelar"
    /\ sol' = [s \in Solicitud |->
                 IF s \in PropiasPendientes(ent[p].org, ent[p].quien)
                 THEN [sol[s] EXCEPT !.estado = "CANCELADA"] ELSE sol[s]]
    /\ Ir(p, "tok_crear")
    /\ UNCHANGED <<miembro, ent, leida>>
    /\ cruce' = cruce \cup {m \in Organizacion \X Usuario : \E q, r \in Creando(m)' : q # r}

TokenCrear(p) ==
    /\ pc[p] = "tok_crear"
    /\ Crea(ent[p].org, ent[p].quien, ent[p].rol)
    /\ Ir(p, "fin")
    /\ UNCHANGED <<miembro, ent, leida, cruce>>

-----------------------------------------------------------------------------
(***************************************************************************)
(* cambiarRolMiembro and removerMiembro: only an active member matches.    *)
(***************************************************************************)
MiembroRol(p) ==
    /\ pc[p] = "mie_rol"
    /\ LET m == <<ent[p].org, ent[p].quien>> IN
         \/ /\ miembro[m].activo
            /\ miembro' = [miembro EXCEPT ![m].rol = ent[p].rol] /\ Ir(p, "fin")
         \/ ~miembro[m].activo /\ Ir(p, "fallo") /\ UNCHANGED miembro
    /\ UNCHANGED <<sol, ent, leida, cruce>>

MiembroRemover(p) ==
    /\ pc[p] = "mie_remover"
    /\ LET m == <<ent[p].org, ent[p].quien>> IN
         \/ /\ miembro[m].activo
            /\ miembro' = [miembro EXCEPT ![m].activo = FALSE] /\ Ir(p, "fin")
         \/ ~miembro[m].activo /\ Ir(p, "fallo") /\ UNCHANGED miembro
    /\ UNCHANGED <<sol, ent, leida, cruce>>

-----------------------------------------------------------------------------
\* The process stops.
Caida ==
    /\ ConFallos /\ \E p \in Peticion : EnCurso(p)
    /\ pc' = [p \in Peticion |-> IF EnCurso(p) THEN "caida" ELSE pc[p]]
    /\ UNCHANGED <<tablas, ent, leida, cruce>>

Manejador(p) ==
    \/ Expirar(p) \/ SolicitarExisten(p) \/ SolicitarCrear(p)
    \/ ResolverLeer(p) \/ ResolverAsociar(p) \/ ResolverResolver(p)
    \/ Cancelar(p) \/ TokenCancelar(p) \/ TokenCrear(p)
    \/ MiembroRol(p) \/ MiembroRemover(p)

Reposo == \A p \in Peticion : ~EnCurso(p)

\* No more requests will come, or there is no room for another row.
Descansa ==
    /\ \A p \in Peticion : EnCurso(p) => pc[p] \in {"sol_crear", "tok_crear"}
    /\ UNCHANGED vars

Next ==
    \/ \E p \in Peticion : LlegaAlguna(p) \/ Manejador(p) \/ Falla(p)
    \/ \E s \in Solicitud : Vence(s)
    \/ Caida
    \/ Descansa

Spec == Init /\ [][Next]_vars
=============================================================================
