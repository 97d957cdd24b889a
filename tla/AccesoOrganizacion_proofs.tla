----------------------- MODULE AccesoOrganizacion_proofs -----------------------
(***************************************************************************)
(* Proofs about AccesoOrganizacion, for any users, organizations, rows and *)
(* requests.                                                               *)
(***************************************************************************)
EXTENDS AccesoPropiedades, FiniteSetTheorems, TLAPS

-----------------------------------------------------------------------------
(***************************************************************************)
(* The inductive invariant.                                                *)
(***************************************************************************)

\* A request is only in steps of its kind.
PasoPropio ==
    \A p \in Peticion :
       /\ pc[p] \in {"expirar_otra", "res_leer", "res_asociar", "res_resolver"}
             => ent[p].tipo = "resolver"
       /\ pc[p] = "res_asociar" => ent[p].decision = "APROBADA"
       /\ pc[p] = "mie_rol" => ent[p].tipo = "rol"

\* Who resolves a solicitud has read it pending, and what it read, but for the
\* state, is what the row still says; before an approval is written, its
\* author has a row of member.
Leidas ==
    \A p \in Peticion :
       LET s == sol[ent[p].sol] IN
       /\ pc[p] \in {"res_asociar", "res_resolver"} =>
             /\ leida[p].estado = "PENDIENTE" /\ s.estado # "no creada"
             /\ s.org = leida[p].org /\ s.quien = leida[p].quien
       /\ pc[p] = "res_resolver" /\ ent[p].decision = "APROBADA" =>
             /\ s.org \in Organizacion
             /\ miembro[s.org, s.quien].rol # "ninguno"

\* But for a pair that two tokens crossed: one request, at most, is about to
\* create a token for it, and nothing is pending then; and nothing more than
\* one solicitud is at any time.
SinCruce(m) ==
    /\ \A p, q \in Creando(m) : p = q
    /\ \A p \in Creando(m) : Pendientes(m[1], m[2]) = {}
    /\ \A s, t \in Pendientes(m[1], m[2]) : s = t

Cruces == \A m \in Organizacion \X Usuario : m \in cruce \/ SinCruce(m)

IInv == /\ TypeOK
        /\ PasoPropio /\ Leidas /\ Cruces
        /\ MiembroConOrigen /\ AprobadaConFila

-----------------------------------------------------------------------------
(***************************************************************************)
(* Type correctness.                                                       *)
(***************************************************************************)
LEMMA BaseOK == Base \in Entrada /\ SinLeer \in FilaSolicitud /\ Base.tipo = ""
  BY ConstantesOK DEF Base, SinLeer, Entrada, FilaSolicitud, Rol, EstadoSolicitud

\* Whatever arrives is of a known kind.
LEMMA LlegaReal ==
  ASSUME NEW p \in Peticion, LlegaAlguna(p)
  PROVE  \E e \in Entrada : Llega(p, e)
<1> USE BaseOK DEF Entrada
<1>1. CASE LlegaSolicitud(p)
  <2>1. ASSUME NEW o \in Organizacion, NEW u \in Usuario, NEW r \in Rol
        PROVE  [Base EXCEPT !.tipo = "solicitar", !.org = o, !.quien = u, !.rol = r] \in Entrada
    OBVIOUS
  <2>2. QED
    BY <1>1, <2>1 DEF LlegaSolicitud
<1>2. CASE LlegaToken(p)
  <2>1. ASSUME NEW o \in Organizacion, NEW u \in Usuario, NEW r \in Rol
        PROVE  [Base EXCEPT !.tipo = "token", !.org = o, !.quien = u, !.rol = r] \in Entrada
    OBVIOUS
  <2>2. QED
    BY <1>2, <2>1 DEF LlegaToken
<1>3. CASE LlegaResolucion(p)
  <2>1. ASSUME NEW s \in Solicitud, NEW d \in {"APROBADA", "RECHAZADA"}
        PROVE  [Base EXCEPT !.tipo = "resolver", !.sol = s, !.decision = d] \in Entrada
    OBVIOUS
  <2>2. QED
    BY <1>3, <2>1 DEF LlegaResolucion
<1>4. CASE LlegaCancelacion(p)
  <2>1. ASSUME NEW s \in Solicitud, NEW u \in Usuario
        PROVE  [Base EXCEPT !.tipo = "cancelar", !.sol = s, !.quien = u] \in Entrada
    OBVIOUS
  <2>2. QED
    BY <1>4, <2>1 DEF LlegaCancelacion
<1>5. CASE LlegaConsulta(p)
  <2>1. [Base EXCEPT !.tipo = "consultar"] \in Entrada
    OBVIOUS
  <2>2. QED
    BY <1>5, <2>1 DEF LlegaConsulta
<1>6. CASE LlegaCambioMiembro(p)
  <2>1. ASSUME NEW o \in Organizacion, NEW u \in Usuario
        PROVE  /\ [Base EXCEPT !.tipo = "remover", !.org = o, !.quien = u] \in Entrada
               /\ \A r \in Rol : [Base EXCEPT !.tipo = "rol", !.org = o,
                                              !.quien = u, !.rol = r] \in Entrada
    OBVIOUS
  <2>2. QED
    BY <1>6, <2>1 DEF LlegaCambioMiembro
<1>7. QED
  BY <1>1, <1>2, <1>3, <1>4, <1>5, <1>6 DEF LlegaAlguna

\* A solicitud that only changes its state, or the flag of its time, is one.
LEMMA FilaTipo ==
  ASSUME NEW f \in FilaSolicitud
  PROVE  /\ \A x \in EstadoSolicitud : /\ [f EXCEPT !.estado = x] \in FilaSolicitud
                                       /\ [f EXCEPT !.estado = x].estado = x
                                       /\ [f EXCEPT !.estado = x].org = f.org
                                       /\ [f EXCEPT !.estado = x].quien = f.quien
                                       /\ [f EXCEPT !.estado = x].rol = f.rol
         /\ [f EXCEPT !.vencida = TRUE] \in FilaSolicitud
         /\ [f EXCEPT !.vencida = TRUE].estado = f.estado
         /\ [f EXCEPT !.vencida = TRUE].org = f.org
         /\ [f EXCEPT !.vencida = TRUE].quien = f.quien
  BY DEF FilaSolicitud

-----------------------------------------------------------------------------
(***************************************************************************)
(* What a step of a request changes.                                       *)
(***************************************************************************)

\* A step of p touches no other request, and what p carries stays.
Aparte(p) ==
    /\ \A q \in Peticion : q # p => pc'[q] = pc[q] /\ leida'[q] = leida[q]
    /\ ent' = ent

LEMMA AparteEfecto ==
  ASSUME TypeOK, NEW p \in Peticion, Manejador(p) \/ Falla(p)
  PROVE  Aparte(p) /\ EnCurso(p)
<1> USE DEF Aparte, Ir, tablas, EnCurso, PasoDe, TypeOK
<1>1. CASE Expirar(p)
  BY <1>1 DEF Expirar
<1>2. CASE SolicitarExisten(p) \/ SolicitarCrear(p)
  BY <1>2 DEF SolicitarExisten, SolicitarCrear
<1>3. CASE ResolverLeer(p)
  BY <1>3 DEF ResolverLeer
<1>4. CASE ResolverAsociar(p) \/ ResolverResolver(p)
  BY <1>4 DEF ResolverAsociar, ResolverResolver
<1>5. CASE Cancelar(p)
  BY <1>5 DEF Cancelar
<1>6. CASE TokenCancelar(p) \/ TokenCrear(p)
  BY <1>6 DEF TokenCancelar, TokenCrear
<1>7. CASE MiembroRol(p)
  BY <1>7 DEF MiembroRol
<1>8. CASE MiembroRemover(p)
  BY <1>8 DEF MiembroRemover
<1>9. CASE Falla(p)
  BY <1>9 DEF Falla
<1>10. QED
  BY <1>1, <1>2, <1>3, <1>4, <1>5, <1>6, <1>7, <1>8, <1>9 DEF Manejador

\* Two tokens cross where the second cancels.
LEMMA CruceEfecto ==
  ASSUME NEW p \in Peticion, Manejador(p)
  PROVE  \/ cruce' = cruce /\ pc[p] # "tok_cancelar"
         \/ /\ pc[p] = "tok_cancelar"
            /\ cruce' = cruce \cup {m \in Organizacion \X Usuario :
                                      \E q, r \in Creando(m)' : q # r}
  BY DEF Manejador, Expirar, SolicitarExisten, SolicitarCrear, ResolverLeer, ResolverAsociar,
     ResolverResolver, Cancelar, TokenCancelar, TokenCrear, MiembroRol, MiembroRemover

\* Where a request goes, in the steps that matter.
LEMMA PasoEfecto ==
  ASSUME TypeOK, NEW p \in Peticion, Manejador(p)
  PROVE  /\ pc'[p] = "expirar_otra" => ent[p].tipo = "resolver"
         /\ pc'[p] = "res_leer" => pc[p] = "expirar_otra"
         /\ pc'[p] = "res_asociar" => pc[p] = "res_leer" /\ ent[p].decision = "APROBADA"
         /\ pc'[p] = "res_resolver" => \/ pc[p] = "res_leer" /\ ent[p].decision # "APROBADA"
                                       \/ pc[p] = "res_asociar"
         /\ pc'[p] = "tok_crear" => pc[p] = "tok_cancelar"
         /\ pc'[p] \notin {"mie_rol", "mie_remover", "libre"}
<1> USE DEF Ir, TypeOK
<1>1. CASE Expirar(p)
  <2> DEFINE x == CASE ent[p].tipo = "solicitar" -> "sol_existen"
                    [] ent[p].tipo = "resolver"  -> "expirar_otra"
                    [] ent[p].tipo = "cancelar"  -> "can_cancelar"
                    [] ent[p].tipo = "token"     -> "tok_cancelar"
                    [] OTHER                     -> "fin"
  <2>1. /\ x \in {"sol_existen", "expirar_otra", "can_cancelar", "tok_cancelar", "fin"}
        /\ x = "expirar_otra" => ent[p].tipo = "resolver"
    OBVIOUS
  <2> HIDE DEF x
  <2>2. pc'[p] = IF pc[p] = "expirar_otra" THEN "res_leer" ELSE x
    BY <1>1 DEF Expirar, x
  <2>3. QED
    BY <2>1, <2>2
<1>2. CASE SolicitarExisten(p) \/ SolicitarCrear(p)
  BY <1>2 DEF SolicitarExisten, SolicitarCrear
<1>3. CASE ResolverLeer(p)
  BY <1>3 DEF ResolverLeer, TrasLeer
<1>4. CASE ResolverAsociar(p) \/ ResolverResolver(p)
  BY <1>4 DEF ResolverAsociar, ResolverResolver
<1>5. CASE Cancelar(p) \/ TokenCancelar(p) \/ TokenCrear(p)
  BY <1>5 DEF Cancelar, TokenCancelar, TokenCrear
<1>6. CASE MiembroRol(p)
  BY <1>6 DEF MiembroRol
<1>7. CASE MiembroRemover(p)
  BY <1>7 DEF MiembroRemover
<1>8. QED
  BY <1>1, <1>2, <1>3, <1>4, <1>5, <1>6, <1>7 DEF Manejador

\* What a request reads.
LEMMA LeidaEfecto ==
  ASSUME TypeOK, NEW p \in Peticion, Manejador(p)
  PROVE  \/ leida'[p] = leida[p] /\ (pc[p] = "res_leer" => pc'[p] = "fallo")
         \/ /\ pc[p] = "res_leer" /\ leida'[p] = sol[ent[p].sol]
            /\ sol[ent[p].sol].estado = "PENDIENTE" /\ UNCHANGED tablas
<1> USE DEF Ir, TypeOK
<1>1. CASE ResolverLeer(p)
  BY <1>1 DEF ResolverLeer, Resoluble, tablas
<1>2. CASE leida' = leida /\ pc[p] # "res_leer"
  BY <1>2
<1>3. QED
  BY <1>1, <1>2 DEF Manejador, Expirar, SolicitarExisten, SolicitarCrear, ResolverAsociar,
     ResolverResolver, Cancelar, TokenCancelar, TokenCrear, MiembroRol, MiembroRemover

\* A solicitud whose time is over, or that is cancelled.
Cierra(s) ==
    /\ sol[s].estado = "PENDIENTE"
    /\ \E x \in {"EXPIRADA", "CANCELADA"} : sol'[s] = [sol[s] EXCEPT !.estado = x]

\* The new solicitud of p, which names its organization if it is a token's.
Nueva(p, s) ==
    /\ sol[s].estado = "no creada"
    /\ sol'[s].estado = "PENDIENTE" /\ sol'[s].quien = ent[p].quien
    /\ \/ pc[p] = "sol_crear" /\ sol'[s].org = SinOrg
       \/ pc[p] = "tok_crear" /\ sol'[s].org = ent[p].org

\* The solicitud that p resolves.
Resuelta(p, s) ==
    /\ pc[p] = "res_resolver" /\ s = ent[p].sol
    /\ sol'[s] = [sol[s] EXCEPT !.estado = ent[p].decision]

LEMMA SolEfecto ==
  ASSUME TypeOK, NEW p \in Peticion, Manejador(p)
  PROVE  /\ sol' \in [Solicitud -> FilaSolicitud]
         /\ \/ /\ \A s \in Solicitud : sol'[s] = sol[s] \/ Cierra(s)
               /\ pc[p] = "tok_cancelar" =>
                     \A s \in Pendientes(ent[p].org, ent[p].quien) : Cierra(s)
               /\ pc[p] # "tok_crear" /\ pc[p] # "res_resolver"
            \/ \E n \in Solicitud : /\ Nueva(p, n) \/ Resuelta(p, n)
                                    /\ \A s \in Solicitud : s # n => sol'[s] = sol[s]
<1>a. sol \in [Solicitud -> FilaSolicitud] /\ ent[p] \in Entrada
  BY DEF TypeOK
<1>1. CASE Expirar(p)
  <2>1. \A s \in Solicitud :
           sol'[s] = IF sol[s].estado = "PENDIENTE" /\ sol[s].vencida
                     THEN [sol[s] EXCEPT !.estado = "EXPIRADA"] ELSE sol[s]
    BY <1>1 DEF Expirar, MarcarExpiradas
  <2>2. sol' \in [Solicitud -> FilaSolicitud]
    <3>1. \A s \in Solicitud :
            (IF sol[s].estado = "PENDIENTE" /\ sol[s].vencida
             THEN [sol[s] EXCEPT !.estado = "EXPIRADA"] ELSE sol[s]) \in FilaSolicitud
      BY <1>a, FilaTipo DEF EstadoSolicitud
    <3>2. QED
      BY <1>1, <3>1 DEF Expirar, MarcarExpiradas
  <2>3. pc[p] \in {"expirar", "expirar_otra"}
    BY <1>1 DEF Expirar
  <2>4. QED
    BY <2>1, <2>2, <2>3 DEF Cierra
<1>2. CASE SolicitarCrear(p) \/ TokenCrear(p)
  <2>1. CASE UNCHANGED sol
    <3>1. ASSUME NEW o, Crea(o, ent[p].quien, ent[p].rol)  PROVE FALSE
      <4>1. PICK n \in Solicitud :
               /\ sol[n].estado = "no creada"
               /\ sol' = [sol EXCEPT ![n] = [org |-> o, quien |-> ent[p].quien,
                                             rol |-> ent[p].rol, estado |-> "PENDIENTE",
                                             vencida |-> FALSE]]
        BY <3>1 DEF Crea
      <4>2. sol'[n].estado = "PENDIENTE"
        BY <4>1, <1>a
      <4>3. QED
        BY <2>1, <4>1, <4>2
    <3>2. pc[p] = "sol_crear"
      BY <1>2, <3>1 DEF SolicitarCrear, TokenCrear
    <3>3. QED
      BY <2>1, <3>2, <1>a
  <2>2. ASSUME NEW o \in Organizacion \cup {SinOrg}, Crea(o, ent[p].quien, ent[p].rol),
               \/ pc[p] = "sol_crear" /\ o = SinOrg
               \/ pc[p] = "tok_crear" /\ o = ent[p].org
        PROVE  /\ sol' \in [Solicitud -> FilaSolicitud]
               /\ \E n \in Solicitud : /\ Nueva(p, n)
                                       /\ \A s \in Solicitud : s # n => sol'[s] = sol[s]
    <3> DEFINE f == [org |-> o, quien |-> ent[p].quien, rol |-> ent[p].rol,
                     estado |-> "PENDIENTE", vencida |-> FALSE]
    <3>1. f \in FilaSolicitud
      BY <1>a DEF FilaSolicitud, Entrada, EstadoSolicitud
    <3>2. f.estado = "PENDIENTE" /\ f.org = o /\ f.quien = ent[p].quien
      OBVIOUS
    <3>3. PICK n \in Solicitud : sol[n].estado = "no creada" /\ sol' = [sol EXCEPT ![n] = f]
      BY <2>2 DEF Crea
    <3> HIDE DEF f
    <3>4. sol'[n] = f /\ \A s \in Solicitud : s # n => sol'[s] = sol[s]
      BY <3>3, <1>a
    <3>5. sol' \in [Solicitud -> FilaSolicitud]
      BY <3>1, <3>3, <1>a
    <3>6. QED
      BY <2>2, <3>2, <3>3, <3>4, <3>5 DEF Nueva
  <2>3. \/ UNCHANGED sol
        \/ pc[p] = "sol_crear" /\ Crea(SinOrg, ent[p].quien, ent[p].rol)
        \/ pc[p] = "tok_crear" /\ Crea(ent[p].org, ent[p].quien, ent[p].rol)
    BY <1>2 DEF SolicitarCrear, TokenCrear
  <2>4. ent[p].org \in Organizacion
    BY <1>a DEF Entrada
  <2>5. QED
    BY <2>1, <2>2, <2>3, <2>4
<1>3. CASE ResolverResolver(p)
  <2>1. /\ pc[p] = "res_resolver" /\ ent[p].sol \in Solicitud
        /\ ent[p].decision \in EstadoSolicitud
        /\ sol' = [sol EXCEPT ![ent[p].sol] = [sol[ent[p].sol] EXCEPT !.estado = ent[p].decision]]
    BY <1>3, <1>a DEF ResolverResolver, Entrada, EstadoSolicitud
  <2>2. [sol[ent[p].sol] EXCEPT !.estado = ent[p].decision] \in FilaSolicitud
    BY <2>1, <1>a, FilaTipo
  <2>3. QED
    BY <2>1, <2>2, <1>a DEF Resuelta
<1>4. CASE Cancelar(p)
  <2>1. /\ pc[p] = "can_cancelar" /\ ent[p].sol \in Solicitud
        /\ \/ sol' = sol
           \/ /\ sol[ent[p].sol].estado = "PENDIENTE"
              /\ sol' = [sol EXCEPT ![ent[p].sol] = [sol[ent[p].sol] EXCEPT !.estado = "CANCELADA"]]
    BY <1>4, <1>a DEF Cancelar, Cancelable, Entrada
  <2>2. [sol[ent[p].sol] EXCEPT !.estado = "CANCELADA"] \in FilaSolicitud
    BY <2>1, <1>a, FilaTipo DEF EstadoSolicitud
  <2>3. QED
    BY <2>1, <2>2, <1>a DEF Cierra
<1>5. CASE TokenCancelar(p)
  <2> DEFINE P == Pendientes(ent[p].org, ent[p].quien)
  <2>1. /\ pc[p] = "tok_cancelar"
        /\ sol' = [s \in Solicitud |-> IF s \in P THEN [sol[s] EXCEPT !.estado = "CANCELADA"]
                                                  ELSE sol[s]]
    BY <1>5 DEF TokenCancelar, PropiasPendientes
  <2>2. P \subseteq Solicitud /\ \A s \in P : sol[s].estado = "PENDIENTE"
    BY DEF Pendientes
  <2>3. \A s \in Solicitud : [sol[s] EXCEPT !.estado = "CANCELADA"] \in FilaSolicitud
    BY <1>a, FilaTipo DEF EstadoSolicitud
  <2> HIDE DEF P
  <2>4. sol' \in [Solicitud -> FilaSolicitud]
    BY <2>1, <2>3, <1>a
  <2>5. \A s \in Solicitud : IF s \in P THEN Cierra(s) ELSE sol'[s] = sol[s]
    BY <2>1, <2>2 DEF Cierra
  <2>6. QED
    BY <2>1, <2>2, <2>4, <2>5 DEF P
<1>6. CASE UNCHANGED sol /\ pc[p] \notin {"tok_cancelar", "tok_crear", "res_resolver"}
  BY <1>6, <1>a
<1>7. QED
  BY <1>1, <1>2, <1>3, <1>4, <1>5, <1>6
  DEF Manejador, SolicitarExisten, ResolverLeer, ResolverAsociar, MiembroRol, MiembroRemover,
      tablas

\* What a request does to the row of member m, and how it goes on.
LEMMA MiembroEfecto ==
  ASSUME TypeOK, NEW p \in Peticion, Manejador(p)
  PROVE  /\ miembro' \in [Organizacion \X Usuario -> FilaMiembro]
         /\ \A m \in Organizacion \X Usuario :
               \/ miembro'[m] = miembro[m]
               \/ /\ pc[p] = "res_asociar" /\ m = <<leida[p].org, leida[p].quien>>
                  /\ miembro'[m].rol = leida[p].rol /\ pc'[p] = "res_resolver"
               \/ /\ pc[p] = "mie_rol" /\ m = <<ent[p].org, ent[p].quien>>
                  /\ miembro'[m].rol = ent[p].rol /\ pc'[p] = "fin"
               \/ ~miembro'[m].activo /\ miembro'[m].rol = miembro[m].rol
         /\ pc[p] = "res_asociar" /\ pc'[p] = "res_resolver" =>
               /\ leida[p].org \in Organizacion
               /\ miembro'[<<leida[p].org, leida[p].quien>>].rol = leida[p].rol
<1>a. /\ miembro \in [Organizacion \X Usuario -> FilaMiembro]
      /\ ent[p].org \in Organizacion /\ ent[p].quien \in Usuario /\ ent[p].rol \in Rol
      /\ leida[p].org \in Organizacion \cup {SinOrg} /\ leida[p].quien \in Usuario
      /\ leida[p].rol \in Rol
  BY DEF TypeOK, Entrada, FilaSolicitud
<1>1. CASE UNCHANGED miembro /\ pc[p] # "res_asociar"
  BY <1>1, <1>a
<1>2. CASE ResolverAsociar(p)
  <2> DEFINE f == [rol |-> leida[p].rol, activo |-> TRUE]
             k == <<leida[p].org, leida[p].quien>>
  <2>1. \/ /\ leida[p].org \in Organizacion /\ miembro' = [miembro EXCEPT ![k] = f]
           /\ pc'[p] = "res_resolver"
        \/ UNCHANGED miembro /\ pc'[p] = "fallo"
    BY <1>2, <1>a DEF ResolverAsociar, Asocia, Ir, TypeOK
  <2>2. pc[p] = "res_asociar" /\ f \in FilaMiembro /\ f.rol = leida[p].rol
    BY <1>2, <1>a DEF ResolverAsociar, FilaMiembro
  <2>3. leida[p].org \in Organizacion => k \in Organizacion \X Usuario
    BY <1>a
  <2>4. miembro' \in [Organizacion \X Usuario -> FilaMiembro]
    BY <2>1, <2>2, <2>3, <1>a
  <2>5. CASE UNCHANGED miembro /\ pc'[p] = "fallo"
    BY <2>4, <2>5
  <2>6. CASE /\ leida[p].org \in Organizacion /\ miembro' = [miembro EXCEPT ![k] = f]
             /\ pc'[p] = "res_resolver"
    <3>1. miembro'[k] = f /\ \A m \in Organizacion \X Usuario : m # k => miembro'[m] = miembro[m]
      BY <2>3, <2>6, <1>a
    <3>2. QED
      BY <2>2, <2>4, <2>6, <3>1
  <2>7. QED
    BY <2>1, <2>5, <2>6
<1>3. CASE MiembroRol(p)
  <2> DEFINE k == <<ent[p].org, ent[p].quien>>
  <2>1. /\ pc[p] = "mie_rol" /\ k \in Organizacion \X Usuario
        /\ \/ /\ miembro' = [miembro EXCEPT ![k] = [miembro[k] EXCEPT !.rol = ent[p].rol]]
              /\ pc'[p] = "fin"
           \/ UNCHANGED miembro
    BY <1>3, <1>a DEF MiembroRol, Ir, TypeOK
  <2>2. /\ [miembro[k] EXCEPT !.rol = ent[p].rol] \in FilaMiembro
        /\ [miembro[k] EXCEPT !.rol = ent[p].rol].rol = ent[p].rol
    BY <2>1, <1>a DEF FilaMiembro
  <2>3. QED
    BY <2>1, <2>2, <1>a
<1>4. CASE MiembroRemover(p)
  <2> DEFINE k == <<ent[p].org, ent[p].quien>>
  <2>1. /\ pc[p] = "mie_remover" /\ k \in Organizacion \X Usuario
        /\ \/ miembro' = [miembro EXCEPT ![k] = [miembro[k] EXCEPT !.activo = FALSE]]
           \/ UNCHANGED miembro
    BY <1>4, <1>a DEF MiembroRemover
  <2>2. /\ [miembro[k] EXCEPT !.activo = FALSE] \in FilaMiembro
        /\ ~[miembro[k] EXCEPT !.activo = FALSE].activo
        /\ [miembro[k] EXCEPT !.activo = FALSE].rol = miembro[k].rol
    BY <2>1, <1>a DEF FilaMiembro
  <2>3. QED
    BY <2>1, <2>2, <1>a
<1>5. QED
  BY <1>1, <1>2, <1>3, <1>4
  DEF Manejador, Expirar, SolicitarExisten, SolicitarCrear, ResolverLeer, ResolverResolver,
      Cancelar, TokenCancelar, TokenCrear, tablas

LEMMA TipoInicial == Init => TypeOK
<1> SUFFICES ASSUME Init  PROVE TypeOK
  OBVIOUS
<1>1. miembro \in [Organizacion \X Usuario -> FilaMiembro]
  <2>1. \A m \in Organizacion \X Usuario :
           [rol |-> RolPrevio[m], activo |-> RolPrevio[m] # "ninguno"] \in FilaMiembro
    BY ConstantesOK DEF FilaMiembro
  <2>2. QED
    BY <2>1 DEF Init
<1>2. QED
  BY <1>1, BaseOK, ConstantesOK DEF Init, TypeOK

LEMMA TipoInductivo == TypeOK /\ [Next]_vars => TypeOK'
<1> SUFFICES ASSUME TypeOK, [Next]_vars  PROVE TypeOK'
  OBVIOUS
<1>1. ASSUME NEW p \in Peticion, LlegaAlguna(p)  PROVE TypeOK'
  <2>1. PICK e \in Entrada : Llega(p, e)
    BY <1>1, LlegaReal
  <2>2. PrimerPaso(e.tipo) \in PasoDe
    BY DEF PrimerPaso, PasoDe
  <2>3. QED
    BY <2>1, <2>2 DEF Llega, TypeOK, tablas
<1>2. ASSUME NEW p \in Peticion, Manejador(p)  PROVE TypeOK'
  <2>1. sol' \in [Solicitud -> FilaSolicitud]
    BY <1>2, SolEfecto
  <2>2. miembro' \in [Organizacion \X Usuario -> FilaMiembro]
    BY <1>2, MiembroEfecto
  <2>3. ent' = ent /\ cruce' \subseteq Organizacion \X Usuario
    BY <1>2, AparteEfecto, CruceEfecto DEF Aparte, TypeOK
  <2>4. leida' \in [Peticion -> FilaSolicitud]
    <3>1. \/ leida' = leida
          \/ leida' = [leida EXCEPT ![p] = sol[ent[p].sol]]
      BY <1>2 DEF Manejador, Expirar, SolicitarExisten, SolicitarCrear, ResolverLeer,
         ResolverAsociar, ResolverResolver, Cancelar, TokenCancelar, TokenCrear, MiembroRol,
         MiembroRemover
    <3>2. sol[ent[p].sol] \in FilaSolicitud
      BY DEF TypeOK, Entrada
    <3>3. QED
      BY <3>1, <3>2 DEF TypeOK
  <2>5. pc' \in [Peticion -> PasoDe \cup {"libre", "fin", "fallo", "caida"}]
    <3>1. \E paso \in PasoDe \cup {"fin", "fallo"} : Ir(p, paso)
      <4>1. CASE Expirar(p)
        <5>1. (CASE ent[p].tipo = "solicitar" -> "sol_existen"
                 [] ent[p].tipo = "resolver"  -> "expirar_otra"
                 [] ent[p].tipo = "cancelar"  -> "can_cancelar"
                 [] ent[p].tipo = "token"     -> "tok_cancelar"
                 [] OTHER                     -> "fin") \in PasoDe \cup {"fin"}
          BY DEF PasoDe
        <5>2. QED
          BY <4>1, <5>1 DEF Expirar, PasoDe
      <4>2. CASE ResolverLeer(p)
        BY <4>2 DEF ResolverLeer, TrasLeer, PasoDe
      <4>3. QED
        BY <1>2, <4>1, <4>2 DEF Manejador, SolicitarExisten, SolicitarCrear, ResolverAsociar,
           ResolverResolver, Cancelar, TokenCancelar, TokenCrear, MiembroRol, MiembroRemover, PasoDe
    <3>2. QED
      BY <3>1 DEF Ir, TypeOK
  <2>6. QED
    BY <2>1, <2>2, <2>3, <2>4, <2>5 DEF TypeOK
<1>3. ASSUME NEW p \in Peticion, Falla(p)  PROVE TypeOK'
  BY <1>3 DEF Falla, Ir, TypeOK, tablas
<1>4. ASSUME NEW s \in Solicitud, Vence(s)  PROVE TypeOK'
  <2>1. sol' = [sol EXCEPT ![s] = [sol[s] EXCEPT !.vencida = TRUE]]
    BY <1>4 DEF Vence, TypeOK
  <2>2. sol' \in [Solicitud -> FilaSolicitud]
    BY <2>1, FilaTipo DEF TypeOK
  <2>3. QED
    BY <1>4, <2>2 DEF Vence, TypeOK
<1>5. CASE Caida
  BY <1>5 DEF Caida, TypeOK, tablas
<1>6. CASE UNCHANGED vars
  BY <1>6 DEF vars, TypeOK
<1>7. QED
  BY <1>1, <1>2, <1>3, <1>4, <1>5, <1>6 DEF Next, Descansa

\* Every variable has its type in every state.
THEOREM TiposSiempre == Spec => []TypeOK
<1>1. QED
  BY TipoInicial, TipoInductivo, PTL DEF Spec

-----------------------------------------------------------------------------
(***************************************************************************)
(* What no step undoes.                                                    *)
(***************************************************************************)

\* How the steps that are of no handler leave the tables.
LEMMA OtrosPasos ==
  ASSUME TypeOK, [Next]_vars, \A p \in Peticion : ~Manejador(p)
  PROVE  /\ UNCHANGED miembro
         /\ \A s \in Solicitud : /\ sol'[s].estado = sol[s].estado
                                 /\ sol'[s].org = sol[s].org /\ sol'[s].quien = sol[s].quien
<1>1. CASE UNCHANGED tablas
  BY <1>1 DEF tablas
<1>2. ASSUME NEW s \in Solicitud, Vence(s)
      PROVE  /\ UNCHANGED miembro
             /\ \A t \in Solicitud : /\ sol'[t].estado = sol[t].estado
                                     /\ sol'[t].org = sol[t].org /\ sol'[t].quien = sol[t].quien
  <2>1. /\ UNCHANGED miembro /\ sol'[s] = [sol[s] EXCEPT !.vencida = TRUE]
        /\ \A t \in Solicitud : t # s => sol'[t] = sol[t]
    BY <1>2 DEF Vence, TypeOK
  <2>2. sol[s] \in FilaSolicitud
    BY DEF TypeOK
  <2>3. /\ sol'[s].estado = sol[s].estado /\ sol'[s].org = sol[s].org
        /\ sol'[s].quien = sol[s].quien
    BY <2>1, <2>2, FilaTipo
  <2>4. QED
    BY <2>1, <2>3
<1>3. ASSUME NEW p \in Peticion, LlegaAlguna(p)  PROVE UNCHANGED tablas
  BY <1>3, LlegaReal DEF Llega
<1>4. QED
  BY <1>1, <1>2, <1>3 DEF Next, Falla, Caida, Descansa, vars, tablas

\* A row that was created keeps its author and its organization.
LEMMA SolQueda ==
  ASSUME TypeOK, [Next]_vars, NEW s \in Solicitud, sol[s].estado # "no creada"
  PROVE  /\ sol'[s].estado # "no creada"
         /\ sol'[s].org = sol[s].org /\ sol'[s].quien = sol[s].quien
<1>1. sol[s] \in FilaSolicitud
  BY DEF TypeOK
<1>2. ASSUME NEW p \in Peticion, Manejador(p)
      PROVE  /\ sol'[s].estado # "no creada"
             /\ sol'[s].org = sol[s].org /\ sol'[s].quien = sol[s].quien
  <2>1. \/ sol'[s] = sol[s] \/ Cierra(s) \/ Resuelta(p, s)
    BY <1>2, SolEfecto DEF Nueva
  <2>2. ent[p].decision \in {"APROBADA", "RECHAZADA"}
    BY DEF TypeOK, Entrada
  <2>3. \A x \in EstadoSolicitud : /\ [sol[s] EXCEPT !.estado = x].estado = x
                                   /\ [sol[s] EXCEPT !.estado = x].org = sol[s].org
                                   /\ [sol[s] EXCEPT !.estado = x].quien = sol[s].quien
    BY <1>1, FilaTipo
  <2>4. sol'[s] = sol[s] \/ \E x \in EstadoSolicitud \ {"no creada"} :
                               sol'[s] = [sol[s] EXCEPT !.estado = x]
    BY <2>1, <2>2 DEF Cierra, Resuelta, EstadoSolicitud
  <2>5. QED
    BY <2>3, <2>4
<1>3. QED
  BY <1>2, OtrosPasos

\* A row of member is never deleted.
LEMMA MiembroQueda ==
  ASSUME TypeOK, [Next]_vars, NEW m \in Organizacion \X Usuario, miembro[m].rol # "ninguno"
  PROVE  miembro'[m].rol # "ninguno"
<1>1. ASSUME NEW p \in Peticion, Manejador(p)  PROVE miembro'[m].rol # "ninguno"
  <2>1. leida[p].rol # "ninguno" /\ ent[p].rol # "ninguno"
    BY DEF TypeOK, Entrada, FilaSolicitud, Rol
  <2>2. QED
    BY <1>1, <2>1, MiembroEfecto
<1>2. QED
  BY <1>1, OtrosPasos

-----------------------------------------------------------------------------
(***************************************************************************)
(* The parts of the invariant.                                             *)
(***************************************************************************)
LEMMA PrimerPasoDe ==
  ASSUME NEW t
  PROVE  /\ PrimerPaso(t) \in {"mie_rol", "mie_remover", "expirar"}
         /\ PrimerPaso(t) = "mie_rol" => t = "rol"
  BY DEF PrimerPaso

\* An arrival is of one request that was free.
LEMMA LlegaEfecto ==
  ASSUME TypeOK, NEW p \in Peticion, NEW e \in Entrada, Llega(p, e)
  PROVE  /\ pc[p] = "libre" /\ pc'[p] = PrimerPaso(e.tipo) /\ ent'[p] = e
         /\ \A q \in Peticion : q # p => pc'[q] = pc[q] /\ ent'[q] = ent[q]
         /\ UNCHANGED <<sol, miembro, leida, cruce>>
  BY DEF Llega, TypeOK, tablas

\* The steps that are neither of a handler nor an arrival.
LEMMA AjenosEfecto ==
  ASSUME TypeOK,
         (\E p \in Peticion : Falla(p)) \/ (\E s \in Solicitud : Vence(s)) \/ Caida
            \/ UNCHANGED vars
  PROVE  /\ UNCHANGED <<ent, leida, miembro, cruce>>
         /\ \A q \in Peticion : pc'[q] = pc[q] \/ pc'[q] \in {"fallo", "caida"}
<1>1. CASE \E p \in Peticion : Falla(p)
  BY <1>1 DEF Falla, Ir, TypeOK, tablas
<1>2. CASE \E s \in Solicitud : Vence(s)
  BY <1>2 DEF Vence
<1>3. CASE Caida
  BY <1>3 DEF Caida, tablas
<1>4. CASE UNCHANGED vars
  BY <1>4 DEF vars
<1>5. QED
  BY <1>1, <1>2, <1>3, <1>4

LEMMA PasoPropioInductivo ==
  ASSUME TypeOK, PasoPropio, [Next]_vars
  PROVE  PasoPropio'
<1>1. ASSUME NEW p \in Peticion, LlegaAlguna(p)  PROVE PasoPropio'
  <2>1. PICK e \in Entrada : Llega(p, e)
    BY <1>1, LlegaReal
  <2>2. QED
    BY <2>1, LlegaEfecto, PrimerPasoDe DEF PasoPropio
<1>2. ASSUME NEW p \in Peticion, Manejador(p)  PROVE PasoPropio'
  <2>1. Aparte(p)
    BY <1>2, AparteEfecto
  <2>2. /\ pc'[p] = "expirar_otra" => ent[p].tipo = "resolver"
        /\ pc'[p] = "res_leer" => pc[p] = "expirar_otra"
        /\ pc'[p] = "res_asociar" => pc[p] = "res_leer" /\ ent[p].decision = "APROBADA"
        /\ pc'[p] = "res_resolver" => pc[p] \in {"res_leer", "res_asociar"}
        /\ pc'[p] # "mie_rol"
    BY <1>2, PasoEfecto
  <2>3. QED
    BY <2>1, <2>2 DEF PasoPropio, Aparte
<1>3. CASE (\E p \in Peticion : Falla(p)) \/ (\E s \in Solicitud : Vence(s)) \/ Caida
             \/ UNCHANGED vars
  BY <1>3, AjenosEfecto DEF PasoPropio
<1>4. QED
  BY <1>1, <1>2, <1>3 DEF Next, Descansa

\* The row of a solicitud, what was read of it and the row of its author.
LEMMA LeidasInductiva ==
  ASSUME TypeOK, TypeOK', PasoPropio, Leidas, [Next]_vars
  PROVE  Leidas'
<1> DEFINE Leyo(q) == /\ leida[q].estado = "PENDIENTE" /\ sol[ent[q].sol].estado # "no creada"
                      /\ sol[ent[q].sol].org = leida[q].org
                      /\ sol[ent[q].sol].quien = leida[q].quien
           Entro(q) == /\ sol[ent[q].sol].org \in Organizacion
                       /\ miembro[<<sol[ent[q].sol].org, sol[ent[q].sol].quien>>].rol # "ninguno"
<1>a. \A q \in Peticion :
         /\ pc[q] \in {"res_asociar", "res_resolver"} => Leyo(q)
         /\ pc[q] = "res_resolver" /\ ent[q].decision = "APROBADA" => Entro(q)
  BY DEF Leidas
<1>b. \A q \in Peticion : /\ ent[q].sol \in Solicitud /\ sol[ent[q].sol] \in FilaSolicitud
                          /\ sol[ent[q].sol].quien \in Usuario
  BY DEF TypeOK, Entrada, FilaSolicitud
<1>1. ASSUME NEW q \in Peticion, ent'[q] = ent[q], leida'[q] = leida[q], Leyo(q)
      PROVE  Leyo(q)' /\ (Entro(q) => Entro(q)')
  <2>1. /\ sol'[ent[q].sol].estado # "no creada"
        /\ sol'[ent[q].sol].org = sol[ent[q].sol].org
        /\ sol'[ent[q].sol].quien = sol[ent[q].sol].quien
    BY <1>1, <1>b, SolQueda
  <2>2. ASSUME Entro(q)  PROVE Entro(q)'
    BY <1>1, <1>b, <2>1, <2>2, MiembroQueda
  <2>3. QED
    BY <1>1, <2>1, <2>2
<1>2. SUFFICES ASSUME NEW q \in Peticion
               PROVE  /\ pc'[q] \in {"res_asociar", "res_resolver"} => Leyo(q)'
                      /\ pc'[q] = "res_resolver" /\ ent'[q].decision = "APROBADA" => Entro(q)'
  BY DEF Leidas
<1> HIDE DEF Leyo, Entro
<1>3. CASE pc'[q] = pc[q] /\ ent'[q] = ent[q] /\ leida'[q] = leida[q]
  BY <1>a, <1>1, <1>3
<1>4. ASSUME NEW p \in Peticion, LlegaAlguna(p)
      PROVE  \/ pc'[q] = pc[q] /\ ent'[q] = ent[q] /\ leida'[q] = leida[q]
             \/ pc'[q] \notin {"res_asociar", "res_resolver"}
  <2>1. PICK e \in Entrada : Llega(p, e)
    BY <1>4, LlegaReal
  <2>2. QED
    BY <2>1, LlegaEfecto, PrimerPasoDe
<1>5. ASSUME NEW p \in Peticion, Manejador(p), q # p
      PROVE  pc'[q] = pc[q] /\ ent'[q] = ent[q] /\ leida'[q] = leida[q]
  BY <1>5, AparteEfecto DEF Aparte
<1>6. ASSUME Manejador(q)
      PROVE  /\ pc'[q] \in {"res_asociar", "res_resolver"} => Leyo(q)'
             /\ pc'[q] = "res_resolver" /\ ent'[q].decision = "APROBADA" => Entro(q)'
  <2>1. ent' = ent
    BY <1>6, AparteEfecto DEF Aparte
  <2>2. CASE pc'[q] \in {"res_asociar", "res_resolver"} /\ pc[q] = "res_leer"
    <3>1. /\ leida'[q] = sol[ent[q].sol] /\ sol[ent[q].sol].estado = "PENDIENTE"
          /\ UNCHANGED tablas
      BY <1>6, <2>2, LeidaEfecto
    <3>2. Leyo(q)'
      BY <2>1, <3>1 DEF Leyo, tablas
    <3>3. pc'[q] = "res_resolver" => ent[q].decision # "APROBADA"
      BY <1>6, <2>2, PasoEfecto
    <3>4. QED
      BY <2>1, <3>2, <3>3
  <2>3. CASE pc'[q] = "res_resolver" /\ pc[q] = "res_asociar"
    <3>1. leida'[q] = leida[q] /\ Leyo(q)
      BY <1>6, <1>a, <2>3, LeidaEfecto
    <3>2. Leyo(q)'
      BY <1>1, <2>1, <3>1
    <3>3. /\ leida[q].org \in Organizacion
          /\ miembro'[<<leida[q].org, leida[q].quien>>].rol = leida[q].rol
      BY <1>6, <2>3, MiembroEfecto
    <3>4. leida[q].rol # "ninguno"
      BY DEF TypeOK, FilaSolicitud, Rol
    <3>5. Entro(q)'
      BY <3>1, <3>2, <3>3, <3>4 DEF Leyo, Entro
    <3>6. QED
      BY <3>2, <3>5
  <2>4. QED
    BY <1>6, <2>2, <2>3, PasoEfecto
<1>7. CASE (\E p \in Peticion : Falla(p)) \/ (\E s \in Solicitud : Vence(s)) \/ Caida
             \/ UNCHANGED vars
  <2>1. /\ ent'[q] = ent[q] /\ leida'[q] = leida[q]
        /\ pc'[q] = pc[q] \/ pc'[q] \in {"fallo", "caida"}
    BY <1>7, AjenosEfecto
  <2>2. QED
    BY <1>3, <2>1
<1>8. QED
  BY <1>3, <1>4, <1>5, <1>6, <1>7 DEF Next, Descansa

LEMMA AprobadaInductiva ==
  ASSUME TypeOK, TypeOK', Leidas, AprobadaConFila, [Next]_vars
  PROVE  AprobadaConFila'
<1>1. SUFFICES ASSUME NEW s \in Solicitud, sol'[s].estado = "APROBADA"
               PROVE  /\ sol'[s].org \in Organizacion
                      /\ miembro'[<<sol'[s].org, sol'[s].quien>>].rol # "ninguno"
  BY DEF AprobadaConFila
<1>2. sol[s] \in FilaSolicitud /\ sol[s].quien \in Usuario
  BY DEF TypeOK, FilaSolicitud
<1>3. /\ sol[s].estado # "no creada" /\ sol[s].org \in Organizacion
      /\ miembro[<<sol[s].org, sol[s].quien>>].rol # "ninguno"
  <2>1. CASE sol[s].estado = "APROBADA"
    BY <2>1 DEF AprobadaConFila
  <2>2. CASE sol[s].estado # "APROBADA"
    <3>1. PICK p \in Peticion : Manejador(p)
      BY <1>1, <2>2, OtrosPasos
    <3>2. sol'[s] = sol[s] \/ Cierra(s) \/ Nueva(p, s) \/ Resuelta(p, s)
      BY <3>1, SolEfecto
    <3>3. Resuelta(p, s) /\ ent[p].decision = "APROBADA"
      <4>1. ASSUME NEW x \in EstadoSolicitud
            PROVE  [sol[s] EXCEPT !.estado = x].estado = x
        BY <1>2, FilaTipo
      <4>2. ~Cierra(s)
        BY <1>1, <4>1 DEF Cierra, EstadoSolicitud
      <4>3. ~Nueva(p, s)
        BY <1>1 DEF Nueva
      <4>4. ent[p].decision \in EstadoSolicitud
        BY DEF TypeOK, Entrada, EstadoSolicitud
      <4>5. QED
        BY <1>1, <2>2, <3>2, <4>1, <4>2, <4>3, <4>4 DEF Resuelta
    <3>4. QED
      BY <3>3 DEF Resuelta, Leidas
  <2>3. QED
    BY <2>1, <2>2
<1>4. sol'[s].org = sol[s].org /\ sol'[s].quien = sol[s].quien
  BY <1>3, SolQueda
<1>5. QED
  BY <1>2, <1>3, <1>4, MiembroQueda

\* The steps of who resolves, in detail.
LEMMA ResolverPaso ==
  ASSUME TypeOK, NEW p \in Peticion, Manejador(p)
  PROVE  /\ pc[p] = "res_resolver" => pc'[p] = "fin"
         /\ pc[p] = "res_asociar" => UNCHANGED sol
<1>1. CASE pc[p] = "res_resolver"
  BY <1>1 DEF Manejador, Expirar, SolicitarExisten, SolicitarCrear, ResolverLeer, ResolverAsociar,
     ResolverResolver, Cancelar, TokenCancelar, TokenCrear, MiembroRol, MiembroRemover, Ir, TypeOK
<1>2. CASE pc[p] = "res_asociar"
  BY <1>2 DEF Manejador, Expirar, SolicitarExisten, SolicitarCrear, ResolverLeer, ResolverAsociar,
     ResolverResolver, Cancelar, TokenCancelar, TokenCrear, MiembroRol, MiembroRemover
<1>3. QED
  BY <1>1, <1>2

\* Who brought a member in, or gave it its role, did so.
LEMMA OrigenQueda ==
  ASSUME TypeOK, [Next]_vars, NEW q \in Peticion, NEW m, NEW r,
         Incorporo(q, m, r) \/ CambioRol(q, m, r)
  PROVE  Incorporo(q, m, r)' \/ CambioRol(q, m, r)'
<1>1. CASE /\ ent'[q] = ent[q] /\ leida'[q] = leida[q]
           /\ \/ pc'[q] = pc[q]
              \/ pc[q] = "res_resolver" /\ pc'[q] \in {"fin", "fallo", "caida"}
  BY <1>1 DEF Incorporo, CambioRol
<1>2. pc[q] \in {"res_resolver", "fin", "fallo", "caida"}
  BY DEF Incorporo, CambioRol
<1>3. ASSUME NEW p \in Peticion, LlegaAlguna(p)
      PROVE  ent'[q] = ent[q] /\ leida'[q] = leida[q] /\ pc'[q] = pc[q]
  <2>1. PICK e \in Entrada : Llega(p, e)
    BY <1>3, LlegaReal
  <2>2. QED
    BY <1>2, <2>1, LlegaEfecto
<1>4. ASSUME NEW p \in Peticion, Manejador(p), p # q
      PROVE  ent'[q] = ent[q] /\ leida'[q] = leida[q] /\ pc'[q] = pc[q]
  BY <1>4, AparteEfecto DEF Aparte
<1>5. ASSUME Manejador(q)
      PROVE  /\ ent'[q] = ent[q] /\ leida'[q] = leida[q]
             /\ pc[q] = "res_resolver" /\ pc'[q] = "fin"
  <2>1. pc[q] = "res_resolver" /\ ent' = ent
    BY <1>2, <1>5, AparteEfecto DEF Aparte, EnCurso, PasoDe
  <2>2. QED
    BY <1>5, <2>1, ResolverPaso, LeidaEfecto
<1>6. ASSUME NEW p \in Peticion, Falla(p)
      PROVE  /\ ent'[q] = ent[q] /\ leida'[q] = leida[q]
             /\ pc'[q] = pc[q] \/ (pc[q] = "res_resolver" /\ pc'[q] = "fallo")
  BY <1>2, <1>6 DEF Falla, Ir, TypeOK, EnCurso, PasoDe
<1>7. CASE Caida
  BY <1>1, <1>2, <1>7 DEF Caida, EnCurso, PasoDe
<1>8. CASE (\E s \in Solicitud : Vence(s)) \/ UNCHANGED vars
  BY <1>1, <1>8 DEF Vence, vars
<1>9. QED
  BY <1>1, <1>3, <1>4, <1>5, <1>6, <1>7, <1>8 DEF Next, Descansa

LEMMA MiembroInductivo ==
  ASSUME TypeOK, PasoPropio, Leidas, MiembroConOrigen, [Next]_vars
  PROVE  MiembroConOrigen'
<1>1. SUFFICES ASSUME NEW m \in Organizacion \X Usuario, miembro'[m].activo,
                      miembro'[m].rol # RolPrevio[m], NEW r, r = miembro'[m].rol
               PROVE  \E q \in Peticion : Incorporo(q, m, r)' \/ CambioRol(q, m, r)'
  BY DEF MiembroConOrigen, Incorporo, CambioRol
<1>2. CASE miembro'[m] = miembro[m]
  <2>1. PICK q \in Peticion : Incorporo(q, m, r) \/ CambioRol(q, m, r)
    BY <1>1, <1>2 DEF MiembroConOrigen
  <2>2. QED
    BY <2>1, OrigenQueda
<1>3. CASE miembro'[m] # miembro[m]
  <2>1. PICK p \in Peticion : Manejador(p)
    BY <1>3, OtrosPasos
  <2>2. Aparte(p)
    BY <2>1, AparteEfecto
  <2>3. CASE /\ pc[p] = "res_asociar" /\ m = <<leida[p].org, leida[p].quien>>
             /\ miembro'[m].rol = leida[p].rol /\ pc'[p] = "res_resolver"
    <3>1. /\ leida'[p] = leida[p] /\ leida[p].estado = "PENDIENTE"
          /\ ent[p].tipo = "resolver" /\ ent[p].decision = "APROBADA"
      BY <2>1, <2>3, LeidaEfecto DEF Leidas, PasoPropio
    <3>2. leida'[p].org = m[1] /\ leida'[p].quien = m[2] /\ leida'[p].rol = r
      BY <1>1, <2>3, <3>1
    <3>3. QED
      BY <1>1, <2>2, <2>3, <3>1, <3>2 DEF Incorporo, Aparte
  <2>4. CASE /\ pc[p] = "mie_rol" /\ m = <<ent[p].org, ent[p].quien>>
             /\ miembro'[m].rol = ent[p].rol /\ pc'[p] = "fin"
    <3>1. /\ ent[p].tipo = "rol" /\ ent' = ent
          /\ ent[p].org = m[1] /\ ent[p].quien = m[2] /\ ent[p].rol = r
      BY <1>1, <2>2, <2>4 DEF PasoPropio, Aparte
    <3>2. QED
      BY <2>4, <3>1 DEF CambioRol
  <2>5. QED
    BY <1>1, <1>3, <2>1, <2>3, <2>4, MiembroEfecto
<1>4. QED
  BY <1>2, <1>3

\* A solicitud that is closed or resolved is pending no more.
LEMMA NoPendiente ==
  ASSUME TypeOK, NEW p \in Peticion, NEW s \in Solicitud, Cierra(s) \/ Resuelta(p, s)
  PROVE  sol'[s].estado # "PENDIENTE"
<1>1. sol[s] \in FilaSolicitud /\ ent[p].decision \in {"APROBADA", "RECHAZADA"}
  BY DEF TypeOK, Entrada
<1>2. \A x \in EstadoSolicitud : [sol[s] EXCEPT !.estado = x].estado = x
  BY <1>1, FilaTipo
<1>3. {"EXPIRADA", "CANCELADA", "APROBADA", "RECHAZADA"} \subseteq EstadoSolicitud
  BY DEF EstadoSolicitud
<1>4. CASE Cierra(s)
  BY <1>2, <1>3, <1>4 DEF Cierra
<1>5. CASE Resuelta(p, s)
  <2>1. [sol[s] EXCEPT !.estado = ent[p].decision].estado = ent[p].decision
    BY <1>1, <1>2, <1>3
  <2>2. QED
    BY <1>1, <1>5, <2>1 DEF Resuelta
<1>6. QED
  BY <1>4, <1>5

\* Only the insertion of a token adds to what is pending of a pair.
LEMMA PendientesEfecto ==
  ASSUME TypeOK, NEW p \in Peticion, Manejador(p), NEW m \in Organizacion \X Usuario
  PROVE  /\ \/ Pendientes(m[1], m[2])' \subseteq Pendientes(m[1], m[2])
            \/ /\ p \in Creando(m)
               /\ \E n \in Solicitud : Pendientes(m[1], m[2])' \subseteq
                                          Pendientes(m[1], m[2]) \cup {n}
         /\ pc[p] = "tok_cancelar" /\ m = <<ent[p].org, ent[p].quien>> =>
               Pendientes(m[1], m[2])' = {}
<1>1. CASE \A s \in Solicitud : sol'[s] = sol[s] \/ sol'[s].estado # "PENDIENTE"
  <2>1. Pendientes(m[1], m[2])' \subseteq Pendientes(m[1], m[2])
    BY <1>1 DEF Pendientes
  <2>2. ASSUME pc[p] = "tok_cancelar", m = <<ent[p].org, ent[p].quien>>
        PROVE  Pendientes(m[1], m[2])' = {}
    <3>1. \A s \in Pendientes(m[1], m[2]) : Cierra(s)
      BY <2>2, SolEfecto DEF Nueva, Resuelta
    <3>2. \A s \in Pendientes(m[1], m[2]) : s \in Solicitud /\ sol'[s].estado # "PENDIENTE"
      BY <3>1, NoPendiente DEF Pendientes
    <3>3. QED
      BY <2>1, <3>2 DEF Pendientes
  <2>3. QED
    BY <2>1, <2>2
<1>2. ASSUME NEW n \in Solicitud, Nueva(p, n), \A s \in Solicitud : s # n => sol'[s] = sol[s]
      PROVE  /\ \/ Pendientes(m[1], m[2])' \subseteq Pendientes(m[1], m[2])
                \/ /\ p \in Creando(m)
                   /\ Pendientes(m[1], m[2])' \subseteq Pendientes(m[1], m[2]) \cup {n}
             /\ pc[p] # "tok_cancelar"
  <2>1. Pendientes(m[1], m[2])' \subseteq Pendientes(m[1], m[2]) \cup {n}
    BY <1>2 DEF Pendientes
  <2>2. n \in Pendientes(m[1], m[2])' => p \in Creando(m)
    <3>1. n \in Pendientes(m[1], m[2])' => sol'[n].org = m[1] /\ sol'[n].quien = m[2]
      BY DEF Pendientes
    <3>2. m[1] # SinOrg /\ m = <<m[1], m[2]>>
      BY ConstantesOK
    <3>3. QED
      BY <1>2, <3>1, <3>2 DEF Nueva, Creando
  <2>3. QED
    BY <1>2, <2>1, <2>2 DEF Nueva
<1>3. QED
  BY <1>1, <1>2, NoPendiente, SolEfecto

\* Who is about to create a token after a step of p.
LEMMA CreandoEfecto ==
  ASSUME TypeOK, NEW p \in Peticion, Manejador(p), NEW m \in Organizacion \X Usuario
  PROVE  /\ Creando(m)' \subseteq Creando(m) \cup {p}
         /\ p \notin Creando(m) \/ p \notin Creando(m)'
         /\ p \in Creando(m)' => /\ pc[p] = "tok_cancelar"
                                 /\ m = <<ent[p].org, ent[p].quien>>
<1>1. Aparte(p)
  BY AparteEfecto
<1>2. pc'[p] = "tok_crear" => pc[p] = "tok_cancelar"
  BY PasoEfecto
<1>3. QED
  BY <1>1, <1>2 DEF Aparte, Creando

LEMMA CrucesInductiva ==
  ASSUME TypeOK, TypeOK', Cruces, [Next]_vars
  PROVE  Cruces'
<1>1. SUFFICES ASSUME NEW m \in Organizacion \X Usuario, m \notin cruce'
               PROVE  SinCruce(m)'
  BY DEF Cruces
<1>2. ASSUME UNCHANGED cruce, Creando(m)' \subseteq Creando(m),
             Pendientes(m[1], m[2])' \subseteq Pendientes(m[1], m[2])
      PROVE  SinCruce(m)'
  <2>1. SinCruce(m)
    BY <1>1, <1>2 DEF Cruces
  <2>2. QED
    BY <1>2, <2>1 DEF SinCruce
<1>3. ASSUME NEW p \in Peticion, LlegaAlguna(p)  PROVE SinCruce(m)'
  <2>1. PICK e \in Entrada : Llega(p, e)
    BY <1>3, LlegaReal
  <2>2. /\ UNCHANGED <<sol, cruce>>
        /\ pc'[p] # "tok_crear"
        /\ \A q \in Peticion : q # p => pc'[q] = pc[q] /\ ent'[q] = ent[q]
    BY <2>1, LlegaEfecto, PrimerPasoDe
  <2>3. Creando(m)' \subseteq Creando(m)
    BY <2>2 DEF Creando
  <2>4. Pendientes(m[1], m[2])' = Pendientes(m[1], m[2])
    BY <2>2 DEF Pendientes
  <2>5. QED
    BY <1>2, <2>2, <2>3, <2>4
<1>4. ASSUME NEW p \in Peticion, Manejador(p)  PROVE SinCruce(m)'
  <2>1. m \notin cruce /\ SinCruce(m)
    BY <1>1, <1>4, CruceEfecto DEF Cruces
  <2>2. \A q, r \in Creando(m)' : q = r
    <3>1. CASE p \in Creando(m)'
      <4>1. cruce' = cruce \cup {k \in Organizacion \X Usuario :
                                   \E q, r \in Creando(k)' : q # r}
        BY <1>4, <3>1, CreandoEfecto, CruceEfecto
      <4>2. QED
        BY <1>1, <4>1
    <3>2. CASE p \notin Creando(m)'
      BY <1>4, <2>1, <3>2, CreandoEfecto DEF SinCruce
    <3>3. QED
      BY <3>1, <3>2
  <2>3. ASSUME NEW q \in Creando(m)'  PROVE Pendientes(m[1], m[2])' = {}
    <3>1. CASE q = p
      BY <1>4, <2>3, <3>1, CreandoEfecto, PendientesEfecto
    <3>2. CASE q # p
      <4>1. q \in Creando(m)
        BY <1>4, <2>3, <3>2, CreandoEfecto
      <4>2. p \notin Creando(m) /\ Pendientes(m[1], m[2]) = {}
        BY <2>1, <3>2, <4>1 DEF SinCruce
      <4>3. QED
        BY <1>4, <4>2, PendientesEfecto
    <3>3. QED
      BY <3>1, <3>2
  <2>4. \A s, t \in Pendientes(m[1], m[2])' : s = t
    <3>1. CASE p \in Creando(m)
      <4>1. Pendientes(m[1], m[2]) = {}
        BY <2>1, <3>1 DEF SinCruce
      <4>2. QED
        BY <1>4, <4>1, PendientesEfecto
    <3>2. CASE p \notin Creando(m)
      BY <1>4, <2>1, <3>2, PendientesEfecto DEF SinCruce
    <3>3. QED
      BY <3>1, <3>2
  <2>5. QED
    BY <2>2, <2>3, <2>4 DEF SinCruce
<1>5. CASE (\E p \in Peticion : Falla(p)) \/ (\E s \in Solicitud : Vence(s)) \/ Caida
             \/ UNCHANGED vars
  <2>1. /\ UNCHANGED <<ent, cruce>>
        /\ \A q \in Peticion : pc'[q] = pc[q] \/ pc'[q] \in {"fallo", "caida"}
    BY <1>5, AjenosEfecto
  <2>2. \A s \in Solicitud : /\ sol'[s].estado = sol[s].estado
                             /\ sol'[s].org = sol[s].org /\ sol'[s].quien = sol[s].quien
    <3>1. CASE UNCHANGED sol
      BY <3>1
    <3>2. ASSUME NEW s \in Solicitud, Vence(s)
          PROVE  \A t \in Solicitud : /\ sol'[t].estado = sol[t].estado
                                      /\ sol'[t].org = sol[t].org /\ sol'[t].quien = sol[t].quien
      <4>1. /\ sol'[s] = [sol[s] EXCEPT !.vencida = TRUE] /\ sol[s] \in FilaSolicitud
            /\ \A t \in Solicitud : t # s => sol'[t] = sol[t]
        BY <3>2 DEF Vence, TypeOK
      <4>2. /\ sol'[s].estado = sol[s].estado /\ sol'[s].org = sol[s].org
            /\ sol'[s].quien = sol[s].quien
        BY <4>1, FilaTipo
      <4>3. QED
        BY <4>1, <4>2
    <3>3. QED
      BY <1>5, <3>1, <3>2 DEF Falla, Caida, vars, tablas
  <2>3. Pendientes(m[1], m[2])' = Pendientes(m[1], m[2])
    BY <2>2 DEF Pendientes
  <2>4. Creando(m)' \subseteq Creando(m)
    BY <2>1 DEF Creando
  <2>5. QED
    BY <1>2, <2>1, <2>3, <2>4
<1>6. QED
  BY <1>3, <1>4, <1>5 DEF Next, Descansa

-----------------------------------------------------------------------------
LEMMA InvInicial == Init => IInv
<1> SUFFICES ASSUME Init  PROVE IInv
  OBVIOUS
<1>1. TypeOK
  BY TipoInicial
<1>2. \A p \in Peticion : pc[p] = "libre"
  BY DEF Init
<1>3. PasoPropio /\ Leidas
  BY <1>2 DEF PasoPropio, Leidas
<1>4. Cruces
  <2>1. ASSUME NEW m \in Organizacion \X Usuario,
               NEW s \in Pendientes(m[1], m[2]), NEW t \in Pendientes(m[1], m[2])
        PROVE  s = t
    <3>1. /\ s \in Solicitud /\ t \in Solicitud /\ m[1] \in Organizacion
          /\ \A x \in {s, t} : /\ SolicitudesPrevias[x].estado = "PENDIENTE"
                               /\ SolicitudesPrevias[x].org = m[1]
                               /\ SolicitudesPrevias[x].quien = m[2]
      BY <2>1 DEF Init, Pendientes
    <3>2. QED
      BY <3>1, PreviasOK
  <2>2. \A m : Creando(m) = {}
    BY <1>2 DEF Creando
  <2>3. QED
    BY <2>1, <2>2 DEF Cruces, SinCruce
<1>5. MiembroConOrigen
  <2>1. \A m \in Organizacion \X Usuario : miembro[m].rol = RolPrevio[m]
    BY DEF Init
  <2>2. QED
    BY <2>1 DEF MiembroConOrigen
<1>6. AprobadaConFila
  <2>1. ASSUME NEW s \in Solicitud, sol[s].estado = "APROBADA"
        PROVE  /\ sol[s].org \in Organizacion
               /\ miembro[<<sol[s].org, sol[s].quien>>].rol # "ninguno"
    <3>1. sol[s] = SolicitudesPrevias[s] /\ sol[s].quien \in Usuario
      BY <1>1 DEF Init, TypeOK, FilaSolicitud
    <3>2. /\ sol[s].org \in Organizacion
          /\ RolPrevio[<<sol[s].org, sol[s].quien>>] # "ninguno"
      BY <2>1, <3>1, PreviasOK
    <3>3. QED
      BY <3>1, <3>2 DEF Init
  <2>2. QED
    BY <2>1 DEF AprobadaConFila
<1>7. QED
  BY <1>1, <1>3, <1>4, <1>5, <1>6 DEF IInv

LEMMA InvInductivo == IInv /\ [Next]_vars => IInv'
<1> SUFFICES ASSUME IInv, [Next]_vars  PROVE IInv'
  OBVIOUS
<1>1. TypeOK'
  BY TipoInductivo DEF IInv
<1>2. QED
  BY <1>1, PasoPropioInductivo, LeidasInductiva, CrucesInductiva, MiembroInductivo,
     AprobadaInductiva DEF IInv

LEMMA Invariante == Spec => []IInv
  BY InvInicial, InvInductivo, PTL DEF Spec

\* An active member has a role it had, one that was approved to it, or one
\* that an administrator gave it, whatever the requests interleave with.
THEOREM MiembroConOrigenSiempre == Spec => []MiembroConOrigen
<1>1. IInv => MiembroConOrigen
  BY DEF IInv
<1>2. QED
  BY <1>1, Invariante, PTL

\* An approved solicitud brought its author in, wherever the process stopped.
THEOREM AprobadaConFilaSiempre == Spec => []AprobadaConFila
<1>1. IInv => AprobadaConFila
  BY DEF IInv
<1>2. QED
  BY <1>1, Invariante, PTL

\* A set whose elements are all the same has one at most.
LEMMA UnoSolo ==
  ASSUME NEW S, \A s, t \in S : s = t
  PROVE  Cardinality(S) \in {0, 1}
<1>1. CASE S = {}
  BY <1>1, FS_EmptySet
<1>2. CASE S # {}
  <2>1. PICK x \in S : S = {x}
    BY <1>2
  <2>2. Cardinality({x}) = 1
    BY FS_Singleton
  <2>3. QED
    BY <2>1, <2>2
<1>3. QED
  BY <1>1, <1>2

\* Nobody has two pending solicitudes for an organization but where two tokens
\* crossed, whatever else interleaves, fails or stops.
THEOREM UnaPendienteSiempre == Spec => []UnaPendiente
<1>1. IInv => UnaPendiente
  <2> SUFFICES ASSUME IInv, NEW m \in Organizacion \X Usuario, m \notin cruce
               PROVE  ~(Cardinality(Pendientes(m[1], m[2])) > 1)
    BY DEF UnaPendiente
  <2>1. \A s, t \in Pendientes(m[1], m[2]) : s = t
    BY DEF IInv, Cruces, SinCruce
  <2>2. Cardinality(Pendientes(m[1], m[2])) \in {0, 1}
    BY <2>1, UnoSolo
  <2>3. QED
    BY <2>2
<1>2. QED
  BY <1>1, Invariante, PTL

\* A solicitud that is over changes only by the answer of a request that has
\* read it before.
THEOREM EstadoFinalSiempre == Spec => EstadoFinal
<1> DEFINE Tardia(p, s) == /\ ent[p].tipo = "resolver" /\ ent[p].sol = s
                           /\ leida[p].estado = "PENDIENTE"
                           /\ EnCurso(p) /\ pc'[p] = "fin"
                           /\ sol'[s] = [sol[s] EXCEPT !.estado = ent[p].decision]
<1>1. IInv /\ [Next]_vars =>
         [\A s \in Solicitud : sol[s].estado \in Finales /\ sol'[s] # sol[s] =>
             \E p \in Peticion : Tardia(p, s)]_vars
  <2> SUFFICES ASSUME IInv, [Next]_vars, NEW s \in Solicitud,
                      sol[s].estado \in Finales, sol'[s] # sol[s]
               PROVE  \E p \in Peticion : Tardia(p, s)
    OBVIOUS
  <2>1. TypeOK /\ Leidas /\ PasoPropio
    BY DEF IInv
  <2>2. ASSUME NEW p \in Peticion, Manejador(p)  PROVE Tardia(p, s)
    <3>1. ~Cierra(s) /\ ~Nueva(p, s)
      BY DEF Cierra, Nueva, Finales
    <3>2. Resuelta(p, s)
      BY <2>1, <2>2, <3>1, SolEfecto
    <3>3. pc'[p] = "fin"
      BY <2>1, <2>2, <3>2, ResolverPaso DEF Resuelta
    <3>4. QED
      BY <2>1, <3>2, <3>3 DEF Resuelta, Leidas, PasoPropio, EnCurso, PasoDe
  <2>3. ASSUME NEW t \in Solicitud, Vence(t)  PROVE FALSE
    <3>1. t # s
      BY <2>3 DEF Vence, Finales
    <3>2. QED
      BY <2>1, <2>3, <3>1 DEF Vence, TypeOK
  <2>4. ASSUME NEW p \in Peticion, LlegaAlguna(p)  PROVE FALSE
    BY <2>4, LlegaReal DEF Llega, tablas
  <2>5. QED
    BY <2>2, <2>3, <2>4 DEF Next, Falla, Caida, Descansa, vars, tablas
<1>2. QED
  BY <1>1, Invariante, PTL DEF Spec, EstadoFinal
=============================================================================
