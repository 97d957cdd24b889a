--------------------------- MODULE ContextoAuditoria ---------------------------
(***************************************************************************)
(* runWithAuditContext: a block of statements in a transaction that names  *)
(* its user to the triggers of the database, on a connection of the pool,  *)
(* beside the statements that run on a connection of the pool by           *)
(* themselves.                                                             *)
(*                                                                         *)
(* A statement is answered, rejected by the server, or not answered in     *)
(* query_timeout: then the server runs it all the same unless it was still *)
(* in the queue of the client.  The pool does not clean what comes back.   *)
(***************************************************************************)
EXTENDS Naturals, FiniteSets

CONSTANTS
    Conexion,     \* the connections that the pool may have
    Usuario,
    Peticion,     \* the calls that need the database, numbered as they come
    Quienes,      \* bound: for whom each call may come
    MaxFallos     \* bound: the rejections, silences, losses and crashes

\* The caller has no uuid to give, and no connection.
Nulo == "null"
Ninguna == "ninguna"

ASSUME ConstantesOK ==
    /\ Conexion # {} /\ Peticion \subseteq Nat /\ MaxFallos \in Nat
    /\ Quienes \in [Peticion -> SUBSET (Usuario \cup {Nulo})]
    /\ Nulo \notin Usuario /\ Ninguna \notin Conexion

VARIABLES
    sesion,      \* of each connection, at the server
    toma,        \* the connection that the query runner of a call holds
    pc, tipo, usuario,
    bitacora,    \* what is committed: the call that wrote it, and app.user_uuid
    sinSaber,    \* history: its COMMIT or its ROLLBACK was not answered
    heredada,    \* history: it ran in the transaction of another call
    fallos

externo == <<bitacora, sesion>>
vars == <<sesion, toma, pc, tipo, usuario, bitacora, sinSaber, heredada, fallos>>

Contexto == Usuario \cup {Nulo}
Escrito == [de: Peticion, ctx: Contexto]

Sesion == [abierta: BOOLEAN, abortada: BOOLEAN, ctx: Contexto, escritos: SUBSET Escrito]

PasoDe == {"conectar", "comenzar", "fijar", "operar", "confirmar",
           "revertir", "liberar_ok", "liberar_error", "sola"}

TypeOK ==
    /\ sesion \in [Conexion -> Sesion]
    /\ toma \in [Peticion -> Conexion \cup {Ninguna}]
    /\ pc \in [Peticion -> PasoDe \cup {"libre", "fin", "fallo", "colgada", "caida"}]
    /\ tipo \in [Peticion -> {"bloque", "sola"}]
    /\ usuario \in [Peticion -> Contexto]
    /\ bitacora \subseteq Escrito
    /\ sinSaber \in [Peticion -> BOOLEAN]
    /\ heredada \in [Peticion -> BOOLEAN]
    /\ fallos \in 0..MaxFallos

-----------------------------------------------------------------------------
(***************************************************************************)
(* The server.                                                             *)
(***************************************************************************)
Limpia == [abierta |-> FALSE, abortada |-> FALSE, ctx |-> Nulo, escritos |-> {}]

\* START TRANSACTION in a transaction is a warning, and changes nothing.
Abrir(s) == [s EXCEPT !.abierta = TRUE]

\* Mutant of ConContexto: app.user_uuid gets the uuid of the correlation.
ConCorrelacion(s, u) == IF s.abierta THEN [s EXCEPT !.ctx = "correlacion"] ELSE s

\* set_config(..., true): for the transaction.
ConContexto(s, u) == IF s.abierta THEN [s EXCEPT !.ctx = u] ELSE s

ConEscrito(s, p) == [s EXCEPT !.escritos = @ \cup {[de |-> p, ctx |-> s.ctx]}]

Abortar(s) == IF s.abierta THEN [s EXCEPT !.abortada = TRUE] ELSE s

\* Mutant of Terminada: set_config(..., false), for the session.
TerminadaConContexto(s) == [Limpia EXCEPT !.ctx = s.ctx]

\* After COMMIT, and after ROLLBACK.
Terminada(s) == Limpia

-----------------------------------------------------------------------------
Init ==
    /\ sesion = [c \in Conexion |-> Limpia]
    /\ toma = [p \in Peticion |-> Ninguna]
    /\ pc = [p \in Peticion |-> "libre"]
    /\ tipo = [p \in Peticion |-> "bloque"]
    /\ usuario = [p \in Peticion |-> Nulo]
    /\ bitacora = {}
    /\ sinSaber = [p \in Peticion |-> FALSE]
    /\ heredada = [p \in Peticion |-> FALSE]
    /\ fallos = 0

EnCurso(p) == pc[p] \in PasoDe

Ir(p, paso) == pc' = [pc EXCEPT ![p] = paso]

Libre(c) == \A p \in Peticion : toma[p] # c

Fallo == fallos < MaxFallos /\ fallos' = fallos + 1

\* A connection that was lost took its query runner with it: any statement
\* of it throws at once.
Perdida(p) == toma[p] = Ninguna

Entrada == <<tipo, usuario>>

\* dataSource.query, or runWithAuditContext with the uuid of the caller.
Llega(p) ==
    /\ pc[p] = "libre" /\ Ir(p, "conectar")
    /\ \A q \in Peticion : q < p => pc[q] # "libre"
    /\ \E t \in {"bloque", "sola"}, u \in Quienes[p] :
         /\ t = "sola" => u = Nulo
         /\ tipo' = [tipo EXCEPT ![p] = t]
         /\ usuario' = [usuario EXCEPT ![p] = u]
    /\ UNCHANGED <<externo, toma, sinSaber, heredada, fallos>>

\* Mutant of SinConexion: the call goes on asking for one.
SinConexionEspera(p) == UNCHANGED <<pc, toma>>

\* After connectionTimeoutMillis the call fails.
SinConexion(p) == Ir(p, "fallo") /\ UNCHANGED toma

\* createQueryRunner and connect, outside the try.
Conectar(p) ==
    /\ pc[p] = "conectar"
    /\ \/ \E c \in Conexion :
            /\ Libre(c)
            /\ toma' = [toma EXCEPT ![p] = c]
            /\ Ir(p, IF tipo[p] = "sola" THEN "sola" ELSE "comenzar")
       \/ (\A c \in Conexion : ~Libre(c)) /\ SinConexion(p)
    /\ UNCHANGED <<externo, Entrada, sinSaber, heredada, fallos>>

\* startTransaction, also outside the try: the query runner of a call that
\* fails here is never released.
Comenzar(p) ==
    /\ pc[p] = "comenzar" /\ ~Perdida(p)
    /\ LET c == toma[p] IN
       /\ heredada' = [heredada EXCEPT ![p] = sesion[c].abierta]
       /\ \/ /\ ~sesion[c].abortada
             /\ sesion' = [sesion EXCEPT ![c] = Abrir(sesion[c])]
             /\ Ir(p, "fijar") /\ UNCHANGED fallos
          \/ /\ ~sesion[c].abortada
             /\ sesion' = [sesion EXCEPT ![c] = Abrir(sesion[c])]
             /\ Ir(p, "colgada") /\ Fallo
          \/ /\ sesion[c].abortada
             /\ Ir(p, "colgada") /\ UNCHANGED <<sesion, fallos>>
    /\ UNCHANGED <<bitacora, toma, Entrada, sinSaber>>

\* The set_config, when the caller gave its uuid.
Fijar(p) ==
    /\ pc[p] = "fijar" /\ ~Perdida(p)
    /\ LET c == toma[p] IN
       \/ /\ usuario[p] # Nulo
          /\ sesion' = [sesion EXCEPT ![c] = ConContexto(sesion[c], usuario[p])]
          /\ Ir(p, "operar") /\ UNCHANGED fallos
       \/ /\ usuario[p] # Nulo /\ Fallo
          /\ sesion' = [sesion EXCEPT ![c] = ConContexto(sesion[c], usuario[p])]
          /\ Ir(p, "revertir")
       \/ /\ usuario[p] = Nulo
          /\ Ir(p, "operar") /\ UNCHANGED <<sesion, fallos>>
    /\ UNCHANGED <<bitacora, toma, Entrada, sinSaber, heredada>>

\* The operation: answered, rejected, or done without an answer.
Operar(p) ==
    /\ pc[p] = "operar" /\ ~Perdida(p)
    /\ LET c == toma[p] IN
       \/ /\ sesion' = [sesion EXCEPT ![c] = ConEscrito(sesion[c], p)]
          /\ Ir(p, "confirmar") /\ UNCHANGED fallos
       \/ /\ sesion' = [sesion EXCEPT ![c] = ConEscrito(sesion[c], p)]
          /\ Ir(p, "revertir") /\ Fallo
       \/ /\ sesion' = [sesion EXCEPT ![c] = Abortar(sesion[c])]
          /\ Ir(p, "revertir") /\ Fallo
    /\ UNCHANGED <<bitacora, toma, Entrada, sinSaber, heredada>>

\* commitTransaction: answered, rejected, or done without an answer.
Confirmar(p) ==
    /\ pc[p] = "confirmar" /\ ~Perdida(p)
    /\ LET c == toma[p] IN
       /\ sesion' = [sesion EXCEPT ![c] = Terminada(sesion[c])]
       /\ \/ /\ bitacora' = bitacora \cup sesion[c].escritos
             /\ Ir(p, "liberar_ok") /\ UNCHANGED <<sinSaber, fallos>>
          \/ /\ bitacora' = bitacora \cup sesion[c].escritos
             /\ sinSaber' = [sinSaber EXCEPT ![p] = TRUE]
             /\ Ir(p, "revertir") /\ Fallo
          \/ /\ Ir(p, "revertir") /\ Fallo
             /\ UNCHANGED <<bitacora, sinSaber>>
    /\ UNCHANGED <<toma, Entrada, heredada>>

\* Mutant of Deshecha: the catch leaves the transaction to the release.
SinDeshacer(s) == s

\* ROLLBACK.
Deshecha(s) == Terminada(s)

\* rollbackTransaction, in the catch: a ROLLBACK that waits behind a statement
\* of the server for too long is taken out of the queue and never sent.
Revertir(p) ==
    /\ pc[p] = "revertir" /\ ~Perdida(p)
    /\ Ir(p, "liberar_error")
    /\ \/ /\ sesion' = [sesion EXCEPT ![toma[p]] = Deshecha(sesion[toma[p]])]
          /\ UNCHANGED <<sinSaber, fallos>>
       \/ /\ sinSaber' = [sinSaber EXCEPT ![p] = TRUE]
          /\ Fallo /\ UNCHANGED sesion
    /\ UNCHANGED <<bitacora, toma, Entrada, heredada>>

\* A statement of a lost connection: to the catch, and from it to the finally.
Lanza(p) ==
    /\ Perdida(p)
    /\ \/ pc[p] \in {"comenzar", "sola"} /\ Ir(p, "fallo")
       \/ pc[p] \in {"fijar", "operar", "confirmar"} /\ Ir(p, "revertir")
       \/ pc[p] = "revertir" /\ Ir(p, "liberar_error")
    /\ UNCHANGED <<externo, toma, Entrada, sinSaber, heredada, fallos>>

\* Mutant of TrasLiberar: only what went well is released.
TrasLiberarBien(p) == IF pc[p] = "liberar_ok" THEN Ninguna ELSE toma[p]

TrasLiberar(p) == Ninguna

\* release, in the finally: the connection goes back as it is.
Liberar(p) ==
    /\ pc[p] \in {"liberar_ok", "liberar_error"}
    /\ toma' = [toma EXCEPT ![p] = TrasLiberar(p)]
    /\ Ir(p, IF pc[p] = "liberar_ok" THEN "fin" ELSE "fallo")
    /\ UNCHANGED <<externo, Entrada, sinSaber, heredada, fallos>>

\* dataSource.query: on a connection that came back in a transaction, the
\* statement is part of that transaction.
Sola(p) ==
    /\ pc[p] = "sola" /\ ~Perdida(p)
    /\ LET c == toma[p]
           hecha == IF sesion[c].abierta
                    THEN /\ sesion' = [sesion EXCEPT ![c] = ConEscrito(sesion[c], p)]
                         /\ UNCHANGED bitacora
                    ELSE /\ bitacora' = bitacora \cup {[de |-> p, ctx |-> sesion[c].ctx]}
                         /\ UNCHANGED sesion
       IN
       /\ heredada' = [heredada EXCEPT ![p] = sesion[c].abierta]
       /\ \/ ~sesion[c].abortada /\ hecha /\ Ir(p, "liberar_ok")
             /\ UNCHANGED <<sinSaber, fallos>>
          \/ ~sesion[c].abortada /\ hecha /\ Ir(p, "liberar_error") /\ Fallo
             /\ sinSaber' = [sinSaber EXCEPT ![p] = TRUE]
          \/ /\ Ir(p, "liberar_error")
             /\ sesion[c].abortada \/ fallos < MaxFallos
             /\ fallos' = IF sesion[c].abortada THEN fallos ELSE fallos + 1
             /\ sesion' = [sesion EXCEPT ![c] = Abortar(sesion[c])]
             /\ UNCHANGED <<bitacora, sinSaber>>
    /\ UNCHANGED <<toma, Entrada>>

-----------------------------------------------------------------------------
\* The connection is lost: the server undoes what was open, TypeORM releases
\* the query runner that had it, and the pool opens another when it needs it.
Cae(c) ==
    /\ Fallo
    /\ \E p \in Peticion : toma[p] = c
    /\ sesion' = [sesion EXCEPT ![c] = Limpia]
    /\ toma' = [p \in Peticion |-> IF toma[p] = c THEN Ninguna ELSE toma[p]]
    /\ UNCHANGED <<bitacora, pc, Entrada, sinSaber, heredada>>

\* The process stops, and with it every connection.
Caida ==
    /\ Fallo /\ \E p \in Peticion : EnCurso(p)
    /\ sesion' = [c \in Conexion |-> Limpia]
    /\ toma' = [p \in Peticion |-> Ninguna]
    /\ pc' = [p \in Peticion |-> IF EnCurso(p) THEN "caida" ELSE pc[p]]
    /\ UNCHANGED <<bitacora, Entrada, sinSaber, heredada>>

Manejador(p) ==
    \/ Conectar(p) \/ Comenzar(p) \/ Fijar(p) \/ Operar(p) \/ Confirmar(p)
    \/ Revertir(p) \/ Lanza(p) \/ Liberar(p) \/ Sola(p)

\* No more calls will come.
Descansa == (\A p \in Peticion : ~EnCurso(p)) /\ UNCHANGED vars

Next ==
    \/ \E p \in Peticion : Llega(p) \/ Manejador(p)
    \/ \E c \in Conexion : Cae(c)
    \/ Caida
    \/ Descansa

Spec == Init /\ [][Next]_vars

\* The driver settles every promise, at the latest with its timeouts.
FairSpec == Spec /\ \A p \in Peticion : WF_vars(Manejador(p))

-----------------------------------------------------------------------------
(***************************************************************************)
(* What it promises.                                                       *)
(***************************************************************************)

\* What is committed carries the user of the call that wrote it, however the
\* calls share the connections.  Only a call that gave none may carry that of
\* another, and only if a connection came back with its transaction open.
ContextoPropio ==
    \A e \in bitacora : \/ e.ctx = usuario[e.de]
                        \/ usuario[e.de] = Nulo /\ heredada[e.de]

\* A block that was answered is committed.  A call that threw left nothing,
\* unless its COMMIT or its ROLLBACK (or its one statement) was not answered.
ResultadoFiel ==
    \A p \in Peticion :
       LET hecho == \E e \in bitacora : e.de = p IN
       /\ pc[p] = "fin" /\ ~hecho => tipo[p] = "sola" /\ heredada[p]
       /\ pc[p] \in {"fallo", "colgada"} /\ hecho => sinSaber[p]

\* The pool loses a connection only to a call whose START TRANSACTION failed,
\* and never more of them than there were failures.
PoolEntero ==
    /\ \A p \in Peticion : toma[p] # Ninguna => EnCurso(p) \/ pc[p] = "colgada"
    /\ Cardinality({p \in Peticion : pc[p] = "colgada"}) <= fallos

\* Every call ends, even when no connection is left.
TodaTermina == \A p \in Peticion : EnCurso(p) ~> ~EnCurso(p)
=============================================================================
