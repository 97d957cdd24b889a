------------------------------ MODULE QueueClient ------------------------------
(***************************************************************************)
(* The publisher of events, QueueClientAdapter: one AMQP channel, opened   *)
(* when the process starts, over which publish asserts the exchange, waits *)
(* for the answer and writes the message.                                  *)
(*                                                                         *)
(* Nobody awaits publish (facturaManager.useCase.ts:103, 441 and 641), so  *)
(* a publication that rejects is an unhandled rejection, which ends the    *)
(* Node process; docker-compose restarts it.  A channel that filled up     *)
(* (ok = false) has taken the message all the same.                        *)
(***************************************************************************)
EXTENDS Naturals, Sequences

CONSTANTS
    Mensaje,        \* the notifications the use cases hand over, each once
    MaxArranques,   \* bound: how often the process starts
    MaxFallos       \* bound: how often the channel or the connection is lost

ASSUME ConstantesOK == MaxArranques \in Nat \ {0} /\ MaxFallos \in Nat

VARIABLES
    proceso,    \* the Node process
    canal,      \* amqpChannel: undefined, open, or still set but closed
    cola,       \* the messages that wait for the answer to assertExchange
    escritos,   \* written to the channel, not yet received by the broker
    broker,     \* received by the broker
    destino,    \* what became of each publication
    arranques, fallos

vars == <<proceso, canal, cola, escritos, broker, destino, arranques, fallos>>

Destino == {"sin publicar", "espera", "escrito", "saltado", "rechazado"}

TypeOK ==
    /\ proceso \in {"arriba", "abajo"}
    /\ canal \in {"ninguno", "abierto", "cerrado"}
    /\ cola \in Seq(Mensaje) /\ escritos \in Seq(Mensaje)
    /\ broker \in Seq(Mensaje)
    /\ destino \in [Mensaje -> Destino]
    /\ arranques \in 1..MaxArranques /\ fallos \in 0..MaxFallos

\* onModuleInit: initAmqp swallows its error, and goes on without a channel.
Init ==
    /\ proceso = "arriba"
    /\ canal \in {"abierto", "ninguno"}
    /\ cola = <<>> /\ escritos = <<>> /\ broker = <<>>
    /\ destino = [m \in Mensaje |-> "sin publicar"]
    /\ arranques = 1 /\ fallos = 0

-----------------------------------------------------------------------------
Elementos(s) == {s[i] : i \in DOMAIN s}

\* The publications of M reject, and with the first of them the process ends:
\* what waited or was written and not received goes with it.
Rechaza(M) ==
    /\ destino' = [m \in Mensaje |-> IF m \in M THEN "rechazado" ELSE destino[m]]
    /\ proceso' = "abajo" /\ canal' = "ninguno"
    /\ cola' = <<>> /\ escritos' = <<>>

\* publish up to its await.
Publicar(m) ==
    /\ proceso = "arriba" /\ destino[m] = "sin publicar"
    /\ \/ /\ canal = "ninguno"
          /\ destino' = [destino EXCEPT ![m] = "saltado"]
          /\ UNCHANGED <<proceso, canal, cola, escritos>>
       \/ /\ canal = "abierto"
          /\ destino' = [destino EXCEPT ![m] = "espera"]
          /\ cola' = Append(cola, m)
          /\ UNCHANGED <<proceso, canal, escritos>>
       \/ canal = "cerrado" /\ Rechaza({m})
    /\ UNCHANGED <<broker, arranques, fallos>>

\* Mutant of Contestado: the answers come in any order, as they do when each
\* publication has a channel of its own.
ContestadoCualquiera(i) == i \in DOMAIN cola

\* The broker answers the requests of a channel one by one: the i-th
\* publication that waits is answered when it is the first.
Contestado(i) == i = 1

\* Mutant of Escribe: a channel that filled up is taken for a refusal.
EscribeSiCabe(m) == IF escritos = <<>> THEN <<m>> ELSE escritos

\* Mutant of Escribe: a packet within a packet.
EscribePaquete(m) == Append(escritos, <<m>>)

Escribe(m) == Append(escritos, m)

\* publish after its await.
Confirmar ==
    /\ canal = "abierto"
    /\ \E i \in DOMAIN cola :
         /\ Contestado(i)
         /\ cola' = SubSeq(cola, 1, i - 1) \o SubSeq(cola, i + 1, Len(cola))
         /\ escritos' = Escribe(cola[i])
         /\ destino' = [destino EXCEPT ![cola[i]] = "escrito"]
    /\ UNCHANGED <<proceso, canal, broker, arranques, fallos>>

-----------------------------------------------------------------------------
(***************************************************************************)
(* The broker and the connection.                                          *)
(***************************************************************************)
Recibir ==
    /\ escritos # <<>>
    /\ broker' = Append(broker, Head(escritos)) /\ escritos' = Tail(escritos)
    /\ UNCHANGED <<proceso, canal, cola, destino, arranques, fallos>>

\* The channel is lost, with what was on its way: without a trace in the
\* adapter ("cerrado"), or with the 'error' of the connection, which clears
\* amqpChannel for good.  Publications that wait for an answer reject.
Perder(estado) ==
    /\ proceso = "arriba" /\ fallos < MaxFallos
    /\ canal = "abierto" \/ (canal = "cerrado" /\ estado = "ninguno")
    /\ fallos' = fallos + 1
    /\ \/ cola # <<>> /\ Rechaza(Elementos(cola))
       \/ /\ cola = <<>> /\ canal' = estado /\ escritos' = <<>>
          /\ UNCHANGED <<proceso, cola, destino>>
    /\ UNCHANGED <<broker, arranques>>

\* The container starts again (restart: always).
Arrancar ==
    /\ proceso = "abajo" /\ arranques < MaxArranques
    /\ proceso' = "arriba"
    /\ canal' \in {"abierto", "ninguno"}
    /\ arranques' = arranques + 1
    /\ UNCHANGED <<cola, escritos, broker, destino, fallos>>

\* Nothing is left to publish, to receive or to start.
Descansa ==
    /\ cola = <<>> /\ escritos = <<>>
    /\ \/ \A m \in Mensaje : destino[m] # "sin publicar"
       \/ proceso = "abajo" /\ arranques = MaxArranques
    /\ UNCHANGED vars

Next ==
    \/ \E m \in Mensaje : Publicar(m)
    \/ Confirmar \/ Recibir
    \/ Perder("cerrado") \/ Perder("ninguno")
    \/ Arrancar
    \/ Descansa

Spec == Init /\ [][Next]_vars

\* An open channel answers and delivers.
FairSpec == Spec /\ WF_vars(Confirmar) /\ WF_vars(Recibir)

-----------------------------------------------------------------------------
(***************************************************************************)
(* What it promises.                                                       *)
(***************************************************************************)

\* A publication that found an open channel reaches the broker, whatever was
\* lost before it, unless that channel is lost under it.
PublicadoLlega ==
    \A m \in Mensaje :
       destino[m] = "espera" ~> (m \in Elementos(broker) \/ canal # "abierto")

\* The adapter is a first-in first-out road: what waits for its answer and what
\* was written and not received are on it, and awaiting an answer, writing and
\* starting again move nothing (queue-client.adapter.ts:44-77).
Abstracta == INSTANCE ColaAbstracta
                WITH camino <- escritos \o cola, entregado <- broker

ImplementaCola == Abstracta!FairSpec
=============================================================================
