----------------------------- MODULE ColaAbstracta -----------------------------
(***************************************************************************)
(* What the publisher of events promises: a first-in first-out road from   *)
(* the use cases to the broker.  A message enters it once; an accident     *)
(* loses everything that is on the road, never a part of it; and what      *)
(* stays on the road arrives.                                              *)
(***************************************************************************)
EXTENDS Sequences

CONSTANT Mensaje

VARIABLES
    camino,      \* the messages on the road, the oldest first
    entregado    \* the messages that arrived, in order of arrival

vars == <<camino, entregado>>

Nueva(m) == /\ \A i \in DOMAIN camino : camino[i] # m
            /\ \A i \in DOMAIN entregado : entregado[i] # m

Init == camino = <<>> /\ entregado = <<>>

Sale(m) == /\ Nueva(m)
           /\ camino' = Append(camino, m)
           /\ UNCHANGED entregado

Entrega == /\ camino # <<>>
           /\ entregado' = Append(entregado, Head(camino))
           /\ camino' = Tail(camino)

Accidente == camino' = <<>> /\ UNCHANGED entregado

Next == (\E m \in Mensaje : Sale(m)) \/ Entrega \/ Accidente

Spec == Init /\ [][Next]_vars

\* A road that nothing happens to is travelled.
FairSpec == Spec /\ WF_vars(Entrega)
=============================================================================
