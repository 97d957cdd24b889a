---------------------------- MODULE GruposAbstracto ----------------------------
(***************************************************************************)
(* What the groups of an organization promise to whoever changes their     *)
(* members: a request takes effect at one instant, between its arrival and *)
(* its answer, and at most once.  A request that is answered took effect;  *)
(* one that fails, or that is never answered, may have.                    *)
(***************************************************************************)
CONSTANTS Grupo, Usuario, Peticion

VARIABLES
    dentro,    \* who is in which group
    fila,      \* who has ever been in which group
    orden,     \* what a request asks for
    res        \* how far it got

vars == <<dentro, fila, orden, res>>

Par == Grupo \X Usuario

\* A request that asks for nothing of the members changes none.
Orden == [que: {"nada", "agregar", "quitar", "fundar"}, par: Par]

Init ==
    /\ dentro \in SUBSET Par /\ fila = dentro
    /\ orden \in [Peticion -> Orden]
    /\ res = [p \in Peticion |-> "libre"]

Pide(p) ==
    /\ res[p] = "libre"
    /\ res' = [res EXCEPT ![p] = "pendiente"]
    /\ \E o \in Orden : orden' = [orden EXCEPT ![p] = o]
    /\ UNCHANGED <<dentro, fila>>

\* The one effect of a request.
Efecto(p, de, a) ==
    /\ res[p] = de /\ res' = [res EXCEPT ![p] = a]
    /\ UNCHANGED orden

Agrega(p) ==
    /\ orden[p].que = "agregar"
    /\ Efecto(p, "pendiente", "aplicada")
    /\ dentro' = dentro \cup {orden[p].par}
    /\ fila' = fila \cup {orden[p].par}

\* Only who is in a group can be taken out of it.
Quita(p) ==
    /\ orden[p].que = "quitar" /\ orden[p].par \in dentro
    /\ Efecto(p, "pendiente", "aplicada")
    /\ dentro' = dentro \ {orden[p].par}
    /\ UNCHANGED fila

\* A new group gets a number of its own and, in a second step, its leader;
\* who got in, or even out, before that step may be left as is.
Funda(p) ==
    /\ orden[p].que = "fundar"
    /\ \E g \in Grupo : orden' = [orden EXCEPT ![p].par = <<g, orden[p].par[2]>>]
    /\ res[p] = "pendiente" /\ res' = [res EXCEPT ![p] = "fundado"]
    /\ UNCHANGED <<dentro, fila>>

Lidera(p) ==
    /\ orden[p].que = "fundar"
    /\ Efecto(p, "fundado", "aplicada")
    /\ fila' = fila \cup {orden[p].par}
    /\ \/ dentro' = dentro \cup {orden[p].par}
       \/ orden[p].par \in fila /\ dentro' = dentro

Nada(p) ==
    /\ orden[p].que = "nada"
    /\ Efecto(p, "pendiente", "aplicada")
    /\ UNCHANGED <<dentro, fila>>

Responde(p) ==
    /\ res[p] = "aplicada"
    /\ res' = [res EXCEPT ![p] = "si"]
    /\ UNCHANGED <<dentro, fila, orden>>

\* An error, whether or not the effect took place.
Niega(P) ==
    /\ P # {} /\ \A p \in P : res[p] \in {"pendiente", "fundado", "aplicada"}
    /\ res' = [p \in Peticion |-> IF p \in P THEN "no" ELSE res[p]]
    /\ UNCHANGED <<dentro, fila, orden>>

Next ==
    \/ \E p \in Peticion : \/ Pide(p) \/ Agrega(p) \/ Quita(p) \/ Funda(p)
                           \/ Lidera(p) \/ Nada(p) \/ Responde(p)
    \/ \E P \in SUBSET Peticion : Niega(P)

Spec == Init /\ [][Next]_vars
=============================================================================
