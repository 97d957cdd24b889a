-------------------------- MODULE Adaptadores_proofs --------------------------
(***************************************************************************)
(* What is proved of the two adapters that talk to another server.         *)
(*                                                                         *)
(* Of the marketplace cache (MarketplaceCache): its types, how long a      *)
(* retired factura can stay in it, when a published one must be in it, and *)
(* that the cursors of an index whose hashes are there visit every member  *)
(* once, in order, and stop at the end.                                    *)
(*                                                                         *)
(* Of the publisher of events (QueueClient, here Cola): its types, that no *)
(* message is ever in two places of the road or twice in one, and that     *)
(* every step of the adapter is a step of the first-in first-out road of   *)
(* ColaAbstracta, or none.                                                 *)
(***************************************************************************)
EXTENDS MarketplaceCache, SequenceTheorems, FiniteSetTheorems, TLAPS

\* The constants and the variables of the publisher.  What its ASSUME says of
\* the constants is a hypothesis of its theorems: Cola!ConstantesOK.
CONSTANTS Mensaje, MaxArranques, MaxFallos
VARIABLES proceso, canal, cola, escritos, broker, destino, arranques, fallos

Cola == INSTANCE QueueClient

-----------------------------------------------------------------------------

(***************************************************************************)
(* The marketplace cache: its invariant.                                   *)
(***************************************************************************)

\* A request that is about to fill the cache knows a list that was true at a
\* time from which it has not gone further than MaxDemora: what the list says
\* wrong of a factura has changed since.
Lecturas ==
    \A p \in Peticion : pc[p] = "poblar" =>
       /\ lista[p] # {} /\ leido[p] \in 1 .. reloj /\ reloj <= leido[p] + MaxDemora
       /\ \A f \in Factura :
             ~(f \in publicada <=> f \in lista[p]) => cambio[f] >= leido[p]

\* An expiry: none, never, or at most the time to live from now.
Vence(v) == v \in {0, Nunca} \/ v \in reloj + 1 .. reloj + Ttl

\* Keys without expiry need a cut; an index that has members expires.
Vencimientos ==
    /\ Vence(venceIndice) /\ \A f \in Factura : Vence(venceHash[f])
    /\ ~cortada => venceIndice # Nunca /\ \A f \in Factura : venceHash[f] # Nunca
    /\ EnIndice # {} => venceIndice # 0

\* One hash at most has no expiry.
UnaEterna ==
    \A f, g \in Factura : venceHash[f] = Nunca /\ venceHash[g] = Nunca => f = g

\* A retired factura with a hash was retired after the list was read that the
\* hash was written from.
Retiradas ==
    \A f \in Factura : f \notin publicada /\ venceHash[f] \notin {0, Nunca}
       => cambio[f] >= venceHash[f] - Ttl - MaxDemora

\* A factura published before that list was read is in the index, and its hash
\* lasts as long as the index does.
Aparecen ==
    ~cortada /\ venceIndice # 0 =>
       \A f \in publicada : cambio[f] < venceIndice - Ttl - MaxDemora
          => puntaje[f] > 0 /\ venceHash[f] >= venceIndice

\* The invariant of the cache.
IInv == /\ TypeOK /\ Lecturas /\ Vencimientos /\ UnaEterna
        /\ Retiradas /\ Aparecen

-----------------------------------------------------------------------------
\* The steps of a request that only read the cache: they leave the cache, the
\* database and the list alone, and none of them leads to filling the cache.
Lee(p) == LeeRango(p) \/ LeeTotal(p) \/ LeeHashes(p) \/ Rechazo(p)

SoloLee ==
    /\ UNCHANGED <<reloj, publicada, cambio, puntaje, venceIndice, venceHash, cortada,
                   lista, leido>>
    /\ pc' \in [Peticion -> {"libre", "rango", "total", "hashes", "repo", "poblar"}]
    /\ vuelta' \in [Peticion -> 1 .. 2]
    /\ limite' \in [Peticion -> Nat] /\ cursor' \in [Peticion -> Nat]
    /\ claves' \in [Peticion -> SUBSET Factura]
    /\ \A q \in Peticion : pc'[q] = "poblar" => pc[q] = "poblar"

\* The end of a request is one of them.
LEMMA AcabaEfecto ==
  ASSUME TypeOK, NEW p \in Peticion, Acaba(p),
         UNCHANGED <<reloj, base, redis, cortada, consulta>>
  PROVE  SoloLee
<1>1. /\ pc' = [pc EXCEPT ![p] = "libre"] /\ vuelta' = [vuelta EXCEPT ![p] = 1]
      /\ cursor' = [cursor EXCEPT ![p] = 0] /\ limite' = [limite EXCEPT ![p] = 0]
      /\ claves' = [claves EXCEPT ![p] = {}]
  BY DEF Acaba, Ir
<1>2. /\ pc' \in [Peticion -> {"libre", "rango", "total", "hashes", "repo", "poblar"}]
      /\ \A q \in Peticion : pc'[q] = "poblar" => pc[q] = "poblar"
  BY <1>1 DEF TypeOK
<1>3. vuelta' \in [Peticion -> 1 .. 2]
  BY <1>1 DEF TypeOK
<1>4. limite' \in [Peticion -> Nat] /\ cursor' \in [Peticion -> Nat]
  BY <1>1 DEF TypeOK
<1>5. claves' \in [Peticion -> SUBSET Factura]
  BY <1>1 DEF TypeOK
<1>6. QED
  BY <1>2, <1>3, <1>4, <1>5 DEF SoloLee, base, redis, consulta

\* So is an answer, or the decision to ask the database.
LEMMA RespondeEfecto ==
  ASSUME TypeOK, NEW p \in Peticion, NEW vacia \in BOOLEAN, Responde(p, vacia),
         UNCHANGED <<reloj, base, redis, cortada, consulta>>
  PROVE  SoloLee
<1>1. CASE vacia /\ vuelta[p] = 1
  <2>1. /\ pc' = [pc EXCEPT ![p] = "repo"] /\ claves' = [claves EXCEPT ![p] = {}]
        /\ UNCHANGED <<vuelta, pedido>>
    BY <1>1 DEF Responde, Ir
  <2>2. /\ pc' \in [Peticion -> {"libre", "rango", "total", "hashes", "repo", "poblar"}]
        /\ \A q \in Peticion : pc'[q] = "poblar" => pc[q] = "poblar"
    BY <2>1 DEF TypeOK
  <2>3. claves' \in [Peticion -> SUBSET Factura]
    BY <2>1 DEF TypeOK
  <2>4. QED
    BY <2>1, <2>2, <2>3 DEF SoloLee, TypeOK, base, redis, consulta, pedido
<1>2. CASE ~(vacia /\ vuelta[p] = 1)
  <2>1. Acaba(p)
    BY <1>2 DEF Responde
  <2>2. QED
    BY <2>1, AcabaEfecto
<1>3. QED
  BY <1>1, <1>2

\* A page holds facturas.
LEMMA ClavesTipo ==
  \A c, l : Claves(c, l) \subseteq Factura
BY DEF Claves, ZRange, EnIndice

\* Each command that reads the cache only reads.
LEMMA LeeEfecto ==
  ASSUME TypeOK, NEW p \in Peticion, Lee(p)
  PROVE  SoloLee
<1>1. CASE LeeRango(p)
  <2> DEFINE ks == Claves(cursor[p], limite[p])
  <2>1. UNCHANGED <<reloj, base, redis, cortada, consulta>>
    BY <1>1 DEF LeeRango
  <2>2. CASE Responde(p, TRUE)
    BY <2>1, <2>2, RespondeEfecto
  <2>3. CASE /\ pc' = [pc EXCEPT ![p] = "total"] /\ claves' = [claves EXCEPT ![p] = ks]
             /\ UNCHANGED <<vuelta, pedido>>
    <3>1. /\ pc' \in [Peticion -> {"libre", "rango", "total", "hashes", "repo", "poblar"}]
          /\ \A q \in Peticion : pc'[q] = "poblar" => pc[q] = "poblar"
      BY <2>3 DEF TypeOK
    <3>2. claves' \in [Peticion -> SUBSET Factura]
      <4>1. ks \in SUBSET Factura
        BY ClavesTipo
      <4>2. QED
        BY <2>3, <4>1 DEF TypeOK
    <3>3. QED
      BY <2>1, <2>3, <3>1, <3>2 DEF SoloLee, TypeOK, base, redis, consulta, pedido
  <2>4. QED
    BY <1>1, <2>2, <2>3 DEF LeeRango, Ir
<1>2. CASE LeeTotal(p)
  <2>1. /\ pc' = [pc EXCEPT ![p] = "hashes"]
        /\ UNCHANGED <<reloj, base, redis, cortada, vuelta, pedido, claves, consulta>>
    BY <1>2 DEF LeeTotal, Ir
  <2>2. /\ pc' \in [Peticion -> {"libre", "rango", "total", "hashes", "repo", "poblar"}]
        /\ \A q \in Peticion : pc'[q] = "poblar" => pc[q] = "poblar"
    BY <2>1 DEF TypeOK
  <2>3. QED
    BY <2>1, <2>2 DEF SoloLee, TypeOK, base, redis, consulta, pedido
<1>3. CASE LeeHashes(p)
  <2>1. UNCHANGED <<reloj, base, redis, cortada, consulta>>
        /\ \E v \in BOOLEAN : Responde(p, v)
    BY <1>3 DEF LeeHashes
  <2>2. QED
    BY <2>1, RespondeEfecto
<1>4. CASE Rechazo(p)
  BY <1>4, AcabaEfecto DEF Rechazo
<1>5. QED
  BY <1>1, <1>2, <1>3, <1>4 DEF Lee

\* A new request only reads.
LEMMA PideEfecto ==
  ASSUME TypeOK, NEW p \in Peticion, NEW c \in Marcadores, NEW l \in Limites, Pide(p, c, l)
  PROVE  SoloLee
<1>1. /\ pc' = [pc EXCEPT ![p] = "rango"]
      /\ cursor' = [cursor EXCEPT ![p] = c] /\ limite' = [limite EXCEPT ![p] = l]
      /\ UNCHANGED <<reloj, base, redis, cortada, vuelta, claves, consulta>>
  BY DEF Pide, Ir
<1>2. c \in Nat /\ l \in Nat
  BY ConstantesOK
<1>3. /\ pc' \in [Peticion -> {"libre", "rango", "total", "hashes", "repo", "poblar"}]
      /\ \A q \in Peticion : pc'[q] = "poblar" => pc[q] = "poblar"
  BY <1>1 DEF TypeOK
<1>4. limite' \in [Peticion -> Nat] /\ cursor' \in [Peticion -> Nat]
  BY <1>1, <1>2 DEF TypeOK
<1>5. QED
  BY <1>1, <1>3, <1>4 DEF SoloLee, TypeOK, base, redis, consulta

-----------------------------------------------------------------------------
\* The bounds of the clock, as the arithmetic needs them.
LEMMA Cotas ==
  ASSUME TypeOK
  PROVE  /\ reloj \in Nat \ {0} /\ reloj <= MaxReloj
         /\ Ttl \in Nat \ {0} /\ MaxDemora \in Nat /\ MaxReloj \in Nat \ {0}
         /\ Nunca \in Nat /\ Nunca = MaxReloj + Ttl + 1
         /\ reloj + Ttl < Nunca
         /\ venceIndice \in Nat /\ \A f \in Factura : venceHash[f] \in Nat
         /\ \A f \in Factura : puntaje[f] \in Nat /\ cambio[f] \in Nat
         /\ \A p \in Peticion : leido[p] \in Nat
BY ConstantesOK DEF TypeOK, Nunca, Tiempo

\* The cache starts empty.
LEMMA IInvInicial == Init => IInv
<1> SUFFICES ASSUME Init PROVE IInv
  OBVIOUS
<1>1. TypeOK
  <2>1. 1 \in 1 .. MaxReloj /\ 0 \in 0 .. MaxReloj /\ 0 \in Tiempo
    BY ConstantesOK DEF Tiempo, Nunca
  <2>2. /\ reloj \in 1 .. MaxReloj /\ puntaje \in [Factura -> 0 .. MaxReloj]
        /\ venceIndice \in Tiempo /\ venceHash \in [Factura -> Tiempo]
        /\ leido \in [Peticion -> 0 .. MaxReloj]
    BY <2>1 DEF Init
  <2>3. publicada \subseteq Factura /\ cambio \in [Factura -> Nat] /\ cortada \in BOOLEAN
    BY DEF Init
  <2>4. vuelta \in [Peticion -> 1 .. 2]
        /\ pc \in [Peticion -> {"libre", "rango", "total", "hashes", "repo", "poblar"}]
    BY DEF Init
  <2>5. limite \in [Peticion -> Nat] /\ cursor \in [Peticion -> Nat]
    BY DEF Init
  <2>6. claves \in [Peticion -> SUBSET Factura] /\ lista \in [Peticion -> SUBSET Factura]
    BY DEF Init
  <2>7. QED
    BY <2>2, <2>3, <2>4, <2>5, <2>6 DEF TypeOK
<1>2. Lecturas
  BY DEF Init, Lecturas
<1>3. Vencimientos /\ UnaEterna /\ Retiradas /\ Aparecen
  <2>1. Nunca # 0
    BY <1>1, Cotas
  <2>2. QED
    BY <2>1 DEF Init, Vencimientos, Vence, EnIndice, UnaEterna, Retiradas, Aparecen
<1>4. QED
  BY <1>1, <1>2, <1>3 DEF IInv

\* What only reads keeps the invariant.
LEMMA SoloLeeConserva ==
  ASSUME IInv, SoloLee
  PROVE  IInv'
<1>1. TypeOK'
  BY DEF IInv, TypeOK, SoloLee
<1>2. Lecturas'
  BY DEF IInv, Lecturas, SoloLee
<1>3. /\ Vencimientos' /\ UnaEterna' /\ Retiradas' /\ Aparecen'
  BY DEF IInv, Vencimientos, Vence, EnIndice, UnaEterna, Retiradas, Aparecen, SoloLee
<1>4. QED
  BY <1>1, <1>2, <1>3 DEF IInv

\* A factura that changes its status changes it now, which is after any list
\* that is still to be written was read, and after any hash that has not expired
\* was written, less the time to live.
LEMMA PublicaConserva ==
  ASSUME IInv, NEW f \in Factura, Publica(f)
  PROVE  IInv'
<1>1. TypeOK /\ Lecturas /\ Vencimientos /\ UnaEterna /\ Retiradas /\ Aparecen
  BY DEF IInv
<1>2. /\ publicada' = IF f \in publicada THEN publicada \ {f} ELSE publicada \cup {f}
      /\ cambio' = [cambio EXCEPT ![f] = reloj]
      /\ UNCHANGED <<reloj, puntaje, venceIndice, venceHash, cortada, pc, vuelta,
                     limite, cursor, claves, lista, leido>>
  BY DEF Publica, redis, pedido, consulta
<1>3. /\ cambio' \in [Factura -> Nat] /\ cambio'[f] = reloj
      /\ \A g \in Factura \ {f} : cambio'[g] = cambio[g]
                                  /\ (g \in publicada' <=> g \in publicada)
  BY <1>1, <1>2, Cotas DEF TypeOK
<1>4. TypeOK'
  BY <1>1, <1>2, <1>3 DEF TypeOK
<1>5. Lecturas'
  <2> SUFFICES ASSUME NEW p \in Peticion, pc'[p] = "poblar"
               PROVE  /\ lista'[p] # {} /\ leido'[p] \in 1 .. reloj'
                      /\ reloj' <= leido'[p] + MaxDemora
                      /\ \A g \in Factura :
                            ~(g \in publicada' <=> g \in lista'[p]) => cambio'[g] >= leido'[p]
    BY DEF Lecturas
  <2>1. /\ lista[p] # {} /\ leido[p] \in 1 .. reloj /\ reloj <= leido[p] + MaxDemora
        /\ \A g \in Factura : ~(g \in publicada <=> g \in lista[p]) => cambio[g] >= leido[p]
    BY <1>1, <1>2 DEF Lecturas
  <2>2. reloj >= leido[p]
    BY <1>1, <2>1, Cotas
  <2>3. QED
    BY <1>2, <1>3, <2>1, <2>2
<1>6. Vencimientos' /\ UnaEterna'
  BY <1>1, <1>2 DEF Vencimientos, Vence, EnIndice, UnaEterna
<1>7. Retiradas'
  <2>1. venceHash[f] \notin {0, Nunca} => reloj >= venceHash[f] - Ttl - MaxDemora
    BY <1>1, Cotas DEF Vencimientos, Vence
  <2>2. QED
    BY <1>1, <1>2, <1>3, <2>1 DEF Retiradas
<1>8. Aparecen'
  <2>1. ~cortada /\ venceIndice # 0 => ~(reloj < venceIndice - Ttl - MaxDemora)
    BY <1>1, Cotas DEF Vencimientos, Vence
  <2>2. QED
    BY <1>1, <1>2, <1>3, <2>1 DEF Aparecen
<1>9. QED
  BY <1>4, <1>5, <1>6, <1>7, <1>8 DEF IInv

\* The clock moves: what expires goes, and the index goes before the hashes that
\* Aparecen speaks of.
LEMMA AvanzaConserva ==
  ASSUME IInv, Avanza
  PROVE  IInv'
<1>1. /\ TypeOK /\ Lecturas /\ Vencimientos /\ UnaEterna /\ Retiradas /\ Aparecen
  BY DEF IInv
<1>2. /\ reloj < MaxReloj /\ reloj' = reloj + 1
      /\ \A p \in Peticion : pc[p] = "poblar" => reloj < leido[p] + MaxDemora
      /\ UNCHANGED <<publicada, cambio, cortada, pc, vuelta, limite, cursor, claves,
                     lista, leido>>
  BY DEF Avanza, base, pedido, consulta
<1>3. /\ puntaje' = [f \in Factura |-> IF venceIndice <= reloj + 1 THEN 0 ELSE puntaje[f]]
      /\ venceIndice' = IF venceIndice <= reloj + 1 THEN 0 ELSE venceIndice
      /\ venceHash' = [f \in Factura |-> IF venceHash[f] <= reloj + 1 THEN 0
                                         ELSE venceHash[f]]
  BY <1>2 DEF Avanza
<1>4. TypeOK'
  <2>1. reloj' \in 1 .. MaxReloj
    BY <1>1, <1>2, Cotas
  <2>2. puntaje' \in [Factura -> 0 .. MaxReloj]
    BY <1>1, <1>3, Cotas DEF TypeOK
  <2>3. 0 \in Tiempo
    BY <1>1, Cotas DEF Tiempo
  <2>4. venceIndice' \in Tiempo /\ venceHash' \in [Factura -> Tiempo]
    BY <1>1, <1>3, <2>3 DEF TypeOK
  <2>5. QED
    BY <1>1, <1>2, <2>1, <2>2, <2>4 DEF TypeOK
<1>5. ASSUME NEW v \in Nat, Vence(v)
      PROVE  /\ v <= reloj + 1 => 0 \in {0, Nunca}
             /\ ~(v <= reloj + 1) => v = Nunca \/ v \in reloj' + 1 .. reloj' + Ttl
             /\ v = Nunca => ~(v <= reloj + 1)
  BY <1>1, <1>2, <1>5, Cotas DEF Vence
<1>6. Lecturas'
  <2> SUFFICES ASSUME NEW p \in Peticion, pc'[p] = "poblar"
               PROVE  /\ lista'[p] # {} /\ leido'[p] \in 1 .. reloj'
                      /\ reloj' <= leido'[p] + MaxDemora
                      /\ \A g \in Factura :
                            ~(g \in publicada' <=> g \in lista'[p]) => cambio'[g] >= leido'[p]
    BY DEF Lecturas
  <2>1. /\ lista[p] # {} /\ leido[p] \in 1 .. reloj /\ reloj < leido[p] + MaxDemora
        /\ \A g \in Factura : ~(g \in publicada <=> g \in lista[p]) => cambio[g] >= leido[p]
    BY <1>1, <1>2 DEF Lecturas
  <2>2. leido[p] \in 1 .. reloj' /\ reloj' <= leido[p] + MaxDemora
    BY <1>1, <1>2, <2>1, Cotas
  <2>3. QED
    BY <1>2, <2>1, <2>2
<1>7. Vencimientos'
  <2>1. Vence(venceIndice) /\ \A f \in Factura : Vence(venceHash[f])
    BY <1>1 DEF Vencimientos
  <2>2. venceIndice' \in {0, Nunca} \/ venceIndice' \in reloj' + 1 .. reloj' + Ttl
    BY <1>1, <1>3, <1>5, <2>1, Cotas
  <2>3. \A f \in Factura : venceHash'[f] \in {0, Nunca}
                           \/ venceHash'[f] \in reloj' + 1 .. reloj' + Ttl
    BY <1>1, <1>3, <1>5, <2>1, Cotas
  <2>4. ~cortada' => venceIndice' # Nunca /\ \A f \in Factura : venceHash'[f] # Nunca
    BY <1>1, <1>2, <1>3, Cotas DEF Vencimientos
  <2>5. EnIndice' # {} => venceIndice' # 0
    <3>1. CASE venceIndice <= reloj + 1
      BY <1>1, <1>3, <3>1 DEF EnIndice
    <3>2. CASE ~(venceIndice <= reloj + 1)
      BY <1>1, <1>3, <3>2, Cotas
    <3>3. QED
      BY <3>1, <3>2
  <2>6. Nunca' = Nunca
    BY DEF Nunca
  <2>7. QED
    BY <2>2, <2>3, <2>4, <2>5, <2>6 DEF Vencimientos, Vence
<1>8. UnaEterna' /\ Retiradas'
  <2>1. \A f \in Factura : venceHash'[f] # 0 => venceHash'[f] = venceHash[f]
    BY <1>3
  <2>2. Nunca' = Nunca /\ Nunca # 0
    BY <1>1, Cotas DEF Nunca
  <2>3. QED
    BY <1>1, <1>2, <2>1, <2>2 DEF UnaEterna, Retiradas
<1>9. Aparecen'
  <2> SUFFICES ASSUME ~cortada', venceIndice' # 0, NEW f \in publicada', NEW k, k = cambio'[f],
                      k < venceIndice' - Ttl - MaxDemora
               PROVE  puntaje'[f] > 0 /\ venceHash'[f] >= venceIndice'
    BY DEF Aparecen
  <2>1. venceIndice' = venceIndice /\ ~(venceIndice <= reloj + 1) /\ f \in Factura
    BY <1>1, <1>2, <1>3 DEF TypeOK
  <2>2. puntaje[f] > 0 /\ venceHash[f] >= venceIndice
    BY <1>1, <1>2, <2>1, Cotas DEF Aparecen
  <2>3. ~(venceHash[f] <= reloj + 1)
    BY <1>1, <2>1, <2>2, Cotas
  <2>4. QED
    BY <1>3, <2>1, <2>2, <2>3
<1>10. QED
  BY <1>4, <1>6, <1>7, <1>8, <1>9 DEF IInv

\* A list is true when it is read.
LEMMA LeeRepoConserva ==
  ASSUME IInv, NEW p \in Peticion, LeeRepo(p)
  PROVE  IInv'
<1>1. TypeOK /\ Lecturas /\ Vencimientos /\ UnaEterna /\ Retiradas /\ Aparecen
  BY DEF IInv
<1>2. PICK l \in {publicada, {}} :
         /\ lista' = [lista EXCEPT ![p] = l]
         /\ leido' = [leido EXCEPT ![p] = IF l = {} THEN 0 ELSE reloj]
         /\ pc' = [pc EXCEPT ![p] = IF l = {} THEN "rango" ELSE "poblar"]
  BY DEF LeeRepo, Ir
<1>3. /\ vuelta' = [vuelta EXCEPT ![p] = 2]
      /\ UNCHANGED <<reloj, publicada, cambio, puntaje, venceIndice, venceHash, cortada,
                     limite, cursor, claves>>
  BY DEF LeeRepo, base, redis, pedido
<1>4. TypeOK'
  <2>1. l \in SUBSET Factura /\ (IF l = {} THEN 0 ELSE reloj) \in 0 .. MaxReloj
    BY <1>1, <1>2, Cotas DEF TypeOK
  <2>2. /\ lista' \in [Peticion -> SUBSET Factura]
        /\ leido' \in [Peticion -> 0 .. MaxReloj]
    BY <1>1, <1>2, <2>1 DEF TypeOK
  <2>3. /\ pc' \in [Peticion -> {"libre", "rango", "total", "hashes", "repo", "poblar"}]
        /\ vuelta' \in [Peticion -> 1 .. 2]
    BY <1>1, <1>2, <1>3 DEF TypeOK
  <2>4. QED
    BY <1>1, <1>3, <2>2, <2>3 DEF TypeOK
<1>5. Lecturas'
  <2> SUFFICES ASSUME NEW q \in Peticion, pc'[q] = "poblar"
               PROVE  /\ lista'[q] # {} /\ leido'[q] \in 1 .. reloj'
                      /\ reloj' <= leido'[q] + MaxDemora
                      /\ \A g \in Factura :
                            ~(g \in publicada' <=> g \in lista'[q]) => cambio'[g] >= leido'[q]
    BY DEF Lecturas
  <2>1. CASE q = p
    <3>1. l # {} /\ l = publicada /\ lista'[p] = l /\ leido'[p] = reloj
      BY <1>1, <1>2, <2>1 DEF TypeOK
    <3>2. reloj \in 1 .. reloj /\ reloj <= reloj + MaxDemora
      BY <1>1, Cotas
    <3>3. QED
      BY <1>3, <2>1, <3>1, <3>2
  <2>2. CASE q # p
    <3>1. pc[q] = "poblar" /\ lista'[q] = lista[q] /\ leido'[q] = leido[q]
      BY <1>1, <1>2, <2>2 DEF TypeOK
    <3>2. QED
      BY <1>1, <1>3, <3>1 DEF Lecturas
  <2>3. QED
    BY <2>1, <2>2
<1>6. Vencimientos' /\ UnaEterna' /\ Retiradas' /\ Aparecen'
  BY <1>1, <1>3 DEF Vencimientos, Vence, EnIndice, UnaEterna, Retiradas, Aparecen
<1>7. QED
  BY <1>4, <1>5, <1>6 DEF IInv

\* What a pipeline, whole or cut, leaves in the cache.
LEMMA PueblaEfecto ==
  ASSUME TypeOK, Vencimientos, NEW todas \in SUBSET Factura, NEW una \in SUBSET Factura,
         NEW hasta \in {"hset", "zadd", "expireIndice"}, Puebla(todas, una, hasta)
  PROVE  /\ puntaje' \in [Factura -> 0 .. MaxReloj]
         /\ venceHash' \in [Factura -> Tiempo] /\ venceIndice' \in Tiempo
         /\ \A f \in todas : puntaje'[f] = reloj /\ venceHash'[f] = reloj + Ttl
         /\ \A f \in Factura : puntaje'[f] \in {puntaje[f], reloj}
         /\ \A f \in Factura \ todas :
               \/ venceHash'[f] = venceHash[f]
               \/ f \in una /\ venceHash'[f] = Nunca
         /\ venceIndice' \in {venceIndice, reloj + Ttl, Nunca}
         /\ todas # {} => venceIndice' = reloj + Ttl
         /\ EnIndice' # {} => venceIndice' # 0
<1> DEFINE conZadd == todas \cup (IF hasta \in {"zadd", "expireIndice"} THEN una ELSE {})
           conHash == todas \cup una
           expIndice == todas # {} \/ (una # {} /\ hasta = "expireIndice")
<1>1. /\ venceHash' = [f \in Factura |->
             IF f \in todas THEN reloj + Ttl
             ELSE IF f \in conHash /\ ~ConHash(f) THEN Nunca
             ELSE venceHash[f]]
      /\ puntaje' = [f \in Factura |-> IF f \in conZadd THEN reloj ELSE puntaje[f]]
      /\ venceIndice' = IF expIndice THEN reloj + Ttl
                        ELSE IF EnIndice = {} /\ conZadd # {} THEN Nunca
                        ELSE venceIndice
  BY DEF Puebla, VenceHashNuevo, VenceIndiceNuevo
<1>2. reloj \in 0 .. MaxReloj /\ reloj + Ttl \in Tiempo /\ Nunca \in Tiempo
      /\ reloj + Ttl # 0 /\ Nunca # 0
  BY Cotas DEF Tiempo
<1>3. puntaje' \in [Factura -> 0 .. MaxReloj]
  BY <1>1, <1>2 DEF TypeOK
<1>4. venceHash' \in [Factura -> Tiempo] /\ venceIndice' \in Tiempo
  BY <1>1, <1>2 DEF TypeOK
<1>5. EnIndice' # {} => venceIndice' # 0
  <2>1. CASE expIndice
    BY <1>1, <1>2, <2>1
  <2>2. CASE ~expIndice /\ EnIndice = {} /\ conZadd # {}
    BY <1>1, <1>2, <2>2
  <2>3. CASE ~expIndice /\ EnIndice # {}
    BY <1>1, <2>3 DEF Vencimientos
  <2>4. CASE ~expIndice /\ EnIndice = {} /\ conZadd = {}
    BY <1>1, <2>4 DEF EnIndice
  <2>5. QED
    BY <2>1, <2>2, <2>3, <2>4
<1>6. \A f \in Factura \ todas : \/ venceHash'[f] = venceHash[f]
                                 \/ f \in una /\ venceHash'[f] = Nunca
  BY <1>1
<1>7. QED
  BY <1>1, <1>3, <1>4, <1>5, <1>6

\* The pipeline writes a list that is at most MaxDemora old with an expiry of the
\* time to live from now; cut, it leaves one key without expiry at most.
LEMMA PoblarConserva ==
  ASSUME IInv, NEW p \in Peticion, Poblar(p)
  PROVE  IInv'
<1>1. TypeOK /\ Lecturas /\ Vencimientos /\ UnaEterna /\ Retiradas /\ Aparecen
  BY DEF IInv
<1>2. /\ pc[p] = "poblar" /\ pc' = [pc EXCEPT ![p] = "rango"]
      /\ lista' = [lista EXCEPT ![p] = {}] /\ leido' = [leido EXCEPT ![p] = 0]
      /\ UNCHANGED <<reloj, publicada, cambio, vuelta, limite, cursor, claves>>
  BY DEF Poblar, Ir, base, pedido
<1>3. /\ lista[p] # {} /\ lista[p] \subseteq Factura /\ leido[p] \in 1 .. reloj
      /\ reloj <= leido[p] + MaxDemora
      /\ \A f \in Factura : ~(f \in publicada <=> f \in lista[p]) => cambio[f] >= leido[p]
  BY <1>1, <1>2 DEF Lecturas, TypeOK
<1> DEFINE Corre(todas, una, hasta) ==
             /\ Puebla(todas, una, hasta)
             /\ \/ todas = lista[p] /\ una = {} /\ cortada' = cortada
                \/ /\ ~cortada /\ cortada' = TRUE
                   /\ \A f, g \in una : f = g
           Hastas == {"hset", "zadd", "expireIndice"}
<1>4. PICK todas \in SUBSET lista[p], una \in SUBSET lista[p], hasta \in Hastas :
         Corre(todas, una, hasta)
  <2> DEFINE Meta == \E todas \in SUBSET lista[p], una \in SUBSET lista[p], hasta \in Hastas :
                        Corre(todas, una, hasta)
  <2>1. CASE Puebla(lista[p], {}, "hset") /\ UNCHANGED cortada
    <3>1. Corre(lista[p], {}, "hset")
      BY <2>1
    <3>2. QED
      BY <3>1
  <2>2. ASSUME ~cortada, cortada' = TRUE, NEW todas \in SUBSET lista[p],
               Puebla(todas, {}, "hset")
        PROVE  Meta
    <3>1. Corre(todas, {}, "hset")
      BY <2>2
    <3>2. QED
      BY <3>1
  <2>3. ASSUME ~cortada, cortada' = TRUE, NEW todas \in SUBSET lista[p],
               NEW f \in lista[p], NEW hasta \in Hastas, Puebla(todas, {f}, hasta)
        PROVE  Meta
    <3>1. Corre(todas, {f}, hasta) /\ {f} \in SUBSET lista[p]
      BY <2>3
    <3>2. QED
      BY <3>1
  <2> HIDE DEF Corre
  <2>4. QED
    BY <2>1, <2>2, <2>3 DEF Poblar
<1>5. /\ todas \in SUBSET Factura /\ una \in SUBSET Factura
      /\ Puebla(todas, una, hasta)
  BY <1>3, <1>4
<1>6. /\ puntaje' \in [Factura -> 0 .. MaxReloj]
      /\ venceHash' \in [Factura -> Tiempo] /\ venceIndice' \in Tiempo
      /\ \A f \in todas : puntaje'[f] = reloj /\ venceHash'[f] = reloj + Ttl
      /\ \A f \in Factura : puntaje'[f] \in {puntaje[f], reloj}
      /\ \A f \in Factura \ todas :
            \/ venceHash'[f] = venceHash[f]
            \/ f \in una /\ venceHash'[f] = Nunca
      /\ venceIndice' \in {venceIndice, reloj + Ttl, Nunca}
      /\ todas # {} => venceIndice' = reloj + Ttl
      /\ EnIndice' # {} => venceIndice' # 0
  BY <1>1, <1>5, PueblaEfecto
<1>7. TypeOK'
  <2>1. cortada' \in BOOLEAN
    BY <1>1, <1>4 DEF TypeOK
  <2>2. /\ lista' \in [Peticion -> SUBSET Factura]
        /\ leido' \in [Peticion -> 0 .. MaxReloj]
    BY <1>1, <1>2, Cotas DEF TypeOK
  <2>3. pc' \in [Peticion -> {"libre", "rango", "total", "hashes", "repo", "poblar"}]
    BY <1>1, <1>2 DEF TypeOK
  <2>4. QED
    BY <1>1, <1>2, <1>6, <2>1, <2>2, <2>3 DEF TypeOK
<1>8. Lecturas'
  <2>1. \A q \in Peticion : pc'[q] = "poblar" =>
           pc[q] = "poblar" /\ lista'[q] = lista[q] /\ leido'[q] = leido[q]
    BY <1>1, <1>2 DEF TypeOK
  <2>2. QED
    BY <1>1, <1>2, <2>1 DEF Lecturas
<1>9. Nunca' = Nunca /\ reloj + Ttl \in reloj + 1 .. reloj + Ttl /\ reloj + Ttl # Nunca
      /\ reloj + Ttl # 0
  BY <1>1, Cotas DEF Nunca
<1>10. Vencimientos'
  <2>1. Vence(venceIndice)' /\ \A f \in Factura : Vence(venceHash[f])'
    <3>1. \A f \in Factura : venceHash'[f] \in {venceHash[f], reloj + Ttl, Nunca}
      BY <1>4, <1>6
    <3>2. QED
      BY <1>1, <1>2, <1>6, <1>9, <3>1 DEF Vencimientos, Vence
  <2>2. ASSUME ~cortada'
        PROVE  venceIndice' # Nunca /\ \A f \in Factura : venceHash'[f] # Nunca
    <3>1. todas = lista[p] /\ una = {} /\ ~cortada
      BY <1>4, <2>2
    <3>2. QED
      BY <1>1, <1>3, <1>6, <1>9, <3>1 DEF Vencimientos
  <2>3. QED
    BY <1>6, <1>9, <2>1, <2>2 DEF Vencimientos
<1>11. UnaEterna'
  <2>1. CASE todas = lista[p] /\ una = {} /\ cortada' = cortada
    <3>1. \A f \in Factura : venceHash'[f] = Nunca => venceHash[f] = Nunca
      BY <1>6, <1>9, <2>1
    <3>2. QED
      BY <1>1, <1>9, <3>1 DEF UnaEterna
  <2>2. CASE ~cortada /\ \A f, g \in una : f = g
    <3>1. \A f \in Factura : venceHash'[f] = Nunca => f \in una
      BY <1>1, <1>6, <1>9, <2>2 DEF Vencimientos
    <3>2. QED
      BY <1>9, <2>2, <3>1 DEF UnaEterna
  <2>3. QED
    BY <1>4, <2>1, <2>2
<1>12. Retiradas'
  <2> SUFFICES ASSUME NEW f \in Factura, f \notin publicada', venceHash'[f] \notin {0, Nunca}
               PROVE  cambio'[f] >= venceHash'[f] - Ttl - MaxDemora
    BY <1>9 DEF Retiradas
  <2>1. CASE f \in todas
    <3>1. cambio[f] >= leido[p] /\ venceHash'[f] = reloj + Ttl
      BY <1>2, <1>3, <1>4, <1>6, <2>1
    <3>2. QED
      BY <1>1, <1>2, <1>3, <3>1, Cotas
  <2>2. CASE f \notin todas
    BY <1>1, <1>2, <1>6, <2>2 DEF Retiradas
  <2>3. QED
    BY <2>1, <2>2
<1>13. Aparecen'
  <2> SUFFICES ASSUME ~cortada', NEW f \in publicada',
                      cambio'[f] < venceIndice' - Ttl - MaxDemora
               PROVE  puntaje'[f] > 0 /\ venceHash'[f] >= venceIndice'
    BY DEF Aparecen
  <2>1. todas = lista[p] /\ venceIndice' = reloj + Ttl /\ f \in Factura
        /\ f \in publicada /\ cambio'[f] = cambio[f]
    BY <1>1, <1>2, <1>3, <1>4, <1>6 DEF TypeOK
  <2>2. cambio[f] < leido[p]
    BY <1>1, <1>3, <2>1, Cotas
  <2>3. f \in lista[p]
    BY <1>1, <1>3, <2>1, <2>2, Cotas
  <2>4. QED
    BY <1>1, <1>6, <2>1, <2>3, Cotas
<1>14. QED
  BY <1>7, <1>8, <1>10, <1>11, <1>12, <1>13 DEF IInv

\* Every step keeps the invariant.
LEMMA IInvInductiva == IInv /\ [Next]_vars => IInv'
<1> SUFFICES ASSUME IInv, [Next]_vars PROVE IInv'
  OBVIOUS
<1>1. TypeOK
  BY DEF IInv
<1>2. ASSUME NEW f \in Factura, Publica(f)
      PROVE  IInv'
  BY <1>2, PublicaConserva
<1>3. CASE Avanza
  BY <1>3, AvanzaConserva
<1>4. ASSUME NEW p \in Peticion, NEW c \in Marcadores, NEW l \in Limites, Pide(p, c, l)
      PROVE  IInv'
  BY <1>1, <1>4, PideEfecto, SoloLeeConserva
<1>5. ASSUME NEW p \in Peticion, Atiende(p)
      PROVE  IInv'
  <2>1. CASE Lee(p)
    BY <1>1, <2>1, LeeEfecto, SoloLeeConserva
  <2>2. CASE LeeRepo(p)
    BY <2>2, LeeRepoConserva
  <2>3. CASE Poblar(p)
    BY <2>3, PoblarConserva
  <2>4. QED
    BY <1>5, <2>1, <2>2, <2>3 DEF Atiende, Lee
<1>6. CASE UNCHANGED vars
  <2>1. SoloLee
    BY <1>1, <1>6 DEF SoloLee, vars, TypeOK
  <2>2. QED
    BY <2>1, SoloLeeConserva
<1>7. QED
  BY <1>2, <1>3, <1>4, <1>5, <1>6 DEF Next

\* The invariant holds always.
LEMMA Invariante == Spec => []IInv
<1>1. Init => IInv
  BY IInvInicial
<1>2. IInv /\ [Next]_vars => IInv'
  BY IInvInductiva
<1>3. QED
  BY <1>1, <1>2, PTL DEF Spec

-----------------------------------------------------------------------------
(***************************************************************************)
(* The order of the index.                                                 *)
(***************************************************************************)

\* A set of naturals that is not empty has a least element.  With it what the
\* cursors do is proved by the least counterexample, where an induction would be.
LEMMA MinimoNat ==
  ASSUME NEW T \in SUBSET Nat, T # {}
  PROVE  \E x \in T : \A y \in T : x <= y
<1>1. \E x \in T : \A y \in T : ~(<<y, x>> \in OpToRel(<, Nat))
  BY NatLessThanWellFounded, WFMin
<1>2. \A x, y \in T : <<y, x>> \in OpToRel(<, Nat) <=> y < x
  BY DEF OpToRel
<1>3. \A x, y \in T : ~(y < x) => x <= y
  OBVIOUS
<1>4. QED
  BY <1>1, <1>2, <1>3

\* The order of the sorted set is strict and total.
LEMMA AntesOrden ==
  ASSUME TypeOK
  PROVE  /\ \A f \in Factura : ~Antes(f, f)
         /\ \A f, g \in Factura : f # g => Antes(f, g) \/ Antes(g, f)
         /\ \A f, g \in Factura : Antes(f, g) => ~Antes(g, f)
         /\ \A f, g, h \in Factura : Antes(f, g) /\ Antes(g, h) => Antes(f, h)
<1>1. \A f \in Factura : f \in Nat /\ puntaje[f] \in Nat
  BY ConstantesOK DEF TypeOK
<1>2. QED
  BY <1>1 DEF Antes

\* The index is a finite set of facturas.
LEMMA IndiceFinito ==
  IsFiniteSet(EnIndice) /\ Cardinality(EnIndice) \in Nat /\ EnIndice \subseteq Factura
<1>1. EnIndice \subseteq Factura
  BY DEF EnIndice
<1>2. QED
  BY <1>1, ConstantesOK, FS_Subset, FS_CardinalityType

\* A member comes before another exactly when its place does.
LEMMA PosicionOrden ==
  ASSUME TypeOK
  PROVE  /\ \A f \in EnIndice : Posicion(f) \in Nat /\ Posicion(f) < Cardinality(EnIndice)
         /\ \A f, g \in EnIndice : Antes(f, g) => Posicion(f) < Posicion(g)
         /\ \A f, g \in EnIndice : Posicion(f) < Posicion(g) => Antes(f, g)
         /\ \A f, g \in EnIndice : Posicion(f) = Posicion(g) => f = g
<1> DEFINE Previas(f) == {g \in EnIndice : Antes(g, f)}
<1>1. \A f \in EnIndice : f \in Factura
  BY IndiceFinito
<1>2. ASSUME NEW S \in SUBSET EnIndice, NEW T \in SUBSET S, NEW x \in S, x \notin T
      PROVE  Cardinality(T) \in Nat /\ Cardinality(S) \in Nat
             /\ Cardinality(T) < Cardinality(S)
  <2>1. IsFiniteSet(S)
    BY IndiceFinito, FS_Subset
  <2>2. IsFiniteSet(T) /\ Cardinality(T) <= Cardinality(S) /\ Cardinality(S) # Cardinality(T)
    BY <1>2, <2>1, FS_Subset
  <2>3. QED
    BY <2>1, <2>2, FS_CardinalityType
<1>3. \A f \in EnIndice : Posicion(f) \in Nat /\ Posicion(f) < Cardinality(EnIndice)
  <2> TAKE f \in EnIndice
  <2>1. Previas(f) \in SUBSET EnIndice /\ f \notin Previas(f)
    BY <1>1, AntesOrden
  <2>2. QED
    BY <1>2, <2>1 DEF Posicion
<1>4. \A f, g \in EnIndice : Antes(f, g) => Posicion(f) < Posicion(g)
  <2> SUFFICES ASSUME NEW f \in EnIndice, NEW g \in EnIndice, Antes(f, g)
               PROVE  Posicion(f) < Posicion(g)
    OBVIOUS
  <2>1. Previas(f) \in SUBSET Previas(g) /\ f \in Previas(g) /\ f \notin Previas(f)
    BY <1>1, AntesOrden
  <2>2. Previas(g) \in SUBSET EnIndice
    OBVIOUS
  <2>3. QED
    BY <1>2, <2>1, <2>2 DEF Posicion
<1>5. \A f, g \in EnIndice : f = g \/ Antes(f, g) \/ Antes(g, f)
  BY <1>1, AntesOrden
<1>6. QED
  BY <1>3, <1>4, <1>5

\* Every place of the index is taken.
LEMMA PosicionOcupada ==
  ASSUME TypeOK, NEW i \in Nat, i < Cardinality(EnIndice)
  PROVE  \E f \in EnIndice : Posicion(f) = i
<1> DEFINE n == Cardinality(EnIndice)
           P == [f \in EnIndice |-> Posicion(f)]
<1>1. n \in Nat /\ IsFiniteSet(EnIndice)
  BY IndiceFinito
<1>2. IsFiniteSet(0 .. n - 1) /\ Cardinality(0 .. n - 1) = n
  <2>1. 0 \in Int /\ n - 1 \in Int /\ (IF 0 > n - 1 THEN 0 ELSE n - 1 - 0 + 1) = n
    BY <1>1
  <2> HIDE DEF n
  <2>2. QED
    BY <2>1, FS_Interval
<1>3. P \in Injection(EnIndice, 0 .. n - 1)
  <2>1. P \in [EnIndice -> 0 .. n - 1]
    BY <1>1, PosicionOrden
  <2>2. \A f, g \in DOMAIN P : P[f] = P[g] => f = g
    BY PosicionOrden
  <2>3. QED
    BY <2>1, <2>2 DEF Injection, IsInjective
<1>4. P \in Surjection(EnIndice, 0 .. n - 1)
  <2> HIDE DEF P
  <2>1. Cardinality(EnIndice) = Cardinality(0 .. n - 1)
    BY <1>2
  <2> HIDE DEF n
  <2>2. QED
    BY <1>2, <1>3, <2>1, FS_Injection
<1>5. i \in 0 .. n - 1
  BY <1>1
<1>6. \E f \in EnIndice : P[f] = i
  BY <1>4, <1>5 DEF Surjection
<1>7. QED
  BY <1>6

\* The members between two places.
LEMMA CardinalTramo ==
  ASSUME TypeOK, NEW a \in Nat, NEW b \in Nat, a <= b, b <= Cardinality(EnIndice)
  PROVE  Cardinality({f \in EnIndice : a <= Posicion(f) /\ Posicion(f) < b}) = b - a
<1> DEFINE T == {f \in EnIndice : a <= Posicion(f) /\ Posicion(f) < b}
           P == [f \in T |-> Posicion(f)]
<1>1. IsFiniteSet(T)
  BY IndiceFinito, FS_Subset
<1>2. P \in Bijection(T, a .. b - 1)
  <2>1. P \in [T -> a .. b - 1]
    BY PosicionOrden
  <2>2. \A f, g \in DOMAIN P : P[f] = P[g] => f = g
    BY PosicionOrden
  <2>3. \A i \in a .. b - 1 : \E f \in T : P[f] = i
    <3> TAKE i \in a .. b - 1
    <3>1. i \in Nat /\ i < Cardinality(EnIndice) /\ a <= i /\ i < b
      BY IndiceFinito
    <3>2. PICK f \in EnIndice : Posicion(f) = i
      BY <3>1, PosicionOcupada
    <3>3. QED
      BY <3>1, <3>2
  <2> HIDE DEF P
  <2>4. QED
    BY <2>1, <2>2, <2>3 DEF Bijection, Injection, Surjection, IsInjective
<1>3. Cardinality(a .. b - 1) = b - a
  <2>1. a \in Int /\ b - 1 \in Int /\ (IF a > b - 1 THEN 0 ELSE b - 1 - a + 1) = b - a
    OBVIOUS
  <2>2. Cardinality(a .. (b - 1)) = IF a > b - 1 THEN 0 ELSE b - 1 - a + 1
    BY <2>1, FS_Interval
  <2>3. QED
    BY <2>1, <2>2
<1> HIDE DEF P, T
<1>4. Cardinality(T) = Cardinality(a .. b - 1)
  BY <1>1, <1>2, FS_Bijection DEF ExistsBijection
<1>5. QED
  BY <1>3, <1>4 DEF T

-----------------------------------------------------------------------------
(***************************************************************************)
(* The pages and the cursors.                                              *)
(***************************************************************************)

\* The place after the last one of the page at c.
FinPagina(c, l) ==
    IF c = 0 /\ l = 0 THEN Cardinality(EnIndice)
    ELSE IF c + l < Cardinality(EnIndice) THEN c + l ELSE Cardinality(EnIndice)

\* The page at c has the keys of the places from c to its end.
LEMMA ClavesTramo ==
  ASSUME TypeOK, NEW l \in 0 .. MaxPagina, NEW c \in 0 .. Cardinality(EnIndice)
  PROVE  /\ FinPagina(c, l) \in c .. Cardinality(EnIndice)
         /\ Claves(c, l) = {f \in EnIndice : c <= Posicion(f) /\ Posicion(f) < FinPagina(c, l)}
         /\ IsFiniteSet(Claves(c, l)) /\ Cardinality(Claves(c, l)) = FinPagina(c, l) - c
         /\ Claves(c, l) # {} <=> c < FinPagina(c, l)
<1> DEFINE n == Cardinality(EnIndice)
           e == FinPagina(c, l)
           Tramo == {f \in EnIndice : c <= Posicion(f) /\ Posicion(f) < e}
<1>1. n \in Nat /\ l \in Nat /\ c \in Nat /\ c <= n /\ l <= MaxPagina /\ MaxPagina \in Nat
  BY IndiceFinito, ConstantesOK
<1>2. e \in Nat /\ c <= e /\ e <= n
  BY <1>1 DEF FinPagina
<1>3. Claves(c, l) = Tramo
  <2>1. \A f \in EnIndice : Posicion(f) \in Nat /\ Posicion(f) < n
    BY PosicionOrden
  <2>2. TamPagina(l) = l
    BY <1>1 DEF TamPagina
  <2>3. Claves(c, l) = {f \in EnIndice : Posicion(f) \in c ..
                          (IF c + l - 1 < 0 THEN n + (c + l - 1) ELSE c + l - 1)}
    BY <2>2 DEF Claves, ZRange
  <2>4. \A f \in EnIndice : c <= Posicion(f) /\ Posicion(f) < e
           <=> Posicion(f) \in c .. (IF c + l - 1 < 0 THEN n + (c + l - 1) ELSE c + l - 1)
    BY <1>1, <2>1 DEF FinPagina
  <2> HIDE DEF e, n
  <2>5. QED
    BY <2>3, <2>4
<1>4. Cardinality(Tramo) = e - c
  BY <1>1, <1>2, CardinalTramo
<1>5. Claves(c, l) # {} <=> c < e
  <2>1. c < e => \E f \in EnIndice : Posicion(f) = c
    BY <1>1, <1>2, PosicionOcupada
  <2>2. \A f \in EnIndice : Posicion(f) \in Nat
    BY PosicionOrden
  <2>3. QED
    BY <1>1, <1>2, <1>3, <2>1, <2>2
<1>6. IsFiniteSet(Tramo)
  BY IndiceFinito, FS_Subset
<1>7. QED
  BY <1>1, <1>2, <1>3, <1>4, <1>5, <1>6

\* The cursor moves by the facturas that are given, as many as the keys or
\* fewer, and there is a next one if anything is left after it.
LEMMA Avance ==
  ASSUME TypeOK, NEW l \in 0 .. MaxPagina, NEW c \in 0 .. Cardinality(EnIndice)
  PROVE  LET k == Cardinality(Datos(Claves(c, l)))
         IN /\ k \in Nat /\ k <= FinPagina(c, l) - c
            /\ k = 0 => Datos(Claves(c, l)) = {}
            /\ Siguiente(c, l) = IF c < FinPagina(c, l) /\ c + k < Cardinality(EnIndice)
                                 THEN c + k ELSE SinCursor
<1> DEFINE D == Datos(Claves(c, l))
<1>1. D \subseteq Claves(c, l)
  BY DEF Datos
<1>2. IsFiniteSet(D) /\ Cardinality(D) <= FinPagina(c, l) - c
  BY <1>1, ClavesTramo, FS_Subset
<1>3. Cardinality(D) \in Nat
  BY <1>2, FS_CardinalityType
<1>4. Cardinality(D) = 0 => D = {}
  BY <1>2, FS_EmptySet
<1>5. Siguiente(c, l) = IF Claves(c, l) # {} /\ c + Cardinality(D) < Cardinality(EnIndice)
                        THEN c + Cardinality(D) ELSE SinCursor
  BY DEF Siguiente, SiguienteOffset
<1>6. QED
  BY <1>2, <1>3, <1>4, <1>5, ClavesTramo

\* With all the hashes in place the page at c holds the places from c to its
\* end, and the next cursor is that end if there is anything after it.
LEMMA Pagina ==
  ASSUME TypeOK, Fantasmas = {}, NEW l \in 0 .. MaxPagina, NEW c \in 0 .. Cardinality(EnIndice)
  PROVE  /\ FinPagina(c, l) \in c .. Cardinality(EnIndice)
         /\ Datos(Claves(c, l)) =
              {f \in EnIndice : c <= Posicion(f) /\ Posicion(f) < FinPagina(c, l)}
         /\ Siguiente(c, l) = IF c < FinPagina(c, l) /\ FinPagina(c, l) < Cardinality(EnIndice)
                              THEN FinPagina(c, l) ELSE SinCursor
<1>1. Datos(Claves(c, l)) = Claves(c, l)
  BY ClavesTramo DEF Datos, Fantasmas
<1>2. c + Cardinality(Claves(c, l)) = FinPagina(c, l)
  BY ClavesTramo, IndiceFinito
<1>3. QED
  BY <1>1, <1>2, ClavesTramo, Avance

\* What the steps from cursor to cursor close.
LEMMA CursoresSiguen ==
  ASSUME NEW sig, NEW C \in SUBSET DOMAIN sig
  PROVE  (\A e \in {<<c, sig[c]>> : c \in DOMAIN sig} : e[1] \in C => e[2] \in C \cup {SinCursor})
            <=> \A c \in C : sig[c] = SinCursor \/ sig[c] \in C
<1> DEFINE P == {<<c, sig[c]>> : c \in DOMAIN sig}
<1>1. ASSUME \A e \in P : e[1] \in C => e[2] \in C \cup {SinCursor}, NEW c \in C
      PROVE  sig[c] = SinCursor \/ sig[c] \in C
  <2>1. <<c, sig[c]>> \in P
    OBVIOUS
  <2> HIDE DEF P
  <2>2. <<c, sig[c]>>[1] \in C => <<c, sig[c]>>[2] \in C \cup {SinCursor}
    BY <1>1, <2>1
  <2>3. QED
    BY <2>2
<1>2. ASSUME \A c \in C : sig[c] = SinCursor \/ sig[c] \in C, NEW e \in P, e[1] \in C
      PROVE  e[2] \in C \cup {SinCursor}
  <2>1. PICK c \in DOMAIN sig : e = <<c, sig[c]>>
    OBVIOUS
  <2> HIDE DEF P
  <2>2. e[1] = c /\ e[2] = sig[c]
    BY <2>1
  <2>3. QED
    BY <1>2, <2>2
<1>3. QED
  BY <1>1, <1>2

\* The cursors a client is given start at 0 and lead to one another.
LEMMA CursoresCerrados ==
  ASSUME NEW sig, 0 \in DOMAIN sig,
         \A c \in DOMAIN sig : sig[c] = SinCursor \/ sig[c] \in DOMAIN sig
  PROVE  /\ Cursores(sig) \subseteq DOMAIN sig /\ 0 \in Cursores(sig)
         /\ \A c \in Cursores(sig) : sig[c] = SinCursor \/ sig[c] \in Cursores(sig)
<1>1. Cursores(sig) = {c \in DOMAIN sig : \A S \in SUBSET DOMAIN sig :
                         0 \in S /\ (\A d \in S : sig[d] = SinCursor \/ sig[d] \in S) => c \in S}
  BY CursoresSiguen DEF Cursores
<1>2. QED
  BY <1>1

\* They are in every set that starts at 0 and leads to itself.
LEMMA CursoresMinimo ==
  ASSUME NEW sig, NEW C \in SUBSET DOMAIN sig, 0 \in C,
         \A c \in C : sig[c] = SinCursor \/ sig[c] \in C
  PROVE  Cursores(sig) \subseteq C
<1>1. Cursores(sig) = {c \in DOMAIN sig : \A S \in SUBSET DOMAIN sig :
                         0 \in S /\ (\A d \in S : sig[d] = SinCursor \/ sig[d] \in S) => c \in S}
  BY CursoresSiguen DEF Cursores
<1>2. QED
  BY <1>1

\* No cursor falls inside the page of another: in the first page where one did,
\* the cursors outside it would lead to one another without it.
LEMMA SinSolape ==
  ASSUME NEW n \in Nat, NEW sig, DOMAIN sig = 0 .. n, NEW fin,
         \A c \in 0 .. n : /\ fin[c] \in c .. n
                          /\ sig[c] = IF c < fin[c] /\ fin[c] < n THEN fin[c] ELSE SinCursor
  PROVE  \A c, d \in Cursores(sig) : c < d => fin[c] <= d
<1> DEFINE dados == Cursores(sig)
           Malos == {c \in dados : \E d \in dados : c < d /\ ~(fin[c] <= d)}
<1>1. /\ dados \subseteq 0 .. n /\ 0 \in dados
      /\ \A c \in dados : sig[c] = SinCursor \/ sig[c] \in dados
  <2>1. 0 \in DOMAIN sig /\ \A c \in DOMAIN sig : sig[c] = SinCursor \/ sig[c] \in DOMAIN sig
    OBVIOUS
  <2>2. QED
    BY <2>1, CursoresCerrados
<1> HIDE DEF dados
<1>2. SUFFICES ASSUME Malos # {} PROVE FALSE
  <2>1. \A c, d \in dados : c < d => fin[c] <= d
    BY <1>2
  <2>2. QED
    BY <2>1 DEF dados
<1>3. PICK c \in Malos : \A m \in Malos : c <= m
  <2>1. \A m \in Malos : m \in Nat
    <3>1. \A m \in dados : m \in Nat
      BY <1>1
    <3>2. QED
      BY <3>1
  <2> HIDE DEF Malos
  <2>2. QED
    BY <1>2, <2>1, MinimoNat
<1>4. PICK x \in dados : c < x /\ ~(fin[c] <= x)
  BY <1>3
<1> DEFINE C == {d \in dados : d <= c \/ fin[c] <= d}
<1>5. ASSUME NEW d \in C
      PROVE  sig[d] = SinCursor \/ sig[d] \in C
  <2>1. CASE sig[d] = SinCursor
    BY <2>1
  <2>2. CASE sig[d] # SinCursor
    <3>1. sig[d] \in dados /\ sig[d] = fin[d] /\ d \in 0 .. n /\ c \in 0 .. n
          /\ fin[d] \in d .. n /\ fin[c] \in c .. n
      BY <1>1, <2>2
    <3>2. CASE d < c
      <4>1. d \notin Malos
        BY <1>3, <3>1, <3>2
      <4>2. fin[d] <= c
        BY <1>3, <3>1, <3>2, <4>1
      <4>3. QED
        BY <3>1, <4>2
    <3>3. CASE d = c
      BY <3>1, <3>3
    <3>4. CASE fin[c] <= d
      BY <3>1, <3>4
    <3>5. QED
      BY <3>1, <3>2, <3>3, <3>4
  <2>3. QED
    BY <2>1, <2>2
<1>6. c \in 0 .. n /\ x \in 0 .. n /\ fin[c] \in c .. n
  BY <1>1, <1>3, <1>4
<1>7. C \in SUBSET DOMAIN sig /\ 0 \in C
  <2>1. C \subseteq dados
    OBVIOUS
  <2>2. 0 \in C
    BY <1>1, <1>6
  <2> HIDE DEF C
  <2>3. QED
    BY <1>1, <2>1, <2>2
<1>8. dados \subseteq C
  <2> HIDE DEF C
  <2>1. Cursores(sig) \subseteq C
    BY <1>5, <1>7, CursoresMinimo
  <2>2. QED
    BY <2>1 DEF dados
<1>9. QED
  BY <1>4, <1>6, <1>8

\* While every member has its hash, the cursors lead a client through the
\* index in its order, always forward, and the page without next cursor is the
\* one after which there is nothing.
LEMMA RecorridoSinFantasmas ==
  ASSUME TypeOK, Fantasmas = {}, NEW l \in 0 .. MaxPagina
  PROVE  LET Offsets == 0 .. Cardinality(EnIndice)
             sig == [c \in Offsets |-> Siguiente(c, l)]
             pagina == [c \in Offsets |-> Datos(Claves(c, l))]
             dados == Cursores(sig)
         IN /\ \A c, d \in dados : c < d => \A f \in pagina[c], g \in pagina[d] : Antes(f, g)
            /\ \A c \in dados :
                  /\ sig[c] # SinCursor => sig[c] > c
                  /\ sig[c] = SinCursor <=>
                        \A f \in EnIndice : f \in pagina[c] \/ Posicion(f) < c
<1> DEFINE n == Cardinality(EnIndice)
           sig == [c \in 0 .. n |-> Siguiente(c, l)]
           pagina == [c \in 0 .. n |-> Datos(Claves(c, l))]
           dados == Cursores(sig)
           fin == [c \in 0 .. n |-> FinPagina(c, l)]
<1>1. n \in Nat /\ l \in Nat /\ SinCursor \notin Nat
  BY IndiceFinito DEF SinCursor
<1>2. \A c \in 0 .. n :
         /\ fin[c] \in c .. n
         /\ pagina[c] = {f \in EnIndice : c <= Posicion(f) /\ Posicion(f) < fin[c]}
         /\ sig[c] = IF c < fin[c] /\ fin[c] < n THEN fin[c] ELSE SinCursor
  BY Pagina
<1>3. \A c \in 0 .. n : fin[c] = IF c = 0 /\ l = 0 THEN n ELSE IF c + l < n THEN c + l ELSE n
  BY DEF FinPagina
<1>4. \A f \in EnIndice : Posicion(f) \in Nat /\ Posicion(f) < n
  BY PosicionOrden
<1>5. DOMAIN sig = 0 .. n
  OBVIOUS
<1>6. \A i \in Nat : i < n => \E f \in EnIndice : Posicion(f) = i
  BY PosicionOcupada
<1> HIDE DEF sig, pagina, fin, n
<1>7. /\ dados \subseteq 0 .. n /\ 0 \in dados
      /\ \A c \in dados : sig[c] = SinCursor \/ sig[c] \in dados
  <2>1. 0 \in DOMAIN sig /\ \A c \in DOMAIN sig : sig[c] = SinCursor \/ sig[c] \in DOMAIN sig
    BY <1>1, <1>2, <1>5
  <2>2. QED
    BY <1>5, <2>1, CursoresCerrados
\* A cursor that is given is 0 or has something after it.
<1>8. \A c \in dados : (c = 0 \/ c < n) /\ (l = 0 => c = 0)
  <2> DEFINE C == {c \in 0 .. n : (c = 0 \/ c < n) /\ (l = 0 => c = 0)}
  <2>1. 0 \in C /\ C \in SUBSET DOMAIN sig
    BY <1>1, <1>5
  <2>2. \A c \in C : sig[c] = SinCursor \/ sig[c] \in C
    BY <1>1, <1>2, <1>3
  <2>3. Cursores(sig) \subseteq C
    <3> HIDE DEF C
    <3>1. QED
      BY <2>1, <2>2, CursoresMinimo
  <2>4. QED
    BY <2>3
<1>9. \A c, d \in dados : c < d => fin[c] <= d
  BY <1>1, <1>2, <1>5, SinSolape
<1> HIDE DEF dados
<1>10. ASSUME NEW f \in EnIndice
       PROVE  \E c \in dados : f \in pagina[c]
  <2> DEFINE T == {Posicion(f) - c : c \in {d \in dados : d <= Posicion(f)}}
  <2>1. \A c \in dados : c \in Nat
    BY <1>1, <1>7
  <2>2. \A t \in T : t \in Nat
    BY <1>4, <2>1
  <2>3. T # {}
    BY <1>4, <1>7
  <2>4. PICK t \in T : \A u \in T : t <= u
    <3> HIDE DEF T
    <3>1. QED
      BY <2>2, <2>3, MinimoNat
  <2>5. PICK c \in dados : c <= Posicion(f) /\ t = Posicion(f) - c
    OBVIOUS
  <2>6. ASSUME ~(Posicion(f) < fin[c])
        PROVE  FALSE
    <3>1. c \in 0 .. n /\ fin[c] \in c .. n /\ fin[c] <= Posicion(f) /\ fin[c] < n /\ c < n
      BY <1>1, <1>2, <1>4, <1>7, <2>5, <2>6
    <3>2. c < fin[c]
      BY <1>1, <1>3, <1>8, <3>1
    <3>3. fin[c] \in dados
      BY <1>1, <1>2, <1>7, <3>1, <3>2
    <3>4. Posicion(f) - fin[c] \in T
      BY <3>1, <3>3
    <3>5. t <= Posicion(f) - fin[c]
      BY <2>4, <3>4
    <3>6. QED
      BY <1>4, <2>5, <3>1, <3>2, <3>5
  <2>7. QED
    BY <1>2, <1>7, <2>5, <2>6
<1>11. ASSUME NEW c \in dados, NEW d \in dados, c < d, NEW f \in pagina[c], NEW g \in pagina[d]
       PROVE  Antes(f, g)
  <2>1. /\ f \in EnIndice /\ g \in EnIndice
        /\ Posicion(f) < fin[c] /\ d <= Posicion(g) /\ fin[c] <= d
    BY <1>2, <1>7, <1>9, <1>11
  <2>2. c \in 0 .. n /\ d \in 0 .. n /\ fin[c] \in c .. n
    BY <1>2, <1>7
  <2>3. Posicion(f) < Posicion(g)
    BY <1>1, <1>4, <2>1, <2>2
  <2>4. QED
    BY <2>1, <2>3, PosicionOrden
<1>12. ASSUME NEW c \in dados
       PROVE  /\ sig[c] # SinCursor => sig[c] > c
              /\ sig[c] = SinCursor <=>
                    \A f \in EnIndice : f \in pagina[c] \/ Posicion(f) < c
  <2>1. c \in Nat /\ c <= n /\ fin[c] \in Nat /\ c <= fin[c] /\ fin[c] <= n
        /\ (c = 0 \/ c < n) /\ (l = 0 => c = 0)
        /\ sig[c] = IF c < fin[c] /\ fin[c] < n THEN fin[c] ELSE SinCursor
    BY <1>1, <1>2, <1>7, <1>8
  <2>2. pagina[c] = {f \in EnIndice : c <= Posicion(f) /\ Posicion(f) < fin[c]}
    BY <1>2, <1>7
  <2>3. fin[c] < n => c < fin[c]
    BY <1>1, <1>3, <1>7, <2>1
  <2>4. sig[c] = SinCursor <=> fin[c] = n
    BY <1>1, <2>1, <2>3
  <2>5. fin[c] = n => \A f \in EnIndice : f \in pagina[c] \/ Posicion(f) < c
    BY <1>4, <2>1, <2>2
  <2>6. ASSUME fin[c] # n
        PROVE  ~ \A f \in EnIndice : f \in pagina[c] \/ Posicion(f) < c
    <3>1. PICK f \in EnIndice : Posicion(f) = fin[c]
      BY <1>1, <1>6, <2>1, <2>6
    <3>2. QED
      BY <2>1, <2>2, <3>1
  <2>7. QED
    BY <1>1, <2>1, <2>3, <2>4, <2>5, <2>6
<1>13. QED
  BY <1>11, <1>12 DEF dados, sig, pagina, n

\* Whether or not hashes are missing, nobody who has one is passed over: the
\* last cursor before its place either has it in its page or is its own next.
LEMMA NadieSalta ==
  ASSUME TypeOK, NEW l \in 0 .. MaxPagina, NEW f \in Datos(EnIndice)
  PROVE  LET sig == [c \in 0 .. Cardinality(EnIndice) |-> Siguiente(c, l)]
         IN \E c \in Cursores(sig) :
               \/ f \in Datos(Claves(c, l))
               \/ sig[c] = c /\ Datos(Claves(c, l)) = {} /\ c <= Posicion(f)
<1> DEFINE n == Cardinality(EnIndice)
           sig == [c \in 0 .. n |-> Siguiente(c, l)]
           dados == Cursores(sig)
           k == [c \in 0 .. n |-> Cardinality(Datos(Claves(c, l)))]
           i == Posicion(f)
<1>1. n \in Nat /\ l \in Nat /\ SinCursor \notin Nat /\ f \in EnIndice /\ ConHash(f)
  BY IndiceFinito DEF SinCursor, Datos
<1>2. i \in Nat /\ i < n
  BY <1>1, PosicionOrden
<1>3. \A c \in 0 .. n :
         /\ FinPagina(c, l) \in c .. n
         /\ k[c] \in Nat /\ k[c] <= FinPagina(c, l) - c
         /\ k[c] = 0 => Datos(Claves(c, l)) = {}
         /\ sig[c] = IF c < FinPagina(c, l) /\ c + k[c] < n THEN c + k[c] ELSE SinCursor
  BY ClavesTramo, Avance
<1>4. \A c \in 0 .. n : c <= i /\ i < FinPagina(c, l) => f \in Datos(Claves(c, l))
  BY <1>1, ClavesTramo DEF Datos
<1>5. \A c \in 0 .. n :
         FinPagina(c, l) = IF c = 0 /\ l = 0 THEN n ELSE IF c + l < n THEN c + l ELSE n
  BY DEF FinPagina
<1>6. DOMAIN sig = 0 .. n
  OBVIOUS
<1>7. QED
  <2> HIDE DEF n, sig, k, i
  <2>1. /\ dados \subseteq 0 .. n /\ 0 \in dados
        /\ \A c \in dados : sig[c] = SinCursor \/ sig[c] \in dados
    <3>1. 0 \in DOMAIN sig
      BY <1>1, <1>6
    <3>2. \A c \in 0 .. n : sig[c] = SinCursor \/ sig[c] \in 0 .. n
      BY <1>1, <1>3
    <3>3. QED
      BY <1>6, <3>1, <3>2, CursoresCerrados
  <2> HIDE DEF dados
  <2>2. CASE l = 0
    <3>1. FinPagina(0, l) = n
      BY <1>1, <1>5, <2>2
    <3>2. f \in Datos(Claves(0, l))
      BY <1>1, <1>2, <1>4, <3>1
    <3>3. QED
      BY <2>1, <3>2 DEF dados, sig, n
  <2>3. CASE l > 0
    <3> DEFINE T == {i - c : c \in {d \in dados : d <= i}}
    <3>1. \A t \in T : t \in Nat
      BY <1>1, <1>2, <2>1
    <3>2. T # {}
      BY <1>2, <2>1
    <3>3. PICK t \in T : \A u \in T : t <= u
      <4> HIDE DEF T
      <4>1. QED
        BY <3>1, <3>2, MinimoNat
    <3>4. PICK c \in dados : c <= i /\ t = i - c
      OBVIOUS
    <3>5. CASE i < FinPagina(c, l)
      <4>1. f \in Datos(Claves(c, l))
        BY <1>4, <2>1, <3>4, <3>5
      <4>2. QED
        BY <3>4, <4>1 DEF dados, sig, n
    <3>6. CASE ~(i < FinPagina(c, l))
      <4>1. /\ c \in Nat /\ c <= i /\ FinPagina(c, l) = c + l /\ c + l <= i
            /\ k[c] \in Nat /\ k[c] <= l /\ sig[c] = c + k[c]
        <5> DEFINE e == FinPagina(c, l)
        <5>1. c \in Nat /\ c \in 0 .. n /\ c <= i
          BY <1>1, <2>1, <3>4
        <5>2. /\ e \in c .. n /\ k[c] \in Nat /\ k[c] <= e - c
              /\ sig[c] = IF c < e /\ c + k[c] < n THEN c + k[c] ELSE SinCursor
              /\ e = IF c = 0 /\ l = 0 THEN n ELSE IF c + l < n THEN c + l ELSE n
          BY <1>3, <1>5, <5>1
        <5>3. e <= i /\ e \in Nat
          BY <1>1, <1>2, <3>6, <5>1, <5>2
        <5> HIDE DEF e
        <5>4. e = c + l
          BY <1>1, <1>2, <2>3, <5>1, <5>2, <5>3
        <5>5. c < e /\ c + k[c] < n
          BY <1>1, <1>2, <2>3, <5>1, <5>2, <5>3, <5>4
        <5>6. QED
          BY <1>1, <5>1, <5>2, <5>3, <5>4, <5>5 DEF e
      <4>2. c + k[c] \in dados /\ c + k[c] <= i
        <5>1. sig[c] # SinCursor /\ sig[c] \in dados
          BY <1>1, <2>1, <3>4, <4>1
        <5>2. QED
          BY <1>1, <1>2, <4>1, <5>1
      <4>3. t <= i - (c + k[c])
        BY <3>3, <4>2
      <4>4. k[c] = 0
        BY <1>2, <3>4, <4>1, <4>3
      <4>5. sig[c] = c /\ Datos(Claves(c, l)) = {} /\ c <= i
        BY <1>3, <2>1, <4>1, <4>4
      <4>6. QED
        BY <3>4, <4>5 DEF dados, sig, n, i
    <3>7. QED
      BY <3>5, <3>6
  <2>4. QED
    BY <1>1, <2>2, <2>3

-----------------------------------------------------------------------------
(***************************************************************************)
(* The theorems of the marketplace cache.                                  *)
(***************************************************************************)

\* Every variable of the cache keeps its type: in particular no key expires
\* later than the time to live from the clock, unless it never does
\* (facturaCache.adapter.ts:61-64).
THEOREM Tipos == Spec => []TypeOK
<1>1. IInv => TypeOK
  BY DEF IInv
<1>2. QED
  BY <1>1, Invariante, PTL

\* A factura that left PUBLICADA longer ago than the time to live and the delay
\* of a request is in no page, however many requests fill the cache at once and
\* whatever they had read; a pipeline that was cut keeps one factura at most
\* from expiring (facturaCache.adapter.ts:25-66).
THEOREM RetiradaDesapareceSiempre == Spec => []RetiradaDesaparece
<1>1. ASSUME IInv
      PROVE  RetiradaDesaparece
  <2>1. TypeOK /\ Vencimientos /\ UnaEterna /\ Retiradas
    BY <1>1 DEF IInv
  <2>2. ASSUME NEW f \in Factura, ConHash(f), f \notin publicada,
               cortada => venceHash[f] # Nunca
        PROVE  reloj - cambio[f] < Ttl + MaxDemora
    <3>1. venceHash[f] \notin {0, Nunca} /\ venceHash[f] \in reloj + 1 .. reloj + Ttl
      BY <2>1, <2>2, Cotas DEF ConHash, Vencimientos, Vence
    <3>2. cambio[f] >= venceHash[f] - Ttl - MaxDemora
      BY <2>1, <2>2, <3>1 DEF Retiradas
    <3>3. QED
      BY <2>1, <3>1, <3>2, Cotas
  <2>3. Cardinality({f \in Factura : ConHash(f) /\ venceHash[f] = Nunca}) <= 1
    <3> DEFINE E == {f \in Factura : ConHash(f) /\ venceHash[f] = Nunca}
    <3>1. CASE E = {}
      BY <3>1, FS_EmptySet
    <3>2. ASSUME NEW f \in E
          PROVE  Cardinality(E) <= 1
      <4>1. E = {f}
        BY <2>1 DEF UnaEterna
      <4>2. Cardinality({f}) = 1
        BY FS_Singleton
      <4>3. QED
        BY <4>1, <4>2
    <3>3. QED
      BY <3>1, <3>2
  <2>4. QED
    BY <2>2, <2>3 DEF RetiradaDesaparece
<1>2. QED
  BY <1>1, Invariante, PTL

\* A factura that has been PUBLICADA for that long is in the index with its hash
\* whenever there is an index, if no pipeline was cut: the index cannot be older
\* than its own time to live (facturaCache.adapter.ts:61-64).
THEOREM PublicadaApareceSiempre == Spec => []PublicadaAparece
<1>1. ASSUME IInv
      PROVE  PublicadaAparece
  <2>1. TypeOK /\ Vencimientos /\ Aparecen
    BY <1>1 DEF IInv
  <2>2. ASSUME ~cortada, EnIndice # {}, NEW f \in Factura, f \in publicada,
               reloj - cambio[f] >= Ttl + MaxDemora
        PROVE  f \in EnIndice /\ ConHash(f)
    <3>1. venceIndice # 0 /\ venceIndice \in reloj + 1 .. reloj + Ttl
      BY <2>1, <2>2 DEF Vencimientos, Vence
    <3>2. cambio[f] < venceIndice - Ttl - MaxDemora
      BY <2>1, <2>2, <3>1, Cotas
    <3>3. puntaje[f] > 0 /\ venceHash[f] >= venceIndice
      BY <2>1, <2>2, <3>1, <3>2 DEF Aparecen
    <3>4. QED
      BY <2>1, <3>1, <3>3, Cotas DEF EnIndice, ConHash
  <2>3. QED
    BY <2>2 DEF PublicadaAparece
<1>2. QED
  BY <1>1, Invariante, PTL

\* The cursors lead a client to every factura of the index that has its hash,
\* unless a page without a hash left stops it before; no page is longer than
\* the limit but the one of limit 0; and while every member has its hash, each
\* factura comes once, in order, always forward, and the walk stops exactly at
\* the end.  For every index and every page size up to the cap
\* (facturaCache.adapter.ts:106-161).
THEOREM RecorridoFielSiempre == Spec => []RecorridoFiel
<1>1. ASSUME TypeOK
      PROVE  RecorridoFiel
  <2> SUFFICES ASSUME NEW l \in 0 .. MaxPagina
      PROVE  LET Offsets == 0 .. Cardinality(EnIndice)
                 dados == Cursores([c \in Offsets |-> Siguiente(c, l)])
                 vistas == {[desde |-> c, datos |-> Datos(Claves(c, l)),
                             sig |-> Siguiente(c, l)] : c \in dados}
             IN /\ \A f \in Datos(EnIndice) :
                      \E x \in vistas :
                         \/ f \in x.datos
                         \/ x.sig = x.desde /\ x.datos = {} /\ x.desde <= Posicion(f)
                /\ \A x \in vistas : Cardinality(x.datos) > l => x.desde = 0 /\ l = 0
                /\ Fantasmas = {} =>
                     /\ \A x, y \in vistas :
                           x.desde < y.desde => \A f \in x.datos, g \in y.datos : Antes(f, g)
                     /\ \A x \in vistas :
                           /\ x.sig # SinCursor => x.sig > x.desde
                           /\ x.sig = SinCursor <=>
                                 \A f \in EnIndice : f \in x.datos \/ Posicion(f) < x.desde
    BY DEF RecorridoFiel
  <2> DEFINE n == Cardinality(EnIndice)
             sig == [c \in 0 .. n |-> Siguiente(c, l)]
             pagina == [c \in 0 .. n |-> Datos(Claves(c, l))]
             dados == Cursores(sig)
             Vista(c) == [desde |-> c, datos |-> Datos(Claves(c, l)), sig |-> Siguiente(c, l)]
             vistas == {Vista(c) : c \in dados}
  <2>1. dados \subseteq 0 .. n
    BY DEF Cursores
  <2>2. \A c \in dados : /\ Vista(c).desde = c /\ Vista(c).datos = pagina[c]
                         /\ Vista(c).sig = sig[c]
    BY <2>1
  <2>3. ASSUME NEW f \in Datos(EnIndice)
        PROVE  \E x \in vistas : \/ f \in x.datos
                                 \/ x.sig = x.desde /\ x.datos = {} /\ x.desde <= Posicion(f)
    <3>1. PICK c \in dados : \/ f \in Datos(Claves(c, l))
                             \/ sig[c] = c /\ Datos(Claves(c, l)) = {} /\ c <= Posicion(f)
      BY <1>1, NadieSalta
    <3>2. Vista(c) \in vistas
      OBVIOUS
    <3>3. pagina[c] = Datos(Claves(c, l))
      BY <2>1
    <3> HIDE DEF vistas, Vista, dados, sig, pagina
    <3>4. QED
      BY <2>2, <3>1, <3>2, <3>3
  <2>4. ASSUME NEW c \in dados, Cardinality(pagina[c]) > l  PROVE c = 0 /\ l = 0
    <3>1. /\ pagina[c] = Datos(Claves(c, l)) /\ c \in 0 .. n
          /\ n \in Nat /\ l \in Nat
      BY <2>1, IndiceFinito
    <3>2. Cardinality(pagina[c]) \in Nat /\ Cardinality(pagina[c]) <= FinPagina(c, l) - c
      BY <1>1, <3>1, Avance
    <3>3. FinPagina(c, l) \in Nat /\ FinPagina(c, l) - c > l
      BY <1>1, <2>4, <3>1, <3>2, ClavesTramo
    <3> HIDE DEF pagina, dados
    <3>4. QED
      BY <3>1, <3>3 DEF FinPagina
  <2>5. ASSUME Fantasmas = {}
        PROVE  /\ \A c, d \in dados :
                     c < d => \A f \in pagina[c], g \in pagina[d] : Antes(f, g)
               /\ \A c \in dados :
                     /\ sig[c] # SinCursor => sig[c] > c
                     /\ sig[c] = SinCursor <=>
                           \A f \in EnIndice : f \in pagina[c] \/ Posicion(f) < c
    BY <1>1, <2>5, RecorridoSinFantasmas
  <2>6. \A x \in vistas : \E c \in dados : /\ x.desde = c /\ x.datos = pagina[c]
                                           /\ x.sig = sig[c]
    <3> HIDE DEF dados, sig, pagina, Vista
    <3>1. QED
      BY <2>2
  <2>7. /\ \A f \in Datos(EnIndice) :
              \E x \in vistas : \/ f \in x.datos
                                \/ x.sig = x.desde /\ x.datos = {} /\ x.desde <= Posicion(f)
        /\ \A x \in vistas : Cardinality(x.datos) > l => x.desde = 0 /\ l = 0
        /\ Fantasmas = {} =>
             /\ \A x, y \in vistas :
                   x.desde < y.desde => \A f \in x.datos, g \in y.datos : Antes(f, g)
             /\ \A x \in vistas :
                   /\ x.sig # SinCursor => x.sig > x.desde
                   /\ x.sig = SinCursor <=>
                         \A f \in EnIndice : f \in x.datos \/ Posicion(f) < x.desde
    <3> HIDE DEF vistas, dados, sig, pagina
    <3>1. \A f \in Datos(EnIndice) :
             \E x \in vistas : \/ f \in x.datos
                               \/ x.sig = x.desde /\ x.datos = {} /\ x.desde <= Posicion(f)
      BY <2>3
    <3>2. \A x \in vistas : Cardinality(x.datos) > l => x.desde = 0 /\ l = 0
      BY <2>4, <2>6
    <3>3. ASSUME Fantasmas = {}
          PROVE  \A x, y \in vistas :
                    x.desde < y.desde => \A f \in x.datos, g \in y.datos : Antes(f, g)
      BY <2>5, <2>6, <3>3
    <3>4. ASSUME Fantasmas = {}, NEW x \in vistas
          PROVE  /\ x.sig # SinCursor => x.sig > x.desde
                 /\ x.sig = SinCursor <=>
                       \A f \in EnIndice : f \in x.datos \/ Posicion(f) < x.desde
      <4>1. PICK c \in dados : x.desde = c /\ x.datos = pagina[c] /\ x.sig = sig[c]
        BY <2>6
      <4>2. QED
        BY <2>5, <3>4, <4>1
    <3>5. QED
      BY <3>1, <3>2, <3>3, <3>4
  <2>8. QED
    BY <2>7
<1>2. QED
  BY <1>1, Tipos, PTL

-----------------------------------------------------------------------------
(***************************************************************************)
(* The publisher of events.                                                *)
(***************************************************************************)

\* Everything that was handed to the channel and not lost, the oldest first.
Recorrido == broker \o (escritos \o cola)

\* A message that is anywhere on its way has been published.
Conocidos ==
    /\ \A i \in DOMAIN cola : destino[cola[i]] # "sin publicar"
    /\ \A i \in DOMAIN escritos : destino[escritos[i]] # "sin publicar"
    /\ \A i \in DOMAIN broker : destino[broker[i]] # "sin publicar"

\* No notification arrives twice, nor is one still on its way that has arrived:
\* publish writes once what it was handed (queue-client.adapter.ts:59-70).
UnaVez == \A i, j \in DOMAIN Recorrido : Recorrido[i] = Recorrido[j] => i = j

\* The invariant of the publisher.
IInvCola == Cola!TypeOK /\ Conocidos /\ UnaVez

-----------------------------------------------------------------------------
(***************************************************************************)
(* The sequences of the road.                                              *)
(***************************************************************************)

\* The empty sequence has no positions.
LEMMA SinPosiciones == \A s : s = <<>> => DOMAIN s = {}
<1>1. <<>> \in Seq({}) /\ Len(<<>>) = 0
  BY EmptySeq
<1>2. DOMAIN <<>> = 1..0
  BY <1>1, LenProperties
<1>3. QED
  BY <1>2

\* Taking the first element away leaves the tail.
LEMMA SinPrimero ==
  ASSUME NEW S, NEW s \in Seq(S), s # <<>>
  PROVE  SubSeq(s, 1, 0) \o SubSeq(s, 2, Len(s)) = Tail(s)
<1>1. SubSeq(s, 1, 0) = <<>>
  BY SubSeqEmpty
<1>2. SubSeq(s, 2, Len(s)) = Tail(s) /\ Tail(s) \in Seq(S)
  BY TailIsSubSeq, HeadTailProperties
<1>3. QED
  BY <1>1, <1>2, ConcatEmptySeq

\* A sequence is its head and its tail.
LEMMA CabezaYCola ==
  ASSUME NEW S, NEW s \in Seq(S), s # <<>>
  PROVE  /\ s = <<Head(s)>> \o Tail(s)
         /\ s[1] = Head(s) /\ 1 \in DOMAIN s
         /\ Head(s) \in S /\ Tail(s) \in Seq(S)
<1>1. Head(s) = s[1] /\ 1 \in DOMAIN s /\ Len(s) \in Nat \ {0}
  BY EmptySeq, LenProperties
<1>2. SubSeq(s, 1, Len(s)) = <<s[1]>> \o SubSeq(s, 2, Len(s))
  BY <1>1, SubSeqRecursiveFirst
<1>3. QED
  BY <1>1, <1>2, SubSeqFull, TailIsSubSeq, HeadTailProperties

\* The head of a sequence changes places with the end of the one before it, and
\* the whole does not change.
LEMMA PasaElPrimero ==
  ASSUME NEW S, NEW s \in Seq(S), NEW t \in Seq(S), t # <<>>
  PROVE  /\ Append(s, Head(t)) \in Seq(S) /\ Tail(t) \in Seq(S)
         /\ Append(s, Head(t)) \o Tail(t) = s \o t
<1>1. t = <<Head(t)>> \o Tail(t) /\ Head(t) \in S /\ Tail(t) \in Seq(S)
  BY CabezaYCola
<1>2. Append(s, Head(t)) = s \o <<Head(t)>> /\ Append(s, Head(t)) \in Seq(S)
  BY <1>1, AppendIsConcat, AppendProperties
<1>3. (s \o <<Head(t)>>) \o Tail(t) = s \o (<<Head(t)>> \o Tail(t))
  BY <1>1, ConcatAssociative
<1>4. QED
  BY <1>1, <1>2, <1>3

\* Appending to the second of two sequences appends to both together.
LEMMA AlFinal ==
  ASSUME NEW S, NEW s \in Seq(S), NEW t \in Seq(S), NEW e \in S
  PROVE  s \o Append(t, e) = Append(s \o t, e)
<1>1. Append(t, e) = t \o <<e>> /\ Append(s \o t, e) = (s \o t) \o <<e>>
  BY AppendIsConcat, ConcatProperties
<1>2. QED
  BY <1>1, ConcatAssociative

\* What is taken from the front of two sequences is taken from the first.
LEMMA DelFrente ==
  ASSUME NEW S, NEW s \in Seq(S), NEW t \in Seq(S), s # <<>>
  PROVE  /\ s \o t # <<>>
         /\ Head(s \o t) = Head(s)
         /\ Tail(s \o t) = Tail(s) \o t
<1>1. /\ s = <<Head(s)>> \o Tail(s)
      /\ s[1] = Head(s) /\ Head(s) \in S /\ Tail(s) \in Seq(S)
  BY CabezaYCola
<1>2. s \o t = <<Head(s)>> \o (Tail(s) \o t)
  BY <1>1, ConcatAssociative
<1>3. s \o t \in Seq(S) /\ s \o t # <<>> /\ (s \o t)[1] = s[1]
  BY ConcatProperties, EmptySeq, LenProperties
<1>4. s \o t = <<Head(s \o t)>> \o Tail(s \o t) /\ (s \o t)[1] = Head(s \o t)
      /\ Tail(s \o t) \in Seq(S)
  BY <1>3, CabezaYCola
<1>5. <<Head(s)>> \in Seq(S) /\ Tail(s) \o t \in Seq(S)
  BY <1>1, ConcatProperties
<1>6. Tail(s \o t) = Tail(s) \o t
  BY <1>1, <1>2, <1>3, <1>4, <1>5, ConcatSimplifications
<1>7. QED
  BY <1>1, <1>3, <1>4, <1>6

\* What t holds is in a, in b or in c.
Repartida(t, a, b, c) ==
    \A i \in DOMAIN t : \/ \E j \in DOMAIN a : t[i] = a[j]
                        \/ \E j \in DOMAIN b : t[i] = b[j]
                        \/ \E j \in DOMAIN c : t[i] = c[j]

\* The elements of three sequences in a row.
LEMMA Tramos ==
  ASSUME NEW S, NEW a \in Seq(S), NEW b \in Seq(S), NEW c \in Seq(S)
  PROVE  Repartida(a \o (b \o c), a, b, c)
<1>1. /\ b \o c \in Seq(S)
      /\ Len(b \o c) = Len(b) + Len(c)
      /\ \A i \in 1..Len(b) + Len(c) :
            (b \o c)[i] = IF i <= Len(b) THEN b[i] ELSE c[i - Len(b)]
  BY ConcatProperties
<1>2. /\ a \o (b \o c) \in Seq(S)
      /\ Len(a \o (b \o c)) = Len(a) + Len(b \o c)
      /\ \A i \in 1..Len(a) + Len(b \o c) :
            (a \o (b \o c))[i] = IF i <= Len(a) THEN a[i] ELSE (b \o c)[i - Len(a)]
  BY <1>1, ConcatProperties
<1>3. Len(a) \in Nat /\ Len(b) \in Nat /\ Len(c) \in Nat
      /\ DOMAIN a = 1..Len(a) /\ DOMAIN b = 1..Len(b) /\ DOMAIN c = 1..Len(c)
      /\ DOMAIN (a \o (b \o c)) = 1..Len(a \o (b \o c))
  BY <1>2, LenProperties
<1>4. ASSUME NEW i \in DOMAIN (a \o (b \o c))
      PROVE  \/ \E j \in DOMAIN a : (a \o (b \o c))[i] = a[j]
             \/ \E j \in DOMAIN b : (a \o (b \o c))[i] = b[j]
             \/ \E j \in DOMAIN c : (a \o (b \o c))[i] = c[j]
  <2>1. i \in 1..(Len(a) + (Len(b) + Len(c)))
    BY <1>1, <1>2, <1>3
  <2>2. CASE i <= Len(a)
    BY <1>1, <1>2, <1>3, <2>1, <2>2
  <2>3. CASE i > Len(a) /\ i - Len(a) <= Len(b)
    <3>1. i - Len(a) \in DOMAIN b /\ i - Len(a) \in 1..Len(b) + Len(c)
      BY <1>3, <2>1, <2>3
    <3>2. (a \o (b \o c))[i] = b[i - Len(a)]
      BY <1>1, <1>2, <1>3, <2>1, <2>3, <3>1
    <3>3. QED
      BY <3>1, <3>2
  <2>4. CASE i > Len(a) /\ i - Len(a) > Len(b)
    <3>1. (i - Len(a)) - Len(b) \in DOMAIN c /\ i - Len(a) \in 1..Len(b) + Len(c)
      BY <1>3, <2>1, <2>4
    <3>2. (a \o (b \o c))[i] = c[(i - Len(a)) - Len(b)]
      BY <1>1, <1>2, <1>3, <2>1, <2>4, <3>1
    <3>3. QED
      BY <3>1, <3>2
  <2>5. QED
    BY <1>3, <2>1, <2>2, <2>3, <2>4
<1>5. QED
  BY <1>4 DEF Repartida
-----------------------------------------------------------------------------
(***************************************************************************)
(* What a step does to the road.                                           *)
(***************************************************************************)

\* A message enters the road.
Entra(m) ==
    /\ m \in Mensaje /\ destino[m] = "sin publicar" /\ canal = "abierto"
    /\ destino' = [destino EXCEPT ![m] = "espera"]
    /\ cola' = Append(cola, m)
    /\ UNCHANGED <<escritos, broker>>

\* The first that waits is written.
SeEscribe ==
    /\ cola # <<>>
    /\ destino' = [destino EXCEPT ![Head(cola)] = "escrito"]
    /\ cola' = Tail(cola)
    /\ escritos' = Append(escritos, Head(cola))
    /\ UNCHANGED broker

\* The first that was written arrives.
Llega ==
    /\ escritos # <<>>
    /\ broker' = Append(broker, Head(escritos))
    /\ escritos' = Tail(escritos)
    /\ UNCHANGED <<cola, destino>>

\* The road is lost, or nothing on it moves; nobody forgets a publication.
SeCorta == cola' = <<>> /\ escritos' = <<>> /\ UNCHANGED broker
Quieta == UNCHANGED <<cola, escritos, broker>>
Recuerda == \A m \in Mensaje : destino[m] # "sin publicar" => destino'[m] # "sin publicar"

\* What a rejection does: the road up to the channel is empty.
LEMMA RechazaEfecto ==
  ASSUME Cola!TypeOK, NEW M \in SUBSET Mensaje, Cola!Rechaza(M), UNCHANGED broker
  PROVE  /\ SeCorta /\ Recuerda
         /\ proceso' = "abajo" /\ canal' = "ninguno"
         /\ destino' \in [Mensaje -> Cola!Destino]
<1>1. destino \in [Mensaje -> Cola!Destino] /\ "rechazado" \in Cola!Destino
  BY DEF Cola!TypeOK, Cola!Destino
<1>2. destino' \in [Mensaje -> Cola!Destino]
  BY <1>1 DEF Cola!Rechaza
<1>3. \A m \in Mensaje : destino'[m] = IF m \in M THEN "rechazado" ELSE destino[m]
  BY DEF Cola!Rechaza
<1>4. QED
  BY <1>2, <1>3 DEF Cola!Rechaza, SeCorta, Recuerda

\* What each step does to the road.
LEMMA Efecto ==
  ASSUME Cola!ConstantesOK, Cola!TypeOK, Cola!Next
  PROVE  /\ \/ \E m \in Mensaje : Entra(m)
            \/ SeEscribe
            \/ Llega
            \/ SeCorta /\ Recuerda
            \/ Quieta /\ Recuerda
         /\ proceso' \in {"arriba", "abajo"}
         /\ canal' \in {"ninguno", "abierto", "cerrado"}
         /\ destino' \in [Mensaje -> Cola!Destino]
         /\ arranques' \in 1..MaxArranques /\ fallos' \in 0..MaxFallos
<1> DEFINE Resto == /\ proceso' \in {"arriba", "abajo"}
                    /\ canal' \in {"ninguno", "abierto", "cerrado"}
                    /\ destino' \in [Mensaje -> Cola!Destino]
                    /\ arranques' \in 1..MaxArranques /\ fallos' \in 0..MaxFallos
           Camino == \/ \E m \in Mensaje : Entra(m)
                     \/ SeEscribe
                     \/ Llega
                     \/ SeCorta /\ Recuerda
                     \/ Quieta /\ Recuerda
<1>1. /\ proceso \in {"arriba", "abajo"}
      /\ canal \in {"ninguno", "abierto", "cerrado"}
      /\ cola \in Seq(Mensaje) /\ escritos \in Seq(Mensaje) /\ broker \in Seq(Mensaje)
      /\ destino \in [Mensaje -> Cola!Destino]
      /\ arranques \in 1..MaxArranques /\ fallos \in 0..MaxFallos
  BY DEF Cola!TypeOK
<1>2. ASSUME NEW m \in Mensaje, Cola!Publicar(m)
      PROVE  Resto /\ Camino
  <2>1. UNCHANGED <<broker, arranques, fallos>> /\ destino[m] = "sin publicar"
    BY <1>2 DEF Cola!Publicar
  <2>2. CASE /\ canal = "ninguno"
             /\ destino' = [destino EXCEPT ![m] = "saltado"]
             /\ UNCHANGED <<proceso, canal, cola, escritos>>
    <3>1. Quieta
      BY <2>1, <2>2 DEF Quieta
    <3>2. Recuerda /\ destino' \in [Mensaje -> Cola!Destino]
      BY <1>1, <2>2 DEF Recuerda, Cola!Destino
    <3>3. QED
      BY <1>1, <2>1, <2>2, <3>1, <3>2
  <2>3. CASE /\ canal = "abierto"
             /\ destino' = [destino EXCEPT ![m] = "espera"]
             /\ cola' = Append(cola, m)
             /\ UNCHANGED <<proceso, canal, escritos>>
    <3>1. Entra(m)
      BY <2>1, <2>3 DEF Entra
    <3>2. destino' \in [Mensaje -> Cola!Destino]
      BY <1>1, <2>3 DEF Cola!Destino
    <3>3. QED
      BY <1>1, <2>1, <2>3, <3>1, <3>2
  <2>4. CASE Cola!Rechaza({m})
    BY <1>1, <2>1, <2>4, RechazaEfecto
  <2>5. QED
    BY <1>2, <2>2, <2>3, <2>4 DEF Cola!Publicar
<1>3. ASSUME Cola!Confirmar
      PROVE  Resto /\ Camino
  <2>1. /\ 1 \in DOMAIN cola
        /\ cola' = SubSeq(cola, 1, 0) \o SubSeq(cola, 2, Len(cola))
        /\ escritos' = Append(escritos, cola[1])
        /\ destino' = [destino EXCEPT ![cola[1]] = "escrito"]
        /\ UNCHANGED <<proceso, canal, broker, arranques, fallos>>
    BY <1>3 DEF Cola!Confirmar, Cola!Contestado, Cola!Escribe
  <2>2. cola # <<>>
    BY <1>1, <2>1, LenProperties, EmptySeq
  <2>3. cola' = Tail(cola) /\ cola[1] = Head(cola)
    BY <1>1, <2>1, <2>2, SinPrimero, CabezaYCola
  <2>4. SeEscribe
    BY <2>1, <2>2, <2>3 DEF SeEscribe
  <2>5. destino' \in [Mensaje -> Cola!Destino]
    BY <1>1, <2>1 DEF Cola!Destino
  <2>6. QED
    BY <1>1, <2>1, <2>4, <2>5
<1>4. ASSUME Cola!Recibir
      PROVE  Resto /\ Camino
  BY <1>1, <1>4 DEF Cola!Recibir, Llega
<1>5. ASSUME NEW e \in {"cerrado", "ninguno"}, Cola!Perder(e)
      PROVE  Resto /\ Camino
  <2>1. UNCHANGED <<broker, arranques>> /\ fallos' = fallos + 1 /\ fallos < MaxFallos
    BY <1>5 DEF Cola!Perder
  <2>2. arranques' \in 1..MaxArranques /\ fallos' \in 0..MaxFallos
    BY <1>1, <2>1 DEF Cola!ConstantesOK
  <2>3. Cola!Elementos(cola) \in SUBSET Mensaje
    BY <1>1, LenProperties, ElementOfSeq DEF Cola!Elementos
  <2>4. CASE Cola!Rechaza(Cola!Elementos(cola))
    BY <2>1, <2>2, <2>3, <2>4, RechazaEfecto
  <2>5. CASE /\ cola = <<>> /\ canal' = e /\ escritos' = <<>>
             /\ UNCHANGED <<proceso, cola, destino>>
    BY <1>1, <2>1, <2>2, <2>5 DEF SeCorta, Recuerda
  <2>6. QED
    BY <1>5, <2>4, <2>5 DEF Cola!Perder
<1>6. ASSUME Cola!Arrancar
      PROVE  Resto /\ Camino
  <2>1. arranques' \in 1..MaxArranques
    BY <1>1, <1>6 DEF Cola!Arrancar, Cola!ConstantesOK
  <2>2. QED
    BY <1>1, <1>6, <2>1 DEF Cola!Arrancar, Quieta, Recuerda
<1>7. ASSUME Cola!Descansa
      PROVE  Resto /\ Camino
  BY <1>1, <1>7 DEF Cola!Descansa, Cola!vars, Quieta, Recuerda
<1>8. QED
  BY <1>2, <1>3, <1>4, <1>5, <1>6, <1>7 DEF Cola!Next

-----------------------------------------------------------------------------
(***************************************************************************)
(* The invariant.                                                          *)
(***************************************************************************)
LEMMA IInvColaInicial ==
  ASSUME Cola!ConstantesOK, Cola!Init
  PROVE  IInvCola
<1>1. Cola!TypeOK
  <2>1. <<>> \in Seq(Mensaje)
    BY EmptySeq
  <2>2. arranques \in 1..MaxArranques /\ fallos \in 0..MaxFallos
    <3>1. arranques = 1 /\ fallos = 0
      BY DEF Cola!Init
    <3>2. QED
      BY <3>1 DEF Cola!ConstantesOK
  <2>3. destino \in [Mensaje -> Cola!Destino]
    BY DEF Cola!Init, Cola!Destino
  <2>4. QED
    BY <2>1, <2>2, <2>3 DEF Cola!Init, Cola!TypeOK
<1>2. DOMAIN cola = {} /\ DOMAIN escritos = {} /\ DOMAIN broker = {}
  BY SinPosiciones DEF Cola!Init
<1>3. Recorrido = <<>> /\ <<>> \in Seq(Mensaje)
  BY EmptySeq, ConcatEmptySeq DEF Cola!Init, Recorrido
<1>4. Conocidos
  BY <1>2 DEF Conocidos
<1>5. UnaVez
  BY <1>3 DEF UnaVez
<1>6. QED
  BY <1>1, <1>4, <1>5 DEF IInvCola

\* What the road holds, before and after a step.
LEMMA RecorridoSigue ==
  ASSUME Cola!ConstantesOK, Cola!TypeOK, Cola!Next
  PROVE  /\ cola' \in Seq(Mensaje) /\ escritos' \in Seq(Mensaje) /\ broker' \in Seq(Mensaje)
         /\ \/ \E m \in Mensaje : Entra(m) /\ Recorrido' = Append(Recorrido, m)
            \/ SeEscribe /\ Recorrido' = Recorrido
            \/ Llega /\ Recorrido' = Recorrido
            \/ SeCorta /\ Recuerda /\ Recorrido' = broker
            \/ Quieta /\ Recuerda /\ Recorrido' = Recorrido
<1> DEFINE S == Seq(Mensaje)
<1>1. cola \in S /\ escritos \in S /\ broker \in S /\ <<>> \in S
  BY EmptySeq DEF Cola!TypeOK
<1>2. CASE \E m \in Mensaje : Entra(m)
  <2>1. PICK m \in Mensaje : Entra(m)
    BY <1>2
  <2>2. cola' = Append(cola, m) /\ escritos' = escritos /\ broker' = broker
    BY <2>1 DEF Entra
  <2>3. Append(cola, m) \in S /\ escritos \o cola \in S
    BY <1>1, AppendProperties, ConcatProperties
  <2>4. escritos \o Append(cola, m) = Append(escritos \o cola, m)
    BY <1>1, AlFinal
  <2>5. broker \o Append(escritos \o cola, m) = Append(broker \o (escritos \o cola), m)
    BY <1>1, <2>3, AlFinal
  <2>6. QED
    BY <1>1, <2>1, <2>2, <2>3, <2>4, <2>5 DEF Recorrido
<1>3. CASE SeEscribe
  <2>1. cola # <<>> /\ cola' = Tail(cola) /\ escritos' = Append(escritos, Head(cola))
        /\ broker' = broker
    BY <1>3 DEF SeEscribe
  <2>2. escritos' \in S /\ cola' \in S /\ escritos' \o cola' = escritos \o cola
    BY <1>1, <2>1, PasaElPrimero
  <2>3. QED
    BY <1>1, <1>3, <2>1, <2>2 DEF Recorrido
<1>4. CASE Llega
  <2>1. escritos # <<>> /\ escritos' = Tail(escritos)
        /\ broker' = Append(broker, Head(escritos)) /\ cola' = cola
    BY <1>4 DEF Llega
  <2>2. broker' \in S /\ escritos' \in S /\ broker' \o escritos' = broker \o escritos
    BY <1>1, <2>1, PasaElPrimero
  <2>3. broker \o (escritos \o cola) = (broker \o escritos) \o cola
    BY <1>1, ConcatAssociative
  <2>4. broker' \o (escritos' \o cola) = (broker' \o escritos') \o cola
    <3>1. broker' \in Seq(Mensaje) /\ escritos' \in Seq(Mensaje) /\ cola \in Seq(Mensaje)
      BY <1>1, <2>2
    <3>2. \A s, t, u \in Seq(Mensaje) : s \o (t \o u) = (s \o t) \o u
      BY ConcatAssociative
    <3>3. QED
      BY <3>1, <3>2, Zenon
  <2>5. QED
    BY <1>1, <1>4, <2>1, <2>2, <2>3, <2>4 DEF Recorrido
<1>5. CASE SeCorta /\ Recuerda
  <2>1. cola' = <<>> /\ escritos' = <<>> /\ broker' = broker
    BY <1>5 DEF SeCorta
  <2>2. <<>> \o <<>> = <<>> /\ broker \o <<>> = broker
    BY <1>1, ConcatEmptySeq
  <2>3. QED
    BY <1>1, <1>5, <2>1, <2>2 DEF Recorrido
<1>6. CASE Quieta /\ Recuerda
  BY <1>1, <1>6 DEF Quieta, Recorrido
<1>7. QED
  BY <1>2, <1>3, <1>4, <1>5, <1>6, Efecto

\* A message that was not published yet is nowhere on the road.
LEMMA NuevaEnElCamino ==
  ASSUME Cola!TypeOK, Conocidos, NEW m \in Mensaje, destino[m] = "sin publicar"
  PROVE  /\ \A i \in DOMAIN Recorrido : Recorrido[i] # m
         /\ Cola!Abstracta!Nueva(m)
<1>1. cola \in Seq(Mensaje) /\ escritos \in Seq(Mensaje) /\ broker \in Seq(Mensaje)
      /\ <<>> \in Seq(Mensaje)
  BY EmptySeq DEF Cola!TypeOK
<1>2. Repartida(Recorrido, broker, escritos, cola)
  BY <1>1, Tramos DEF Recorrido
<1>3. \A i \in DOMAIN Recorrido : Recorrido[i] # m
  BY <1>2 DEF Conocidos, Repartida
<1>4. \A i \in DOMAIN (escritos \o cola) : (escritos \o cola)[i] # m
  <2>1. <<>> \o (escritos \o cola) = escritos \o cola
    BY <1>1, ConcatProperties, ConcatEmptySeq
  <2>2. Repartida(<<>> \o (escritos \o cola), <<>>, escritos, cola)
    BY <1>1, Tramos
  <2>3. DOMAIN <<>> = {}
    BY SinPosiciones
  <2>4. Repartida(escritos \o cola, <<>>, escritos, cola)
    BY <2>1, <2>2
  <2>5. QED
    BY <2>3, <2>4, Zenon DEF Conocidos, Repartida
<1>5. \A i \in DOMAIN broker : broker[i] # m
  BY DEF Conocidos
<1>6. QED
  BY <1>3, <1>4, <1>5 DEF Cola!Abstracta!Nueva

\* Every step keeps what is on the road published.
LEMMA ConocidosInductiva ==
  ASSUME Cola!ConstantesOK, Cola!TypeOK, Conocidos, Cola!Next
  PROVE  Conocidos'
<1> DEFINE S == Seq(Mensaje)
<1>1. /\ cola \in S /\ escritos \in S /\ broker \in S /\ <<>> \in S
      /\ destino \in [Mensaje -> Cola!Destino]
  BY EmptySeq DEF Cola!TypeOK
<1>2. \A s \in S : DOMAIN s = 1..Len(s) /\ \A i \in DOMAIN s : s[i] \in Mensaje
  BY LenProperties, ElementOfSeq
<1>3. ASSUME NEW s \in S, s # <<>>, NEW t \in S,
             \A i \in DOMAIN s : destino[s[i]] # "sin publicar",
             \A i \in DOMAIN t : destino[t[i]] # "sin publicar"
      PROVE  /\ \A i \in DOMAIN Tail(s) : destino[Tail(s)[i]] # "sin publicar"
             /\ \A i \in DOMAIN Append(t, Head(s)) :
                   destino[Append(t, Head(s))[i]] # "sin publicar"
             /\ Append(t, Head(s)) \in S /\ Tail(s) \in S
             /\ Head(s) \in Mensaje
  <2>1. /\ Tail(s) \in S /\ Head(s) \in Mensaje /\ Len(Tail(s)) = Len(s) - 1
        /\ \A i \in 1..Len(Tail(s)) : Tail(s)[i] = s[i + 1]
        /\ Head(s) = s[1] /\ 1 \in DOMAIN s
    BY <1>3, HeadTailProperties, CabezaYCola
  <2>2. \A i \in DOMAIN Tail(s) : destino[Tail(s)[i]] # "sin publicar"
    <3>1. \A i \in DOMAIN Tail(s) : i \in 1..Len(Tail(s)) /\ i + 1 \in DOMAIN s
      BY <1>2, <2>1, LenProperties
    <3>2. QED
      BY <1>3, <2>1, <3>1
  <2>3. /\ Append(t, Head(s)) \in S
        /\ Len(Append(t, Head(s))) = Len(t) + 1
        /\ \A i \in 1..Len(t) : Append(t, Head(s))[i] = t[i]
        /\ Append(t, Head(s))[Len(t) + 1] = Head(s)
    <3>1. ASSUME NEW e \in Mensaje
          PROVE  /\ Append(t, e) \in S
                 /\ Len(Append(t, e)) = Len(t) + 1
                 /\ \A i \in 1..Len(t) : Append(t, e)[i] = t[i]
                 /\ Append(t, e)[Len(t) + 1] = e
      BY AppendProperties
    <3>2. QED
      BY <2>1, <3>1
  <2>4. \A i \in DOMAIN Append(t, Head(s)) : i \in DOMAIN t \/ i = Len(t) + 1
    BY <1>2, <2>3, LenProperties
  <2>5. \A i \in DOMAIN Append(t, Head(s)) :
            destino[Append(t, Head(s))[i]] # "sin publicar"
    <3>1. destino[Head(s)] # "sin publicar"
      BY <1>3, <2>1
    <3>2. \A i \in DOMAIN t : Append(t, Head(s))[i] = t[i]
      BY <1>2, <1>3, <2>3
    <3>3. QED
      BY <1>3, <2>3, <2>4, <3>1, <3>2
  <2>6. QED
    BY <2>1, <2>2, <2>3, <2>5
<1>4. ASSUME NEW m \in Mensaje, Entra(m)
      PROVE  Conocidos'
  <2>1. cola' = Append(cola, m) /\ escritos' = escritos /\ broker' = broker
        /\ destino' = [destino EXCEPT ![m] = "espera"]
    BY <1>4 DEF Entra
  <2>2. \A x \in Mensaje : destino[x] # "sin publicar" \/ x = m => destino'[x] # "sin publicar"
    BY <1>1, <2>1
  <2>3. /\ Append(cola, m) \in S
        /\ Len(Append(cola, m)) = Len(cola) + 1
        /\ \A i \in 1..Len(cola) : Append(cola, m)[i] = cola[i]
        /\ Append(cola, m)[Len(cola) + 1] = m
    BY <1>1, AppendProperties
  <2>4. \A i \in DOMAIN cola' : i \in DOMAIN cola \/ i = Len(cola) + 1
    BY <1>1, <1>2, <2>1, <2>3, LenProperties
  <2>5. \A i \in DOMAIN cola' : destino'[cola'[i]] # "sin publicar"
    BY <1>1, <1>2, <2>1, <2>2, <2>3, <2>4 DEF Conocidos
  <2>6. QED
    BY <1>1, <1>2, <2>1, <2>2, <2>5 DEF Conocidos
<1>5. CASE SeEscribe
  <2>1. cola # <<>> /\ cola' = Tail(cola) /\ escritos' = Append(escritos, Head(cola))
        /\ broker' = broker /\ destino' = [destino EXCEPT ![Head(cola)] = "escrito"]
    BY <1>5 DEF SeEscribe
  <2>2. \A x \in Mensaje : destino[x] # "sin publicar" => destino'[x] # "sin publicar"
    BY <1>1, <2>1
  <2>3. /\ \A i \in DOMAIN cola' : destino[cola'[i]] # "sin publicar"
        /\ \A i \in DOMAIN escritos' : destino[escritos'[i]] # "sin publicar"
        /\ escritos' \in S /\ cola' \in S
    BY <1>1, <1>3, <2>1 DEF Conocidos
  <2>4. QED
    BY <1>1, <1>2, <2>1, <2>2, <2>3 DEF Conocidos
<1>6. CASE Llega
  <2>1. escritos # <<>> /\ escritos' = Tail(escritos)
        /\ broker' = Append(broker, Head(escritos)) /\ cola' = cola /\ destino' = destino
    BY <1>6 DEF Llega
  <2>2. /\ \A i \in DOMAIN escritos' : destino[escritos'[i]] # "sin publicar"
        /\ \A i \in DOMAIN broker' : destino[broker'[i]] # "sin publicar"
    BY <1>1, <1>3, <2>1 DEF Conocidos
  <2>3. QED
    BY <2>1, <2>2 DEF Conocidos
<1>7. CASE SeCorta /\ Recuerda
  <2>1. cola' = <<>> /\ escritos' = <<>> /\ broker' = broker
        /\ \A m \in Mensaje : destino[m] # "sin publicar" => destino'[m] # "sin publicar"
    BY <1>7 DEF SeCorta, Recuerda
  <2>2. DOMAIN <<>> = {}
    BY SinPosiciones
  <2>3. QED
    BY <1>1, <1>2, <2>1, <2>2 DEF Conocidos
<1>8. CASE Quieta /\ Recuerda
  BY <1>1, <1>2, <1>8 DEF Quieta, Recuerda, Conocidos
<1>9. QED
  BY <1>4, <1>5, <1>6, <1>7, <1>8, Efecto

\* Every step keeps the road without repetitions.
LEMMA UnaVezInductiva ==
  ASSUME Cola!ConstantesOK, Cola!TypeOK, Conocidos, UnaVez, Cola!Next
  PROVE  UnaVez'
<1>1. /\ cola \in Seq(Mensaje) /\ escritos \in Seq(Mensaje) /\ broker \in Seq(Mensaje)
      /\ Recorrido \in Seq(Mensaje) /\ escritos \o cola \in Seq(Mensaje)
  BY ConcatProperties DEF Cola!TypeOK, Recorrido
<1>2. CASE Recorrido' = Recorrido
  BY <1>2 DEF UnaVez
<1>3. CASE \E m \in Mensaje : Entra(m) /\ Recorrido' = Append(Recorrido, m)
  <2>1. PICK m \in Mensaje : Entra(m) /\ Recorrido' = Append(Recorrido, m)
    BY <1>3
  <2>2. \A i \in DOMAIN Recorrido : Recorrido[i] # m
    BY <2>1, NuevaEnElCamino DEF Entra
  <2> DEFINE R == Recorrido
             A == Append(Recorrido, m)
  <2>3. /\ A \in Seq(Mensaje) /\ Len(A) = Len(R) + 1 /\ Len(R) \in Nat
        /\ DOMAIN A = 1..Len(A) /\ DOMAIN R = 1..Len(R)
        /\ \A i \in 1..Len(R) : A[i] = R[i]
        /\ A[Len(R) + 1] = m
    BY <1>1, AppendProperties, LenProperties
  <2> HIDE DEF A, R
  <2>4. \A i, j \in DOMAIN R : R[i] = R[j] => i = j
    BY DEF UnaVez, R
  <2>5. \A i \in DOMAIN A : i \in DOMAIN R \/ i = Len(R) + 1
    BY <2>3
  <2>6. \A i \in DOMAIN R : A[i] = R[i] /\ R[i] # m
    BY <2>2, <2>3 DEF R
  <2>7. \A i, j \in DOMAIN A : A[i] = A[j] => i = j
    BY <2>3, <2>4, <2>5, <2>6
  <2>8. QED
    BY <2>1, <2>7 DEF UnaVez, A
<1>4. CASE Recorrido' = broker
  <2>1. /\ Len(Recorrido) = Len(broker) + Len(escritos \o cola)
        /\ \A i \in 1..Len(broker) + Len(escritos \o cola) :
              Recorrido[i] = IF i <= Len(broker) THEN broker[i]
                             ELSE (escritos \o cola)[i - Len(broker)]
    BY <1>1, ConcatProperties DEF Recorrido
  <2>2. /\ DOMAIN broker = 1..Len(broker) /\ DOMAIN Recorrido = 1..Len(Recorrido)
        /\ Len(broker) \in Nat /\ Len(escritos \o cola) \in Nat
    BY <1>1, LenProperties
  <2>3. \A i \in DOMAIN broker : i \in DOMAIN Recorrido /\ Recorrido[i] = broker[i]
    BY <2>1, <2>2
  <2>4. QED
    BY <1>4, <2>3 DEF UnaVez
<1>5. QED
  BY <1>2, <1>3, <1>4, RecorridoSigue

\* Every step keeps the invariant.
LEMMA IInvColaInductiva ==
  ASSUME Cola!ConstantesOK, IInvCola, [Cola!Next]_(Cola!vars)
  PROVE  IInvCola'
<1>1. CASE Cola!Next
  <2>1. Cola!TypeOK'
    BY <1>1, Efecto, RecorridoSigue DEF IInvCola, Cola!TypeOK
  <2>2. Conocidos' /\ UnaVez'
    BY <1>1, ConocidosInductiva, UnaVezInductiva DEF IInvCola
  <2>3. QED
    BY <2>1, <2>2 DEF IInvCola
<1>2. CASE UNCHANGED Cola!vars
  BY <1>2 DEF Cola!vars, IInvCola, Cola!TypeOK, Conocidos, UnaVez, Recorrido
<1>3. QED
  BY <1>1, <1>2

\* The invariant holds always.
LEMMA InvarianteCola ==
  ASSUME Cola!ConstantesOK
  PROVE  Cola!Spec => []IInvCola
<1>1. Cola!Init => IInvCola
  BY IInvColaInicial
<1>2. IInvCola /\ [Cola!Next]_(Cola!vars) => IInvCola'
  BY IInvColaInductiva
<1>3. QED
  BY <1>1, <1>2, PTL DEF Cola!Spec

-----------------------------------------------------------------------------
(***************************************************************************)
(* The theorems.                                                           *)
(***************************************************************************)

\* Every variable keeps its type: in particular only notifications are ever
\* written to the channel or received, whatever is lost and however often the
\* process starts (queue-client.adapter.ts:44-87).
THEOREM TiposCola ==
  ASSUME Cola!ConstantesOK
  PROVE  Cola!Spec => []Cola!TypeOK
<1>1. IInvCola => Cola!TypeOK
  BY DEF IInvCola
<1>2. QED
  BY <1>1, InvarianteCola, PTL

\* No notification arrives twice, however many times the channel is lost and the
\* process starts: nothing in publish tries again (queue-client.adapter.ts:59-87).
THEOREM UnaVezSiempre ==
  ASSUME Cola!ConstantesOK
  PROVE  Cola!Spec => []UnaVez
<1>1. IInvCola => UnaVez
  BY DEF IInvCola
<1>2. QED
  BY <1>1, InvarianteCola, PTL

\* Every step of the adapter, of the broker and of the connection is a step of
\* the road: a message enters it at the end and once, the oldest arrives first,
\* and a loss takes everything that is on it (queue-client.adapter.ts:44-77).
\* This is the safety part of ImplementaCola.
THEOREM ColaImplementa ==
  ASSUME Cola!ConstantesOK
  PROVE  Cola!Spec => Cola!Abstracta!Spec
<1>1. Cola!Init => Cola!Abstracta!Init
  <2>1. <<>> \in Seq(Mensaje)
    BY EmptySeq
  <2>2. QED
    BY <2>1, ConcatEmptySeq DEF Cola!Init, Cola!Abstracta!Init
<1>2. IInvCola /\ [Cola!Next]_(Cola!vars) => [Cola!Abstracta!Next]_(Cola!Abstracta!vars)
  <2> SUFFICES ASSUME IInvCola, [Cola!Next]_(Cola!vars)
               PROVE  [Cola!Abstracta!Next]_(Cola!Abstracta!vars)
    OBVIOUS
  <2>1. /\ Cola!TypeOK /\ Conocidos
        /\ cola \in Seq(Mensaje) /\ escritos \in Seq(Mensaje) /\ broker \in Seq(Mensaje)
        /\ <<>> \in Seq(Mensaje)
    BY EmptySeq DEF IInvCola, Cola!TypeOK
  <2>2. ASSUME NEW m \in Mensaje, Entra(m)
        PROVE  Cola!Abstracta!Sale(m)
    <3>1. Cola!Abstracta!Nueva(m)
      BY <2>1, <2>2, NuevaEnElCamino DEF Entra
    <3>2. escritos \o Append(cola, m) = Append(escritos \o cola, m)
      BY <2>1, AlFinal
    <3>3. QED
      BY <2>2, <3>1, <3>2 DEF Cola!Abstracta!Sale, Entra
  <2>3. ASSUME SeEscribe
        PROVE  UNCHANGED Cola!Abstracta!vars
    <3>1. escritos' \o cola' = escritos \o cola
      BY <2>1, <2>3, PasaElPrimero DEF SeEscribe
    <3>2. QED
      BY <2>3, <3>1 DEF SeEscribe, Cola!Abstracta!vars
  <2>4. ASSUME Llega
        PROVE  Cola!Abstracta!Entrega
    <3>1. /\ escritos \o cola # <<>> /\ Head(escritos \o cola) = Head(escritos)
          /\ Tail(escritos \o cola) = Tail(escritos) \o cola
      BY <2>1, <2>4, DelFrente DEF Llega
    <3>2. QED
      BY <2>4, <3>1 DEF Llega, Cola!Abstracta!Entrega
  <2>5. ASSUME SeCorta
        PROVE  Cola!Abstracta!Accidente
    <3>1. <<>> \o <<>> = <<>>
      BY <2>1, ConcatEmptySeq
    <3>2. QED
      BY <2>5, <3>1 DEF SeCorta, Cola!Abstracta!Accidente
  <2>6. ASSUME Quieta \/ UNCHANGED Cola!vars
        PROVE  UNCHANGED Cola!Abstracta!vars
    BY <2>6 DEF Quieta, Cola!vars, Cola!Abstracta!vars
  <2>7. QED
    BY <2>1, <2>2, <2>3, <2>4, <2>5, <2>6, Efecto DEF Cola!Abstracta!Next
<1>3. QED
  BY <1>1, <1>2, InvarianteCola, PTL DEF Cola!Spec, Cola!Abstracta!Spec
=============================================================================
