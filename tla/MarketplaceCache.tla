---------------------------- MODULE MarketplaceCache ----------------------------
(***************************************************************************)
(* The marketplace page: a Redis index of the facturas PUBLICADA, filled   *)
(* from the database only when a page comes out empty, never maintained    *)
(* when a factura is published or retired, and forgotten after a time to   *)
(* live.  Redis keeps one sorted set (the index, with its own expiry) and  *)
(* one hash per factura (each with its own), so the two can drift apart.   *)
(*                                                                         *)
(* A request is a process and one action is the code between two awaits.   *)
(* Clients walk the pages by following the cursor they are given.          *)
(***************************************************************************)
EXTENDS Integers, FiniteSets

CONSTANTS
    Factura,     \* the facturas, numbers so that their keys have an order
    Peticion,    \* the clients that walk the marketplace
    Limites,     \* bound: the values of ?limit= they send
    Marcadores,  \* bound: the offsets in the cursors they kept; 0 is none
    MaxPagina,   \* the cap of a page (100 in the code)
    Ttl,         \* the 86400 seconds of expire, in ticks of the clock
    MaxDemora,   \* bound: ticks between the query and the pipeline of a request
    MaxReloj,    \* bound: ticks the clock runs for
    ConFallos    \* bound: whether Redis commands may fail; one pipeline is cut

ASSUME ConstantesOK ==
    /\ Factura \subseteq Nat /\ IsFiniteSet(Factura)
    /\ Limites \cup Marcadores \subseteq Nat
    /\ MaxPagina \in Nat \ {0}
    /\ Ttl \in Nat \ {0} /\ MaxDemora \in Nat /\ MaxReloj \in Nat \ {0}
    /\ ConFallos \in BOOLEAN

VARIABLES
    reloj,       \* the time
    publicada,   \* the facturas whose status is PUBLICADA in the database
    cambio,      \* history: when each of them last entered or left that status
    puntaje,     \* the score of each member of the sorted set, 0 if not in it
    venceIndice, \* when the sorted set expires, 0 if there is none
    venceHash,   \* when each hash expires, 0 if there is none
    cortada,     \* history: a failure has cut a pipeline of PopulateCache
    \* The requests
    pc,          \* where the request is
    vuelta,      \* first or second reading of the cache
    limite, cursor, \* what the client sent
    claves,      \* the keys ZRANGE answered
    lista, leido \* what the database answered, and when

redis == <<puntaje, venceIndice, venceHash>>
base == <<publicada, cambio>>
pedido == <<limite, cursor>>
consulta == <<lista, leido>>
vars == <<reloj, publicada, cambio, puntaje, venceIndice, venceHash, cortada,
          pc, vuelta, limite, cursor, claves, lista, leido>>

SinCursor == -1

\* A key without expiry.
Nunca == MaxReloj + Ttl + 1

Tiempo == 0 .. Nunca

TypeOK ==
    /\ reloj \in 1 .. MaxReloj
    /\ publicada \subseteq Factura /\ cambio \in [Factura -> Nat]
    /\ puntaje \in [Factura -> 0 .. MaxReloj]
    /\ venceIndice \in Tiempo /\ venceHash \in [Factura -> Tiempo]
    /\ cortada \in BOOLEAN
    /\ pc \in [Peticion -> {"libre", "rango", "total", "hashes", "repo",
                            "poblar"}]
    /\ vuelta \in [Peticion -> 1 .. 2]
    /\ limite \in [Peticion -> Nat] /\ cursor \in [Peticion -> Nat]
    /\ claves \in [Peticion -> SUBSET Factura]
    /\ lista \in [Peticion -> SUBSET Factura]
    /\ leido \in [Peticion -> 0 .. MaxReloj]

Init ==
    /\ reloj = 1
    /\ publicada = {} /\ cambio = [f \in Factura |-> 0]
    /\ puntaje = [f \in Factura |-> 0]
    /\ venceIndice = 0 /\ venceHash = [f \in Factura |-> 0]
    /\ cortada = FALSE
    /\ pc = [p \in Peticion |-> "libre"] /\ vuelta = [p \in Peticion |-> 1]
    /\ limite = [p \in Peticion |-> 0] /\ cursor = [p \in Peticion |-> 0]
    /\ claves = [p \in Peticion |-> {}]
    /\ lista = [p \in Peticion |-> {}] /\ leido = [p \in Peticion |-> 0]

-----------------------------------------------------------------------------
(***************************************************************************)
(* What Redis answers.                                                     *)
(***************************************************************************)
EnIndice == {f \in Factura : puntaje[f] > 0}

ConHash(f) == venceHash[f] > 0

\* Members of the index whose hash has gone.
Fantasmas == {f \in EnIndice : ~ConHash(f)}

\* The sorted set goes from the highest score down; ties go by key.
Antes(f, g) == \/ puntaje[f] > puntaje[g]
               \/ puntaje[f] = puntaje[g] /\ f > g

\* The place of a member in it, from 0.
Posicion(f) == Cardinality({g \in EnIndice : Antes(g, f)})

\* ZRANGE key ini fin REV: a negative end counts from the last member.
ZRange(ini, fin) ==
    LET hasta == IF fin < 0 THEN Cardinality(EnIndice) + fin ELSE fin
    IN {f \in EnIndice : Posicion(f) \in ini .. hasta}

-----------------------------------------------------------------------------
(***************************************************************************)
(* One page, as a function of the index.                                   *)
(***************************************************************************)

\* Math.min(limit, 100).
TamPagina(l) == IF l < MaxPagina THEN l ELSE MaxPagina

\* The keys of the page at offset c.
Claves(c, l) == ZRange(c, c + TamPagina(l) - 1)

\* HGETALL of each key: the ones without hash are skipped.
Datos(ks) == {f \in ks : ConHash(f)}

\* Mutant of SiguienteOffset: the offset moves by the size asked for.
SiguienteOffsetPedido(c, l, datos) == c + TamPagina(l)

\* const nextOffset = offset + facturas.length.
SiguienteOffset(c, l, datos) == c + Cardinality(datos)

\* nextCursor, SinCursor if the page is empty or the last.
Siguiente(c, l) ==
    LET ks == Claves(c, l)
        sig == SiguienteOffset(c, l, Datos(ks))
    IN IF ks # {} /\ sig < Cardinality(EnIndice) THEN sig ELSE SinCursor

-----------------------------------------------------------------------------
(***************************************************************************)
(* The world: facturas are published and retired, time passes.             *)
(***************************************************************************)
Publica(f) ==
    /\ publicada' = IF f \in publicada THEN publicada \ {f}
                    ELSE publicada \cup {f}
    /\ cambio' = [cambio EXCEPT ![f] = reloj]
    /\ UNCHANGED <<reloj, redis, cortada, pc, vuelta, pedido, claves, consulta>>

\* A key past its expiry is gone for every command.
Avanza ==
    /\ reloj < MaxReloj
    /\ \A p \in Peticion : pc[p] = "poblar" => reloj < leido[p] + MaxDemora
    /\ reloj' = reloj + 1
    /\ LET muerto(v) == v <= reloj' IN
         /\ puntaje' = [f \in Factura |->
                          IF muerto(venceIndice) THEN 0 ELSE puntaje[f]]
         /\ venceIndice' = IF muerto(venceIndice) THEN 0 ELSE venceIndice
         /\ venceHash' = [f \in Factura |-> IF muerto(venceHash[f]) THEN 0
                                            ELSE venceHash[f]]
    /\ UNCHANGED <<base, cortada, pc, vuelta, pedido, claves, consulta>>

-----------------------------------------------------------------------------
(***************************************************************************)
(* ExecuteGetFacturasMarketPlace.                                          *)
(***************************************************************************)
Ir(p, paso) == pc' = [pc EXCEPT ![p] = paso]

\* A client asks for a page, with the cursor of an earlier one or none.
Pide(p, c, l) ==
    /\ pc[p] = "libre"
    /\ Ir(p, "rango")
    /\ cursor' = [cursor EXCEPT ![p] = c]
    /\ limite' = [limite EXCEPT ![p] = l]
    /\ UNCHANGED <<reloj, base, redis, cortada, vuelta, claves, consulta>>

\* The handler ends, with a page or with an exception.
Acaba(p) ==
    /\ Ir(p, "libre")
    /\ vuelta' = [vuelta EXCEPT ![p] = 1]
    /\ cursor' = [cursor EXCEPT ![p] = 0]
    /\ limite' = [limite EXCEPT ![p] = 0]
    /\ claves' = [claves EXCEPT ![p] = {}]

\* A page with data, or the second one, is the answer; after a first page
\* without data the database is asked.
Responde(p, vacia) ==
    IF vacia /\ vuelta[p] = 1
    THEN /\ Ir(p, "repo")
         /\ claves' = [claves EXCEPT ![p] = {}]
         /\ UNCHANGED <<vuelta, pedido>>
    ELSE Acaba(p)

\* ZRANGE.
LeeRango(p) ==
    /\ pc[p] = "rango"
    /\ LET ks == Claves(cursor[p], limite[p]) IN
         \/ ks = {} /\ Responde(p, TRUE)
         \/ /\ ks # {} /\ Ir(p, "total")
            /\ claves' = [claves EXCEPT ![p] = ks]
            /\ UNCHANGED <<vuelta, pedido>>
    /\ UNCHANGED <<reloj, base, redis, cortada, consulta>>

\* ZCARD: it only decides whether the page has a next cursor.
LeeTotal(p) ==
    /\ pc[p] = "total"
    /\ Ir(p, "hashes")
    /\ UNCHANGED <<reloj, base, redis, cortada, vuelta, pedido, claves, consulta>>

\* A Redis command that is rejected makes the handler throw.
Rechazo(p) ==
    /\ ConFallos /\ pc[p] \in {"rango", "total"}
    /\ Acaba(p)
    /\ UNCHANGED <<reloj, base, redis, cortada, consulta>>

\* The pipeline of HGETALLs is not rejected: a key whose command failed is
\* skipped as one without hash is.
LeeHashes(p) ==
    /\ pc[p] = "hashes"
    /\ \/ Responde(p, Datos(claves[p]) = {})
       \/ ConFallos /\ Responde(p, TRUE)
    /\ UNCHANGED <<reloj, base, redis, cortada, consulta>>

\* getFacturasPublicadas; an error gives the empty list.  With an empty list
\* PopulateCache sends nothing.
LeeRepo(p) ==
    /\ pc[p] = "repo"
    /\ \E l \in {publicada, {}} :
         /\ lista' = [lista EXCEPT ![p] = l]
         /\ leido' = [leido EXCEPT ![p] = IF l = {} THEN 0 ELSE reloj]
         /\ Ir(p, IF l = {} THEN "rango" ELSE "poblar")
    /\ vuelta' = [vuelta EXCEPT ![p] = 2]
    /\ UNCHANGED <<reloj, base, redis, cortada, pedido, claves>>

\* Mutant of VenceHashNuevo: the hash is written without expire.
VenceHashEterno == Nunca

VenceHashNuevo == reloj + Ttl

\* Mutant of VenceIndiceNuevo: the time to live in the wrong unit.
VenceIndiceMilis == reloj + 1000 * Ttl

\* Mutant of VenceIndiceNuevo: the index is written without expire.
VenceIndiceEterno == Nunca

VenceIndiceNuevo == reloj + Ttl

\* The pipeline of PopulateCache, cut by a failure of the connection: the
\* commands of "todas" ran, and of "una" only those up to "hasta" (HSET, the
\* ZADDs, the EXPIRE of the index; the EXPIRE of the hash is the last).
Puebla(todas, una, hasta) ==
    LET conHash == todas \cup una
        conZadd == todas \cup (IF hasta \in {"zadd", "expireIndice"}
                               THEN una ELSE {})
        expIndice == todas # {} \/ (una # {} /\ hasta = "expireIndice")
    IN /\ venceHash' = [f \in Factura |->
             IF f \in todas THEN VenceHashNuevo
             ELSE IF f \in conHash /\ ~ConHash(f) THEN Nunca
             ELSE venceHash[f]]
       /\ puntaje' = [f \in Factura |-> IF f \in conZadd THEN reloj
                                        ELSE puntaje[f]]
       /\ venceIndice' = IF expIndice THEN VenceIndiceNuevo
                         ELSE IF EnIndice = {} /\ conZadd # {} THEN Nunca
                         ELSE venceIndice

\* pipeline.exec: the errors of its commands are logged, and the cache is
\* read again.
Poblar(p) ==
    /\ pc[p] = "poblar"
    /\ \/ Puebla(lista[p], {}, "hset") /\ UNCHANGED cortada
       \/ /\ ConFallos /\ ~cortada /\ cortada' = TRUE
          /\ \E todas \in SUBSET lista[p] \ {lista[p]} :
             \/ Puebla(todas, {}, "hset")
             \/ \E f \in lista[p] \ todas,
                   hasta \in {"hset", "zadd", "expireIndice"} :
                   Puebla(todas, {f}, hasta)
    /\ lista' = [lista EXCEPT ![p] = {}]
    /\ leido' = [leido EXCEPT ![p] = 0]
    /\ Ir(p, "rango")
    /\ UNCHANGED <<reloj, base, vuelta, pedido, claves>>

-----------------------------------------------------------------------------
Atiende(p) == \/ LeeRango(p) \/ LeeTotal(p) \/ LeeHashes(p)
              \/ LeeRepo(p) \/ Poblar(p) \/ Rechazo(p)

Next ==
    \/ \E f \in Factura : Publica(f)
    \/ Avanza
    \/ \E p \in Peticion, c \in Marcadores, l \in Limites : Pide(p, c, l)
    \/ \E p \in Peticion : Atiende(p)

Spec == Init /\ [][Next]_vars

-----------------------------------------------------------------------------
\* A factura that left PUBLICADA longer ago than the time to live, plus the
\* time a request takes from its query to its pipeline, is in no page: its
\* hash is gone, although nobody takes it out of the cache.  A pipeline that
\* was cut keeps one factura at most, the one it was at, from expiring.
RetiradaDesaparece ==
    /\ \A f \in Factura :
          ConHash(f) /\ f \notin publicada /\ (cortada => venceHash[f] # Nunca)
             => reloj - cambio[f] < Ttl + MaxDemora
    /\ cortada => Cardinality({f \in Factura : ConHash(f) /\ venceHash[f] = Nunca}) <= 1

\* A factura that has been PUBLICADA for that long is in the index, with its
\* hash, whenever there is an index: the facturas listed before it do not
\* keep it out of the marketplace for ever.
PublicadaAparece ==
    \A f \in Factura :
       /\ ~cortada /\ EnIndice # {} /\ f \in publicada
       /\ reloj - cambio[f] >= Ttl + MaxDemora
       => f \in EnIndice /\ ConHash(f)

\* The offsets that come to a client that starts without cursor and follows
\* the ones it is given: the least set with 0 that following does not leave.
Cursores(sig) ==
    LET pasos == {<<c, sig[c]>> : c \in DOMAIN sig}
        cerrados == {C \in SUBSET DOMAIN sig :
                       /\ 0 \in C
                       /\ \A e \in pasos : e[1] \in C => e[2] \in C \cup {SinCursor}}
    IN {c \in DOMAIN sig : \A C \in cerrados : c \in C}

\* A client that follows the cursors from the first page sees every factura of
\* the index that has its hash: the cursor advances by the facturas that were
\* given and not by the keys that were read, so a missing hash makes pages
\* overlap and passes nobody over, except that a page without a hash left is
\* its own next page, and the walk stays there.  No page is longer than was
\* asked for but the first one of limit 0, the whole index.  While every member
\* has its hash, each factura comes once, in order, the walk always goes on,
\* and the client is told to stop exactly at the end.
RecorridoFiel ==
    \A l \in 0 .. MaxPagina :
      LET Offsets == 0 .. Cardinality(EnIndice)
          dados == Cursores([c \in Offsets |-> Siguiente(c, l)])
          vistas == {[desde |-> c, datos |-> Datos(Claves(c, l)), sig |-> Siguiente(c, l)] :
                       c \in dados}
      IN /\ \A f \in Datos(EnIndice) :
               \E x \in vistas : \/ f \in x.datos
                                 \/ x.sig = x.desde /\ x.datos = {} /\ x.desde <= Posicion(f)
         /\ \A x \in vistas : Cardinality(x.datos) > l => x.desde = 0 /\ l = 0
         /\ Fantasmas = {} =>
              /\ \A x, y \in vistas :
                    x.desde < y.desde => \A f \in x.datos, g \in y.datos : Antes(f, g)
              /\ \A x \in vistas :
                    /\ x.sig # SinCursor => x.sig > x.desde
                    /\ x.sig = SinCursor <=>
                          \A f \in EnIndice : f \in x.datos \/ Posicion(f) < x.desde
=============================================================================
