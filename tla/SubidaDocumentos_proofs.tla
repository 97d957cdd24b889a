------------------------ MODULE SubidaDocumentos_proofs ------------------------
(***************************************************************************)
(* What is proved of the way from the request of a place for a file to the *)
(* factura: the types, that a factura has the lote its file was given, and *)
(* that no file is in the bucket without a row that knows its key.         *)
(***************************************************************************)
EXTENDS SubidaDocumentos, TLAPS

\* What the place of a request says of the row of its asset.
Progreso(p) ==
    /\ pc[p] \in {"libre", "crear"} => asset[p].lote = SinLote /\ tareas[p] = {}
    /\ pc[p] = "lote" => "clave" \in tareas[p]
    /\ pc[p] \in {"tareas", "fin"} =>
          /\ asset[p].lote = ent[p].lote
          /\ "clave" \in tareas[p] \/ asset[p].clave = "archivo"
    /\ pc[p] = "fin" => tareas[p] = {}
    /\ p \in subido => pc[p] = "fin"
    /\ aviso[p] # "no" => p \in subido

PasoPropio == \A p \in Pedido : Progreso(p)

\* A factura is born from a file whose request was answered.
Origenes == \A d \in Documento : \A p \in factura[d].origen : pc[p] = "fin"

IInv == TypeOK /\ PasoPropio /\ Origenes /\ LoteHeredado

Factura == [existe: BOOLEAN, lote: Lote \cup {SinLote}, origen: SUBSET Pedido]
Lugar == {"libre", "crear", "lote", "tareas", "fin", "fallo", "caida"}

-----------------------------------------------------------------------------
(***************************************************************************)
(* The columns of an asset.                                                *)
(***************************************************************************)
LEMMA CambiaClave ==
  ASSUME TypeOK, NEW p \in Pedido, NEW x \in {"carpeta", "archivo"},
         asset' = [asset EXCEPT ![p].clave = x]
  PROVE  /\ asset' \in [Pedido -> Asset]
         /\ asset'[p].clave = x /\ asset'[p].lote = asset[p].lote
         /\ \A q \in Pedido \ {p} : asset'[q] = asset[q]
<1>1. asset \in [Pedido -> Asset]
  BY DEF TypeOK
<1>2. \A a \in Asset : /\ [a EXCEPT !.clave = x] \in Asset
                       /\ [a EXCEPT !.clave = x].clave = x
                       /\ [a EXCEPT !.clave = x].lote = a.lote
  BY DEF Asset
<1>3. asset' = [asset EXCEPT ![p] = [asset[p] EXCEPT !.clave = x]]
  OBVIOUS
<1>4. QED
  BY <1>1, <1>2, <1>3

LEMMA CambiaLote ==
  ASSUME TypeOK, NEW p \in Pedido, NEW x \in Lote \cup {SinLote},
         asset' = [asset EXCEPT ![p].lote = x]
  PROVE  /\ asset' \in [Pedido -> Asset]
         /\ asset'[p].lote = x /\ asset'[p].clave = asset[p].clave
         /\ \A q \in Pedido \ {p} : asset'[q] = asset[q]
<1>1. asset \in [Pedido -> Asset]
  BY DEF TypeOK
<1>2. \A a \in Asset : /\ [a EXCEPT !.lote = x] \in Asset
                       /\ [a EXCEPT !.lote = x].lote = x
                       /\ [a EXCEPT !.lote = x].clave = a.clave
  BY DEF Asset
<1>3. asset' = [asset EXCEPT ![p] = [asset[p] EXCEPT !.lote = x]]
  OBVIOUS
<1>4. QED
  BY <1>1, <1>2, <1>3

-----------------------------------------------------------------------------
(***************************************************************************)
(* What a step does.                                                       *)
(***************************************************************************)

\* Nothing of the request q changes.
Quieto(q) ==
    /\ pc'[q] = pc[q] /\ ent'[q] = ent[q] /\ asset'[q] = asset[q]
    /\ tareas'[q] = tareas[q] /\ aviso'[q] = aviso[q]
    /\ q \in subido' <=> q \in subido

LEMMA QuietoSigue ==
  ASSUME NEW q \in Pedido, Progreso(q), Quieto(q)
  PROVE  Progreso(q)'
BY DEF Progreso, Quieto

\* A request that was answered stays so, and nobody changes what it carries.
Firme == \A q \in Pedido : pc[q] = "fin" => pc'[q] = "fin" /\ ent'[q] = ent[q]

\* What a step of p leaves.
Deja(p) ==
    /\ TypeOK' /\ Firme
    /\ Progreso(p)'
    /\ \A q \in Pedido \ {p} : Quieto(q)

\* A step of p that leaves the facturas as they were.
DejaSinFactura(p) == Deja(p) /\ factura' = factura

LEMMA Partes ==
  ASSUME TypeOK
  PROVE  /\ lotes \subseteq Lote
         /\ asset \in [Pedido -> Asset]
         /\ factura \in [Documento -> Factura]
         /\ adjuntos \subseteq Adjunto
         /\ subido \subseteq Pedido
         /\ pc \in [Pedido -> Lugar]
         /\ ent \in [Pedido -> Entrada]
         /\ tareas \in [Pedido -> SUBSET {"clave", "adjuntar"}]
         /\ aviso \in [Pedido -> {"no", "insertar", "enlazar"}]
BY DEF TypeOK, Factura, Lugar

LEMMA PedirEfecto ==
  ASSUME TypeOK, NEW p \in Pedido, Progreso(p), NEW e \in Entrada, Pide(p, e)
  PROVE  DejaSinFactura(p)
<1>1. /\ pc[p] = "libre" /\ pc' = [pc EXCEPT ![p] = "crear"]
      /\ ent' = [ent EXCEPT ![p] = e]
      /\ UNCHANGED <<lotes, asset, factura, adjuntos, subido, tareas, aviso>>
  BY DEF Pide, Ir, tablas
<1>2. pc' \in [Pedido -> Lugar] /\ ent' \in [Pedido -> Entrada]
  BY <1>1, Partes DEF Lugar
<1>3. TypeOK'
  BY <1>1, <1>2 DEF TypeOK, Lugar
<1>4. /\ pc'[p] = "crear" /\ ent'[p] = e
      /\ \A q \in Pedido \ {p} : pc'[q] = pc[q] /\ ent'[q] = ent[q]
  BY <1>1, Partes
<1>5. Progreso(p)'
  BY <1>1, <1>4 DEF Progreso
<1>6. QED
  BY <1>1, <1>3, <1>4, <1>5 DEF DejaSinFactura, Deja, Firme, Quieto

LEMMA CrearEfecto ==
  ASSUME TypeOK, NEW p \in Pedido, Progreso(p), Crear(p)
  PROVE  DejaSinFactura(p)
<1>1. /\ pc[p] = "crear" /\ pc' = [pc EXCEPT ![p] = TrasCrear(ent[p])]
      /\ asset' = [asset EXCEPT ![p].clave = "carpeta"]
      /\ tareas' = [tareas EXCEPT ![p] =
                      {"clave"} \cup (IF PuedeAdjuntar(ent[p])
                                      THEN {"adjuntar"} ELSE {})]
      /\ UNCHANGED <<lotes, factura, adjuntos, subido, ent, aviso>>
  BY DEF Crear, Ir
<1>2. /\ TrasCrear(ent[p]) \in {"lote", "tareas"}
      /\ TrasCrear(ent[p]) = "tareas" => ent[p].lote = SinLote
  BY DEF TrasCrear
<1>3. /\ asset' \in [Pedido -> Asset] /\ asset'[p].lote = asset[p].lote
      /\ \A q \in Pedido \ {p} : asset'[q] = asset[q]
  BY <1>1, CambiaClave
<1>4. pc' \in [Pedido -> Lugar] /\ tareas' \in [Pedido -> SUBSET {"clave", "adjuntar"}]
  BY <1>1, <1>2, Partes DEF Lugar
<1>5. TypeOK'
  BY <1>1, <1>3, <1>4 DEF TypeOK, Lugar
<1>6. /\ pc'[p] = TrasCrear(ent[p]) /\ "clave" \in tareas'[p]
      /\ \A q \in Pedido \ {p} : pc'[q] = pc[q] /\ tareas'[q] = tareas[q]
  BY <1>1, Partes
<1>7. Progreso(p)'
  BY <1>1, <1>2, <1>3, <1>6 DEF Progreso
<1>8. QED
  BY <1>1, <1>3, <1>5, <1>6, <1>7 DEF DejaSinFactura, Deja, Firme, Quieto

LEMMA AsignarLoteEfecto ==
  ASSUME TypeOK, NEW p \in Pedido, Progreso(p), AsignarLote(p)
  PROVE  DejaSinFactura(p)
<1>1. /\ pc[p] = "lote" /\ pc' = [pc EXCEPT ![p] = "tareas"]
      /\ asset' = [asset EXCEPT ![p].lote = ent[p].lote]
      /\ UNCHANGED <<lotes, factura, adjuntos, subido, ent, tareas, aviso>>
  BY DEF AsignarLote, Ir
<1>2. ent[p].lote \in Lote \cup {SinLote}
  BY Partes DEF Entrada
<1>3. /\ asset' \in [Pedido -> Asset] /\ asset'[p].lote = ent[p].lote
      /\ \A q \in Pedido \ {p} : asset'[q] = asset[q]
  BY <1>1, <1>2, CambiaLote
<1>4. pc' \in [Pedido -> Lugar]
  BY <1>1, Partes DEF Lugar
<1>5. TypeOK'
  BY <1>1, <1>3, <1>4 DEF TypeOK, Lugar
<1>6. pc'[p] = "tareas" /\ \A q \in Pedido \ {p} : pc'[q] = pc[q]
  BY <1>1, Partes
<1>7. Progreso(p)'
  BY <1>1, <1>3, <1>6 DEF Progreso
<1>8. QED
  BY <1>1, <1>3, <1>5, <1>6, <1>7 DEF DejaSinFactura, Deja, Firme, Quieto

LEMMA FallaEfecto ==
  ASSUME TypeOK, NEW p \in Pedido, Progreso(p), Falla(p)
  PROVE  DejaSinFactura(p)
<1>1. /\ pc[p] \in {"crear", "lote"} /\ pc' = [pc EXCEPT ![p] = "fallo"]
      /\ tareas' = [tareas EXCEPT ![p] = {}]
      /\ UNCHANGED <<lotes, asset, factura, adjuntos, subido, ent, aviso>>
  BY DEF Falla, Ir, tablas
<1>2. pc' \in [Pedido -> Lugar] /\ tareas' \in [Pedido -> SUBSET {"clave", "adjuntar"}]
  BY <1>1, Partes DEF Lugar
<1>3. TypeOK'
  BY <1>1, <1>2 DEF TypeOK, Lugar
<1>4. /\ pc'[p] = "fallo"
      /\ \A q \in Pedido \ {p} : pc'[q] = pc[q] /\ tareas'[q] = tareas[q]
  BY <1>1, Partes
<1>5. Progreso(p)'
  BY <1>1, <1>4 DEF Progreso
<1>6. QED
  BY <1>1, <1>3, <1>4, <1>5 DEF DejaSinFactura, Deja, Firme, Quieto

LEMMA FijarClaveEfecto ==
  ASSUME TypeOK, NEW p \in Pedido, Progreso(p), FijarClave(p)
  PROVE  DejaSinFactura(p)
<1>1. /\ pc[p] \in {"tareas", "fallo", "fin"} /\ "clave" \in tareas[p]
      /\ tareas' = [tareas EXCEPT ![p] = tareas[p] \ {"clave"}]
      /\ UNCHANGED <<lotes, factura, adjuntos, subido, ent, aviso>>
  BY DEF FijarClave, Enviada
<1>2. pc[p] # "fin" /\ p \notin subido /\ aviso[p] = "no"
  BY <1>1 DEF Progreso
<1>3. /\ tareas' \in [Pedido -> SUBSET {"clave", "adjuntar"}]
      /\ tareas'[p] = tareas[p] \ {"clave"}
      /\ \A q \in Pedido \ {p} : tareas'[q] = tareas[q]
  BY <1>1, Partes
<1>4. CASE asset' = [asset EXCEPT ![p].clave = "archivo"] /\ UNCHANGED pc
  <2>1. /\ asset' \in [Pedido -> Asset]
        /\ asset'[p].clave = "archivo" /\ asset'[p].lote = asset[p].lote
        /\ \A q \in Pedido \ {p} : asset'[q] = asset[q]
    BY <1>4, CambiaClave
  <2>2. TypeOK'
    BY <1>1, <1>3, <1>4, <2>1 DEF TypeOK
  <2>3. Progreso(p)'
    BY <1>1, <1>2, <1>4, <2>1 DEF Progreso
  <2>4. QED
    BY <1>1, <1>3, <1>4, <2>1, <2>2, <2>3 DEF DejaSinFactura, Deja, Firme, Quieto
<1>5. CASE Ir(p, "fallo") /\ UNCHANGED asset
  <2>1. /\ pc' \in [Pedido -> Lugar] /\ pc'[p] = "fallo"
        /\ \A q \in Pedido \ {p} : pc'[q] = pc[q]
    BY <1>5, Partes DEF Ir, Lugar
  <2>2. TypeOK'
    BY <1>1, <1>3, <1>5, <2>1 DEF TypeOK, Lugar
  <2>3. Progreso(p)'
    BY <1>1, <1>2, <1>5, <2>1 DEF Progreso
  <2>4. QED
    BY <1>1, <1>2, <1>3, <1>5, <2>1, <2>2, <2>3 DEF DejaSinFactura, Deja, Firme, Quieto
<1>6. QED
  BY <1>4, <1>5 DEF FijarClave
LEMMA AdjuntarEfecto ==
  ASSUME TypeOK, NEW p \in Pedido, Progreso(p), Adjuntar(p)
  PROVE  DejaSinFactura(p)
<1>1. /\ pc[p] \in {"tareas", "fallo", "fin"} /\ "adjuntar" \in tareas[p]
      /\ tareas' = [tareas EXCEPT ![p] = tareas[p] \ {"adjuntar"}]
      /\ \/ adjuntos' = adjuntos \cup
               {[factura |-> ent[p].factura, asset |-> p, tipo |-> ent[p].tipo,
                 principal |-> EsPrincipal(ent[p].tipo)]}
         \/ UNCHANGED adjuntos
      /\ UNCHANGED <<lotes, asset, factura, subido, pc, ent, aviso>>
  BY DEF Adjuntar, Enviada
<1>2. /\ tareas' \in [Pedido -> SUBSET {"clave", "adjuntar"}]
      /\ tareas'[p] = tareas[p] \ {"adjuntar"}
      /\ \A q \in Pedido \ {p} : tareas'[q] = tareas[q]
  BY <1>1, Partes
<1>3. adjuntos' \subseteq Adjunto
  <2>1. [factura |-> ent[p].factura, asset |-> p, tipo |-> ent[p].tipo,
         principal |-> EsPrincipal(ent[p].tipo)] \in Adjunto
    BY Partes DEF Entrada, Adjunto, EsPrincipal
  <2>2. QED
    BY <1>1, <2>1, Partes
<1>4. TypeOK'
  BY <1>1, <1>2, <1>3 DEF TypeOK
<1>5. Progreso(p)'
  BY <1>1, <1>2 DEF Progreso
<1>6. QED
  BY <1>1, <1>2, <1>4, <1>5 DEF DejaSinFactura, Deja, Firme, Quieto

LEMMA ResponderEfecto ==
  ASSUME TypeOK, NEW p \in Pedido, Progreso(p), Responder(p)
  PROVE  DejaSinFactura(p)
<1>1. /\ pc[p] = "tareas" /\ tareas[p] = {} /\ pc' = [pc EXCEPT ![p] = "fin"]
      /\ UNCHANGED <<lotes, asset, factura, adjuntos, subido, ent, tareas, aviso>>
  BY DEF Responder, Terminadas, Ir, tablas
<1>2. /\ pc' \in [Pedido -> Lugar] /\ pc'[p] = "fin"
      /\ \A q \in Pedido \ {p} : pc'[q] = pc[q]
  BY <1>1, Partes DEF Lugar
<1>3. TypeOK'
  BY <1>1, <1>2 DEF TypeOK, Lugar
<1>4. Progreso(p)'
  BY <1>1, <1>2 DEF Progreso
<1>5. QED
  BY <1>1, <1>2, <1>3, <1>4 DEF DejaSinFactura, Deja, Firme, Quieto

LEMMA SubeEfecto ==
  ASSUME TypeOK, NEW p \in Pedido, Progreso(p), Sube(p)
  PROVE  DejaSinFactura(p)
<1>1. /\ pc[p] = "fin" /\ subido' = subido \cup {p}
      /\ UNCHANGED <<lotes, asset, factura, adjuntos, pc, ent, tareas, aviso>>
  BY DEF Sube, tablas
<1>2. TypeOK'
  BY <1>1 DEF TypeOK
<1>3. Progreso(p)'
  BY <1>1 DEF Progreso
<1>4. QED
  BY <1>1, <1>2, <1>3 DEF DejaSinFactura, Deja, Firme, Quieto

LEMMA NotificaEfecto ==
  ASSUME TypeOK, NEW p \in Pedido, Progreso(p), Notifica(p)
  PROVE  DejaSinFactura(p)
<1>1. /\ p \in subido /\ aviso' = [aviso EXCEPT ![p] = "insertar"]
      /\ UNCHANGED <<lotes, asset, factura, adjuntos, subido, pc, ent, tareas>>
  BY DEF Notifica, tablas
<1>2. /\ aviso' \in [Pedido -> {"no", "insertar", "enlazar"}]
      /\ \A q \in Pedido \ {p} : aviso'[q] = aviso[q]
  BY <1>1, Partes
<1>3. TypeOK'
  BY <1>1, <1>2 DEF TypeOK
<1>4. Progreso(p)'
  BY <1>1 DEF Progreso
<1>5. QED
  BY <1>1, <1>2, <1>3, <1>4 DEF DejaSinFactura, Deja, Firme, Quieto

\* The factura of a file: the row it finds stays, and the one it makes has the
\* lote of its asset.
Nace(p) ==
    /\ pc[p] = "fin"
    /\ factura' = [factura EXCEPT ![ent[p].doc] =
                     [existe |-> TRUE, lote |-> asset[p].lote, origen |-> {p}]]

LEMMA InsertaFacturaEfecto ==
  ASSUME TypeOK, NEW p \in Pedido, Progreso(p), InsertaFactura(p)
  PROVE  Deja(p) /\ (Nace(p) \/ factura' = factura)
<1>1. /\ aviso[p] = "insertar"
      /\ UNCHANGED <<lotes, asset, adjuntos, subido, pc, ent, tareas>>
  BY DEF InsertaFactura
<1>2. p \in subido /\ pc[p] = "fin"
  BY <1>1 DEF Progreso
<1>3. \/ /\ factura' = [factura EXCEPT ![ent[p].doc] =
                          [existe |-> TRUE, lote |-> asset[p].lote, origen |-> {p}]]
         /\ aviso' = [aviso EXCEPT ![p] = "enlazar"]
      \/ factura' = factura /\ aviso' = [aviso EXCEPT ![p] = "no"]
  BY DEF InsertaFactura, LoteDelAsset
<1>4. Nace(p) \/ factura' = factura
  BY <1>2, <1>3 DEF Nace
<1>5. factura' \in [Documento -> Factura]
  <2>1. ent[p].doc \in Documento /\ asset[p].lote \in Lote \cup {SinLote}
    BY Partes DEF Entrada, Asset
  <2>2. [existe |-> TRUE, lote |-> asset[p].lote, origen |-> {p}] \in Factura
    BY <2>1 DEF Factura
  <2>3. QED
    BY <1>3, <2>1, <2>2, Partes
<1>6. /\ aviso' \in [Pedido -> {"no", "insertar", "enlazar"}]
      /\ \A q \in Pedido \ {p} : aviso'[q] = aviso[q]
  BY <1>3, Partes
<1>7. TypeOK'
  BY <1>1, <1>5, <1>6 DEF TypeOK, Factura
<1>8. Progreso(p)'
  BY <1>1, <1>2 DEF Progreso
<1>9. QED
  BY <1>1, <1>4, <1>6, <1>7, <1>8 DEF Deja, Firme, Quieto

LEMMA EnlazaFacturaEfecto ==
  ASSUME TypeOK, NEW p \in Pedido, Progreso(p), EnlazaFactura(p)
  PROVE  DejaSinFactura(p)
<1>1. /\ aviso[p] = "enlazar" /\ aviso' = [aviso EXCEPT ![p] = "no"]
      /\ \/ adjuntos' = adjuntos \cup
               {[factura |-> ent[p].doc, asset |-> p, tipo |-> "DTE-factura",
                 principal |-> TRUE]}
         \/ UNCHANGED adjuntos
      /\ UNCHANGED <<lotes, asset, factura, subido, pc, ent, tareas>>
  BY DEF EnlazaFactura
<1>2. /\ aviso' \in [Pedido -> {"no", "insertar", "enlazar"}] /\ aviso'[p] = "no"
      /\ \A q \in Pedido \ {p} : aviso'[q] = aviso[q]
  BY <1>1, Partes
<1>3. adjuntos' \subseteq Adjunto
  <2>1. [factura |-> ent[p].doc, asset |-> p, tipo |-> "DTE-factura",
         principal |-> TRUE] \in Adjunto
    BY Partes DEF Entrada, Adjunto
  <2>2. QED
    BY <1>1, <2>1, Partes
<1>4. TypeOK'
  BY <1>1, <1>2, <1>3 DEF TypeOK
<1>5. Progreso(p)'
  BY <1>1, <1>2 DEF Progreso
<1>6. QED
  BY <1>1, <1>2, <1>4, <1>5 DEF DejaSinFactura, Deja, Firme, Quieto

\* What happens to nobody in particular: a tanda is opened, or the process stops.
LEMMA ComunEfecto ==
  ASSUME TypeOK, PasoPropio,
         (\E l \in Lote : CrearLote(l)) \/ Caida \/ UNCHANGED vars
  PROVE  TypeOK' /\ Firme /\ PasoPropio' /\ factura' = factura
<1>1. ASSUME NEW l \in Lote, CrearLote(l)
      PROVE  TypeOK' /\ Firme /\ PasoPropio' /\ factura' = factura
  <2>1. /\ lotes' = lotes \cup {l}
        /\ UNCHANGED <<asset, factura, adjuntos, subido, pc, ent, tareas, aviso>>
    BY <1>1 DEF CrearLote
  <2>2. TypeOK'
    BY <2>1 DEF TypeOK
  <2>3. \A q \in Pedido : Quieto(q)
    BY <2>1 DEF Quieto
  <2>4. PasoPropio'
    BY <2>3, QuietoSigue DEF PasoPropio
  <2>5. QED
    BY <2>1, <2>2, <2>4 DEF Firme
<1>2. CASE Caida
  <2>1. /\ pc' = [p \in Pedido |-> IF EnCurso(p) THEN "caida" ELSE pc[p]]
        /\ tareas' = [p \in Pedido |-> {}]
        /\ aviso' = [p \in Pedido |-> "no"]
        /\ UNCHANGED <<lotes, asset, factura, adjuntos, subido, ent>>
    BY <1>2 DEF Caida, tablas
  <2>2. pc' \in [Pedido -> Lugar]
    BY <2>1, Partes DEF Lugar
  <2>3. TypeOK'
    BY <2>1, <2>2 DEF TypeOK, Lugar
  <2>4. ASSUME NEW q \in Pedido
        PROVE  /\ Progreso(q)'
               /\ pc[q] = "fin" => pc'[q] = "fin"
    <3>1. Progreso(q) /\ pc[q] \in Lugar
      BY Partes DEF PasoPropio
    <3>2. pc'[q] = "caida" \/ (pc'[q] = pc[q] /\ pc[q] \in {"libre", "fin", "fallo", "caida"})
      BY <2>1, <3>1 DEF EnCurso, Lugar
    <3>3. pc[q] = "fin" => pc'[q] = "fin"
      BY <2>1 DEF EnCurso
    <3>4. tareas'[q] = {} /\ aviso'[q] = "no"
      BY <2>1
    <3>5. QED
      BY <2>1, <3>1, <3>2, <3>3, <3>4 DEF Progreso
  <2>5. QED
    BY <2>1, <2>3, <2>4 DEF PasoPropio, Firme
<1>3. CASE UNCHANGED vars
  <2>1. UNCHANGED <<lotes, asset, factura, adjuntos, subido, pc, ent, tareas, aviso>>
    BY <1>3 DEF vars, tablas
  <2>2. TypeOK'
    BY <2>1 DEF TypeOK
  <2>3. \A q \in Pedido : Quieto(q)
    BY <2>1 DEF Quieto
  <2>4. PasoPropio'
    BY <2>3, QuietoSigue DEF PasoPropio
  <2>5. QED
    BY <2>1, <2>2, <2>4 DEF Firme
<1>4. QED
  BY <1>1, <1>2, <1>3

-----------------------------------------------------------------------------
(***************************************************************************)
(* The invariant.                                                          *)
(***************************************************************************)

LEMMA Efecto ==
  ASSUME TypeOK, PasoPropio, [Next]_vars
  PROVE  /\ TypeOK' /\ Firme /\ PasoPropio'
         /\ factura' = factura \/ \E p \in Pedido : Nace(p)
<1>1. ASSUME NEW p \in Pedido, Deja(p)
      PROVE  TypeOK' /\ Firme /\ PasoPropio'
  BY <1>1, QuietoSigue DEF Deja, PasoPropio
<1>2. ASSUME NEW p \in Pedido,
             \/ \E e \in Entrada : Pide(p, e)
             \/ Crear(p) \/ AsignarLote(p) \/ Falla(p) \/ FijarClave(p)
             \/ Adjuntar(p) \/ Responder(p) \/ EnlazaFactura(p) \/ Sube(p) \/ Notifica(p)
      PROVE  DejaSinFactura(p)
  <2>1. Progreso(p)
    BY DEF PasoPropio
  <2>2. CASE \E e \in Entrada : Pide(p, e)
    BY <2>1, <2>2, PedirEfecto
  <2>3. CASE Crear(p)
    BY <2>1, <2>3, CrearEfecto
  <2>4. CASE AsignarLote(p)
    BY <2>1, <2>4, AsignarLoteEfecto
  <2>5. CASE Falla(p)
    BY <2>1, <2>5, FallaEfecto
  <2>6. CASE FijarClave(p)
    BY <2>1, <2>6, FijarClaveEfecto
  <2>7. CASE Adjuntar(p)
    BY <2>1, <2>7, AdjuntarEfecto
  <2>8. CASE Responder(p)
    BY <2>1, <2>8, ResponderEfecto
  <2>9. CASE EnlazaFactura(p)
    BY <2>1, <2>9, EnlazaFacturaEfecto
  <2>10. CASE Sube(p)
    BY <2>1, <2>10, SubeEfecto
  <2>11. CASE Notifica(p)
    BY <2>1, <2>11, NotificaEfecto
  <2>12. QED
    BY <1>2, <2>2, <2>3, <2>4, <2>5, <2>6, <2>7, <2>8, <2>9, <2>10, <2>11
<1>3. ASSUME NEW p \in Pedido, InsertaFactura(p)
      PROVE  Deja(p) /\ (Nace(p) \/ factura' = factura)
  BY <1>3, InsertaFacturaEfecto DEF PasoPropio
<1>4. CASE (\E l \in Lote : CrearLote(l)) \/ Caida \/ UNCHANGED vars
  BY <1>4, ComunEfecto
<1>5. ASSUME NEW p \in Pedido, DejaSinFactura(p)
      PROVE  TypeOK' /\ Firme /\ PasoPropio' /\ factura' = factura
  BY <1>1, <1>5 DEF DejaSinFactura
<1>6. CASE \E p \in Pedido : InsertaFactura(p)
  BY <1>1, <1>3, <1>6
<1>7. CASE \E p \in Pedido :
             \/ \E e \in Entrada : Pide(p, e)
             \/ Crear(p) \/ AsignarLote(p) \/ Falla(p) \/ FijarClave(p)
             \/ Adjuntar(p) \/ Responder(p) \/ EnlazaFactura(p) \/ Sube(p) \/ Notifica(p)
  BY <1>2, <1>5, <1>7
<1>8. QED
  BY <1>4, <1>6, <1>7 DEF Next, Servicio, Descansa

LEMMA OrigenesInductiva ==
  ASSUME TypeOK, PasoPropio, Origenes, LoteHeredado, [Next]_vars
  PROVE  Origenes' /\ LoteHeredado'
<1>1. ASSUME NEW d \in Documento, NEW q \in factura'[d].origen
      PROVE  pc'[q] = "fin" /\ factura'[d].lote = ent'[q].lote
  <2>1. factura \in [Documento -> Factura] /\ \A x \in Documento : factura[x].origen \subseteq Pedido
    BY Partes DEF Factura
  <2>2. CASE factura'[d] = factura[d]
    <3>1. q \in Pedido /\ pc[q] = "fin" /\ factura[d].lote = ent[q].lote
      BY <1>1, <2>1, <2>2 DEF Origenes, LoteHeredado
    <3>2. pc'[q] = "fin" /\ ent'[q] = ent[q]
      BY <3>1, Efecto DEF Firme
    <3>3. QED
      BY <2>2, <3>1, <3>2
  <2>3. ASSUME NEW p \in Pedido, Nace(p), factura'[d] # factura[d]
        PROVE  pc'[q] = "fin" /\ factura'[d].lote = ent'[q].lote
    <3>1. factura'[d] = [existe |-> TRUE, lote |-> asset[p].lote, origen |-> {p}]
      BY <2>1, <2>3 DEF Nace
    <3>2. q = p /\ factura'[d].lote = asset[p].lote
      BY <1>1, <3>1
    <3>3. asset[p].lote = ent[p].lote
      BY <2>3 DEF Nace, PasoPropio, Progreso
    <3>4. pc'[p] = "fin" /\ ent'[p] = ent[p]
      BY <2>3, Efecto DEF Nace, Firme
    <3>5. QED
      BY <3>2, <3>3, <3>4
  <2>4. QED
    BY <2>2, <2>3, Efecto
<1>2. QED
  BY <1>1 DEF Origenes, LoteHeredado

LEMMA IInvInicial == Init => IInv
<1> SUFFICES ASSUME Init PROVE IInv
  OBVIOUS
<1>1. (CHOOSE d \in Documento : TRUE) \in Documento
  BY ConstantesOK
<1>2. /\ asset \in [Pedido -> Asset]
      /\ \A p \in Pedido : asset[p].lote = SinLote
  BY DEF Init, Asset
<1>3. factura \in [Documento -> Factura] /\ \A d \in Documento : factura[d].origen = {}
  <2>1. \A b \in BOOLEAN : [existe |-> b, lote |-> SinLote, origen |-> {}] \in Factura
    BY DEF Factura
  <2>2. \A d \in Documento : (d \in Previas) \in BOOLEAN
    <3> TAKE d \in Documento
    <3>1. CASE d \in Previas
      <4>1. (d \in Previas) = TRUE
        BY <3>1
      <4>2. QED
        BY <4>1
    <3>2. CASE d \notin Previas
      <4>1. (d \in Previas) = FALSE
        BY <3>2
      <4>2. QED
        BY <4>1
    <3>3. QED
      BY <3>1, <3>2
  <2>3. \A d \in Documento :
           [existe |-> d \in Previas, lote |-> SinLote, origen |-> {}] \in Factura
    BY <2>1, <2>2, Zenon
  <2>4. factura = [d \in Documento |-> [existe |-> d \in Previas,
                                      lote |-> SinLote, origen |-> {}]]
    BY DEF Init
  <2>5. \A d \in Documento : factura[d].origen = {}
    BY <2>4
  <2>6. factura \in [Documento -> Factura]
    BY <2>3, <2>4, Zenon
  <2>7. QED
    BY <2>5, <2>6
<1>4. ent \in [Pedido -> Entrada]
  BY <1>1 DEF Init, Entrada, Tipo
<1>5. /\ lotes = {} /\ adjuntos = {} /\ subido = {}
      /\ pc = [p \in Pedido |-> "libre"]
      /\ tareas = [p \in Pedido |-> {}]
      /\ aviso = [p \in Pedido |-> "no"]
  BY DEF Init
<1>6. TypeOK
  BY <1>2, <1>3, <1>4, <1>5 DEF TypeOK, Factura
<1>7. PasoPropio
  BY <1>2, <1>5 DEF PasoPropio, Progreso
<1>8. Origenes /\ LoteHeredado
  BY <1>3 DEF Origenes, LoteHeredado
<1>9. QED
  BY <1>6, <1>7, <1>8 DEF IInv

LEMMA IInvInductiva == IInv /\ [Next]_vars => IInv'
<1> SUFFICES ASSUME IInv, [Next]_vars PROVE IInv'
  OBVIOUS
<1>1. TypeOK' /\ PasoPropio'
  BY Efecto DEF IInv
<1>2. Origenes' /\ LoteHeredado'
  BY OrigenesInductiva DEF IInv
<1>3. QED
  BY <1>1, <1>2 DEF IInv

LEMMA Invariante == Spec => []IInv
<1>1. Init => IInv
  BY IInvInicial
<1>2. IInv /\ [Next]_vars => IInv'
  BY IInvInductiva
<1>3. QED
  BY <1>1, <1>2, PTL DEF Spec

-----------------------------------------------------------------------------
(***************************************************************************)
(* The theorems.                                                           *)
(***************************************************************************)

\* Every variable keeps its type, whatever fails between the statements of
\* getPutPresignedUrl and of publishFactura.
THEOREM Tipos == Spec => []TypeOK
<1>1. IInv => TypeOK
  BY DEF IInv
<1>2. QED
  BY <1>1, Invariante, PTL

\* A factura that is born from a file has the lote the person gave to the file,
\* for any number of files and tandas: the asset has its lote before the browser
\* is answered, and nobody changes it afterwards.
THEOREM LoteHeredadoSiempre == Spec => []LoteHeredado
<1>1. IInv => LoteHeredado
  BY DEF IInv
<1>2. QED
  BY <1>1, Invariante, PTL

\* No file is in the bucket without a row of media_assets that has its key: the
\* answer waits for updateMediaObjectKey, and a failure of it is no answer.
THEOREM ArchivoConRastroSiempre == Spec => []ArchivoConRastro
<1>1. IInv => ArchivoConRastro
  <2> SUFFICES ASSUME IInv, NEW p \in subido PROVE asset[p].clave = "archivo"
    BY DEF ArchivoConRastro
  <2>1. p \in Pedido
    BY DEF IInv, TypeOK
  <2>2. QED
    BY <2>1 DEF IInv, PasoPropio, Progreso
<1>2. QED
  BY <1>1, Invariante, PTL
=============================================================================
