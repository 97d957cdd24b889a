---------------------------- MODULE SubidaDocumentos ----------------------------
(***************************************************************************)
(* From the request of a place for a file to the factura that is born from *)
(* it.  The service writes the row of the asset, the browser uploads the   *)
(* file with the key it was answered, a worker reads the file and notifies *)
(* the webhook, and the factura takes the lote of the asset and is linked  *)
(* to it.  Nothing runs in one transaction with the rest.                  *)
(*                                                                         *)
(* A request creates one asset, so assets are named by their request.  The *)
(* facturas are named by the document they come from: the constraint on    *)
(* issuer and number admits one row of each.                               *)
(***************************************************************************)
EXTENDS Naturals, FiniteSets

CONSTANTS
    Pedido,      \* the requests for a place, and the assets they create
    Documento,   \* the facturas on paper
    Previas,     \* those with a row at the beginning
    Lote,        \* the tandas a person may open
    ConFallos    \* bound: whether a statement may fail and the process crash

SinLote == "null"
SinFactura == "undefined"

\* The kinds of document: the factura itself, its backing document and the
\* rest (orders, guides, certificates), which are told apart by their name.
Tipo == {"DTE", "DTE-respaldo", "otro"}

ASSUME ConstantesOK ==
    /\ Documento # {} /\ Previas \subseteq Documento
    /\ SinLote \notin Lote /\ SinFactura \notin Documento
    /\ ConFallos \in BOOLEAN

VARIABLES
    lotes,      \* factura.lote
    asset,      \* media.media_assets
    factura,    \* factura.factura: whether there is a row, its lote, its asset
    adjuntos,   \* factura.factura_adjuntos
    subido,     \* the assets whose file is in the bucket
    pc, ent,    \* where a request is, and what it carries
    tareas,     \* the statements of its Promise.all that have not ended
    aviso       \* the webhook that reports the file of an asset

tablas == <<lotes, asset, factura, adjuntos>>
vars == <<tablas, subido, pc, ent, tareas, aviso>>

\* storage_key is first the folder of the file, and then its own key.
Asset == [clave: {"", "carpeta", "archivo"}, lote: Lote \cup {SinLote}]

Adjunto == [factura: Documento \cup {SinFactura}, asset: Pedido,
            tipo: Tipo \cup {"DTE-factura"}, principal: BOOLEAN]

Entrada == [tipo: Tipo, doc: Documento, factura: Documento \cup {SinFactura},
            lote: Lote \cup {SinLote}]

TypeOK ==
    /\ lotes \subseteq Lote
    /\ asset \in [Pedido -> Asset]
    /\ factura \in [Documento -> [existe: BOOLEAN, lote: Lote \cup {SinLote},
                                  origen: SUBSET Pedido]]
    /\ adjuntos \subseteq Adjunto
    /\ subido \subseteq Pedido
    /\ pc \in [Pedido -> {"libre", "crear", "lote", "tareas",
                          "fin", "fallo", "caida"}]
    /\ ent \in [Pedido -> Entrada]
    /\ tareas \in [Pedido -> SUBSET {"clave", "adjuntar"}]
    /\ aviso \in [Pedido -> {"no", "insertar", "enlazar"}]

Init ==
    /\ lotes = {}
    /\ asset = [p \in Pedido |-> [clave |-> "", lote |-> SinLote]]
    /\ factura = [d \in Documento |-> [existe |-> d \in Previas,
                                       lote |-> SinLote, origen |-> {}]]
    /\ adjuntos = {} /\ subido = {}
    /\ pc = [p \in Pedido |-> "libre"]
    /\ ent = [p \in Pedido |-> [tipo |-> "otro",
                                doc |-> CHOOSE d \in Documento : TRUE,
                                factura |-> SinFactura, lote |-> SinLote]]
    /\ tareas = [p \in Pedido |-> {}]
    /\ aviso = [p \in Pedido |-> "no"]

Ir(p, paso) == pc' = [pc EXCEPT ![p] = paso]

EnCurso(p) == pc[p] \in {"crear", "lote", "tareas"}

-----------------------------------------------------------------------------
\* ExecuteCrearLote: the browser opens the tanda before its first file.
CrearLote(l) ==
    /\ l \notin lotes
    /\ lotes' = lotes \cup {l}
    /\ UNCHANGED <<asset, factura, adjuntos, subido, pc, ent, tareas, aviso>>

(***************************************************************************)
(* getPutPresignedUrl.  A client names lotes and facturas it was answered. *)
(***************************************************************************)
Pide(p, e) ==
    /\ pc[p] = "libre"
    /\ e.lote \in lotes \cup {SinLote}
    /\ e.factura \in {SinFactura} \cup {d \in Documento : factura[d].existe}
    /\ Ir(p, "crear")
    /\ ent' = [ent EXCEPT ![p] = e]
    /\ UNCHANGED <<tablas, subido, tareas, aviso>>

\* Mutant of TrasCrear: the lote is for the files of an existing factura.
TrasCrearConFactura(e) ==
    IF e.lote # SinLote /\ e.factura # SinFactura THEN "lote" ELSE "tareas"

TrasCrear(e) == IF e.lote # SinLote THEN "lote" ELSE "tareas"

PuedeAdjuntar(e) == e.factura # SinFactura

\* createMediaObject; the statements of the Promise.all are known by now.
Crear(p) ==
    /\ pc[p] = "crear"
    /\ asset' = [asset EXCEPT ![p].clave = "carpeta"]
    /\ tareas' = [tareas EXCEPT ![p] =
                    {"clave"} \cup (IF PuedeAdjuntar(ent[p])
                                    THEN {"adjuntar"} ELSE {})]
    /\ Ir(p, TrasCrear(ent[p]))
    /\ UNCHANGED <<lotes, factura, adjuntos, subido, ent, aviso>>

\* asignarLote, before any of those statements is sent.
AsignarLote(p) ==
    /\ pc[p] = "lote"
    /\ asset' = [asset EXCEPT ![p].lote = ent[p].lote]
    /\ Ir(p, "tareas")
    /\ UNCHANGED <<lotes, factura, adjuntos, subido, ent, tareas, aviso>>

\* A statement that fails before the Promise.all: nothing of it was sent.
Falla(p) ==
    /\ ConFallos /\ pc[p] \in {"crear", "lote"}
    /\ Ir(p, "fallo")
    /\ tareas' = [tareas EXCEPT ![p] = {}]
    /\ UNCHANGED <<tablas, subido, ent, aviso>>

Enviada(p, t) == pc[p] \in {"tareas", "fallo", "fin"} /\ t \in tareas[p]

\* updateMediaObjectKey: a failure rejects the Promise.all at once.
FijarClave(p) ==
    /\ Enviada(p, "clave")
    /\ \/ asset' = [asset EXCEPT ![p].clave = "archivo"] /\ UNCHANGED pc
       \/ ConFallos /\ Ir(p, "fallo") /\ UNCHANGED asset
    /\ tareas' = [tareas EXCEPT ![p] = @ \ {"clave"}]
    /\ UNCHANGED <<lotes, factura, adjuntos, subido, ent, aviso>>

\* isPrincipal of addAssets, by the kind of document.
EsPrincipal(tipo) == tipo \in {"DTE", "DTE-respaldo"}

\* addAssets: a failure is swallowed, and the statement goes on even if the
\* request has failed by then.
Adjuntar(p) ==
    /\ Enviada(p, "adjuntar")
    /\ \/ adjuntos' = adjuntos \cup
             {[factura |-> ent[p].factura, asset |-> p, tipo |-> ent[p].tipo,
               principal |-> EsPrincipal(ent[p].tipo)]}
       \/ ConFallos /\ UNCHANGED adjuntos
    /\ tareas' = [tareas EXCEPT ![p] = @ \ {"adjuntar"}]
    /\ UNCHANGED <<lotes, asset, factura, subido, pc, ent, aviso>>

\* Mutant of Terminadas: the update of the key is not awaited.
TerminadasSinClave(p) == "adjuntar" \notin tareas[p]

Terminadas(p) == tareas[p] = {}

Responder(p) ==
    /\ pc[p] = "tareas" /\ Terminadas(p)
    /\ Ir(p, "fin")
    /\ UNCHANGED <<tablas, subido, ent, tareas, aviso>>

-----------------------------------------------------------------------------
\* The browser puts the file under the key it was answered.
Sube(p) ==
    /\ pc[p] = "fin"
    /\ subido' = subido \cup {p}
    /\ UNCHANGED <<tablas, pc, ent, tareas, aviso>>

\* The worker reads the file of a factura and calls the webhook, and may do
\* it again.
Notifica(p) ==
    /\ p \in subido /\ ent[p].tipo = "DTE" /\ aviso[p] = "no"
    /\ aviso' = [aviso EXCEPT ![p] = "insertar"]
    /\ UNCHANGED <<tablas, subido, pc, ent, tareas>>

\* Mutant of LoteDelAsset: another column of the same row.
LoteDelAssetOtra(p) == asset[p].clave

\* SELECT lote_id FROM media.media_assets.
LoteDelAsset(p) == asset[p].lote

\* The INSERT of publishFactura: a second row of the same document breaks the
\* constraint.
InsertaFactura(p) ==
    LET d == ent[p].doc IN
    /\ aviso[p] = "insertar"
    /\ \/ /\ ~factura[d].existe
          /\ factura' = [factura EXCEPT ![d] = [existe |-> TRUE,
                            lote |-> LoteDelAsset(p), origen |-> {p}]]
          /\ aviso' = [aviso EXCEPT ![p] = "enlazar"]
       \/ /\ factura[d].existe \/ ConFallos
          /\ aviso' = [aviso EXCEPT ![p] = "no"]
          /\ UNCHANGED factura
    /\ UNCHANGED <<lotes, asset, adjuntos, subido, pc, ent, tareas>>

\* Its second transaction: the link to the asset it came from.
EnlazaFactura(p) ==
    /\ aviso[p] = "enlazar"
    /\ \/ adjuntos' = adjuntos \cup
             {[factura |-> ent[p].doc, asset |-> p, tipo |-> "DTE-factura",
               principal |-> TRUE]}
       \/ ConFallos /\ UNCHANGED adjuntos
    /\ aviso' = [aviso EXCEPT ![p] = "no"]
    /\ UNCHANGED <<lotes, asset, factura, subido, pc, ent, tareas>>

\* The process stops, and with it the promises in flight.
Caida ==
    /\ ConFallos
    /\ \E p \in Pedido : EnCurso(p) \/ tareas[p] # {} \/ aviso[p] # "no"
    /\ pc' = [p \in Pedido |-> IF EnCurso(p) THEN "caida" ELSE pc[p]]
    /\ tareas' = [p \in Pedido |-> {}]
    /\ aviso' = [p \in Pedido |-> "no"]
    /\ UNCHANGED <<tablas, subido, ent>>

-----------------------------------------------------------------------------
Servicio(p) ==
    \/ Crear(p) \/ AsignarLote(p) \/ Falla(p) \/ FijarClave(p) \/ Adjuntar(p)
    \/ Responder(p) \/ InsertaFactura(p) \/ EnlazaFactura(p)

\* Nothing is running: nobody has to ask for more.
Descansa ==
    /\ \A p \in Pedido : ~EnCurso(p) /\ tareas[p] = {} /\ aviso[p] = "no"
    /\ UNCHANGED vars

Next ==
    \/ \E l \in Lote : CrearLote(l)
    \/ \E p \in Pedido :
          \/ \E e \in Entrada : Pide(p, e)
          \/ Servicio(p) \/ Sube(p) \/ Notifica(p)
    \/ Caida
    \/ Descansa

Spec == Init /\ [][Next]_vars

-----------------------------------------------------------------------------
\* The factura that is born from a file has the lote the person gave to that
\* file, whatever fails in between: it "lo hereda de su adjunto principal".
LoteHeredado ==
    \A d \in Documento : \A p \in factura[d].origen :
       factura[d].lote = ent[p].lote

\* Every file in the bucket has a row of media_assets with its key: no file
\* is left without a trace.
ArchivoConRastro == \A p \in subido : asset[p].clave = "archivo"
=============================================================================
