-------------------------- MODULE RectificacionFactura --------------------------
(***************************************************************************)
(* The correction of the data of one factura: the edits of its gestor,     *)
(* from the guards of the server to the row, against the backing documents *)
(* that are compared with the row, field by field and text by text.        *)
(*                                                                         *)
(* A text is the thing it names and the way it is written; n = 0 is the    *)
(* text that was left empty.  Each request is a process and one action is  *)
(* the code between two awaits.                                            *)
(***************************************************************************)
EXTENDS Naturals, FiniteSets

CONSTANTS
    Usuario, Organizacion,
    Gestor, Duena,    \* the gestor and the organization of the factura
    ConFila,          \* the rows of organizacion_miembro, active or not
    Peticion,         \* the requests, numbered as they arrive
    MaxActivas,       \* bound: how many are handled at once
    MaxN,             \* bound: the things that a field may name
    FilaPrevia,       \* the row at the beginning
    Tratados,         \* bound: the fields that the instance is about
    Cuerpos,          \* bound: the gestor and organization that edits name
    Valores,          \* bound: what edits send
    Documentos        \* bound: what backing documents say

Campo == {"rutDeudor", "nombreRazonSocialDeudor", "numeroFactura", "montoTotal"}

\* "otra": a RUT without dots, a number with zeros to the left, an amount with
\* decimals.  "varias": several values and a semicolon.  "invalida": not what
\* the field takes.  "corrida": an amount whose decimal point was taken out.
Forma == {"llana", "otra", "varias", "invalida", "corrida"}

Texto == [n: 0..MaxN, forma: Forma]

Token == {"ninguno", "invalido", "sin permiso", "con permiso"}

Fila == [Campo -> Texto]

ASSUME ConstantesOK ==
    /\ Gestor \in Usuario /\ Duena \in Organizacion
    /\ ConFila \subseteq Usuario \X Organizacion
    /\ Cuerpos \subseteq Usuario \X Organizacion
    /\ Peticion \subseteq Nat /\ MaxActivas \in Nat /\ MaxN \in Nat
    /\ FilaPrevia \in Fila /\ Tratados \subseteq Campo
    /\ Valores \subseteq Texto /\ Documentos \subseteq Fila
    /\ Documentos # {}
    /\ \A d \in Documentos : d["montoTotal"].forma # "varias"    \* Number(...)

VARIABLES
    fila,        \* the row, as it is stored
    notas,       \* the notes that are not resolved: the field, and what the
                 \* document says
    pc, ent,     \* where a request is, and what it carries
    leida,       \* the row as getFacturaByID gave it, until it is compared
    aviso,       \* what it answered
    ultimo,      \* history: per field, what the last document to be compared says,
                 \* empty before the first
    corregido,   \* history: the fields that an edit has changed after it
    dudoso,      \* history: the fields that changed while that document was
                 \* compared, or whose notes an edit marked as resolved when
                 \* nothing had changed them since
    viejas       \* history: the notes of comparisons with a value that was gone

historia == <<ultimo, corregido, dudoso, viejas>>
vars == <<fila, notas, pc, ent, leida, aviso, historia>>

PasoDe == {"validar", "actualizar", "resolver", "resolver_nulo", "leer", "anotar"}

TypeOK ==
    /\ fila \in Fila
    /\ notas \subseteq [campo: Campo, doc: Texto]
    /\ pc \in [Peticion -> PasoDe \cup {"libre", "fin", "fallo", "caida"}]
    /\ ent \in [Peticion -> [tipo: {"", "editar", "respaldo"}, token: Token,
                             quien: Usuario, org: Organizacion, campo: Campo,
                             valor: Texto, doc: Fila]]
    /\ leida \in [Peticion -> Fila]
    /\ aviso \in [Peticion -> {"", "no autorizado", "prohibido", "invalido", "actualizada",
                               "no actualizada", "discrepancias",
                               "sin discrepancias", "error"}]
    /\ ultimo \in Fila
    /\ corregido \subseteq Campo /\ dudoso \subseteq Campo
    /\ viejas \subseteq notas

-----------------------------------------------------------------------------
Vacio == [n |-> 0, forma |-> "llana"]

Base == [tipo |-> "", token |-> "ninguno", quien |-> Gestor, org |-> Duena,
         campo |-> "rutDeudor", valor |-> Vacio, doc |-> [c \in Campo |-> Vacio]]

Init ==
    /\ fila = FilaPrevia /\ notas = {}
    /\ pc = [p \in Peticion |-> "libre"]
    /\ ent = [p \in Peticion |-> Base]
    /\ leida = [p \in Peticion |-> FilaPrevia]
    /\ aviso = [p \in Peticion |-> ""]
    /\ ultimo = [c \in Campo |-> Vacio] /\ corregido = {} /\ dudoso = {}
    /\ viejas = {}

EnCurso(p) == pc[p] \in PasoDe

Ir(p, paso) == pc' = [pc EXCEPT ![p] = paso]

Termina(p, como, que) == Ir(p, como) /\ aviso' = [aviso EXCEPT ![p] = que]

\* What a request that changed no field carried is of no more interest.
Olvida(p) == ent' = [ent EXCEPT ![p] = Base]

-----------------------------------------------------------------------------
(***************************************************************************)
(* The guards, and the constructors that check the body.                   *)
(***************************************************************************)

\* AuthGuard: a token whose signature and expiry verify.
Autentica(t) == t \in {"sin permiso", "con permiso"}

\* RolesGuard asks PATCH for none; PermissionsGuard looks for FCT_EDIT among
\* the permissions that the token carries.
Permite(t) == t = "con permiso"

\* Mutant of Admite: the format of a RUT is not checked.
AdmiteSinFormato(c, v) == v.n # 0 /\ v.forma \in {"llana", "otra"}

\* CampoEditado: nothing empty, a RUT with its dots, a positive number, a name
\* of the right length.
Admite(c, v) ==
    /\ v.n # 0
    /\ v.forma \in CASE c = "rutDeudor"               -> {"llana"}
                     [] c = "nombreRazonSocialDeudor" -> {"llana", "otra", "varias"}
                     [] OTHER                         -> {"llana", "otra"}

Cabe(p) ==
    /\ pc[p] = "libre" /\ \A q \in Peticion : q < p => pc[q] # "libre"
    /\ Cardinality({q \in Peticion : EnCurso(q)}) < MaxActivas

Llega(p, e, paso) ==
    /\ Cabe(p) /\ Ir(p, paso)
    /\ ent' = [ent EXCEPT ![p] = e]
    /\ UNCHANGED <<fila, notas, leida, aviso, historia>>

\* Turned away: nothing of it reaches a handler.
Rechaza(p, que) ==
    /\ Cabe(p) /\ Termina(p, "fallo", que)
    /\ UNCHANGED <<fila, notas, ent, leida, historia>>

\* PATCH factura: whom the body names is not compared with the token.
LlegaEdicion(p) ==
    \E t \in Token, c \in Tratados, v \in Valores :
       \/ ~Autentica(t) /\ Rechaza(p, "no autorizado")
       \/ Autentica(t) /\ ~Permite(t) /\ Rechaza(p, "prohibido")
       \/ Autentica(t) /\ Permite(t) /\ ~Admite(c, v) /\ Rechaza(p, "invalido")
       \/ /\ Autentica(t) /\ Permite(t) /\ Admite(c, v)
          /\ \E b \in Cuerpos :
                Llega(p, [Base EXCEPT !.tipo = "editar", !.token = t,
                                      !.quien = b[1], !.org = b[2], !.campo = c, !.valor = v], "validar")

\* PUT webhooks/notify, which is public, with a document that was read.
LlegaRespaldo(p) ==
    \E d \in Documentos :
       Llega(p, [Base EXCEPT !.tipo = "respaldo", !.doc = d], "leer")

-----------------------------------------------------------------------------
(***************************************************************************)
(* ExecuteUpdateFactura.                                                   *)
(***************************************************************************)

\* getUserProfileByUsername: a row of the member, whether or not it is active.
Pertenece(u, o) == <<u, o>> \in ConFila

\* validateUserAndOrganizacion: a query that fails is an answer of no.
EditarValidar(p) ==
    /\ pc[p] = "validar"
    /\ \/ /\ Pertenece(ent[p].quien, ent[p].org)
          /\ Ir(p, "actualizar") /\ UNCHANGED <<ent, aviso>>
       \/ Termina(p, "fallo", "error") /\ Olvida(p)
    /\ UNCHANGED <<fila, notas, leida, historia>>

\* Mutant of Coincide: the gestor is left out of the WHERE clause.
CoincideOrganizacion(u, o) == o = Duena

\* WHERE id = $1 AND gestor_usuario_uuid = $2 AND organizacion_id = $3.
Coincide(u, o) == u = Gestor /\ o = Duena

Escribe(p) ==
    /\ fila' = [fila EXCEPT ![ent[p].campo] = ent[p].valor]
    /\ corregido' = corregido \cup {ent[p].campo}

\* updateFactura: the length of the driver's answer says "updated" of an UPDATE
\* that matched no row.  A failure gives isUpdate = null, and may be of a
\* COMMIT that was done.
EditarActualizar(p) ==
    /\ pc[p] = "actualizar"
    /\ LET coincide == Coincide(ent[p].quien, ent[p].org) IN
       \/ coincide /\ Escribe(p) /\ Ir(p, "resolver")
       \/ ~coincide /\ UNCHANGED <<fila, corregido>> /\ Ir(p, "resolver")
       \/ coincide /\ Escribe(p) /\ Ir(p, "resolver_nulo")
       \/ UNCHANGED <<fila, corregido>> /\ Ir(p, "resolver_nulo")
    /\ UNCHANGED <<notas, ent, leida, aviso, ultimo, dudoso, viejas>>

\* Mutants of Resueltas: the field is left out of the WHERE clause; the notes
\* are looked for under what the column is called, and none is found.
ResueltasTodas(c) == notas
ResueltasNinguna(c) == {}

Resueltas(c) == {m \in notas : m.campo = c}

\* updateNotasOCRResueltas, whatever updateFactura did.
EditarResolver(p) ==
    /\ pc[p] \in {"resolver", "resolver_nulo"}
    /\ \/ /\ notas' = notas \ Resueltas(ent[p].campo)
          /\ Termina(p, "fin", IF pc[p] = "resolver" THEN "actualizada"
                                                     ELSE "no actualizada")
          /\ viejas' = viejas \cap notas'
          /\ dudoso' = dudoso \cup ({ent[p].campo} \ corregido)
       \/ Termina(p, "fallo", "error") /\ UNCHANGED <<notas, viejas, dudoso>>
    /\ UNCHANGED <<fila, ent, leida, ultimo, corregido>>

-----------------------------------------------------------------------------
(***************************************************************************)
(* ExecuteCargaDocumentoRespaldo and compararDatosOCRConFactura.           *)
(***************************************************************************)

\* Mutants of Leido: the dots of every field are taken out; the amount is
\* left empty.
LeidoSinPuntos(c, v) == IF v.forma = "otra" THEN [v EXCEPT !.forma = "corrida"] ELSE v
LeidoIlegible(c, v) == IF v.forma = "otra" THEN [v EXCEPT !.n = MaxN + 1] ELSE v

\* FacturaModel.fromEntity takes every dot out of an amount.
Leido(c, v) == IF c = "montoTotal" /\ v.forma = "otra"
               THEN [v EXCEPT !.forma = "corrida"] ELSE v

\* An amount that the document does not give is the number 0, which is
\* compared like any other.
Presente(c, d) == d.n # 0 \/ c = "montoTotal"

\* Mutant of Discrepa: a document that says several things is left alone.
DiscrepaUnico(c, d, v) == Presente(c, d) /\ d # v /\ d.forma # "varias"

Discrepa(c, d, v) == Presente(c, d) /\ (d.forma = "varias" \/ d # v)

NotasDe(p) == {[campo |-> c, doc |-> ent[p].doc[c]] :
                 c \in {k \in Tratados : Discrepa(k, ent[p].doc[k], leida[p][k])}}

\* getFacturaByID, which answers nothing when it fails.
RespaldoLeer(p) ==
    /\ pc[p] = "leer"
    /\ \/ /\ leida' = [leida EXCEPT ![p] = [c \in Campo |-> Leido(c, fila[c])]]
          /\ Ir(p, "anotar") /\ UNCHANGED <<ent, aviso>>
       \/ Termina(p, "fin", "error") /\ Olvida(p) /\ UNCHANGED leida
    /\ UNCHANGED <<fila, notas, historia>>

\* The fields that changed after they were read.
Cambiados(p) == {c \in Tratados : leida[p][c] # Leido(c, fila[c])}

\* guardarNotasOCR: the comparison is with what was read.
RespaldoNotas(p) ==
    /\ pc[p] = "anotar"
    /\ \/ /\ notas' = notas \cup NotasDe(p)
          /\ ultimo' = [c \in Campo |-> IF c \in Tratados THEN ent[p].doc[c] ELSE ultimo[c]]
          /\ corregido' = corregido \ Tratados
          /\ dudoso' = (dudoso \ Tratados) \cup Cambiados(p)
          /\ viejas' = (viejas \ NotasDe(p))
                          \cup {m \in NotasDe(p) : m.campo \in Cambiados(p)}
          /\ Termina(p, "fin", IF NotasDe(p) = {} THEN "sin discrepancias"
                                                  ELSE "discrepancias")
       \/ /\ NotasDe(p) # {}
          /\ Termina(p, "fallo", "error") /\ UNCHANGED <<notas, historia>>
    /\ leida' = [leida EXCEPT ![p] = FilaPrevia] /\ Olvida(p)
    /\ UNCHANGED fila

-----------------------------------------------------------------------------
\* The process stops.
Caida ==
    /\ \E p \in Peticion : EnCurso(p)
    /\ pc' = [p \in Peticion |-> IF EnCurso(p) THEN "caida" ELSE pc[p]]
    /\ UNCHANGED <<fila, notas, ent, leida, aviso, historia>>

Manejador(p) ==
    \/ EditarValidar(p) \/ EditarActualizar(p) \/ EditarResolver(p)
    \/ RespaldoLeer(p) \/ RespaldoNotas(p)

\* No more requests will come.
Descansa == (\A p \in Peticion : ~EnCurso(p)) /\ UNCHANGED vars

Next ==
    \/ \E p \in Peticion : LlegaEdicion(p) \/ LlegaRespaldo(p) \/ Manejador(p)
    \/ Caida
    \/ Descansa

Spec == Init /\ [][Next]_vars

-----------------------------------------------------------------------------
(***************************************************************************)
(* What it promises.                                                       *)
(***************************************************************************)

\* What a field holds was there at the beginning, or came in an edit that
\* passed every gate: a token with the permission, a value its field takes, and
\* a body that names the gestor of the row, its organization, and a member.
CambioConOrigen ==
    \A c \in Campo :
       \/ fila[c] = FilaPrevia[c]
       \/ \E p \in Peticion :
            LET e == ent[p] IN
            /\ e.tipo = "editar" /\ e.campo = c /\ e.valor = fila[c]
            /\ e.token = "con permiso" /\ e.valor.n # 0
            /\ c = "rutDeudor" => e.valor.forma = "llana"
            /\ e.quien = Gestor /\ e.org = Duena /\ <<e.quien, e.org>> \in ConFila

\* A field that is not what the last document says, or of which that document
\* says several things, has a note, or an edit has changed it since: whatever
\* runs at once, fails or stops in between.  It is missed in two cases, until
\* the next document is compared: an edit changed the field while this one was
\* compared, or an edit resolved the notes of the field that nothing had
\* changed since.  A document that gives an amount with decimals without its
\* point passes for one that agrees with it.
DiscrepanciaAnotada ==
    \A c \in Tratados \ dudoso :
       ultimo[c].n # 0 /\ (ultimo[c] # fila[c] \/ ultimo[c].forma = "varias") =>
          \/ c \in corregido
          \/ /\ c = "montoTotal" /\ fila[c].forma = "otra"
             /\ ultimo[c] = [fila[c] EXCEPT !.forma = "corrida"]
          \/ \E m \in notas : m.campo = c /\ m.doc = ultimo[c]

\* An edit put this text in the field, or meant to, and did not get to resolve
\* the notes of the field.
SinResolver(c, v) ==
    \E p \in Peticion :
       /\ ent[p].tipo = "editar" /\ ent[p].campo = c /\ ent[p].valor = v
       /\ pc[p] \in {"resolver", "resolver_nulo", "fallo", "caida"}

\* A note contradicts the row, whatever runs at once: the document it comes from
\* says something else, except for the notes of a comparison with a value that
\* was gone, for an amount with decimals, which is read without its point, and
\* where the edit that brought the row to what the note says was cut before it
\* resolved the notes of its field.
NotaVigente ==
    \A m \in notas \ viejas :
       m.doc.forma # "varias" =>
          \/ m.doc # fila[m.campo]
          \/ m.campo = "montoTotal" /\ m.doc.forma = "otra"
          \/ SinResolver(m.campo, m.doc)
=============================================================================
