-------------------------- MODULE FacturaPublicacion --------------------------
(***************************************************************************)
(* The life of a factura (invoice): it is registered by the webhook that   *)
(* reports an OCR result or by the form, edited, authorised for            *)
(* publication, shown to the financiadoras, and taken back when a backing  *)
(* document contradicts it.                                                *)
(*                                                                         *)
(* Each request is a process.  One action is the code between two awaits   *)
(* of its handler, so what a handler read may be stale when it is used,    *)
(* and the two promises that guardarNotasOCR starts and never awaits run   *)
(* in the background, after the request that started them has answered.    *)
(***************************************************************************)
EXTENDS Naturals, FiniteSets

CONSTANTS
    Factura,        \* identifiers that factura rows may get
    Financiadora,   \* the organizations of type FINANCIADORA
    Usuario,        \* the users that may manage facturas
    Organizacion,   \* the organizations that own facturas
    OrgDe,          \* OrgDe[u]: the organization user u acts for
    Folio,          \* a factura number (with its issuer)
    Campo,          \* the fields an OCR note may be about
    Peticion,       \* the requests that may arrive, numbered as they do
    Tipos,          \* bound: the kinds of request that arrive
    Editables,      \* bound: the fields that edits are about
    MaxActivas,     \* bound: how many requests the service handles at once
    ConFallos,      \* bound: whether a query may fail and the process crash
    FilasPrevias,   \* rows registered by earlier webhooks (a function)
    EstadosCliente  \* bound: the statuses that forms and edits send

\* The status column (facturaEstado); APROBADA is only known to CampoEditado.
Estado == {"PROCESANDO", "PENDIENTE_AUTORIZACION", "PENDIENTE_VALIDACION",
           "PUBLICADA", "OFERTADA", "FINANCIADA", "PAGADA", "RECHAZADA",
           "CANCELADA", "VENCIDA", "DENUNCIADA", "APROBADA"}

\* What CampoEditado accepts as a new value of the status field.
EstadosEditables == {"PROCESANDO", "PENDIENTE_VALIDACION",
                     "PENDIENTE_AUTORIZACION", "RECHAZADA", "APROBADA",
                     "PUBLICADA"}

NoRegistrada == "no registrada"

\* What publishFactura returns when it does not return an id: the message of
\* the failure, told apart only by what its callers look for in it.
Mensaje == {"unique_factura_emisor_folio", "mensaje con error", "otro mensaje"}

\* publiInvoiceId in a request: the id of a row, the empty string, or one that
\* matches no row (it was not sent, or it is nobody's id).
SinId == {"", "undefined"}

Fila == [gestor: Usuario, folio: Folio \cup {""}, timbrada: BOOLEAN]

\* The contents of a request.  Each kind uses some of the fields.
Entrada == [tipo: {"", "autorizar", "respaldo", "editar", "formulario", "dte"},
            factura: Factura \cup SinId,
            usuario: Usuario,
            folio: Folio \cup {""},
            timbrada: BOOLEAN,
            campo: Campo \cup {"", "numeroFactura", "status"},
            estado: Estado,
            discrepa: SUBSET Campo,
            acepto: BOOLEAN]

Codigo == {"FACTURA_ERROR_PROCESAMIENTO", "FACTURA_PENDIENTE_AUTORIZACION",
           "FACTURA_PUBLICADA", "FACTURA_DUPLICADA", "FACTURA_ILEGIBLE",
           "FACTURA_VACIA_PUBLICADA", "FACTURA_PUBLICADA_PENDIENTE_VALIDACION",
           "FACTURA_CON_DISCREPANCIAS_OCR",
           "FACTURA_RESPALDO_SIN_DISCREPANCIAS",
           "ACTUALIZADA", "ERROR_ACTUALIZAR"}

ASSUME ConstantesOK ==
    /\ Peticion \subseteq Nat
    /\ Usuario # {} /\ OrgDe \in [Usuario -> Organizacion]
    /\ Factura \cap (SinId \cup Mensaje) = {}
    /\ "" \notin Folio
    /\ MaxActivas \in Nat /\ ConFallos \in BOOLEAN
    /\ DOMAIN FilasPrevias \subseteq Factura
    /\ FilasPrevias \in [DOMAIN FilasPrevias -> Fila]
    /\ EstadosCliente \subseteq Estado

VARIABLES
    \* The database
    estado,         \* status of each factura row, or NoRegistrada
    fila,           \* the other columns of the row that are tested
    notas,          \* the fields with an unresolved OCR note
    visible,        \* the financiadoras with VIEW permission on the factura
    autorizaciones, \* the rows of autorizacion_publicacion
    \* The requests in flight
    pc, ent,        \* where a request is, and what it carries
    id,             \* publiInvoiceId as the handler holds it (resultQuery)
    orgs,           \* the financiadoras its for-loop has still to visit
    aviso,          \* what it announced or answered ("" until then)
    \* The promises guardarNotasOCR starts and does not await
    actualiza,      \* the status update it owes
    revoca, orgsRev \* the revocation loop, and the organizations left

bd == <<estado, fila, notas, visible, autorizaciones>>
peticiones == <<pc, ent, id, orgs, aviso>>
fondo == <<actualiza, revoca, orgsRev>>
vars == <<estado, fila, notas, visible, autorizaciones,
          pc, ent, id, orgs, aviso, actualiza, revoca, orgsRev>>

PasoDe == {"validar", "aut_notas", "aut_registrar", "orgs", "otorgar",
           "resp_leer", "resp_notas", "ed_actualizar", "ed_resolver",
           "ed_resolver_nulo", "form_existe", "form_estado", "form_insertar",
           "dte_insertar", "dte_vacia", "dte_notas"}

TypeOK ==
    /\ estado \in [Factura -> Estado \cup {NoRegistrada}]
    /\ fila \in [Factura -> Fila]
    /\ notas \in [Factura -> SUBSET Campo]
    /\ visible \in [Factura -> SUBSET Financiadora]
    /\ autorizaciones \subseteq
         [peticion: Peticion, factura: Factura, acepto: BOOLEAN]
    /\ pc \in [Peticion -> PasoDe \cup {"libre", "fin", "fallo", "caida"}]
    /\ ent \in [Peticion -> Entrada]
    /\ id \in [Peticion -> Factura \cup SinId \cup Mensaje]
    /\ orgs \in [Peticion -> SUBSET Financiadora]
    /\ aviso \in [Peticion -> Codigo \cup {""}]
    /\ actualiza \in [Peticion -> BOOLEAN]
    /\ revoca \in [Peticion -> {"no", "listar", "bucle"}]
    /\ orgsRev \in [Peticion -> SUBSET Financiadora]

-----------------------------------------------------------------------------
(***************************************************************************)
(* Initial state and arrival of a request.                                 *)
(***************************************************************************)
UsuarioBase == CHOOSE u \in Usuario : TRUE

FilaVacia == [gestor |-> UsuarioBase, folio |-> "", timbrada |-> FALSE]

EntradaBase == [tipo |-> "", factura |-> "", usuario |-> UsuarioBase,
                folio |-> "", timbrada |-> FALSE, campo |-> "",
                estado |-> "PROCESANDO", discrepa |-> {}, acepto |-> FALSE]

Init ==
    /\ estado = [f \in Factura |-> IF f \in DOMAIN FilasPrevias
                                   THEN "PENDIENTE_AUTORIZACION"
                                   ELSE NoRegistrada]
    /\ fila = [f \in Factura |-> IF f \in DOMAIN FilasPrevias
                                 THEN FilasPrevias[f] ELSE FilaVacia]
    /\ notas = [f \in Factura |-> {}]
    /\ visible = [f \in Factura |-> {}]
    /\ autorizaciones = {}
    /\ pc = [p \in Peticion |-> "libre"]
    /\ ent = [p \in Peticion |-> EntradaBase]
    /\ id = [p \in Peticion |-> ""]
    /\ orgs = [p \in Peticion |-> {}]
    /\ aviso = [p \in Peticion |-> ""]
    /\ actualiza = [p \in Peticion |-> FALSE]
    /\ revoca = [p \in Peticion |-> "no"]
    /\ orgsRev = [p \in Peticion |-> {}]

\* The requests each endpoint can receive.
PideAutorizar(f, a) ==
    [EntradaBase EXCEPT !.tipo = "autorizar", !.factura = f, !.acepto = a]

PideRespaldo(f, u, d) ==
    [EntradaBase EXCEPT !.tipo = "respaldo", !.factura = f, !.usuario = u,
                        !.discrepa = d]

PideEditar(f, u, c, n, s) ==
    [EntradaBase EXCEPT !.tipo = "editar", !.factura = f, !.usuario = u,
                        !.campo = c, !.folio = n, !.estado = s]

PideFormulario(f, u, n, s) ==
    [EntradaBase EXCEPT !.tipo = "formulario", !.factura = f, !.usuario = u,
                        !.folio = n, !.estado = s]

PideDte(u, n, t, d) ==
    [EntradaBase EXCEPT !.tipo = "dte", !.usuario = u, !.folio = n,
                        !.timbrada = t, !.discrepa = d]

\* The uuids a request may name: of a row, or of none.
Uuid == Factura \cup {"undefined"}

Registrada(f) == f \in Factura /\ estado[f] # NoRegistrada

EnCurso(p) == pc[p] \in PasoDe

Activas == {p \in Peticion : EnCurso(p)}

PrimerPaso(tipo) == CASE tipo = "autorizar" -> "aut_notas"
                      [] tipo = "respaldo"  -> "resp_leer"
                      [] OTHER              -> "validar"

\* A request reaches its controller.  Its client knows the ids of the rows.
Llega(p, e) ==
    /\ pc[p] = "libre" /\ \A q \in Peticion : q < p => pc[q] # "libre"
    /\ e.factura \in SinId \/ Registrada(e.factura)
    /\ e.tipo \in Tipos /\ e.campo \in Editables \cup {""}
    /\ Cardinality(Activas) < MaxActivas
    /\ pc' = [pc EXCEPT ![p] = PrimerPaso(e.tipo)]
    /\ ent' = [ent EXCEPT ![p] = e]
    /\ id' = [id EXCEPT ![p] = e.factura]
    /\ UNCHANGED <<bd, orgs, aviso, fondo>>

LlegaAlguna(p) ==
    \/ \E f \in Uuid, a \in BOOLEAN : Llega(p, PideAutorizar(f, a))
    \/ \E f \in Uuid, u \in Usuario, d \in SUBSET Campo :
          Llega(p, PideRespaldo(f, u, d))
    \/ \E f \in Uuid, u \in Usuario, c \in Campo \ {"numeroFactura"} :
          Llega(p, PideEditar(f, u, c, "", "PROCESANDO"))
    \/ \E f \in Uuid, u \in Usuario, n \in Folio :
          Llega(p, PideEditar(f, u, "numeroFactura", n, "PROCESANDO"))
    \/ \E f \in Uuid, u \in Usuario, s \in EstadosEditables \cap EstadosCliente :
          Llega(p, PideEditar(f, u, "status", "", s))
    \/ \E f \in Factura \cup SinId, u \in Usuario, n \in Folio,
          s \in EstadosCliente : Llega(p, PideFormulario(f, u, n, s))
    \/ \E u \in Usuario, n \in Folio \cup {""}, t \in BOOLEAN,
          d \in SUBSET Campo : Llega(p, PideDte(u, n, t, d))

-----------------------------------------------------------------------------
(***************************************************************************)
(* Building blocks of the handlers.                                        *)
(***************************************************************************)
En(p, paso) == pc[p] = paso

Ir(p, paso) == pc' = [pc EXCEPT ![p] = paso]

\* The handler ends: it returns ("fin") or throws ("fallo").
Termina(p, como, codigo) ==
    /\ Ir(p, como)
    /\ aviso' = [aviso EXCEPT ![p] = codigo]

\* The organization of the request owns the row.
MismaOrg(p, f) == OrgDe[fila[f].gestor] = OrgDe[ent[p].usuario]

\* UPDATE factura SET status = s WHERE id = f (AND organizacion_id = ...).
\* A statement that matches no row changes nothing.
CambiaEstado(f, s, coincide) ==
    estado' = IF Registrada(f) /\ coincide
              THEN [estado EXCEPT ![f] = s] ELSE estado

\* The unique constraint on emisor and folio: it only sees stamped documents.
Duplicada(n, t) ==
    t /\ \E f \in Factura : /\ Registrada(f) /\ fila[f].timbrada
                            /\ fila[f].folio = n

-----------------------------------------------------------------------------
(***************************************************************************)
(* validateUserAndOrganizacion / getUserProfileByUsername.  The users and  *)
(* organizations are not part of this model: both answers are possible.    *)
(***************************************************************************)
TrasValidar(tipo) == CASE tipo = "editar"     -> "ed_actualizar"
                       [] tipo = "formulario" -> "form_existe"
                       [] tipo = "dte"        -> "dte_insertar"
                       [] OTHER               -> "validar"

ValidarUsuario(p) ==
    /\ En(p, "validar")
    /\ \/ Ir(p, TrasValidar(ent[p].tipo)) /\ UNCHANGED aviso
       \* The form announces the failure and throws.  The edit throws.  The
       \* webhook reads a field of the profile it did not get and throws
       \* before the branch that announces FACTURA_ERROR_VALIDACION.
       \/ Termina(p, "fallo", IF ent[p].tipo = "formulario"
                              THEN "FACTURA_ERROR_PROCESAMIENTO" ELSE "")
    /\ UNCHANGED <<bd, ent, id, orgs, fondo>>

(***************************************************************************)
(* GrantAccess_OrganizationByTipoParticipante: list the financiadoras (an  *)
(* error gives the empty list), then one grant after another, each awaited.*)
(***************************************************************************)
ListarFinanciadoras(p) ==
    /\ En(p, "orgs")
    /\ \E lista \in {Financiadora} \cup (IF ConFallos THEN {{}} ELSE {}) :
         orgs' = [orgs EXCEPT ![p] = lista]
    /\ Ir(p, "otorgar")
    /\ UNCHANGED <<bd, ent, id, aviso, fondo>>

\* Mutant of Siguientes: the loop visits the same organization again.
SiguientesOtraVez(lista, o) == lista

\* for (const org of organizaciones): what is left after org o.
Siguientes(lista, o) == lista \ {o}

\* Mutant of ConcedeVista: resource and organization swapped in the call.
ConcedeVistaCruzada(f, o) == visible' = [visible EXCEPT ![f] = @ \cup {f}]

ConcedeVista(f, o) == visible' = [visible EXCEPT ![f] = @ \cup {o}]

\* A resource id that is not a uuid makes the query fail, and so may anything.
Otorgar(p) ==
    /\ En(p, "otorgar") /\ orgs[p] # {}
    /\ \/ \E o \in orgs[p] :
            /\ id[p] \in Factura
            /\ ConcedeVista(id[p], o)
            /\ orgs' = [orgs EXCEPT ![p] = Siguientes(@, o)]
            /\ UNCHANGED <<pc, aviso>>
       \/ /\ id[p] \notin Factura \/ ConFallos
          /\ Termina(p, "fallo", "")
          /\ UNCHANGED <<visible, orgs>>
    /\ UNCHANGED <<estado, fila, notas, autorizaciones, ent, id, fondo>>

-----------------------------------------------------------------------------
(***************************************************************************)
(* ExecuteRegistrarAutorizacion.                                           *)
(***************************************************************************)

NotasDe(f) == IF f \in Factura THEN notas[f] ELSE {}

\* Mutant of SinNotas: the notes are not looked at.
SinNotasNunca(f) == TRUE

SinNotas(f) == NotasDe(f) = {}

\* fetchNotasForFacturas; when the query fails the map is empty.
AutorizarLeerNotas(p) ==
    /\ En(p, "aut_notas")
    /\ \/ /\ SinNotas(id[p]) \/ ConFallos
          /\ Ir(p, "aut_registrar") /\ UNCHANGED aviso
       \/ /\ ~SinNotas(id[p])
          /\ Termina(p, "fallo", "")
    /\ UNCHANGED <<bd, ent, id, orgs, fondo>>

\* Mutant of TrasRegistrar: a refusal goes on as an acceptance does.
TrasRegistrarSiempre(p) == "orgs"

TrasRegistrar(p) == IF ent[p].acepto THEN "orgs" ELSE "fin"

\* registrarAutorizacion: the row must exist; the answer is recorded whether
\* the terms were accepted or not, and only an acceptance goes on.
AutorizarRegistrar(p) ==
    /\ En(p, "aut_registrar")
    /\ \/ /\ Registrada(id[p])
          /\ autorizaciones' = autorizaciones \cup
               {[peticion |-> p, factura |-> id[p], acepto |-> ent[p].acepto]}
          /\ Ir(p, TrasRegistrar(p))
          /\ UNCHANGED aviso
       \/ /\ ~Registrada(id[p]) \/ ConFallos
          /\ Termina(p, "fallo", "")
          /\ UNCHANGED autorizaciones
    /\ UNCHANGED <<estado, fila, notas, visible, ent, id, orgs, fondo>>

\* Mutant of SinDueno: the empty owner is compared with organizacion_id.
SinDuenoComparado == FALSE

\* Without an owner the WHERE clause has no organization to match.
SinDueno == TRUE

\* updateFacturaState without an owner: its failure is logged and ignored.
AutorizarPublicar(p) ==
    /\ En(p, "otorgar") /\ orgs[p] = {} /\ ent[p].tipo = "autorizar"
    /\ \/ CambiaEstado(id[p], "PUBLICADA", SinDueno)
       \/ ConFallos /\ UNCHANGED estado
    /\ Ir(p, "fin")
    /\ UNCHANGED <<fila, notas, visible, autorizaciones,
                   ent, id, orgs, aviso, fondo>>

-----------------------------------------------------------------------------
(***************************************************************************)
(* ExecuteCargaDocumentoRespaldo and guardarNotasOCR.                      *)
(***************************************************************************)

\* Mutant of HayDiscrepancias: a document that agrees counts as one that does not.
HayDiscrepanciasSiempre(p) == TRUE

\* compararDatosOCRConFactura found something.
HayDiscrepancias(p) == ent[p].discrepa # {}

\* The status is not READY, or getFacturaByID finds nothing in its view or
\* fails; otherwise the document is compared with the row just read.
RespaldoLeer(p) ==
    /\ En(p, "resp_leer")
    /\ \/ Termina(p, "fin", "FACTURA_ERROR_PROCESAMIENTO")
       \/ /\ Registrada(id[p]) /\ ~HayDiscrepancias(p)
          /\ Termina(p, "fin", "FACTURA_RESPALDO_SIN_DISCREPANCIAS")
       \/ /\ Registrada(id[p]) /\ HayDiscrepancias(p)
          /\ Ir(p, "resp_notas") /\ UNCHANGED aviso
    /\ UNCHANGED <<bd, ent, id, orgs, fondo>>

\* The notes are stored, and only then the two promises are started.
GuardaNotas(p) ==
    /\ notas' = [notas EXCEPT ![id[p]] = @ \cup ent[p].discrepa]
    /\ actualiza' = [actualiza EXCEPT ![p] = TRUE]
    /\ revoca' = [revoca EXCEPT ![p] = "listar"]
    /\ UNCHANGED <<estado, fila, visible, autorizaciones, orgsRev>>

RespaldoNotas(p) ==
    /\ En(p, "resp_notas")
    /\ \/ /\ GuardaNotas(p)
          /\ Termina(p, "fin", "FACTURA_CON_DISCREPANCIAS_OCR")
       \/ ConFallos /\ Termina(p, "fallo", "") /\ UNCHANGED <<bd, fondo>>
    /\ UNCHANGED <<ent, id, orgs>>

\* updateFacturaState(factura, PENDIENTE_VALIDACION), not awaited.
FondoActualiza(p) ==
    /\ actualiza[p]
    /\ \/ CambiaEstado(id[p], "PENDIENTE_VALIDACION", MismaOrg(p, id[p]))
       \/ ConFallos /\ UNCHANGED estado
    /\ actualiza' = [actualiza EXCEPT ![p] = FALSE]
    /\ UNCHANGED <<fila, notas, visible, autorizaciones, peticiones,
                   revoca, orgsRev>>

\* RevokeAccess_OrganizationByTipoParticipante, not awaited.
FondoListar(p) ==
    /\ revoca[p] = "listar"
    /\ \E lista \in {Financiadora} \cup (IF ConFallos THEN {{}} ELSE {}) :
         orgsRev' = [orgsRev EXCEPT ![p] = lista]
    /\ revoca' = [revoca EXCEPT ![p] = "bucle"]
    /\ UNCHANGED <<bd, peticiones, actualiza>>

\* Mutant of QuitaVista: the revocation is sent for another kind of permission.
QuitaVistaOtra(f, o) == UNCHANGED visible

QuitaVista(f, o) == visible' = [visible EXCEPT ![f] = @ \ {o}]

\* The first revocation that fails ends the loop.
FondoRevocar(p) ==
    /\ revoca[p] = "bucle" /\ orgsRev[p] # {}
    /\ \/ \E o \in orgsRev[p] :
            /\ QuitaVista(id[p], o)
            /\ orgsRev' = [orgsRev EXCEPT ![p] = Siguientes(@, o)]
            /\ UNCHANGED revoca
       \/ /\ ConFallos
          /\ revoca' = [revoca EXCEPT ![p] = "no"]
          /\ orgsRev' = [orgsRev EXCEPT ![p] = {}]
          /\ UNCHANGED visible
    /\ UNCHANGED <<estado, fila, notas, autorizaciones, peticiones, actualiza>>

FondoFin(p) ==
    /\ revoca[p] = "bucle" /\ orgsRev[p] = {}
    /\ revoca' = [revoca EXCEPT ![p] = "no"]
    /\ UNCHANGED <<bd, peticiones, actualiza, orgsRev>>

-----------------------------------------------------------------------------
(***************************************************************************)
(* ExecuteUpdateFactura.  validateFacturaEditable always answers yes.      *)
(***************************************************************************)

\* WHERE id = $1 AND gestor_usuario_uuid = $2 AND organizacion_id = $3.
EsGestor(p) == Registrada(id[p]) /\ fila[id[p]].gestor = ent[p].usuario

\* The column the edit writes; amounts, names and dates are not modelled.
EscribeCampo(p) ==
    CASE ent[p].campo = "status" ->
           /\ estado' = [estado EXCEPT ![id[p]] = ent[p].estado]
           /\ UNCHANGED fila
      [] ent[p].campo = "numeroFactura" ->
           /\ fila' = [fila EXCEPT ![id[p]].folio = ent[p].folio]
           /\ UNCHANGED estado
      [] OTHER -> UNCHANGED <<estado, fila>>

\* updateFactura.  The driver's answer to an UPDATE is the pair of the rows
\* and their number, so the test of its length says "updated" even when the
\* statement matched no row; only an exception gives isUpdate = null.  The
\* unique constraint makes the statement fail.
EditarActualizar(p) ==
    /\ En(p, "ed_actualizar")
    /\ \/ /\ EsGestor(p)
          /\ \/ ent[p].campo # "numeroFactura"
             \/ fila[id[p]].folio = ent[p].folio
             \/ ~Duplicada(ent[p].folio, fila[id[p]].timbrada)
          /\ EscribeCampo(p)
          /\ Ir(p, "ed_resolver")
       \/ ~EsGestor(p) /\ Ir(p, "ed_resolver") /\ UNCHANGED <<estado, fila>>
       \/ /\ \/ ConFallos
             \/ /\ EsGestor(p) /\ ent[p].campo = "numeroFactura"
                /\ fila[id[p]].folio # ent[p].folio
                /\ Duplicada(ent[p].folio, fila[id[p]].timbrada)
          /\ Ir(p, "ed_resolver_nulo") /\ UNCHANGED <<estado, fila>>
    /\ UNCHANGED <<notas, visible, autorizaciones, ent, id, orgs, aviso, fondo>>

\* updateNotasOCRResueltas, whatever the update did.
EditarResolver(p) ==
    /\ En(p, "ed_resolver") \/ En(p, "ed_resolver_nulo")
    /\ \/ /\ notas' = [f \in Factura |-> IF f = id[p]
                                      THEN notas[f] \ {ent[p].campo}
                                      ELSE notas[f]]
          /\ Termina(p, "fin", IF En(p, "ed_resolver")
                               THEN "ACTUALIZADA" ELSE "ERROR_ACTUALIZAR")
       \/ ConFallos /\ Termina(p, "fallo", "") /\ UNCHANGED notas
    /\ UNCHANGED <<estado, fila, visible, autorizaciones,
                   ent, id, orgs, fondo>>

-----------------------------------------------------------------------------
(***************************************************************************)
(* publishFactura: the INSERT, then in a second transaction the link to    *)
(* the asset.  Any failure is returned as its message; when it is the      *)
(* second transaction that failed the row is there all the same.           *)
(***************************************************************************)

\* The id is generated: no row has it.
Inserta(p, f, s, n, t) ==
    /\ ~Registrada(f)
    /\ estado' = [estado EXCEPT ![f] = s]
    /\ fila' = [fila EXCEPT ![f] = [gestor |-> ent[p].usuario,
                                    folio |-> n, timbrada |-> t]]

Guarda(p, resultado) == id' = [id EXCEPT ![p] = resultado]

PublishFactura(p, s, n, t, conAsset) ==
    /\ \/ /\ ~Duplicada(n, t)
          /\ \E f \in Factura : Inserta(p, f, s, n, t) /\ Guarda(p, f)
       \/ /\ Duplicada(n, t)
          /\ Guarda(p, "unique_factura_emisor_folio")
          /\ UNCHANGED <<estado, fila>>
       \/ /\ ConFallos
          /\ \E m \in {"mensaje con error", "otro mensaje"} : Guarda(p, m)
          /\ \/ UNCHANGED <<estado, fila>>
             \/ /\ conAsset /\ ~Duplicada(n, t)
                /\ \E f \in Factura : Inserta(p, f, s, n, t)
    /\ UNCHANGED <<notas, visible, autorizaciones>>

-----------------------------------------------------------------------------
(***************************************************************************)
(* ExecutePublicarFormFactura.                                             *)
(***************************************************************************)

\* facturaExiste: by id, owner and number, or by owner and number when the id
\* is the empty string.  An id that was not sent matches nothing.
FacturaExiste(p) ==
    \E f \in Factura :
       /\ Registrada(f)
       /\ ent[p].factura = "" \/ ent[p].factura = f
       /\ MismaOrg(p, f) /\ fila[f].folio = ent[p].folio

\* The query answers no when it fails.
FormExiste(p) ==
    /\ En(p, "form_existe")
    /\ \/ /\ FacturaExiste(p) /\ ent[p].factura \notin SinId
          /\ Ir(p, "form_estado") /\ UNCHANGED aviso
       \/ /\ FacturaExiste(p) /\ ent[p].factura \in SinId
          /\ Termina(p, "fallo", "FACTURA_DUPLICADA")
       \/ /\ ~FacturaExiste(p) \/ ConFallos
          /\ Ir(p, "form_insertar") /\ UNCHANGED aviso
    /\ UNCHANGED <<bd, ent, id, orgs, fondo>>

\* The factura exists: the status in the request is written as it came, and
\* only PROCESANDO goes on to the permissions.
FormEstado(p) ==
    /\ En(p, "form_estado")
    /\ \/ /\ CambiaEstado(id[p], ent[p].estado, MismaOrg(p, id[p]))
          /\ CASE ent[p].estado = "PROCESANDO" ->
                    Ir(p, "orgs") /\ UNCHANGED aviso
               [] ent[p].estado = "PENDIENTE_AUTORIZACION" ->
                    Termina(p, "fallo", "FACTURA_PENDIENTE_AUTORIZACION")
               [] OTHER ->
                    Termina(p, "fin", "FACTURA_ERROR_PROCESAMIENTO")
       \/ /\ ConFallos /\ UNCHANGED estado
          /\ Termina(p, "fallo", "FACTURA_ERROR_PROCESAMIENTO")
    /\ UNCHANGED <<fila, notas, visible, autorizaciones, ent, id, orgs, fondo>>

\* The factura does not exist: insert it.  With PENDIENTE_AUTORIZACION the
\* handler ends here, and what is not a failure is announced as published.
FormInsertar(p) ==
    /\ En(p, "form_insertar")
    /\ PublishFactura(p, ent[p].estado, ent[p].folio, FALSE, FALSE)
    /\ IF ent[p].estado # "PENDIENTE_AUTORIZACION"
       THEN Ir(p, "orgs") /\ UNCHANGED aviso
       ELSE IF id'[p] = "mensaje con error"
            THEN Termina(p, "fallo", "FACTURA_ERROR_PROCESAMIENTO")
            ELSE Termina(p, "fin", "FACTURA_PUBLICADA")
    /\ UNCHANGED <<ent, orgs, fondo>>

\* After the grants: an existing factura was published; a new one is
\* answered with an error, which the handler throws.
FormResponder(p) ==
    /\ En(p, "otorgar") /\ orgs[p] = {} /\ ent[p].tipo = "formulario"
    /\ CASE id[p] = ent[p].factura ->
              Termina(p, "fin", "FACTURA_PUBLICADA")
         [] id[p] = "mensaje con error" ->
              Termina(p, "fallo", "FACTURA_ERROR_PROCESAMIENTO")
         [] OTHER ->
              Termina(p, "fallo", "FACTURA_PENDIENTE_AUTORIZACION")
    /\ UNCHANGED <<bd, ent, id, orgs, fondo>>

-----------------------------------------------------------------------------
(***************************************************************************)
(* ExecutePublishFactura: the webhook that reports the OCR of a document.  *)
(***************************************************************************)

\* resultQuery.includes('unique_factura_emisor_folio').
EsDuplicada(resultado) == resultado = "unique_factura_emisor_folio"

\* Nothing could be read in the document: no row is created.
DteIlegible(p) ==
    /\ En(p, "dte_insertar") /\ ent[p].folio = ""
    /\ Termina(p, "fin", "FACTURA_ILEGIBLE")
    /\ UNCHANGED <<bd, ent, id, orgs, fondo>>

\* The row is registered waiting for an authorisation.  A message that is
\* neither the constraint's nor contains 'error' is taken for the id.
DteInsertar(p) ==
    /\ En(p, "dte_insertar")
    /\ PublishFactura(p, "PENDIENTE_AUTORIZACION",
                      ent[p].folio, ent[p].timbrada, TRUE)
    /\ CASE EsDuplicada(id'[p]) ->
              Termina(p, "fin", "FACTURA_DUPLICADA")
         [] id'[p] = "mensaje con error" ->
              Ir(p, "dte_vacia") /\ UNCHANGED aviso
         [] OTHER -> Ir(p, "dte_notas") /\ UNCHANGED aviso
    /\ UNCHANGED <<ent, orgs, fondo>>

\* The fallback: a row without data, so that there is something to notify.
DteVacia(p) ==
    /\ En(p, "dte_vacia")
    /\ PublishFactura(p, "PENDIENTE_VALIDACION", "", FALSE, FALSE)
    /\ Termina(p, "fin", IF id'[p] = "mensaje con error"
                         THEN "FACTURA_ERROR_PROCESAMIENTO"
                         ELSE "FACTURA_VACIA_PUBLICADA")
    /\ UNCHANGED <<ent, orgs, fondo>>

\* guardarNotasOCR(factura, factura): here a note means that the OCR found
\* several values.  Notes for an id that is a message cannot be stored.
DteNotas(p) ==
    /\ En(p, "dte_notas")
    /\ \/ /\ ent[p].discrepa = {}
          /\ Termina(p, "fin", "FACTURA_PUBLICADA_PENDIENTE_VALIDACION")
          /\ UNCHANGED <<bd, fondo>>
       \/ /\ ent[p].discrepa # {} /\ id[p] \in Factura
          /\ GuardaNotas(p)
          /\ Termina(p, "fin", "FACTURA_PUBLICADA_PENDIENTE_VALIDACION")
       \/ /\ ent[p].discrepa # {} /\ (id[p] \notin Factura \/ ConFallos)
          /\ Termina(p, "fallo", "")
          /\ UNCHANGED <<bd, fondo>>
    /\ UNCHANGED <<ent, id, orgs>>

-----------------------------------------------------------------------------
(***************************************************************************)
(* The process stops: every handler and every promise in flight is lost.   *)
(***************************************************************************)
Caida ==
    /\ ConFallos
    /\ \E p \in Peticion : EnCurso(p) \/ actualiza[p] \/ revoca[p] # "no"
    /\ pc' = [p \in Peticion |-> IF EnCurso(p) THEN "caida" ELSE pc[p]]
    /\ orgs' = [p \in Peticion |-> {}]
    /\ actualiza' = [p \in Peticion |-> FALSE]
    /\ revoca' = [p \in Peticion |-> "no"]
    /\ orgsRev' = [p \in Peticion |-> {}]
    /\ UNCHANGED <<bd, ent, id, aviso>>

Tarea(p) == FondoActualiza(p) \/ FondoListar(p) \/ FondoRevocar(p) \/ FondoFin(p)

Manejador(p) ==
    \/ ValidarUsuario(p) \/ ListarFinanciadoras(p) \/ Otorgar(p)
    \/ AutorizarLeerNotas(p) \/ AutorizarRegistrar(p) \/ AutorizarPublicar(p)
    \/ RespaldoLeer(p) \/ RespaldoNotas(p)
    \/ EditarActualizar(p) \/ EditarResolver(p)
    \/ FormExiste(p) \/ FormEstado(p) \/ FormInsertar(p) \/ FormResponder(p)
    \/ DteIlegible(p) \/ DteInsertar(p) \/ DteVacia(p) \/ DteNotas(p)

\* Nothing in flight, in the foreground or in the background.
Reposo == \A p \in Peticion : ~EnCurso(p) /\ ~actualiza[p] /\ revoca[p] = "no"

\* No more requests will come.
Descansa == Reposo /\ (\A p \in Peticion : pc[p] # "libre") /\ UNCHANGED vars

Next ==
    \/ \E p \in Peticion : \/ LlegaAlguna(p)
                           \/ Manejador(p)
                           \/ Tarea(p)
    \/ Caida
    \/ Descansa

Spec == Init /\ [][Next]_vars

\* Every await gets an answer, or an error, in the end.
FairSpec ==
    Spec /\ \A p \in Peticion : WF_vars(Manejador(p)) /\ WF_vars(Tarea(p))
=============================================================================
