# A verification of ms-core

ms-core is the NestJS service behind a marketplace of facturas (invoices): the
holder of a factura registers it, authorises its publication, and the
financiadoras (financing organizations) that were given permission see it. The
service keeps its data in PostgreSQL, an index of the published facturas in
Redis, its files in an object store, and it tells the rest of the platform what
happened over RabbitMQ.

This directory holds TLA+ modules translated from the code under `src/src/`,
the TLC configurations that check them on small instances, and TLAPS proofs
about the nine models. `PROJECT.json` maps every definition to the lines
it stands for and lists the runs, the hazards and the theorems.

Abbreviations used below: **U** is
`core/application/usesCase/facturaManager/facturaManager.useCase.ts`, **FS**
`core/application/service/factura.service.ts`, **FR**
`infrastructure/adapter/outbound/database/adapters/facturaRepository.adapter.ts`
(all under `src/src/`).

## 1. The system and its components

| Component | Where it lives | State it keeps | Modules |
|---|---|---|---|
| Life of a factura | U, FS, FR, `permisosManagerRepository` | rows of `factura.factura`, OCR notes, permissions, authorisations | `FacturaPublicacion`, `FacturaPropiedades`, `FacturaPublicacion_proofs`, `RectificacionFactura`, `RectificacionFactura_proofs` |
| Marketplace cache | `facturaCache.adapter.ts` | a sorted set and one hash per factura in Redis, with expiries | `MarketplaceCache`, `Adaptadores_proofs` |
| Access requests | `acceso.usecase.ts`, `solicitudAccesoRepository` | `organizacion_solicitud_acceso` | `AccesoOrganizacion`, `AccesoPropiedades`, `AccesoOrganizacion_proofs` |
| Administration of an organization | `organizacionAdminRepository` | `organizacion_miembro`, working groups | the same three (members and tokens), `GruposTrabajo`, `GruposAbstracto`, `GruposTrabajo_proofs` |
| Registration of an organization | `organizacion.usecase.ts` and three repositories | `organizacion`, tax data, activities, categories, members | `AltaOrganizacion`, `AltaOrganizacion_proofs` |
| Storage of documents and lotes | `storage.usecase.ts`, `storageMediaRepository` | `media_assets`, `factura_adjuntos`, `lote`, the bucket | `SubidaDocumentos`, `SubidaDocumentos_proofs` |
| Event publisher | `queue-client.adapter.ts` | one AMQP channel | `QueueClient`, `ColaAbstracta`, `Adaptadores_proofs` |
| Audit context and transactions | `runWithAuditContext` (FR:30-56), `databaseConfig.module.ts`, `rls-query-runner.service.ts` | the pool of connections, settings local to a transaction | `ContextoAuditoria`, `ContextoAuditoria_proofs` |
| Guards of the HTTP server | `guards/*.guard.ts` | none | `RectificacionFactura` (the gates of the edit) |
| User profile | `UserProfileAdministrator.usecase.ts` | none of its own: it reads, and forwards one PUT | `RectificacionFactura` (the check of the member) |
| Catalogues | `catalogoRepository` | none (read only) | no |
| Secrets | `vault.service.ts` | read once at start | no |
| Exception filter, validation, metrics | `contacto.filter.ts`, `validation.pipe.ts`, ... | counters | no |
| Wiring | `main.ts`, the `*.module.ts` | none | no |

### Life of a factura

Operations: the webhook of an OCR result (`ExecuteDteNotification`), the
publication form, the edit of one field (PATCH), the registration of an
authorisation (`ExecuteRegistrarAutorizacion`) and the webhook of a backing
document (DTE-respaldo). They read and write five tables in statements of their
own; only what is inside one `runWithAuditContext` is one transaction.
`guardarNotasOCR` (FS:110-116) starts two promises, an update of the status and
a loop that takes permissions back, and awaits neither. A use case ends by
handing an announcement to the event publisher, also without await.

Hard: the interleaving of two requests about one factura between their awaits;
the promises that outlive their request; a crash or a failed query between the
record of the authorisation, the grants and the status; a failure of the
insertion that comes back as text in the place of an id (FR:139).
Correct when: nobody sees a factura whose terms nobody accepted, a factura is
PUBLICADA for a reason that is on record, permissions are taken back only for a
note that was stored and announced, and at rest a factura with unresolved notes
is not PUBLICADA and ends up out of sight.

The edit has a path of its own: three guards, the constructors that check field
and value, the membership of the gestor, an UPDATE whose WHERE clause is the
only tie between the body and the row, and the resolution of the notes of the
field. Hard: the notes are resolved whatever the UPDATE did, and a backing
document compares itself with a row that was read earlier, text by text.
Correct when: what a field holds passed every gate, a discrepancy has its note
until an edit answers it, and what the code loses is lost to nothing else and
no longer than to the next document.

### Marketplace cache

`getPublishedFacturas` reads a page of the index (ZRANGE, ZCARD, one HGETALL
per key), and asks the database and rebuilds the index only if the page is
empty. Nobody takes out a factura that is retired or adds one that is
published. Hard: hash and index expire at different times, the list that is
written was read earlier, a pipeline may be cut, the cursor counts what had a
hash. Correct when: a retired factura disappears and a published one appears
within a bounded time, and a client that follows the cursors passes over no
factura, and sees each once while every hash is there.

### Access requests and administration of an organization

A user asks for access, an administrator resolves the request by its token,
the author cancels it, a query expires the old ones; administrators create
enrolment tokens, change roles and remove members. All of them are chains of
statements on two tables without a transaction. Hard: the state of a solicitud
is read one or two awaits before it is overwritten; a crash between the member
and the state. Correct when: a member has a role because somebody gave it, an
approved solicitud has its member, a final state stays final, and there is one
pending solicitud per author and organization.

The working groups of an organization are two tables more: a group with its
leader, and its members, whose rows are activated and deactivated. Hard: a
member is looked up and then inserted or activated, a group is inserted and
then its leader, and the list of groups is read group by group. Correct when: a
request about a member takes effect at one instant or not at all, a member has
one row, and the list gives who was a member while it was read.

### Registration of an organization

POST /organizacion inserts the row, the tax data, the categories, the
activities and the administrator one after another; POST
verificacion-tributaria writes the same row of tax data; check-rut looks the
organization up. Hard: a chain that stops half-way and is repeated, an error
swallowed by the insertion of a category, two writers of one row, two forms of
the RUT. Correct when: what was answered 201 is all there, and no failure
leaves part of the activities or activities without tax data.

### Storage of documents and lotes

A request for a place creates the asset, then its lote, then (in a
`Promise.all`) its key and its attachment; the browser uploads, a worker reads
the file and calls the webhook, the factura is born and takes the lote of the
asset. Hard: a sibling of a failed promise goes on, the browser and the worker
act between two statements, notifications arrive twice. Correct when: the
factura inherits the lote its file was given, and no file in the bucket is
without a row.

### Event publisher

One channel, opened at start; `publish` asserts the exchange, awaits, writes.
Hard: the channel closes or the connection is lost between the two steps; the
callers neither await nor catch. Correct when: the adapter is a first-in
first-out road to the broker, on which nothing is doubled and nothing is lost
but by an accident.

### Audit context and transactions

`runWithAuditContext` takes a connection of the pool, begins a transaction,
names the user to the triggers with a setting local to it, runs the statements
of the caller and commits; the plain `dataSource.query` of the other operations
use the same connections. Hard: connect and BEGIN stand outside the `try`; a
COMMIT may be done and not answered; a ROLLBACK that waits behind a slow
statement is never sent, and the connection goes back with its transaction
open. Correct when: what is committed carries the user of the call that wrote
it, what was answered is committed and what failed is not, the pool keeps its
connections, and every call ends.

### How they interact

The use cases of the factura call the publisher (not awaited), the cache
(through `getPublishedFacturas`) and the user repository that validates the
author and the organization; the webhook links the factura to the asset of the
storage component; the members that the access component writes are what that
validation reads. All share one PostgreSQL and one process: a rejection nobody
handles in one ends the requests of all.

## 2. Plan

The core comes first: the order is that of the damage a wrong interleaving can
do. Modules that carry theorems use no RECURSIVE operator and have one action
per step of a handler, so that a proof has one step per action.

| # | Module | Composes or refines | State of the work |
|---|---|---|---|
| 1 | `FacturaPublicacion`, `FacturaPropiedades`, `FacturaPublicacion_proofs` | the core | modelled, checked, five theorems |
| 2 | `AccesoOrganizacion`, `AccesoPropiedades` | members and solicitudes in one module, because they share tables | modelled, checked, all its safety proved |
| 3 | `MarketplaceCache` | | modelled, checked, all proved |
| 4 | `SubidaDocumentos` | storage, browser, worker and webhook together | modelled, checked, all its safety proved |
| 5 | `AltaOrganizacion` | | modelled, checked, all its safety proved |
| 6 | `QueueClient` | implements `ColaAbstracta` | modelled, checked, the safety of the refinement proved |
| 7 | `GruposTrabajo` | implements `GruposAbstracto` | modelled, checked, all proved, the refinement too |
| 8 | `ContextoAuditoria` | callers of `runWithAuditContext` and plain queries on one pool | modelled, checked, all its safety proved |
| 9 | `RectificacionFactura` | guards, edit, backing document and comparison, field by field | modelled, checked, all its safety proved |

An abstract specification of the life of a factura (record, then grants, then
status) was tried on paper and left: the form, the edit and the authorisation
reach PUBLICADA along three ways that share no order, so what they have in
common is the origin that `PermisoConOrigen` and `PublicadaConOrigen` state.

The theorems are those of section 5: all the safety properties of the runs, and
both refinements but for the fairness of one. What is left is of the core: what
an authorisation that fails half-way may leave behind.

## 3. Which module models what

In every module a request is a process, `pc[p]` says at which await its handler
is, and one action is the code from one await to the next: what a handler read
stays in its variables and may be stale when it is used. `Caida` is a crash of
the Node process: what is in flight is lost, the tables stay. A failing
statement is a disjunct guarded by `ConFallos`.

### FacturaPublicacion

| Variables | Code |
|---|---|
| `estado`, `fila` | the status and the tested columns (manager, number, stamped) of `factura.factura` |
| `notas` | the OCR notes not resolved, by field |
| `visible` | the VIEW permissions granted by FS:30 and revoked by FS:116 |
| `autorizaciones` | `autorizacion_publicacion` |
| `pc`, `ent`, `id`, `orgs`, `aviso` | the handler: await, request, `resultQuery`, rest of its for-loop, announcement or answer |
| `actualiza`, `revoca`, `orgsRev` | the two promises `guardarNotasOCR` starts |

| Actions | Code |
|---|---|
| `ValidarUsuario` | the validation of user and organization that the edit, the form and the DTE webhook begin with |
| `AutorizarLeerNotas`, `AutorizarRegistrar`, `ListarFinanciadoras`, `Otorgar`, `AutorizarPublicar` | `ExecuteRegistrarAutorizacion` (U:545-578) and the grants of FS:30 |
| `RespaldoLeer`, `RespaldoNotas`, `FondoActualiza`, `FondoListar`, `FondoRevocar`, `FondoFin` | the DTE-respaldo webhook and the promises of FS:110-116 |
| `EditarActualizar`, `EditarResolver` | PATCH /factura and the resolution of the note of its field |
| `FormExiste`, `FormEstado`, `FormInsertar`, `FormResponder` | the publication form, an existing row or a new one |
| `DteIlegible`, `DteInsertar`, `DteVacia`, `DteNotas` | the webhook of an OCR result, its fallback row and its notes |

Abstractions. Amounts, names and dates are left out: an OCR result is a set of
fields that disagree (`discrepa`). Whether a user or an organization is valid
is a free choice. Requests name ids of rows that exist, the empty string or
`"undefined"`: ids are uuids nobody guesses. `getFacturaByID` reads a database
view that is not in the repository, so it may always answer null. The unique
constraint on issuer and number sees only the rows whose issuer is known, those
of stamped documents. A form without status is not modelled. A block inside
`runWithAuditContext` is one atomic statement that either is done and answered
or fails: what `ContextoAuditoria` shows of a COMMIT that is done and not
answered is part of `RectificacionFactura`, and here only of the link of the
asset. Announcements end in `aviso`;
their delivery is the subject of `QueueClient`.

### AccesoOrganizacion

`sol` is the table of solicitudes, `miembro` that of members, `leida` the row
`getSolicitudPorToken` gave to a handler. Each handler of `acceso.usecase.ts`
and the members and tokens part of `organizacionAdminRepository` is a chain of
actions: expiry first (`Expirar`), then asking for pending ones and creating;
reading, associating the member and resolving; cancelling; the token's two
statements; the change of role and the removal. `AdmiteOrgNula` is whether the
column `organizacion_id` accepts the null that `solicitarAcceso` always writes:
the repository has no schema, so it is a constant of the model. `cruce` is a
history variable: the pairs of an organization and a user for which two tokens
were about to be created at once, between the statement that cancels the
pending one and the insertion. `UnaPendiente` says that this is the only way to
a second pending solicitud, and `EstadoFinal` that a final state changes only
when a request that had read it as pending writes what it decided. The tables
may hold rows at the beginning; `PreviasOK` says that they are as requests that
came one by one leave them: who was approved has a row of member, and nobody
has two pending solicitudes for one organization.

### MarketplaceCache

`publicada` is the database; `puntaje`, `venceIndice` and `venceHash` are the
sorted set, its expiry and those of the hashes; the rest is a request on its
way through `getPublishedFacturas` (read, ask the database, populate, read
again). `Avanza` is the clock, in ticks of which `Ttl` stand for the 86400
seconds; a request takes at most `MaxDemora` ticks from its query to its
pipeline. `PopulateCache` sends one pipeline, atomic unless it is cut; at most
one is (`cortada`). The indexes by owner and by debtor are written and never
read, and the operations on a single factura have no caller: left out, as are
chunks of more than 1000 facturas.

The order of the sorted set is `Antes`, highest score first and ties by key,
and a member is found by its place in it, `Posicion`, which is how many come
before it: ZRANGE is the set of the members whose place lies between two
bounds. A page is a set, its order that of the index. `Cursores` is the least
set of offsets that has 0 and, with each, the one its page gives: what a client
that starts without cursor meets. `RecorridoFiel` is a statement about that set,
in whatever state the hashes are.

### SubidaDocumentos

Tables `lotes`, `asset`, `factura`, `adjuntos`, the bucket `subido` and the
notification `aviso` of each asset. `Crear`, `AsignarLote`, `FijarClave`,
`Adjuntar` and `Responder` are `storage.usecase.ts`; a failed statement leaves
its sibling of the `Promise.all` going on. `Sube` is the browser and `Notifica`
the worker, both external. `InsertaFactura` and `EnlazaFactura` are the two
transactions of `publishFactura`. A document that cannot be read inserts no row
here, and renaming a lote changes nothing the properties tell apart.

### AltaOrganizacion

`Crear`, `InsertarVerificacion`, `InsertarCategoria`, `SincronizarActividades`
and `Asociar` are POST /organizacion, `GuardarCruda` the raw write. A repeated
insertion is accepted or rejected (`Falla`), for want of a schema. One request
brings its activities from one of the sources, without repeated codes. The
insertion of a category swallows its error; every other statement may fail and
end the request. check-rut changes nothing and is left out.

### QueueClient

`Publicar`, `Confirmar` and `Recibir` are the three steps of a message: handed
over, written after the answer to `assertExchange`, received. `Perder` is the
close of the channel or the loss of the connection, `Arrancar` a start of the
process. A rejected publication is an unhandled rejection: Node 20 ends the
process, docker-compose (`restart: always`) starts it. A channel that answers
`ok = false` has taken the message. The
broker answers the assertions of a channel in order, so the publication whose
answer comes is the first that waits (`Contestado`). `onModuleDestroy` is left out, because
`main.ts` enables no shutdown hooks.

`ColaAbstracta` is what it promises: a road where messages enter once, arrive
in order, and are lost only all together, in an accident. The refinement maps
the road to what was written and not received, followed by what waits for
`assertExchange`; the steps of the protocol in between are stutters of it, and
both the end of the process and the loss of the channel are accidents. Its
fairness (a road that nothing happens to is travelled) follows from that of the
two steps of the code.

### GruposTrabajo

| Variables | Code |
|---|---|
| `grupo` | `grupo_trabajo`: not created, active or removed, and its leader |
| `filas` | how many active and inactive rows of `grupo_miembro` a pair has |
| `unica` | whether that table has a unique constraint; there is no schema, so both are initial states |
| `porLeer`, `listado` | the loop of `listarGrupos` and what it has read |
| `alguna`, `siempre`, `cruce` | history: who was a member at some or at every point of a list, and the pairs two requests found without a row |

`ListarGrupos` and `ListarMiembros` are the list, `CrearGrupo` and `CrearLider`
the creation, `AgregarBuscar`, `AgregarReactivar` and `AgregarInsertar` the
addition of a member, `QuitarMiembro` its removal. The answer is a step of its
own, so that a request may fail after its last statement. Names, descriptions
and the role in the group are left out, and the view of users is the constant
`Conocido`.

`GruposAbstracto` is what a client may count on: a request waits, takes effect
once, and is answered; one that fails may have taken effect. The refinement
maps the members to the pairs with an active row and each await of a handler to
how far its request got. The leader of a new group is a second step, because in
the code it is one.

### ContextoAuditoria

| Variables | Code |
|---|---|
| `sesion` | what PostgreSQL keeps for a connection: whether a transaction is open or aborted, `app.user_uuid`, and what was written and not committed |
| `toma` | the connection that a query runner holds |
| `pc`, `tipo`, `usuario` | the call, in a block or a statement by itself, and for whom |
| `bitacora` | what is committed, with the user that the triggers saw |
| `sinSaber`, `heredada` | history: its COMMIT or ROLLBACK was not answered; it ran in the transaction of another |

`Conectar` to `Liberar` are the lines of FR:35-54 one by one, `Lanza` what a
statement of a lost connection throws, `Sola` a `dataSource.query`. A statement
is answered, rejected, or done without an answer within `query_timeout`; a
ROLLBACK is also dropped while it waits. `Cae` is the loss of a connection that
a call holds; a connection nobody holds is replaced without anybody noticing.
What PostgreSQL, `pg` and TypeORM do is external and modelled from how the code
uses them. The setting of the correlation id goes the way of the user and is
left out. One operation stands for all the statements of a block.

### RectificacionFactura

| Variables | Code |
|---|---|
| `fila` | four columns of a factura, each the thing its text names and how it is written |
| `notas` | the notes not resolved: field and what the document says |
| `pc`, `ent`, `leida`, `aviso` | the handler: await, request, row that `getFacturaByID` gave, answer |
| `ultimo`, `corregido`, `dudoso` | history: what the last compared document says, the fields edited after it, and those that changed during that comparison or whose notes were resolved though nothing had changed them since |
| `viejas` | history: the notes of a comparison with a value that was gone |

`Autentica` and `Permite` are the guards a PATCH goes through, `Admite` what
`CampoEditado` accepts, `Pertenece` and `Coincide` the two WHERE clauses, and
`Discrepa` the comparison, with what reading (`Leido`) and the body of the
webhook (`Presente`) do to a text before it. A text is abstract: what is named,
and whether it is written plainly, in another way (a RUT without dots, an
amount with decimals), as several values, or badly; `corrida` is an amount
whose decimal point was taken out. The status of the factura, which the same
handlers write, belongs to `FacturaPublicacion`.

`dudoso` and `viejas` do not exempt the requests that overlap: they name, step
by step, the two ways in which the code loses a note or leaves one. `RespaldoNotas`
records the fields that are no longer what it read (`Cambiados`) and the notes it
wrote about them, and clears the others; `EditarResolver` records its field when
nothing had changed it since the last comparison, because the UPDATE failed or
matched no row, or came before the document. Whatever else runs at once,
`DiscrepanciaAnotada` and `NotaVigente` hold, and the next document that is
compared starts anew.
`ultimo` is empty before the first document: what the row held at the beginning
was compared with nothing.

`DiscrepanciaAnotada` makes an exception that is a fault of the code: the read
row has lost every dot of `monto_total` (`factura.model.ts:149`), so a document
that gives an amount with decimals without its point agrees with it, and no note
tells. `NotaVigente` makes the opposite one: the document that does agree with
such an amount gets a note. It also excepts a note that says what the row says
where the edit that wrote it was cut before it resolved the notes of its field.

## 4. The runs

Each row of the table is one configuration; `PROJECT.json` says which
properties it checks and which mutation of the code each of them detects.

| Run | Bounds | Shows |
|---|---|---|
| `Todo` | 3 facturas, 1 financiadora, 2 requests of the five kinds at once (edits of the status), failures and crash | whatever is interleaved, fails or crashes, permissions and PUBLICADA have an origin on record, permissions are taken back only for announced notes, and the service comes to rest |
| `Serie` | 1 factura, 2 financiadoras, 3 requests one after another, no failures | at rest a PUBLICADA factura has no notes, an accepted authorisation publishes, a note ends in nobody seeing the factura |
| `Carrera` | 2 requests at once, no failures | the first property of `Serie` is lost when a backing document arrives during an authorisation |
| `RevocacionTardia` | 3 requests, one at a time, no failures | a PUBLICADA factura ends up without the permissions its acceptance gave: the revocation of an answered request takes back later grants (the marketplace list asks for none, and still shows it) |
| `Mercado` | 2 facturas, 2 clients, limit 1 and a cap of 2 on the page, `Ttl` 2, `MaxDemora` 1, clock to 4, one cut | retired facturas disappear and published ones appear within time to live plus delay, a cut pipeline keeps one hash at most from expiring; a walk along the cursors, of any page size from 0 to the cap, passes over nobody who has a hash, unless a page without any holds it, and repeats nobody while all are there |
| `Acceso` | 2 users, 1 organization, 3 solicitudes, 3 requests two at a time, failures and crash | members and approvals have an origin under concurrency; a final state changes only by a request that had read it as pending, and a second solicitud is pending only where two tokens crossed |
| `Subida` | 2 uploads, 2 documents (one registered before), 2 lotes, failures and crash | the factura inherits the lote, files have their row |
| `Alta` | 1 RUT in two forms, 2 codes, 2 users, 3 requests two at a time, failures and crash | a 201 means everything is there, also on a second try; activities come whole, with tax data |
| `Cola` | 4 messages, 2 starts, 2 losses | the adapter implements the first-in first-out road, and delivers what found an open channel unless that one is lost |
| `Grupos` | 2 groups, 2 users (one of them known to the view), 3 requests two at a time, failures and crash | changes of members are atomic, one row per member, the list is faithful |
| `Contexto` | 2 connections, 3 calls (for one user, for another or nobody), 2 rejections, silences, losses or crashes | users do not leak between calls, results are true, connections are lost only as described, every call ends |
| `Rectificacion` | 2 fields (RUT and amount), 3 requests two at a time, 4 documents, 4 values, failures and crash | what a field holds passed every gate; discrepancies have their note and notes their discrepancy, but for what two named steps lose, until the next document |

Why the bounds are enough. The hazards are of two actors about one object, so
two requests at once on one or two objects reach them; the third request of
`Serie`, `Acceso` and `Alta` is what lets something happen after a request
that failed, was answered, or left a promise behind. `Todo` needs three rows:
the one registered before, and one for each request that inserts. Its edits are
those of the status, the field its properties are about, and the statuses that
clients send are three, one for each branch of the form; `Serie` edits the
number and resolves its notes, and needs two financiadoras so that a loop of
grants or revocations can stand between them. In `Mercado` the clock runs for
twice the time to live, so that the index expires, is rebuilt and expires
again; a walk with a page of one has to follow its cursor, with one of two it ends at
once, and with none it is the whole index. In `Cola` four messages
fill the wait for the channel on both sides of a restart. In `Contexto` two
failures are what it takes to return a connection with an open transaction and
to lose the other, and the third call is the one that inherits it or waits.
`Grupos` has one group from the beginning and room for one to be created, so
that a request about members can come before its leader is in. `Rectificacion`
has one field that is compared as it is and one that is converted first; the
third request is the one that comes after a document and its edit. Of its four
documents one gives the amount with decimals without its point.

The requests of `FacturaPublicacion` are numbers, in the order in which they
arrive: two executions that differ in their names only are one. Elsewhere
symmetry is over the names of requests, financiadoras, codes and messages,
which no constant tells apart, and is off wherever a run checks liveness.

Deadlock is checked in every run. In the modules whose requests are a finite
set, `Descansa` is the stutter of a system with nothing more to do, and it is
enabled only when nothing is in flight: a handler that could not go on would be
reported.

### Fairness

- `FacturaPublicacion`: weak fairness of each handler and of each background
  promise. An await of the code is answered by the driver or rejected, the
  event loop runs what is ready, so a handler that can continue does. Nothing
  is fair about arrivals, crashes or which answer comes.
- `QueueClient`: weak fairness of `Confirmar` and `Recibir`: a channel that
  stays open answers `assertExchange` and delivers what was written. None of
  the start of the process, nor of publications and losses.
- `ContextoAuditoria`: weak fairness of each call: `query_timeout`,
  `statement_timeout` and `connectionTimeoutMillis`
  (`databaseConfig.module.ts:28-33`) settle every promise of the driver.
- `ColaAbstracta`: weak fairness of the arrival, which the run `Cola`
  derives from that of the code's two steps.

`AceptarPublica` and `NotasRetiranVista` are checked without failures and one
request at a time, because the code promises them only then: `Carrera` and
`RevocacionTardia` are what happens otherwise.

### What the code does against what it says

Two runs end in the counterexample they announce; `findings` of
`PROJECT.json` quotes the line each contradicts.

1. `Carrera`: U:545 reads the notes, U:578 writes PUBLICADA, and a note stored
   in between is ignored, though U:554 refuses facturas with notes.
2. `RevocacionTardia`: the loop of FS:116 is not awaited. It takes back the
   permissions of a factura that was published again meanwhile, though U:64 says
   that to publish takes giving permissions and U:569 gives them for the
   published factura.

Other disagreements met while reading, without a run of their own (the models
reproduce those that their abstraction can express):

- `acceso.usecase.ts:17` checks that a solicitud is pending, and the UPDATE
  that follows one or two awaits later is by token alone
  (`solicitudAccesoRepository:148-150`): two requests at once change a final
  state, which :18 says cannot be. `EstadoFinal` says how
  far it goes.
- `setRut` stores the RUT in one column and `checkRut` compares two: an
  organization that POST created is never found, against
  `organizacion.controller.ts:89`. A category whose insertion failed for any
  reason is taken for one that was there, and check-rut joins with it.
- `publish` rejects on a channel that closed and its three callers do not catch
  it: the process ends with every request in it, although
  `queue-client.adapter.ts:124` says that the notifications are disabled.
- FR:36-37 connect and begin outside the `try`: a START TRANSACTION that fails
  keeps its connection for ever. A ROLLBACK that is dropped by `query_timeout`
  gives back a connection with its transaction open, and the next plain query
  on it is answered and may be lost. A COMMIT that is done and not answered is
  reported as a failure.
- `crearGrupo` and `listarGrupos` pass the uuid of the route where the other
  queries have a key (`organizacion_id`; the conversion at
  `organizacionAdminRepository:185` is commented out), so what they find depends
  on a type the repository does not show. A member who is removed from the
  organization stays in its groups, and members can be added to a group that
  was removed.
- The comparison is of texts (FS:36-81): a RUT without dots, an amount with
  decimals or an absent amount (0) give notes about a factura that agrees.
- PATCH may write any status of `CampoEditado` (`facturaUpdate.model.ts:126`),
  outside the sequence that U:64 documents.
- A factura that is only PROCESANDO is announced as pending of authorisation
  (U:317 and U:415 against U:288).
- An edit that matched no row is answered as done (FR:302-306 test the length
  of the driver's answer, which tells nothing) and resolves the notes of its
  field (U:508), as does one that failed.
- Who edits is whom the body names; the token is not compared with it.
- A failed insertion comes back as a message in the place of the id (FR:139
  against the comment at :70-72), and only two substrings are looked for.
- `validateFacturaEditable` is always true (FR:263, "Temporalmente"), whereas
  the controller (`factura-manager.controller.ts:135`) speaks of a check.
- A webhook without payload is read before it is validated (U:137 against
  `dteNotification.dto.ts:132`).
- A DTE-respaldo is attached as principal (`storageMediaRepository:152`), a
  role that FR:117 gives to the document the factura was born from.
- A removed member passes the validation of users:
  `userProfileRepository:207-219` ignores `om.activo`.
- `solicitarAcceso` always writes a null organization, so its solicitud cannot
  be approved, and "Ya tienes una solicitud" is never answered.
- The author of an enrolment token is the administrator who made it.
- A cancellation that matched nothing is answered as "cancelada".
- The cache: the constant of 3600 seconds in its comment is not the 86400 in
  use; README:414 says that without Redis there is no cache, and an error of
  Redis is an exception; a cut pipeline leaves keys without expiry; missing
  hashes make the cursor repeat facturas.
- `factura.model.ts:149` removes every dot of `monto_total`, decimals included:
  a document that agrees gets a note, and one that is a hundred times larger none.
- A repeated registration duplicates activities and makes its author another
  ADMIN (`organizacion.controller.ts:41` calls it idempotent); `upsertRaw`
  leaves raw data beside normalised columns (:73); a POST without raw data
  fails in `TributaryModel.fromRaw(null)`.
- README:416 says that without RabbitMQ the webhooks of the OCR stop; they
  arrive by HTTP and go on. What is published without a channel is dropped
  until the next start.

## 5. The proofs

Eight modules of proofs: one per model, but that `Adaptadores_proofs` has the
two adapters that talk to another server, the cache and the publisher (which it
instantiates as `Cola`, so its names appear with that prefix). Each theorem holds for every value
of the constants that satisfies the assumptions named below: nothing bounds the
requests, users, rows, connections or messages, nor how many requests run at
once, and failures and crashes are included.

| Module | Theorem | Statement |
|---|---|---|
| `FacturaPublicacion_proofs` | `TipoCorrecto` | `Spec => []TypeOK` |
| | `PermisoSiempreConOrigen` | `Spec => []PermisoConOrigen` |
| | `PublicadaSiempreConOrigen` | `Spec => []PublicadaConOrigen` |
| | `RevocacionSiempreConMotivo` | `Spec => RevocacionConMotivo` (an action property) |
| | `PublicadaSinNotasEnSerie` | `EnSerie` implies `Spec => []PublicadaSinNotas` |
| `RectificacionFactura_proofs` | `Tipos` | `Spec => []TypeOK` |
| | `CambioConOrigenSiempre` | `Spec => []CambioConOrigen` |
| | `DiscrepanciaAnotadaSiempre` | `Spec => []DiscrepanciaAnotada` |
| | `NotaVigenteSiempre` | `Spec => []NotaVigente` |
| `ContextoAuditoria_proofs` | `Tipos` | `Spec => []TypeOK` |
| | `ContextoPropioSiempre` | `Spec => []ContextoPropio` |
| | `ResultadoFielSiempre` | `Spec => []ResultadoFiel` |
| | `PoolEnteroSiempre` | `Spec => []PoolEntero` |
| `GruposTrabajo_proofs` | `Tipos` | `Spec => []TypeOK` |
| | `UnaFilaSiempre` | `Spec => []UnaFila` |
| | `ListadoFielSiempre` | `Spec => []ListadoFiel` |
| | `GruposImplementan` | `Spec => ImplementaGrupos` (the refinement of `GruposAbstracto`) |
| `AccesoOrganizacion_proofs` | `TiposSiempre` | `Spec => []TypeOK` |
| | `MiembroConOrigenSiempre` | `Spec => []MiembroConOrigen` |
| | `AprobadaConFilaSiempre` | `Spec => []AprobadaConFila` |
| | `UnaPendienteSiempre` | `Spec => []UnaPendiente` |
| | `EstadoFinalSiempre` | `Spec => EstadoFinal` (an action property) |
| `Adaptadores_proofs` | `Tipos` | `Spec => []TypeOK` (of `MarketplaceCache`) |
| | `RetiradaDesapareceSiempre` | `Spec => []RetiradaDesaparece` |
| | `PublicadaApareceSiempre` | `Spec => []PublicadaAparece` |
| | `RecorridoFielSiempre` | `Spec => []RecorridoFiel` |
| | `TiposCola` | `Cola!Spec => []Cola!TypeOK` |
| | `UnaVezSiempre` | `Cola!Spec => []UnaVez` |
| | `ColaImplementa` | `Cola!Spec => Cola!Abstracta!Spec` (the refinement of `ColaAbstracta`, but for its fairness) |
| `AltaOrganizacion_proofs` | `Tipos` | `Spec => []TypeOK` |
| | `AltaCompletaSiempre` | `Spec => []AltaCompleta` |
| | `ActividadesEnterasSiempre` | `Spec => []ActividadesEnteras` |
| | `ActividadConVerificacionSiempre` | `Spec => []ActividadConVerificacion` |
| `SubidaDocumentos_proofs` | `Tipos` | `Spec => []TypeOK` |
| | `LoteHeredadoSiempre` | `Spec => []LoteHeredado` |
| | `ArchivoConRastroSiempre` | `Spec => []ArchivoConRastro` |

### What they assume

`ConstantesOK` of each module, which TLC evaluates in its run: sets from which
something is chosen are not empty, what stands for nothing (`Ninguna`, `Nulo`,
`SinLote`, `SinOrg`, ...) is not one of the things, previous rows are well
formed, requests are numbers where their order names them. Those of `Cola` are
a hypothesis of its theorems, since they are of an instance. Five of them ask
for more than the types:

- `AltaOrganizacion`: the set of requests is finite, because `TypeOK` bounds the
  rows that link a code by their number.
- `RectificacionFactura`: no document gives several amounts, because the body
  of the webhook is one number (`dteNotification.dto.ts`).
- `FacturaPublicacion`: ids are distinct from the messages a failed insertion
  returns in their place.
- `MarketplaceCache`: the facturas are finitely many naturals. Redis breaks ties
  by key, and a place in the index is a number of members.
- `AccesoOrganizacion` adds `PreviasOK` (section 3). Without it
  `AprobadaConFila` and `UnaPendiente` are already false in the initial state.

`PublicadaSinNotasEnSerie` assumes `EnSerie`, the situation of the run `Serie`:
one handler at a time, no failures, no client that writes PUBLICADA, and one
organization for all who act. The promises that outlive a request are as free
in it as elsewhere, and every kind of request and every field is allowed, which
the run does not do. It is the only theorem with a hypothesis of its own.

### The arguments

Type correctness comes first in each module, one step per action. The other
invariants are not inductive: from a state where a handler is at an await
without having done what comes before it, its next statement would break them.
What each module adds is, in the first place, what the place of a request says
of what it has done (`Rumbo`, `Progreso`, `PasoPropio`, `Admitidas`), and then
what it has to know about others. `InvInicial`, `InvInductivo` and temporal
reasoning give that the whole is invariant; each theorem is one conjunct of it, or
follows from a few.

- **`FacturaPublicacion`**. `Rumbo(p)`: a grant is made only by an
  authorisation that is on record or by a form, a revocation only by a request
  whose notes were announced. `OrigenPerdura`: an origin stays, because
  authorisations are never deleted and what a request announced does not change
  when it ends or crashes. `QuienCambiaVista` and `QuienCambiaEstado` say which
  actions touch a permission or a status, so that the others need no case.
  For `EnSerie`, `InvSerie` adds that one handler runs (`Sola`), that an
  authorisation which has looked at the notes still has none (`Turno`), and
  that a PUBLICADA factura with notes is owed the update of its status by the
  promise of the request that stored them (`NotasDebidas`): nothing is owed at
  rest.
- **`RectificacionFactura`**. An edit carries what passed each gate before its
  await (`Admitidas`) and whoever wrote a field is known by it (`ConOrigen`).
  The two properties of the notes are inductive with these: what a document is
  compared with is the row in every field but those it puts in `dudoso`, an edit
  that resolves notes of a field outside `dudoso` had it changed since the last
  document, and a note that an edit makes true is one it still has to resolve
  (`NotaIgual` is the step that writes no note and leaves nobody's debt).
- **`ContextoAuditoria`**. A connection has one holder (`TomaUnica`); a closed
  session remembers nothing (`SesionCerrada`); a block has its transaction open
  and its user named when it operates (`BloqueAbierto`); so what is written,
  committed or not, is signed as the property says (`Firmas`). `Pendientes` and
  `Resultados` say to whom an uncommitted row belongs and how far the call of a
  committed one got. `PoolEntero` is an account: hanging calls and aborted
  transactions that nobody hangs with are together no more than the failures
  (`Deuda`); a call that hangs for want of a START TRANSACTION takes over the
  debt of the transaction it found aborted.
- **`GruposTrabajo`**. Rows are activated and deactivated and never deleted
  (`FilaHallada`); a group that does not exist has none and nobody is about to
  change it (`GrupoNuevo`); two that are about to insert one row have crossed
  (`Cruces`); `Lectura` relates what a list has read, what it has still to
  read, and who was a member meanwhile. The refinement goes action by
  action (`ManejadorAbstracto`): which step of `GruposAbstracto` it is, or that
  it is none.
- **`AccesoOrganizacion`**. What a handler read of a solicitud, but for the
  state, is what the row says, and before an approval is written its author has
  a row of member (`Leidas`): this is what makes `AprobadaConFila` survive
  crashes and overlaps. `Cruces` counts, for a pair of organization and user
  where no two tokens crossed (`SinCruce`), the pending solicitudes and the
  requests about to create one: together they are one at most, because a token
  cancels what is pending before it inserts.
- **`QueueClient`**. Everything that was handed over is, in order, received,
  written or waiting, and stands there once (`UnaVez`, over the concatenation
  of the three); what stands anywhere was published (`Conocidos`), so that a
  message enters once. Each action is then an entry, an arrival, an accident or
  a stutter of the road. `UnaVez` is not among the properties of the run: it
  was found in this proof, as what the refinement needs.
- **`MarketplaceCache`**. Each property of the expiries rests on when a list was
  read. What a request is about to write differs from the database only in
  facturas that changed since (`Lecturas`), and it is at most `MaxDemora` old;
  an expiry is at most `Ttl` away, or is none or never (`Vencimientos`). So a
  retired factura with a hash was retired after the reading its hash comes from
  (`Retiradas`), and one published before the reading the index comes from is in
  the index with a hash that lasts as long (`Aparecen`). A cut leaves one
  eternal hash (`UnaEterna`), because there is one cut. `RecorridoFiel` needs no
  history, only types: the places of the members are a bijection with 0 to n - 1
  (`PosicionOrden`, `PosicionOcupada`), so a page reads as many members as places
  (`CardinalTramo`, `ClavesTramo`) and the cursor, which adds the members that had
  their hash, never goes beyond the page (`Avance`). So the last cursor before the
  place of a factura with a hash has it in its page or does not move
  (`NadieSalta`). While all the hashes are there the cursor lands on the place
  after the page (`Pagina`), no cursor falls inside a page (`SinSolape`) and the
  walk ends at the end (`RecorridoSinFantasmas`). These inductions over the walk
  are done by the least counterexample: the naturals are well founded
  (`MinimoNat`), and `Cursores` is the least of the closed sets, so a smaller
  closed set refutes it.
- **`AltaOrganizacion`**. `Progreso(p)`: every statement that a registration
  passed left its row, and nobody takes it away, since the raw write turns
  normalised tax data into mixed and not into raw. `Cuenta` bounds the rows of
  a code by the requests that passed their INSERT.
- **`SubidaDocumentos`**. `Progreso(p)`: the asset of a request that was
  answered has its lote and its key, and it keeps both, so a factura, which is
  born of an answered request (`Origenes`), inherits what it should.

Proving changed the models where they were wrong. `ultimo` of
`RectificacionFactura` began as if a document had been compared, and
`DiscrepanciaAnotada` did not know of amounts without their point: the three
documents of the run did not include one, and now there are four.
`AccesoOrganizacion` admitted previous rows that no sequence of requests
leaves. `Contestado` of `QueueClient` spoke of the message at the head and now
speaks of the position, which is what the channel answers by. In
`MarketplaceCache` the index was a sequence built by sorting and a page a
subsequence, operators about which nothing can be proved here; places and sets
say the same of ZRANGE, and `RecorridoFiel`, which followed the pages of a walk
up to a length, now speaks of the whole walk.

### What is only model-checked

- Liveness: `TodoTermina`, `AceptarPublica`, `NotasRetiranVista`,
  `PublicadoLlega`, `TodaTermina` and the fairness that is part of
  `ImplementaCola`. Fairness and ENABLED are beyond the prover.
- That the two runs which end in a counterexample do: a theorem says what
  holds, and `Carrera` that `EnSerie` is needed.

## 6. What is not modelled, and why

- Catalogues and read-only queries: no state of their own.
- Secrets, wiring, metrics, the exception filter and validation: they run once
  at start or translate requests and errors, and change no state the
  properties tell apart.
- The user profile beyond the check of the member: its queries change nothing,
  and its one write is a PUT that is forwarded to another service. The
  repository of work teams consists of stubs.
- `RlsQueryRunner` has the steps of `runWithAuditContext` and no caller; the
  middleware of the token copies it and keeps nothing.
- `RolesGuard` and `SelfOnlyGuard`: no route asks for a role, and the second is
  on the profile routes alone.
- check-rut, the read of a page of one's own facturas, the two lists of members
  and the renaming of a lote: nothing they change is told apart.
- The OCR worker, the browser, PostgreSQL, Redis, RabbitMQ and the financing
  side: external; modelled where the code uses them, by what it relies on.
- Row level security, formats, wording and logging.
- Two instances of the service at once: the adapter and the promises are of one
  process, and the compose file starts one.
