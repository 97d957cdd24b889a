---------------------- MODULE FacturaPublicacion_proofs ----------------------
(***************************************************************************)
(* Proofs about FacturaPublicacion, for any number of facturas,            *)
(* financiadoras, users and requests, with failures and crashes.           *)
(***************************************************************************)
EXTENDS FacturaPropiedades, FiniteSetTheorems, TLAPS

\* The default values are of the right type.
LEMMA BaseOK == UsuarioBase \in Usuario /\ FilaVacia \in Fila
                /\ EntradaBase \in Entrada
<1>1. UsuarioBase \in Usuario
  BY ConstantesOK DEF UsuarioBase
<1>2. FilaVacia \in Fila
  BY <1>1 DEF FilaVacia, Fila
<1>3. EntradaBase \in Entrada
  BY <1>1 DEF EntradaBase, Entrada, SinId, Estado
<1>4. QED  BY <1>1, <1>2, <1>3

\* A request of a known kind, well formed.
EntradaReal == {e \in Entrada : e.tipo # ""}

\* Whatever arrives at an endpoint is one.
LEMMA LlegaReal ==
  ASSUME NEW p, LlegaAlguna(p)
  PROVE  \E e \in EntradaReal : Llega(p, e)
<1> USE BaseOK DEF EntradaReal, Entrada, Uuid, SinId
<1>1. ASSUME NEW f \in Uuid, NEW a \in BOOLEAN
      PROVE  PideAutorizar(f, a) \in EntradaReal
  BY DEF PideAutorizar
<1>2. ASSUME NEW f \in Uuid, NEW u \in Usuario, NEW d \in SUBSET Campo
      PROVE  PideRespaldo(f, u, d) \in EntradaReal
  BY DEF PideRespaldo
<1>3. ASSUME NEW f \in Uuid, NEW u \in Usuario,
             NEW c \in Campo \cup {"numeroFactura", "status"},
             NEW n \in Folio \cup {""}, NEW s \in Estado
      PROVE  PideEditar(f, u, c, n, s) \in EntradaReal
  BY DEF PideEditar
<1>4. ASSUME NEW f \in Factura \cup SinId, NEW u \in Usuario, NEW n \in Folio,
             NEW s \in EstadosCliente
      PROVE  PideFormulario(f, u, n, s) \in EntradaReal
  BY ConstantesOK DEF PideFormulario
<1>5. ASSUME NEW u \in Usuario, NEW n \in Folio \cup {""}, NEW t \in BOOLEAN,
             NEW d \in SUBSET Campo
      PROVE  PideDte(u, n, t, d) \in EntradaReal
  BY DEF PideDte
<1>6. "PROCESANDO" \in Estado /\ EstadosEditables \subseteq Estado
  BY DEF Estado, EstadosEditables
<1> HIDE DEF EntradaReal, Entrada, Uuid, SinId
<1>7. QED  BY <1>1, <1>2, <1>3, <1>4, <1>5, <1>6 DEF LlegaAlguna

-----------------------------------------------------------------------------
(***************************************************************************)
(* Type correctness.                                                       *)
(***************************************************************************)

\* A function into subsets of S stays one when an entry grows or shrinks.
LEMMA Agrega ==
  ASSUME NEW D, NEW S, NEW g \in [D -> SUBSET S], NEW d, NEW x \in SUBSET S
  PROVE  [g EXCEPT ![d] = @ \cup x] \in [D -> SUBSET S]
<1> DEFINE h == [g EXCEPT ![d] = @ \cup x]
<1>1. ASSUME NEW i \in D  PROVE h[i] \in SUBSET S
  BY <1>1
<1>2. QED  BY <1>1

LEMMA Quita ==
  ASSUME NEW D, NEW S, NEW g \in [D -> SUBSET S], NEW d, NEW x
  PROVE  [g EXCEPT ![d] = @ \ x] \in [D -> SUBSET S]
<1> DEFINE h == [g EXCEPT ![d] = @ \ x]
<1>1. ASSUME NEW i \in D  PROVE h[i] \in SUBSET S
  BY <1>1
<1>2. QED  BY <1>1

LEMMA Asigna ==
  ASSUME NEW D, NEW S, NEW g \in [D -> SUBSET S], NEW d, NEW x \in SUBSET S
  PROVE  [g EXCEPT ![d] = x] \in [D -> SUBSET S]
  OBVIOUS

\* A handler that ends leaves its place and its answer well formed.
LEMMA TerminaTipo ==
  ASSUME TypeOK, NEW p \in Peticion, NEW como \in {"fin", "fallo"},
         NEW c \in Codigo \cup {""}, Termina(p, como, c)
  PROVE  /\ pc' \in [Peticion ->
                        PasoDe \cup {"libre", "fin", "fallo", "caida"}]
         /\ aviso' \in [Peticion -> Codigo \cup {""}]
  BY DEF TypeOK, Termina, Ir

LEMMA TipoInicial == Init => TypeOK
<1> SUFFICES ASSUME Init  PROVE TypeOK
  OBVIOUS
<1>1. /\ estado \in [Factura -> Estado \cup {NoRegistrada}]
      /\ fila \in [Factura -> Fila]
  <2>1. ASSUME NEW f \in DOMAIN FilasPrevias
        PROVE  f \in Factura /\ FilasPrevias[f] \in Fila
    BY ConstantesOK
  <2>2. QED
    BY <2>1, BaseOK DEF Init, Estado
<1>2. QED
  BY <1>1, BaseOK DEF Init, TypeOK, PasoDe, Codigo, SinId

\* What publishFactura leaves in the row and in resultQuery.
LEMMA PublishTipo ==
  ASSUME TypeOK, NEW p \in Peticion, NEW s \in Estado,
         NEW n \in Folio \cup {""}, NEW t \in BOOLEAN, NEW conAsset,
         PublishFactura(p, s, n, t, conAsset)
  PROVE  /\ estado' \in [Factura -> Estado \cup {NoRegistrada}]
         /\ fila' \in [Factura -> Fila]
         /\ id' \in [Peticion -> Factura \cup SinId \cup Mensaje]
<1>1. ASSUME NEW f \in Factura, Inserta(p, f, s, n, t)
      PROVE  /\ estado' \in [Factura -> Estado \cup {NoRegistrada}]
             /\ fila' \in [Factura -> Fila]
  BY <1>1 DEF TypeOK, Inserta, Fila, Entrada
<1>2. ASSUME NEW r \in Factura \cup Mensaje, Guarda(p, r)
      PROVE  id' \in [Peticion -> Factura \cup SinId \cup Mensaje]
  BY <1>2 DEF TypeOK, Guarda
<1>3. QED
  BY <1>1, <1>2 DEF PublishFactura, TypeOK, Mensaje

LEMMA TipoInductivo == TypeOK /\ [Next]_vars => TypeOK'
<1> SUFFICES ASSUME TypeOK, [Next]_vars  PROVE TypeOK'
  OBVIOUS
<1> USE DEF bd, peticiones, fondo
<1>1. ASSUME NEW p \in Peticion, LlegaAlguna(p)  PROVE TypeOK'
  <2>1. PICK e \in EntradaReal : Llega(p, e)
    BY <1>1, LlegaReal
  <2>2. e \in Entrada /\ e.factura \in Factura \cup SinId
    BY DEF EntradaReal, Entrada
  <2>3. PrimerPaso(e.tipo) \in PasoDe
    BY DEF PrimerPaso, PasoDe
  <2>4. QED
    BY <2>1, <2>2, <2>3 DEF TypeOK, Llega
<1>2. ASSUME NEW p \in Peticion, Manejador(p)  PROVE TypeOK'
  <2> USE DEF Termina, Ir, En, PasoDe, Codigo
  <2>1. CASE ValidarUsuario(p)
    <3>1. TrasValidar(ent[p].tipo) \in PasoDe
      BY DEF TrasValidar
    <3>2. QED
      <4>1. /\ pc' \in [Peticion ->
                          PasoDe \cup {"libre", "fin", "fallo", "caida"}]
            /\ aviso' \in [Peticion -> Codigo \cup {""}]
        <5>1. CASE Ir(p, TrasValidar(ent[p].tipo)) /\ UNCHANGED aviso
          BY <3>1, <5>1 DEF TypeOK
        <5>2. CASE \E c \in {"FACTURA_ERROR_PROCESAMIENTO", ""} :
                      Termina(p, "fallo", c)
          BY <5>2, TerminaTipo
        <5>3. QED
          BY <2>1, <5>1, <5>2 DEF ValidarUsuario
      <4>2. QED
        BY <2>1, <4>1 DEF ValidarUsuario, TypeOK
  <2>2. CASE ListarFinanciadoras(p)
    <3>1. PICK lista \in SUBSET Financiadora :
               orgs' = [orgs EXCEPT ![p] = lista]
      BY <2>2 DEF ListarFinanciadoras
    <3>2. orgs' \in [Peticion -> SUBSET Financiadora]
      BY <3>1, Asigna DEF TypeOK
    <3>3. QED
      BY <2>2, <3>2 DEF ListarFinanciadoras, TypeOK
  <2>3. CASE Otorgar(p)
    <3>1. CASE id[p] \in Factura /\ \E o \in orgs[p] :
                 /\ ConcedeVista(id[p], o)
                 /\ orgs' = [orgs EXCEPT ![p] = Siguientes(@, o)]
                 /\ UNCHANGED <<pc, aviso>>
      <4>1. PICK o \in orgs[p] :
                 /\ visible' = [visible EXCEPT ![id[p]] = @ \cup {o}]
                 /\ orgs' = [orgs EXCEPT ![p] = @ \ {o}]
        BY <3>1 DEF ConcedeVista, Siguientes
      <4>2. {o} \in SUBSET Financiadora
        BY DEF TypeOK
      <4>3. visible' \in [Factura -> SUBSET Financiadora]
        BY <4>1, <4>2, Agrega DEF TypeOK
      <4>4. orgs' \in [Peticion -> SUBSET Financiadora]
        BY <4>1, Quita DEF TypeOK
      <4>5. QED
        BY <2>3, <3>1, <4>3, <4>4 DEF Otorgar, TypeOK
    <3>2. CASE Termina(p, "fallo", "") /\ UNCHANGED <<visible, orgs>>
      BY <2>3, <3>2 DEF Otorgar, TypeOK
    <3>3. CASE /\ Termina(p, "fallo", "") /\ UNCHANGED visible
               /\ orgs' = [orgs EXCEPT ![p] = {}]
      BY <2>3, <3>3 DEF Otorgar, TypeOK
    <3>4. QED
      BY <2>3, <3>1, <3>2, <3>3 DEF Otorgar
  <2>4. CASE AutorizarLeerNotas(p)
    BY <2>4 DEF AutorizarLeerNotas, TypeOK
  <2>5. CASE AutorizarRegistrar(p)
    <3>1. ent[p].acepto \in BOOLEAN
      BY DEF Entrada, TypeOK
    <3>2. TrasRegistrar(p) \in {"orgs", "fin"}
      BY DEF TrasRegistrar
    <3>3. autorizaciones' \subseteq
            [peticion: Peticion, factura: Factura, acepto: BOOLEAN]
      <4>1. CASE Registrada(id[p])
        <5> DEFINE
              T == [peticion: Peticion, factura: Factura, acepto: BOOLEAN]
              r == [peticion |-> p, factura |-> id[p], acepto |-> ent[p].acepto]
        <5>1. r \in T
          BY <3>1, <4>1 DEF Registrada
        <5>2. autorizaciones' \subseteq autorizaciones \cup {r}
          BY <2>5 DEF AutorizarRegistrar
        <5>3. autorizaciones \subseteq T
          BY DEF TypeOK
        <5> HIDE DEF T, r
        <5>4. autorizaciones' \subseteq T
          BY <5>1, <5>2, <5>3
        <5>5. QED
          BY <5>4 DEF T
      <4>2. CASE ~Registrada(id[p])
        BY <2>5, <4>2 DEF AutorizarRegistrar, TypeOK
      <4>3. QED
        BY <4>1, <4>2
    <3>4. QED
      BY <2>5, <3>2, <3>3 DEF AutorizarRegistrar, TypeOK
  <2>6. CASE AutorizarPublicar(p)
    <3>1. estado' \in [Factura -> Estado \cup {NoRegistrada}]
      BY <2>6
      DEF AutorizarPublicar, CambiaEstado, Registrada, Estado, TypeOK
    <3>2. QED
      BY <2>6, <3>1 DEF AutorizarPublicar, TypeOK
  <2>7. CASE RespaldoLeer(p)
    BY <2>7 DEF RespaldoLeer, TypeOK
  <2>8. CASE RespaldoNotas(p)
    <3>1. ASSUME GuardaNotas(p)
          PROVE  /\ notas' \in [Factura -> SUBSET Campo]
                 /\ actualiza' \in [Peticion -> BOOLEAN]
                 /\ revoca' \in [Peticion -> {"no", "listar", "bucle"}]
      <4>1. ent[p].discrepa \in SUBSET Campo
        BY DEF Entrada, TypeOK
      <4>2. notas' \in [Factura -> SUBSET Campo]
        BY <3>1, <4>1, Agrega DEF GuardaNotas, TypeOK
      <4>3. QED
        BY <3>1, <4>2 DEF GuardaNotas, TypeOK
    <3>2. CASE GuardaNotas(p)
      BY <2>8, <3>1, <3>2 DEF RespaldoNotas, GuardaNotas, TypeOK
    <3>3. CASE UNCHANGED <<bd, fondo>>
      BY <2>8, <3>3 DEF RespaldoNotas, TypeOK
    <3>4. QED
      BY <2>8, <3>2, <3>3 DEF RespaldoNotas
  <2>9. CASE EditarActualizar(p)
    <3>1. /\ ent[p].estado \in Estado
          /\ ent[p].folio \in Folio \cup {""}
      BY DEF Entrada, TypeOK
    <3>2. ASSUME EsGestor(p), EscribeCampo(p)
          PROVE  /\ estado' \in [Factura -> Estado \cup {NoRegistrada}]
                 /\ fila' \in [Factura -> Fila]
      <4>1. id[p] \in Factura /\ fila[id[p]] \in Fila
        BY <3>2 DEF EsGestor, Registrada, TypeOK
      <4>2. [fila[id[p]] EXCEPT !.folio = ent[p].folio] \in Fila
        BY <3>1, <4>1 DEF Fila
      <4>3. QED
        BY <3>1, <3>2, <4>1, <4>2 DEF EscribeCampo, TypeOK
    <3>3. /\ estado' \in [Factura -> Estado \cup {NoRegistrada}]
          /\ fila' \in [Factura -> Fila]
      BY <2>9, <3>2 DEF EditarActualizar, TypeOK
    <3>4. pc' \in [Peticion -> PasoDe \cup {"libre", "fin", "fallo", "caida"}]
      BY <2>9 DEF EditarActualizar, TypeOK
    <3>5. QED
      BY <2>9, <3>3, <3>4 DEF EditarActualizar, TypeOK
  <2>10. CASE EditarResolver(p)
    <3>1. notas' \in [Factura -> SUBSET Campo]
      <4>1. \/ UNCHANGED notas
            \/ notas' = [f \in Factura |-> IF f = id[p]
                                          THEN notas[f] \ {ent[p].campo}
                                          ELSE notas[f]]
        BY <2>10 DEF EditarResolver
      <4>2. ASSUME NEW f \in Factura
            PROVE  notas[f] \ {ent[p].campo} \in SUBSET Campo
        BY DEF TypeOK
      <4>3. QED
        BY <4>1, <4>2 DEF TypeOK
    <3>2. /\ pc' \in [Peticion ->
                        PasoDe \cup {"libre", "fin", "fallo", "caida"}]
          /\ aviso' \in [Peticion -> Codigo \cup {""}]
      <4>1. \E como \in {"fin", "fallo"}, c \in Codigo \cup {""} :
               Termina(p, como, c)
        BY <2>10 DEF EditarResolver
      <4>2. QED
        BY <4>1, TerminaTipo
    <3>3. QED
      BY <2>10, <3>1, <3>2 DEF EditarResolver, TypeOK
  <2>11. CASE FormExiste(p)
    BY <2>11 DEF FormExiste, TypeOK
  <2>12. CASE FormEstado(p)
    <3>1. ent[p].estado \in Estado
      BY DEF Entrada, TypeOK
    <3>2. estado' \in [Factura -> Estado \cup {NoRegistrada}]
      BY <2>12, <3>1 DEF FormEstado, CambiaEstado, Registrada, TypeOK
    <3>3. /\ pc' \in [Peticion ->
                        PasoDe \cup {"libre", "fin", "fallo", "caida"}]
          /\ aviso' \in [Peticion -> Codigo \cup {""}]
      BY <2>12 DEF FormEstado, TypeOK
    <3>4. QED
      BY <2>12, <3>2, <3>3 DEF FormEstado, TypeOK
  <2>13. CASE FormInsertar(p)
    <3>1. /\ ent[p].estado \in Estado
          /\ ent[p].folio \in Folio \cup {""}
      BY DEF Entrada, TypeOK
    <3>2. PublishFactura(p, ent[p].estado, ent[p].folio, FALSE, FALSE)
      BY <2>13 DEF FormInsertar
    <3>3. QED
      BY <2>13, <3>1, <3>2, PublishTipo DEF FormInsertar, PublishFactura, TypeOK
  <2>14. CASE FormResponder(p)
    BY <2>14 DEF FormResponder, TypeOK
  <2>15. CASE DteIlegible(p)
    BY <2>15 DEF DteIlegible, TypeOK
  <2>16. CASE DteInsertar(p)
    <3>1. /\ ent[p].timbrada \in BOOLEAN
          /\ ent[p].folio \in Folio \cup {""}
      BY DEF Entrada, TypeOK
    <3>2. PublishFactura(p, "PENDIENTE_AUTORIZACION",
                         ent[p].folio, ent[p].timbrada, TRUE)
      BY <2>16 DEF DteInsertar
    <3>3. /\ estado' \in [Factura -> Estado \cup {NoRegistrada}]
          /\ fila' \in [Factura -> Fila]
          /\ id' \in [Peticion -> Factura \cup SinId \cup Mensaje]
      BY <3>1, <3>2, PublishTipo DEF Estado
    <3>4. QED
      BY <2>16, <3>2, <3>3 DEF DteInsertar, PublishFactura, TypeOK
  <2>17. CASE DteVacia(p)
    <3>1. PublishFactura(p, "PENDIENTE_VALIDACION", "", FALSE, FALSE)
      BY <2>17 DEF DteVacia
    <3>2. /\ estado' \in [Factura -> Estado \cup {NoRegistrada}]
          /\ fila' \in [Factura -> Fila]
          /\ id' \in [Peticion -> Factura \cup SinId \cup Mensaje]
      BY <3>1, PublishTipo DEF Estado
    <3>3. QED
      BY <2>17, <3>1, <3>2 DEF DteVacia, PublishFactura, TypeOK
  <2>18. CASE DteNotas(p)
    <3>1. ASSUME GuardaNotas(p)
          PROVE  /\ notas' \in [Factura -> SUBSET Campo]
                 /\ actualiza' \in [Peticion -> BOOLEAN]
                 /\ revoca' \in [Peticion -> {"no", "listar", "bucle"}]
      <4>1. ent[p].discrepa \in SUBSET Campo
        BY DEF Entrada, TypeOK
      <4>2. notas' \in [Factura -> SUBSET Campo]
        BY <3>1, <4>1, Agrega DEF GuardaNotas, TypeOK
      <4>3. QED
        BY <3>1, <4>2 DEF GuardaNotas, TypeOK
    <3>2. CASE GuardaNotas(p)
      BY <2>18, <3>1, <3>2 DEF DteNotas, GuardaNotas, TypeOK
    <3>3. CASE UNCHANGED <<bd, fondo>>
      BY <2>18, <3>3 DEF DteNotas, TypeOK
    <3>4. QED
      BY <2>18, <3>2, <3>3 DEF DteNotas
  <2>19. QED
    BY <1>2, <2>1, <2>2, <2>3, <2>4, <2>5, <2>6, <2>7, <2>8, <2>9, <2>10,
       <2>11, <2>12, <2>13, <2>14, <2>15, <2>16, <2>17, <2>18 DEF Manejador
<1>3. ASSUME NEW p \in Peticion, Tarea(p)  PROVE TypeOK'
  <2>1. CASE FondoActualiza(p)
    <3>1. "PENDIENTE_VALIDACION" \in Estado
      BY DEF Estado
    <3>2. estado' \in [Factura -> Estado \cup {NoRegistrada}]
      BY <2>1, <3>1
      DEF FondoActualiza, CambiaEstado, Registrada, TypeOK
    <3>3. QED
      BY <2>1, <3>2 DEF FondoActualiza, TypeOK
  <2>2. CASE FondoListar(p)
    <3>1. PICK lista \in SUBSET Financiadora :
               orgsRev' = [orgsRev EXCEPT ![p] = lista]
      BY <2>2 DEF FondoListar
    <3>2. orgsRev' \in [Peticion -> SUBSET Financiadora]
      BY <3>1, Asigna DEF TypeOK
    <3>3. QED
      BY <2>2, <3>2 DEF FondoListar, TypeOK
  <2>3. CASE FondoRevocar(p)
    <3>1. /\ visible' \in [Factura -> SUBSET Financiadora]
          /\ orgsRev' \in [Peticion -> SUBSET Financiadora]
      <4>1. CASE UNCHANGED visible /\ orgsRev' = [orgsRev EXCEPT ![p] = {}]
        BY <4>1, Asigna DEF TypeOK
      <4>2. CASE \E o \in orgsRev[p] :
                   /\ visible' = [visible EXCEPT ![id[p]] = @ \ {o}]
                   /\ orgsRev' = [orgsRev EXCEPT ![p] = @ \ {o}]
        <5>1. PICK o : /\ visible' = [visible EXCEPT ![id[p]] = @ \ {o}]
                       /\ orgsRev' = [orgsRev EXCEPT ![p] = @ \ {o}]
          BY <4>2
        <5>2. visible' \in [Factura -> SUBSET Financiadora]
          BY <5>1, Quita DEF TypeOK
        <5>3. orgsRev' \in [Peticion -> SUBSET Financiadora]
          BY <5>1, Quita DEF TypeOK
        <5>4. QED
          BY <5>2, <5>3
      <4>3. QED
        BY <2>3, <4>1, <4>2 DEF FondoRevocar, QuitaVista, Siguientes
    <3>2. QED
      BY <2>3, <3>1 DEF FondoRevocar, TypeOK
  <2>4. CASE FondoFin(p)
    BY <2>4 DEF FondoFin, TypeOK
  <2>5. QED
    BY <1>3, <2>1, <2>2, <2>3, <2>4 DEF Tarea
<1>4. ASSUME Caida  PROVE TypeOK'
  BY <1>4 DEF Caida, TypeOK
<1>5. CASE UNCHANGED vars
  BY <1>5 DEF vars, TypeOK
<1>6. QED
  BY <1>1, <1>2, <1>3, <1>4, <1>5 DEF Next, Descansa

\* The service keeps its data well formed, whatever fails or interleaves.
THEOREM TipoCorrecto == Spec => []TypeOK
  BY TipoInicial, TipoInductivo, PTL DEF Spec

-----------------------------------------------------------------------------
(***************************************************************************)
(* Where a permission, a publication and a revocation come from.           *)
(***************************************************************************)

\* The steps before a request has written anything in a factura.
Antes == {"libre", "validar", "ed_actualizar", "form_existe",
          "form_estado", "form_insertar"}

\* The steps from which a form can be on its way to the grants, or past them.
Despues == {"orgs", "otorgar", "fin", "fallo", "caida"}

\* The steps that learn the id of a new row.
Nombra == {"form_insertar", "dte_insertar", "dte_vacia"}

\* A step of the handler of p moves only p, and moves it forward.
Avanza(p) ==
    /\ UNCHANGED ent
    /\ autorizaciones \subseteq autorizaciones'
    /\ \A q \in Peticion \ {p} :
          pc'[q] = pc[q] /\ id'[q] = id[q] /\ aviso'[q] = aviso[q]
    /\ id'[p] # id[p] => pc[p] \in Nombra
    /\ pc[p] \notin Antes => pc'[p] \notin Antes
    /\ pc[p] \in Despues => pc'[p] \in Despues
    /\ pc[p] \in PasoDe

LEMMA ManejadorAvanza ==
  ASSUME TypeOK, NEW p \in Peticion, Manejador(p)
  PROVE  Avanza(p)
<1> USE DEF TypeOK, Avanza, Antes, Despues, Nombra, PasoDe,
            En, Ir, Termina, bd, fondo
<1>1. CASE ValidarUsuario(p)
  BY <1>1 DEF ValidarUsuario, TrasValidar
<1>2. CASE ListarFinanciadoras(p)
  BY <1>2 DEF ListarFinanciadoras
<1>3. CASE Otorgar(p)
  BY <1>3 DEF Otorgar, ConcedeVista
<1>4. CASE AutorizarLeerNotas(p)
  BY <1>4 DEF AutorizarLeerNotas
<1>5. CASE AutorizarRegistrar(p)
  BY <1>5 DEF AutorizarRegistrar, TrasRegistrar
<1>6. CASE AutorizarPublicar(p)
  BY <1>6 DEF AutorizarPublicar, CambiaEstado
<1>7. CASE RespaldoLeer(p)
  BY <1>7 DEF RespaldoLeer
<1>8. CASE RespaldoNotas(p)
  BY <1>8 DEF RespaldoNotas, GuardaNotas
<1>9. CASE EditarActualizar(p)
  BY <1>9 DEF EditarActualizar, EscribeCampo
<1>10. CASE EditarResolver(p)
  BY <1>10 DEF EditarResolver
<1>11. CASE FormExiste(p)
  BY <1>11 DEF FormExiste
<1>12. CASE FormEstado(p)
  BY <1>12 DEF FormEstado, CambiaEstado
<1>13. CASE FormInsertar(p)
  <2>1. PICK x : id' = [id EXCEPT ![p] = x]
    BY <1>13 DEF FormInsertar, PublishFactura, Guarda
  <2>2. PICK c \in {"orgs", "fallo", "fin"} : pc' = [pc EXCEPT ![p] = c]
    BY <1>13 DEF FormInsertar
  <2>3. \A q \in Peticion \ {p} : aviso'[q] = aviso[q]
    BY <1>13 DEF FormInsertar
  <2>4. /\ UNCHANGED <<ent, autorizaciones>>
        /\ pc[p] = "form_insertar"
    BY <1>13 DEF FormInsertar, PublishFactura
  <2>5. QED
    BY <2>1, <2>2, <2>3, <2>4
<1>14. CASE FormResponder(p)
  BY <1>14 DEF FormResponder
<1>15. CASE DteIlegible(p)
  BY <1>15 DEF DteIlegible
<1>16. CASE DteInsertar(p)
  <2>1. PICK x : id' = [id EXCEPT ![p] = x]
    BY <1>16 DEF DteInsertar, PublishFactura, Guarda
  <2>2. PICK c \in {"fin", "dte_vacia", "dte_notas"} : pc' = [pc EXCEPT ![p] = c]
    BY <1>16 DEF DteInsertar
  <2>3. \A q \in Peticion \ {p} : aviso'[q] = aviso[q]
    BY <1>16 DEF DteInsertar
  <2>4. /\ UNCHANGED <<ent, autorizaciones>>
        /\ pc[p] = "dte_insertar"
    BY <1>16 DEF DteInsertar, PublishFactura
  <2>5. QED
    BY <2>1, <2>2, <2>3, <2>4
<1>17. CASE DteVacia(p)
  <2>1. PICK x : id' = [id EXCEPT ![p] = x]
    BY <1>17 DEF DteVacia, PublishFactura, Guarda
  <2>2. PICK c \in {"fin"} : pc' = [pc EXCEPT ![p] = c]
    BY <1>17 DEF DteVacia
  <2>3. \A q \in Peticion \ {p} : aviso'[q] = aviso[q]
    BY <1>17 DEF DteVacia
  <2>4. /\ UNCHANGED <<ent, autorizaciones>>
        /\ pc[p] = "dte_vacia"
    BY <1>17 DEF DteVacia, PublishFactura
  <2>5. QED
    BY <2>1, <2>2, <2>3, <2>4
<1>18. CASE DteNotas(p)
  BY <1>18 DEF DteNotas, GuardaNotas
<1>19. QED
  BY <1>1, <1>2, <1>3, <1>4, <1>5, <1>6, <1>7, <1>8, <1>9, <1>10, <1>11, <1>12, <1>13, <1>14, <1>15, <1>16, <1>17, <1>18 DEF Manejador

\* Nothing that a permission or a publication comes from is ever undone.
Perdura(f) ==
    /\ Aceptada(f) => Aceptada(f)'
    /\ FormOtorgo(f) => FormOtorgo(f)'
    /\ Escribio(f, "PUBLICADA") => Escribio(f, "PUBLICADA")'

LEMMA OrigenPerdura ==
  ASSUME TypeOK, \A q \in Peticion : Rumbo(q), [Next]_vars
  PROVE  \A f : Perdura(f)
<1> USE DEF Perdura, Aceptada, FormOtorgo, Escribio
<1>1. ASSUME NEW p \in Peticion, LlegaAlguna(p)  PROVE \A f : Perdura(f)
  <2>1. PICK e \in EntradaReal : Llega(p, e)
    BY <1>1, LlegaReal
  <2>2. /\ pc[p] = "libre" /\ UNCHANGED autorizaciones
        /\ \A q \in Peticion \ {p} :
              pc'[q] = pc[q] /\ ent'[q] = ent[q] /\ id'[q] = id[q]
    BY <2>1 DEF Llega, bd, TypeOK
  <2>3. QED
    BY <2>2
<1>2. ASSUME NEW p \in Peticion, Manejador(p)  PROVE \A f : Perdura(f)
  <2>1. Avanza(p)
    BY <1>2, ManejadorAvanza
  <2>2. Rumbo(p)
    OBVIOUS
  <2>3. QED
    BY <2>1, <2>2 DEF Avanza, Antes, Despues, Nombra, Rumbo
<1>3. ASSUME NEW p \in Peticion, Tarea(p)  PROVE \A f : Perdura(f)
  <2>1. UNCHANGED <<peticiones, autorizaciones>>
    BY <1>3 DEF Tarea, FondoActualiza, FondoListar, FondoRevocar, FondoFin, bd
  <2>2. QED
    BY <2>1 DEF peticiones
<1>4. ASSUME Caida  PROVE \A f : Perdura(f)
  <2>1. /\ UNCHANGED <<ent, id, autorizaciones>>
        /\ \A q \in Peticion : pc'[q] = pc[q] \/ pc'[q] = "caida"
    BY <1>4 DEF Caida, bd
  <2>2. \A q \in Peticion : pc[q] = "libre" => pc'[q] = "libre"
    BY <1>4 DEF Caida, EnCurso, PasoDe
  <2>3. QED
    BY <2>1, <2>2
<1>5. CASE UNCHANGED vars
  BY <1>5 DEF vars
<1>6. QED
  BY <1>1, <1>2, <1>3, <1>4, <1>5 DEF Next, Descansa

\* Where a step of its handler may leave request p, and what it knows then.
Sigue(p) ==
    \/ pc'[p] \in {"fin", "fallo"}
    \/ pc'[p] = "aut_registrar" /\ ent[p].tipo = "autorizar"
    \/ pc'[p] \in {"ed_actualizar", "ed_resolver", "ed_resolver_nulo"}
          /\ ent[p].tipo = "editar"
    \/ pc'[p] \in {"form_existe", "form_estado", "form_insertar"}
          /\ ent[p].tipo = "formulario"
    \/ pc'[p] \in {"dte_insertar", "dte_vacia", "dte_notas"}
          /\ ent[p].tipo = "dte"
    \/ pc'[p] = "otorgar" /\ pc[p] \in {"orgs", "otorgar"} /\ UNCHANGED id
    \/ /\ pc'[p] = "orgs" /\ ent[p].tipo = "autorizar"
       /\ UNCHANGED id /\ Aceptada(id[p])'
    \/ /\ pc'[p] = "orgs" /\ ent[p].tipo = "formulario"
       /\ ent[p].estado # "PENDIENTE_AUTORIZACION"
    \/ pc'[p] = "resp_notas" /\ HayDiscrepancias(p)

\* A step of a handler leaves every request where its kind says it may be.
LEMMA ManejadorRumbo ==
  ASSUME TypeOK, \A q \in Peticion : Rumbo(q), NEW p \in Peticion, Manejador(p),
         \A f : Perdura(f)
  PROVE  \A q \in Peticion : Rumbo(q)'
<1>1. Avanza(p) /\ Rumbo(p) /\ revoca[p] = "no"
  BY ManejadorAvanza DEF Avanza, Rumbo, PasoDe
<1>2. /\ \A q \in Peticion \ {p} : revoca'[q] = revoca[q]
      /\ revoca'[p] # "no" => pc'[p] = "fin" /\ Anuncio(p)'
  <2>1. CASE UNCHANGED fondo
    BY <1>1, <2>1 DEF fondo
  <2>2. CASE RespaldoNotas(p)
    BY <1>1, <2>2 DEF RespaldoNotas, GuardaNotas, Termina, Ir, En, fondo,
                      TypeOK, Rumbo, HayDiscrepancias, Anuncio
  <2>3. CASE DteNotas(p)
    BY <1>1, <2>3 DEF DteNotas, GuardaNotas, Termina, Ir, En, fondo,
                      TypeOK, Anuncio
  <2>4. QED
    BY <2>1, <2>2, <2>3
    DEF Manejador, ValidarUsuario, ListarFinanciadoras, Otorgar,
        AutorizarLeerNotas, AutorizarRegistrar, AutorizarPublicar,
        RespaldoLeer, EditarActualizar, EditarResolver, FormExiste,
        FormEstado, FormInsertar, FormResponder, DteIlegible, DteInsertar,
        DteVacia
<1>3. ASSUME NEW q \in Peticion \ {p}  PROVE Rumbo(q)'
  <2>1. Rumbo(q)
    OBVIOUS
  <2>2. QED
    BY <1>1, <1>2, <2>1 DEF Avanza, Rumbo, Perdura, Anuncio, HayDiscrepancias
<1>4. Sigue(p)
  <2> USE DEF Sigue, En, Ir, Termina
  <2>a. /\ pc \in [Peticion -> PasoDe \cup {"libre", "fin", "fallo", "caida"}]
        /\ \A c : pc' = [pc EXCEPT ![p] = c] => pc'[p] = c
    BY DEF TypeOK
  <2>b. /\ pc[p] \in {"aut_notas", "aut_registrar"}
              => ent[p].tipo = "autorizar"
        /\ pc[p] \in {"ed_actualizar", "ed_resolver", "ed_resolver_nulo"}
              => ent[p].tipo = "editar"
        /\ pc[p] \in {"form_existe", "form_estado", "form_insertar"}
              => ent[p].tipo = "formulario"
        /\ pc[p] \in {"dte_insertar", "dte_vacia", "dte_notas"}
              => ent[p].tipo = "dte"
        /\ pc[p] = "validar" => ent[p].tipo \in {"editar", "formulario", "dte"}
    BY <1>1 DEF Rumbo
  <2>1. CASE ValidarUsuario(p)
    BY <2>1, <2>a, <2>b DEF ValidarUsuario, TrasValidar
  <2>2. CASE ListarFinanciadoras(p)
    BY <2>2, <2>a, <2>b DEF ListarFinanciadoras
  <2>3. CASE Otorgar(p)
    BY <2>3, <2>a, <2>b DEF Otorgar
  <2>4. CASE AutorizarLeerNotas(p)
    BY <2>4, <2>a, <2>b DEF AutorizarLeerNotas
  <2>5. CASE AutorizarRegistrar(p)
    <3>1. CASE pc'[p] = "orgs"
      <4>1. /\ UNCHANGED id
            /\ [peticion |-> p, factura |-> id[p], acepto |-> TRUE]
                  \in autorizaciones'
        BY <2>5, <2>a, <3>1 DEF AutorizarRegistrar, TrasRegistrar, TypeOK, Entrada
      <4>2. Aceptada(id[p])'
        BY <4>1 DEF Aceptada
      <4>3. QED
        BY <2>5, <2>a, <2>b, <3>1, <4>1, <4>2 DEF AutorizarRegistrar
    <3>2. CASE pc'[p] # "orgs"
      BY <2>5, <2>a, <3>2 DEF AutorizarRegistrar, TrasRegistrar
    <3>3. QED
      BY <3>1, <3>2
  <2>6. CASE AutorizarPublicar(p)
    BY <2>6, <2>a, <2>b DEF AutorizarPublicar
  <2>7. CASE RespaldoLeer(p)
    BY <2>7, <2>a, <2>b DEF RespaldoLeer
  <2>8. CASE RespaldoNotas(p)
    BY <2>8, <2>a, <2>b DEF RespaldoNotas
  <2>9. CASE EditarActualizar(p)
    BY <2>9, <2>a, <2>b DEF EditarActualizar
  <2>10. CASE EditarResolver(p)
    BY <2>10, <2>a, <2>b DEF EditarResolver
  <2>11. CASE FormExiste(p)
    BY <2>11, <2>a, <2>b DEF FormExiste
  <2>12. CASE FormEstado(p)
    BY <2>12, <2>a, <2>b DEF FormEstado
  <2>13. CASE FormInsertar(p)
    BY <2>13, <2>a, <2>b DEF FormInsertar
  <2>14. CASE FormResponder(p)
    BY <2>14, <2>a, <2>b DEF FormResponder
  <2>15. CASE DteIlegible(p)
    BY <2>15, <2>a, <2>b DEF DteIlegible
  <2>16. CASE DteInsertar(p)
    BY <2>16, <2>a, <2>b DEF DteInsertar
  <2>17. CASE DteVacia(p)
    BY <2>17, <2>a, <2>b DEF DteVacia
  <2>18. CASE DteNotas(p)
    BY <2>18, <2>a, <2>b DEF DteNotas
  <2>19. QED
    BY <2>1, <2>2, <2>3, <2>4, <2>5, <2>6, <2>7, <2>8, <2>9, <2>10, <2>11, <2>12, <2>13, <2>14, <2>15, <2>16, <2>17, <2>18 DEF Manejador
<1>5. Rumbo(p)'
  BY <1>1, <1>2, <1>4 DEF Sigue, Rumbo, Avanza, Perdura, HayDiscrepancias
<1>6. QED
  BY <1>3, <1>5

LEMMA RumboInductivo ==
  ASSUME TypeOK, \A q \in Peticion : Rumbo(q), [Next]_vars
  PROVE  \A q \in Peticion : Rumbo(q)'
<1>1. \A f : Perdura(f)
  BY OrigenPerdura
<1>2. ASSUME NEW p \in Peticion, LlegaAlguna(p)
      PROVE  \A q \in Peticion : Rumbo(q)'
  <2>1. PICK e \in EntradaReal : Llega(p, e)
    BY <1>2, LlegaReal
  <2>2. /\ e.tipo \in {"autorizar", "respaldo", "editar", "formulario", "dte"}
        /\ pc'[p] = PrimerPaso(e.tipo) /\ ent'[p] = e
        /\ pc[p] = "libre" /\ UNCHANGED <<autorizaciones, aviso, revoca>>
    BY <2>1 DEF Llega, TypeOK, EntradaReal, Entrada, bd, fondo
  <2>3. \A q \in Peticion \ {p} :
           pc'[q] = pc[q] /\ ent'[q] = ent[q] /\ id'[q] = id[q]
    BY <2>1 DEF Llega, TypeOK
  <2>4. ASSUME NEW q \in Peticion \ {p}  PROVE Rumbo(q)'
    <3>1. Rumbo(q)
      OBVIOUS
    <3>2. QED
      BY <2>2, <2>3, <3>1 DEF Rumbo, Aceptada, Anuncio, HayDiscrepancias
  <2>5. Rumbo(p)'
    <3>1. revoca'[p] = "no"
      BY <2>2 DEF Rumbo, TypeOK
    <3>2. \/ pc'[p] = "aut_notas" /\ e.tipo = "autorizar"
          \/ pc'[p] = "resp_leer"
          \/ pc'[p] = "validar" /\ e.tipo \in {"editar", "formulario", "dte"}
      BY <2>2 DEF PrimerPaso
    <3>3. QED
      BY <2>2, <3>1, <3>2 DEF Rumbo
  <2>6. QED
    BY <2>4, <2>5
<1>3. ASSUME NEW p \in Peticion, Manejador(p)
      PROVE  \A q \in Peticion : Rumbo(q)'
  BY <1>1, <1>3, ManejadorRumbo
<1>4. ASSUME NEW p \in Peticion, Tarea(p)
      PROVE  \A q \in Peticion : Rumbo(q)'
  <2>1. UNCHANGED <<peticiones, autorizaciones>>
    BY <1>4 DEF Tarea, FondoActualiza, FondoListar, FondoRevocar, FondoFin, bd
  <2>2. \A q \in Peticion : revoca'[q] # "no" => revoca[q] # "no"
    BY <1>4
    DEF Tarea, FondoActualiza, FondoListar, FondoRevocar, FondoFin, TypeOK
  <2>3. ASSUME NEW q \in Peticion  PROVE Rumbo(q)'
    <3>1. Rumbo(q)
      OBVIOUS
    <3>2. QED
      BY <2>1, <2>2, <3>1
      DEF peticiones, Rumbo, Aceptada, Anuncio, HayDiscrepancias
  <2>4. QED
    BY <2>3
<1>5. ASSUME Caida  PROVE \A q \in Peticion : Rumbo(q)'
  <2>1. /\ \A q \in Peticion : /\ pc'[q] \notin PasoDe
                              /\ revoca'[q] = "no"
    BY <1>5 DEF Caida, EnCurso, PasoDe
  <2>2. QED
    BY <2>1 DEF Rumbo, PasoDe
<1>6. CASE UNCHANGED vars
  BY <1>6 DEF vars, Rumbo, Aceptada, Anuncio, HayDiscrepancias
<1>7. QED
  BY <1>2, <1>3, <1>4, <1>5, <1>6 DEF Next, Descansa

\* Two steps change who sees a factura.
LEMMA QuienCambiaVista ==
  ASSUME [Next]_vars, visible' # visible
  PROVE  \E p \in Peticion : Otorgar(p) \/ FondoRevocar(p)
<1> USE DEF bd
<1>1. ASSUME NEW p \in Peticion, LlegaAlguna(p)  PROVE UNCHANGED visible
  BY <1>1, LlegaReal DEF Llega
<1>2. ASSUME NEW p \in Peticion, Manejador(p), ~Otorgar(p)
      PROVE  UNCHANGED visible
  <2>1. CASE \/ ValidarUsuario(p) \/ ListarFinanciadoras(p)
             \/ AutorizarLeerNotas(p) \/ AutorizarRegistrar(p)
             \/ AutorizarPublicar(p) \/ RespaldoLeer(p) \/ RespaldoNotas(p)
    BY <2>1
    DEF ValidarUsuario, ListarFinanciadoras, AutorizarLeerNotas,
        AutorizarRegistrar, AutorizarPublicar, RespaldoLeer, RespaldoNotas,
        GuardaNotas
  <2>2. CASE \/ EditarActualizar(p) \/ EditarResolver(p) \/ FormExiste(p)
             \/ FormEstado(p) \/ FormResponder(p) \/ DteIlegible(p)
             \/ DteNotas(p)
    BY <2>2
    DEF EditarActualizar, EditarResolver, FormExiste, FormEstado,
        FormResponder, DteIlegible, DteNotas, GuardaNotas
  <2>3. CASE FormInsertar(p) \/ DteInsertar(p) \/ DteVacia(p)
    BY <2>3 DEF FormInsertar, DteInsertar, DteVacia, PublishFactura
  <2>4. QED
    BY <1>2, <2>1, <2>2, <2>3 DEF Manejador
<1>3. ASSUME NEW p \in Peticion, Tarea(p), ~FondoRevocar(p)
      PROVE  UNCHANGED visible
  BY <1>3 DEF Tarea, FondoActualiza, FondoListar, FondoFin
<1>4. Caida \/ UNCHANGED vars => UNCHANGED visible
  BY DEF Caida, vars
<1>5. QED
  BY <1>1, <1>2, <1>3, <1>4 DEF Next, Descansa

\* The steps that change the status of a factura.
LEMMA QuienCambiaEstado ==
  ASSUME [Next]_vars, estado' # estado
  PROVE  \E p \in Peticion :
            \/ AutorizarPublicar(p) \/ EditarActualizar(p) \/ FormEstado(p)
            \/ FormInsertar(p) \/ DteInsertar(p) \/ DteVacia(p)
            \/ FondoActualiza(p)
<1> USE DEF bd
<1>1. ASSUME NEW p \in Peticion, LlegaAlguna(p)  PROVE UNCHANGED estado
  BY <1>1, LlegaReal DEF Llega
<1>2. ASSUME NEW p \in Peticion,
             \/ ValidarUsuario(p) \/ ListarFinanciadoras(p) \/ Otorgar(p)
             \/ AutorizarLeerNotas(p) \/ AutorizarRegistrar(p)
             \/ RespaldoLeer(p) \/ RespaldoNotas(p) \/ EditarResolver(p)
             \/ FormExiste(p) \/ FormResponder(p) \/ DteIlegible(p)
             \/ DteNotas(p)
      PROVE  UNCHANGED estado
  BY <1>2
  DEF ValidarUsuario, ListarFinanciadoras, Otorgar, AutorizarLeerNotas,
      AutorizarRegistrar, RespaldoLeer, RespaldoNotas, GuardaNotas,
      EditarResolver, FormExiste, FormResponder, DteIlegible, DteNotas
<1>3. ASSUME NEW p \in Peticion, Tarea(p), ~FondoActualiza(p)
      PROVE  UNCHANGED estado
  BY <1>3 DEF Tarea, FondoRevocar, FondoListar, FondoFin
<1>4. Caida \/ UNCHANGED vars => UNCHANGED estado
  BY DEF Caida, vars
<1>5. QED
  BY <1>1, <1>2, <1>3, <1>4 DEF Next, Descansa, Manejador

\* Only the loop of grants shows a factura, and only its own.
LEMMA OrigenDeVista ==
  ASSUME TypeOK, [Next]_vars, NEW f \in Factura, visible'[f] # {}
  PROVE  \/ visible[f] # {}
         \/ \E p \in Peticion : pc[p] = "otorgar" /\ id[p] = f
<1>1. ASSUME NEW p \in Peticion, Otorgar(p)
      PROVE  visible[f] # {} \/ (pc[p] = "otorgar" /\ id[p] = f)
  BY <1>1 DEF Otorgar, ConcedeVista, En, TypeOK
<1>2. ASSUME NEW p \in Peticion, FondoRevocar(p)  PROVE visible[f] # {}
  BY <1>2 DEF FondoRevocar, QuitaVista, TypeOK
<1>3. QED
  BY <1>1, <1>2, QuienCambiaVista

\* A factura becomes PUBLICADA when an authorisation ends, or when a request
\* that carries that status writes it.
LEMMA OrigenDePublicada ==
  ASSUME TypeOK, [Next]_vars, NEW f \in Factura, \A q \in Peticion : Rumbo(q),
         estado'[f] = "PUBLICADA", estado[f] # "PUBLICADA"
  PROVE  Aceptada(f) \/ Escribio(f, "PUBLICADA")'
<1>1. ASSUME NEW p \in Peticion, AutorizarPublicar(p)  PROVE Aceptada(f)
  <2>1. id[p] = f /\ pc[p] = "otorgar" /\ ent[p].tipo = "autorizar"
    BY <1>1 DEF AutorizarPublicar, CambiaEstado, En, TypeOK
  <2>2. QED
    BY <2>1 DEF Rumbo
<1>2. ASSUME NEW p \in Peticion, EditarActualizar(p)
      PROVE  Escribio(f, "PUBLICADA")'
  <2>1. /\ id[p] = f /\ ent[p].campo = "status"
        /\ ent[p].estado = "PUBLICADA"
    BY <1>2 DEF EditarActualizar, EscribeCampo, TypeOK
  <2>2. /\ UNCHANGED <<id, ent>> /\ ent[p].tipo = "editar"
        /\ pc'[p] \in {"ed_resolver", "ed_resolver_nulo"}
    BY <1>2 DEF EditarActualizar, En, Ir, Rumbo, TypeOK
  <2>3. QED
    BY <2>1, <2>2 DEF Escribio
<1>3. ASSUME NEW p \in Peticion, FormEstado(p)
      PROVE  Escribio(f, "PUBLICADA")'
  <2>1. id[p] = f /\ ent[p].estado = "PUBLICADA"
    BY <1>3 DEF FormEstado, CambiaEstado, TypeOK
  <2>2. /\ UNCHANGED <<id, ent>> /\ ent[p].tipo = "formulario"
        /\ pc'[p] \in {"orgs", "fin", "fallo"}
    <3>1. UNCHANGED <<id, ent>> /\ pc[p] = "form_estado"
      BY <1>3 DEF FormEstado, En
    <3>2. ent[p].tipo = "formulario"
      BY <3>1 DEF Rumbo
    <3>3. pc' \in {[pc EXCEPT ![p] = c] : c \in {"orgs", "fin", "fallo"}}
      BY <1>3 DEF FormEstado, Ir, Termina
    <3>4. QED
      BY <3>1, <3>2, <3>3 DEF TypeOK
  <2>3. QED
    BY <2>1, <2>2 DEF Escribio
<1>4. ASSUME NEW p \in Peticion, FormInsertar(p)
      PROVE  Escribio(f, "PUBLICADA")'
  <2>1. PICK g \in Factura :
               /\ Inserta(p, g, ent[p].estado, ent[p].folio, FALSE)
               /\ Guarda(p, g)
    BY <1>4 DEF FormInsertar, PublishFactura
  <2>2. ent[p].estado = "PUBLICADA" /\ id'[p] = f
    BY <2>1 DEF Inserta, Guarda, TypeOK
  <2>3. UNCHANGED ent /\ pc[p] = "form_insertar"
    BY <1>4 DEF FormInsertar, En
  <2>4. ent[p].tipo = "formulario"
    BY <2>3 DEF Rumbo
  <2>5. PICK c \in {"orgs", "fin", "fallo"} : pc' = [pc EXCEPT ![p] = c]
    BY <1>4 DEF FormInsertar, Ir, Termina
  <2>6. pc'[p] \in {"orgs", "fin", "fallo"}
    BY <2>5 DEF TypeOK
  <2>7. QED
    BY <2>2, <2>3, <2>4, <2>6 DEF Escribio
<1>5. ASSUME NEW p \in Peticion, DteInsertar(p) \/ DteVacia(p)  PROVE FALSE
  <2>1. PICK g \in Factura, s \in {"PENDIENTE_AUTORIZACION",
                                   "PENDIENTE_VALIDACION"} :
               estado' = [estado EXCEPT ![g] = s]
    BY <1>5 DEF DteInsertar, DteVacia, PublishFactura, Inserta
  <2>2. QED
    BY <2>1 DEF TypeOK
<1>6. ASSUME NEW p \in Peticion, FondoActualiza(p)  PROVE FALSE
  BY <1>6 DEF FondoActualiza, CambiaEstado, TypeOK
<1>7. QED
  BY <1>1, <1>2, <1>3, <1>4, <1>5, <1>6, QuienCambiaEstado

LEMMA InvInductivoInicial == Init => InvInductivo
<1> SUFFICES ASSUME Init  PROVE InvInductivo
  OBVIOUS
<1>1. TypeOK
  BY TipoInicial
<1>2. \A q \in Peticion : Rumbo(q)
  BY DEF Init, Rumbo
<1>3. PermisoConOrigen
  BY DEF Init, PermisoConOrigen
<1>4. PublicadaConOrigen
  BY DEF Init, PublicadaConOrigen, NoRegistrada
<1>5. QED
  BY <1>1, <1>2, <1>3, <1>4 DEF InvInductivo

LEMMA InvInductivoPaso == InvInductivo /\ [Next]_vars => InvInductivo'
<1> SUFFICES ASSUME InvInductivo, [Next]_vars  PROVE InvInductivo'
  OBVIOUS
<1>1. TypeOK'
  BY TipoInductivo DEF InvInductivo
<1>2. \A q \in Peticion : Rumbo(q)'
  BY RumboInductivo DEF InvInductivo
<1>3. \A f : Perdura(f)
  BY OrigenPerdura DEF InvInductivo
<1>4. PermisoConOrigen'
  <2>1. ASSUME NEW f \in Factura, visible'[f] # {}
        PROVE  Aceptada(f)' \/ FormOtorgo(f)'
    <3>1. CASE visible[f] # {}
      BY <1>3, <3>1 DEF InvInductivo, PermisoConOrigen, Perdura
    <3>2. CASE \E p \in Peticion : pc[p] = "otorgar" /\ id[p] = f
      <4>1. PICK p \in Peticion : pc[p] = "otorgar" /\ id[p] = f
        BY <3>2
      <4>2. Aceptada(f) \/ FormOtorgo(f)
        BY <4>1 DEF InvInductivo, Rumbo, FormOtorgo
      <4>3. QED
        BY <1>3, <4>2 DEF Perdura
    <3>3. QED
      BY <2>1, <3>1, <3>2, OrigenDeVista DEF InvInductivo
  <2>2. QED
    BY <2>1 DEF PermisoConOrigen
<1>5. PublicadaConOrigen'
  <2>1. ASSUME NEW f \in Factura, estado'[f] = "PUBLICADA"
        PROVE  Aceptada(f)' \/ Escribio(f, "PUBLICADA")'
    <3>1. CASE estado[f] = "PUBLICADA"
      BY <1>3, <3>1 DEF InvInductivo, PublicadaConOrigen, Perdura
    <3>2. CASE estado[f] # "PUBLICADA"
      BY <1>3, <2>1, <3>2, OrigenDePublicada DEF InvInductivo, Perdura
    <3>3. QED
      BY <3>1, <3>2
  <2>2. QED
    BY <2>1 DEF PublicadaConOrigen
<1>6. QED
  BY <1>1, <1>2, <1>4, <1>5 DEF InvInductivo

LEMMA InvInductivoSiempre == Spec => []InvInductivo
  BY InvInductivoInicial, InvInductivoPaso, PTL DEF Spec

\* Nobody sees a factura that nobody accepted to publish nor published with
\* the form, whatever fails, crashes or interleaves.
THEOREM PermisoSiempreConOrigen == Spec => []PermisoConOrigen
<1>1. InvInductivo => PermisoConOrigen
  BY DEF InvInductivo
<1>2. QED
  BY <1>1, InvInductivoSiempre, PTL

\* No factura is PUBLICADA unless its terms were accepted or a client wrote
\* that status.
THEOREM PublicadaSiempreConOrigen == Spec => []PublicadaConOrigen
<1>1. InvInductivo => PublicadaConOrigen
  BY DEF InvInductivo
<1>2. QED
  BY <1>1, InvInductivoSiempre, PTL

\* A financiadora loses sight of a factura only by the loop of revocations of
\* a request that announced notes about it.
THEOREM RevocacionSiempreConMotivo == Spec => RevocacionConMotivo
<1> DEFINE Motivo ==
      \A f \in Factura :
          ~(visible[f] \subseteq visible'[f]) =>
             \E p \in Peticion : id[p] = f /\ Anuncio(p)
<1>1. InvInductivo /\ [Next]_vars => [Motivo]_vars
  <2> SUFFICES ASSUME InvInductivo, [Next]_vars  PROVE Motivo
    OBVIOUS
  <2>1. ASSUME NEW p \in Peticion, FondoRevocar(p)  PROVE Motivo
    <3>1. revoca[p] # "no" /\ Anuncio(p)
      BY <2>1 DEF FondoRevocar, InvInductivo, Rumbo
    <3>2. \A f \in Factura : f # id[p] => visible'[f] = visible[f]
      BY <2>1 DEF FondoRevocar, QuitaVista, InvInductivo, TypeOK
    <3>3. QED
      BY <3>1, <3>2
  <2>2. ASSUME NEW p \in Peticion, Otorgar(p)  PROVE Motivo
    <3>1. \A f \in Factura : visible[f] \subseteq visible'[f]
      BY <2>2 DEF Otorgar, ConcedeVista, InvInductivo, TypeOK
    <3>2. QED
      BY <3>1
  <2>3. CASE UNCHANGED visible
    BY <2>3
  <2>4. QED
    BY <2>1, <2>2, <2>3, QuienCambiaVista
<1>2. QED
  BY <1>1, InvInductivoSiempre, PTL DEF Spec, RevocacionConMotivo
-----------------------------------------------------------------------------
(***************************************************************************)
(* The notes and the publication, when requests come one after another,    *)
(* nothing fails, all users act for one organization and no client writes  *)
(* PUBLICADA itself.  The promises in the background are as free as ever.  *)
(***************************************************************************)
EnSerie ==
    /\ ~ConFallos /\ MaxActivas <= 1
    /\ "PUBLICADA" \notin EstadosCliente
    /\ \A u, v \in Usuario : OrgDe[u] = OrgDe[v]

\* One handler at a time.
Sola == \A p, q \in Peticion : EnCurso(p) /\ EnCurso(q) => p = q

\* Where an authorisation is once it has looked at the notes.
TrasNotas(p) == \/ pc[p] = "aut_registrar"
                \/ pc[p] \in {"orgs", "otorgar"} /\ ent[p].tipo = "autorizar"

Turno(p) ==
    /\ ent[p].estado # "PUBLICADA"
    /\ actualiza[p] => pc[p] = "fin"
    /\ TrasNotas(p) => SinNotas(id[p])

\* A factura that is PUBLICADA with a note has not long to be so: the request
\* that stored the note owes it the update of its status.
Debida(f) == \E p \in Peticion : actualiza[p] /\ id[p] = f

NotasDebidas ==
    \A f \in Factura : estado[f] = "PUBLICADA" /\ notas[f] # {} => Debida(f)

InvSerie == InvInductivo /\ Sola /\ (\A p \in Peticion : Turno(p)) /\ NotasDebidas

LEMMA LlegaSinPublicar ==
  ASSUME TypeOK, EnSerie, NEW p \in Peticion, LlegaAlguna(p)
  PROVE  ent'[p].estado # "PUBLICADA"
<1>1. \A e : Llega(p, e) => ent'[p] = e
  BY DEF Llega, TypeOK
<1> USE BaseOK DEF EntradaBase
<1>2. ASSUME NEW f, NEW a, Llega(p, PideAutorizar(f, a))
      PROVE  ent'[p].estado # "PUBLICADA"
  <2>1. PideAutorizar(f, a).estado = "PROCESANDO"
    BY DEF PideAutorizar
  <2>2. QED
    BY <1>1, <1>2, <2>1
<1>3. ASSUME NEW f, NEW u, NEW d, Llega(p, PideRespaldo(f, u, d))
      PROVE  ent'[p].estado # "PUBLICADA"
  <2>1. PideRespaldo(f, u, d).estado = "PROCESANDO"
    BY DEF PideRespaldo
  <2>2. QED
    BY <1>1, <1>3, <2>1
<1>4. ASSUME NEW f, NEW u, NEW c, NEW n, NEW s, s # "PUBLICADA",
             Llega(p, PideEditar(f, u, c, n, s))
      PROVE  ent'[p].estado # "PUBLICADA"
  <2>1. PideEditar(f, u, c, n, s).estado = s
    BY DEF PideEditar
  <2>2. QED
    BY <1>1, <1>4, <2>1
<1>5. ASSUME NEW f, NEW u, NEW n, NEW s \in EstadosCliente,
             Llega(p, PideFormulario(f, u, n, s))
      PROVE  ent'[p].estado # "PUBLICADA"
  <2>1. PideFormulario(f, u, n, s).estado = s
    BY DEF PideFormulario
  <2>2. QED
    BY <1>1, <1>5, <2>1 DEF EnSerie
<1>6. ASSUME NEW u, NEW n, NEW t, NEW d, Llega(p, PideDte(u, n, t, d))
      PROVE  ent'[p].estado # "PUBLICADA"
  <2>1. PideDte(u, n, t, d).estado = "PROCESANDO"
    BY DEF PideDte
  <2>2. QED
    BY <1>1, <1>6, <2>1
<1>7. \A s \in EstadosEditables \cap EstadosCliente : s # "PUBLICADA"
  BY DEF EnSerie
<1>8. QED
  BY <1>2, <1>3, <1>4, <1>5, <1>6, <1>7 DEF LlegaAlguna

\* A handler touches the notes in two places, and the debt in one of them.
LEMMA QuienCambiaNotas ==
  ASSUME NEW p \in Peticion, Manejador(p)
  PROVE  \/ notas' = notas /\ actualiza' = actualiza
         \/ /\ pc[p] \in {"resp_notas", "dte_notas"}
            /\ GuardaNotas(p) /\ Ir(p, "fin") /\ UNCHANGED id
         \/ /\ pc[p] \in {"ed_resolver", "ed_resolver_nulo"}
            /\ \A f \in Factura : notas'[f] \subseteq notas[f]
            /\ actualiza' = actualiza /\ \E c \in {"fin", "fallo"} : Ir(p, c)
<1> USE DEF bd, fondo
<1>1. CASE \/ ValidarUsuario(p) \/ ListarFinanciadoras(p) \/ Otorgar(p)
           \/ AutorizarLeerNotas(p) \/ AutorizarRegistrar(p)
           \/ AutorizarPublicar(p) \/ RespaldoLeer(p)
  BY <1>1
  DEF ValidarUsuario, ListarFinanciadoras, Otorgar, AutorizarLeerNotas,
      AutorizarRegistrar, AutorizarPublicar, RespaldoLeer
<1>2. CASE \/ EditarActualizar(p) \/ FormExiste(p) \/ FormEstado(p)
           \/ FormResponder(p) \/ DteIlegible(p)
  BY <1>2 DEF EditarActualizar, FormExiste, FormEstado, FormResponder, DteIlegible
<1>3. CASE FormInsertar(p) \/ DteInsertar(p) \/ DteVacia(p)
  BY <1>3 DEF FormInsertar, DteInsertar, DteVacia, PublishFactura
<1>4. CASE RespaldoNotas(p)
  BY <1>4 DEF RespaldoNotas, Termina, En
<1>5. CASE DteNotas(p)
  BY <1>5 DEF DteNotas, Termina, En
<1>6. CASE EditarResolver(p)
  BY <1>6 DEF EditarResolver, Termina, En
<1>7. QED
  BY <1>1, <1>2, <1>3, <1>4, <1>5, <1>6 DEF Manejador

\* How an authorisation gets beyond its look at the notes.
LEMMA TrasNotasViene ==
  ASSUME TypeOK, EnSerie, NEW p \in Peticion, Rumbo(p), Turno(p), Manejador(p),
         TrasNotas(p)'
  PROVE  notas' = notas /\ id'[p] = id[p] /\ SinNotas(id[p])
<1>1. /\ pc \in [Peticion -> PasoDe \cup {"libre", "fin", "fallo", "caida"}]
      /\ \A c : pc' = [pc EXCEPT ![p] = c] => pc'[p] = c
      /\ ent' = ent
  BY ManejadorAvanza DEF TypeOK, Avanza
<1>2. pc'[p] \in {"aut_registrar", "orgs", "otorgar"}
      /\ (pc'[p] # "aut_registrar" => ent[p].tipo = "autorizar")
  BY <1>1 DEF TrasNotas
<1>3. ~ConFallos
  BY DEF EnSerie
<1> USE DEF En, Ir, Termina, bd
<1>4. CASE ValidarUsuario(p)
  <2>1. pc'[p] \in {"ed_actualizar", "form_existe", "dte_insertar", "validar", "fallo"}
    BY <1>1, <1>4 DEF ValidarUsuario, TrasValidar
  <2>2. QED
    BY <1>2, <2>1
<1>5. CASE ListarFinanciadoras(p)
  <2>1. pc[p] = "orgs" /\ pc'[p] = "otorgar" /\ notas' = notas /\ id' = id
    BY <1>1, <1>5 DEF ListarFinanciadoras
  <2>2. QED
    BY <1>2, <2>1 DEF Turno, TrasNotas
<1>6. CASE Otorgar(p)
  <2>1. pc[p] = "otorgar" /\ notas' = notas /\ id' = id
    BY <1>6 DEF Otorgar
  <2>2. pc'[p] \in {"otorgar", "fallo"}
    BY <1>1, <1>6 DEF Otorgar
  <2>3. QED
    BY <1>2, <2>1, <2>2 DEF Turno, TrasNotas
<1>7. CASE AutorizarLeerNotas(p)
  BY <1>1, <1>2, <1>3, <1>7 DEF AutorizarLeerNotas
<1>8. CASE AutorizarRegistrar(p)
  BY <1>8 DEF AutorizarRegistrar, Turno, TrasNotas
<1>9. CASE AutorizarPublicar(p) \/ RespaldoLeer(p)
  BY <1>1, <1>2, <1>9 DEF AutorizarPublicar, RespaldoLeer
<1>10. CASE RespaldoNotas(p) \/ EditarActualizar(p)
  BY <1>1, <1>2, <1>10 DEF RespaldoNotas, EditarActualizar
<1>11. CASE EditarResolver(p) \/ FormResponder(p)
  BY <1>1, <1>2, <1>11 DEF EditarResolver, FormResponder
<1>12. CASE FormExiste(p) \/ FormEstado(p) \/ FormInsertar(p)
  <2>1. ent[p].tipo = "formulario"
    BY <1>12 DEF FormExiste, FormEstado, FormInsertar, Rumbo
  <2>2. pc'[p] # "aut_registrar"
    <3>1. CASE FormExiste(p)
      BY <1>1, <3>1 DEF FormExiste
    <3>2. CASE FormEstado(p)
      <4>1. PICK c \in {"orgs", "fin", "fallo"} : pc' = [pc EXCEPT ![p] = c]
        BY <3>2 DEF FormEstado
      <4>2. QED
        BY <1>1, <4>1
    <3>3. CASE FormInsertar(p)
      <4>1. PICK c \in {"orgs", "fin", "fallo"} : pc' = [pc EXCEPT ![p] = c]
        BY <3>3 DEF FormInsertar
      <4>2. QED
        BY <1>1, <4>1
    <3>4. QED
      BY <1>12, <3>1, <3>2, <3>3
  <2>3. QED
    BY <1>2, <2>1, <2>2
<1>13. CASE DteIlegible(p) \/ DteNotas(p)
  BY <1>1, <1>2, <1>13 DEF DteIlegible, DteNotas
<1>14. CASE DteInsertar(p) \/ DteVacia(p)
  <2>1. PICK c \in {"fin", "dte_vacia", "dte_notas"} : pc' = [pc EXCEPT ![p] = c]
    BY <1>14 DEF DteInsertar, DteVacia
  <2>2. QED
    BY <1>1, <1>2, <2>1
<1>15. QED
  BY <1>4, <1>5, <1>6, <1>7, <1>8, <1>9, <1>10, <1>11, <1>12, <1>13, <1>14 DEF Manejador

\* Only an authorisation publishes, and it found no notes.
LEMMA PublicaSinNotas ==
  ASSUME TypeOK, EnSerie, NEW p \in Peticion, Turno(p), NEW f \in Factura,
         Manejador(p), [Next]_vars, \A q \in Peticion : Turno(q),
         estado'[f] = "PUBLICADA", estado[f] # "PUBLICADA"
  PROVE  \E q \in Peticion : AutorizarPublicar(q) /\ id[q] = f
<1>1. ASSUME NEW q \in Peticion, AutorizarPublicar(q)  PROVE id[q] = f
  BY <1>1 DEF AutorizarPublicar, CambiaEstado, TypeOK
<1>2. ASSUME NEW q \in Peticion, EditarActualizar(q)  PROVE FALSE
  <2>1. ent[q].estado = "PUBLICADA"
    BY <1>2 DEF EditarActualizar, EscribeCampo, TypeOK
  <2>2. QED
    BY <2>1 DEF Turno
<1>3. ASSUME NEW q \in Peticion, FormEstado(q)  PROVE FALSE
  <2>1. ent[q].estado = "PUBLICADA"
    BY <1>3 DEF FormEstado, CambiaEstado, TypeOK
  <2>2. QED
    BY <2>1 DEF Turno
<1>4. ASSUME NEW q \in Peticion, FormInsertar(q)  PROVE FALSE
  <2>1. PICK g \in Factura : Inserta(q, g, ent[q].estado, ent[q].folio, FALSE)
    BY <1>4 DEF FormInsertar, PublishFactura
  <2>2. ent[q].estado = "PUBLICADA"
    BY <2>1 DEF Inserta, TypeOK
  <2>3. QED
    BY <2>2 DEF Turno
<1>5. ASSUME NEW q \in Peticion, DteInsertar(q) \/ DteVacia(q)  PROVE FALSE
  <2>1. PICK g \in Factura, s \in {"PENDIENTE_AUTORIZACION",
                                   "PENDIENTE_VALIDACION"} :
               estado' = [estado EXCEPT ![g] = s]
    BY <1>5 DEF DteInsertar, DteVacia, PublishFactura, Inserta
  <2>2. QED
    BY <2>1 DEF TypeOK
<1>6. ASSUME NEW q \in Peticion, FondoActualiza(q)  PROVE FALSE
  BY <1>6 DEF FondoActualiza, CambiaEstado, TypeOK
<1>7. QED
  BY <1>1, <1>2, <1>3, <1>4, <1>5, <1>6, QuienCambiaEstado

LEMMA SerieInicial == Init => InvSerie
<1> SUFFICES ASSUME Init  PROVE InvSerie
  OBVIOUS
<1>1. InvInductivo
  BY InvInductivoInicial
<1>2. \A p \in Peticion : /\ pc[p] = "libre" /\ ~actualiza[p]
                          /\ ent[p].estado = "PROCESANDO"
  BY BaseOK DEF Init, EntradaBase
<1>3. Sola /\ \A p \in Peticion : Turno(p)
  BY <1>2 DEF Sola, EnCurso, PasoDe, Turno, TrasNotas
<1>4. NotasDebidas
  BY DEF Init, NotasDebidas
<1>5. QED
  BY <1>1, <1>3, <1>4 DEF InvSerie

\* A request is let in only when no handler runs.
LEMMA SinActivas ==
  ASSUME MaxActivas <= 1, Sola, NEW p \in Peticion, LlegaAlguna(p)
  PROVE  Activas = {}
<1>1. PICK e \in EntradaReal : Llega(p, e)
  BY LlegaReal
<1>2. IsFiniteSet(Activas)
  <2>1. CASE Activas = {}
    BY <2>1, FS_EmptySet
  <2>2. CASE \E q \in Peticion : Activas = {q}
    BY <2>2, FS_Singleton
  <2>3. QED
    BY <2>1, <2>2 DEF Sola, Activas
<1>3. Cardinality(Activas) < MaxActivas /\ MaxActivas \in Nat
  BY <1>1, ConstantesOK DEF Llega
<1>4. Cardinality(Activas) \in Nat
  BY <1>2, FS_CardinalityType
<1>5. Cardinality(Activas) = 0
  BY <1>3, <1>4
<1>6. QED
  BY <1>2, <1>5, FS_EmptySet

LEMMA SerieLlega ==
  ASSUME EnSerie, InvSerie, NEW p \in Peticion, LlegaAlguna(p)
  PROVE  Sola' /\ (\A q \in Peticion : Turno(q)') /\ NotasDebidas'
<1>1. PICK e \in EntradaReal : Llega(p, e)
  BY LlegaReal
<1>2. TypeOK /\ Sola /\ (\A q \in Peticion : Turno(q)) /\ NotasDebidas
  BY DEF InvSerie, InvInductivo
<1>3. /\ pc[p] = "libre" /\ pc'[p] \in {"aut_notas", "resp_leer", "validar"}
      /\ \A q \in Peticion \ {p} :
            pc'[q] = pc[q] /\ ent'[q] = ent[q] /\ id'[q] = id[q]
      /\ UNCHANGED <<estado, notas, actualiza>>
  BY <1>1, <1>2 DEF Llega, PrimerPaso, TypeOK, bd, fondo
<1>4. Activas = {}
  BY <1>2, SinActivas DEF EnSerie
<1>5. \A q \in Peticion \ {p} : pc'[q] \notin PasoDe
  BY <1>3, <1>4 DEF Activas, EnCurso
<1>6. Sola'
  BY <1>5 DEF Sola, EnCurso
<1>7. Turno(p)'
  <2>1. ent'[p].estado # "PUBLICADA"
    BY <1>2, LlegaSinPublicar
  <2>2. ~actualiza'[p]
    BY <1>2, <1>3 DEF Turno
  <2>3. QED
    BY <1>3, <2>1, <2>2 DEF Turno, TrasNotas
<1>8. ASSUME NEW q \in Peticion \ {p}  PROVE Turno(q)'
  <2>1. Turno(q)
    BY <1>2
  <2>2. ~TrasNotas(q)'
    BY <1>5 DEF TrasNotas, PasoDe
  <2>3. QED
    BY <1>3, <2>1, <2>2 DEF Turno
<1>9. NotasDebidas'
  <2>1. ASSUME NEW f \in Factura, estado'[f] = "PUBLICADA", notas'[f] # {}
        PROVE  Debida(f)'
    <3>1. PICK q \in Peticion : actualiza[q] /\ id[q] = f
      BY <1>2, <1>3, <2>1 DEF NotasDebidas, Debida
    <3>2. q # p
      BY <1>2, <1>3, <3>1 DEF Turno
    <3>3. QED
      BY <1>3, <3>1, <3>2 DEF Debida
  <2>2. QED
    BY <2>1 DEF NotasDebidas
<1>10. QED
  BY <1>6, <1>7, <1>8, <1>9

LEMMA SerieManejador ==
  ASSUME EnSerie, InvSerie, NEW p \in Peticion, Manejador(p), [Next]_vars
  PROVE  Sola' /\ (\A q \in Peticion : Turno(q)') /\ NotasDebidas'
<1>1. /\ TypeOK /\ Sola /\ NotasDebidas
      /\ \A q \in Peticion : Turno(q) /\ Rumbo(q)
  BY DEF InvSerie, InvInductivo
<1>2. /\ pc[p] \in PasoDe /\ ent' = ent
      /\ \A q \in Peticion \ {p} : pc'[q] = pc[q] /\ id'[q] = id[q]
  BY <1>1, ManejadorAvanza DEF Avanza
<1>3. \A q \in Peticion \ {p} : pc[q] \notin PasoDe
  BY <1>1, <1>2 DEF Sola, EnCurso
<1>4. Sola'
  BY <1>2, <1>3 DEF Sola, EnCurso
<1>5. ~actualiza[p]
  BY <1>1, <1>2 DEF Turno, PasoDe
<1>6. /\ \A q \in Peticion \ {p} : actualiza'[q] = actualiza[q]
      /\ actualiza'[p] => pc'[p] = "fin"
  <2>1. CASE actualiza' = actualiza
    BY <1>5, <2>1
  <2>2. CASE GuardaNotas(p) /\ Ir(p, "fin")
    BY <1>1, <2>2 DEF GuardaNotas, Ir, TypeOK
  <2>3. QED
    BY <2>1, <2>2, QuienCambiaNotas
<1>7. Turno(p)'
  <2>1. TrasNotas(p)' => SinNotas(id[p])'
    <3>1. SUFFICES ASSUME TrasNotas(p)'  PROVE SinNotas(id[p])'
      OBVIOUS
    <3>2. notas' = notas /\ id'[p] = id[p] /\ SinNotas(id[p])
      BY <1>1, <3>1, TrasNotasViene
    <3>3. QED
      BY <3>2 DEF SinNotas, NotasDe
  <2>2. QED
    BY <1>1, <1>2, <1>6, <2>1 DEF Turno
<1>8. ASSUME NEW q \in Peticion \ {p}  PROVE Turno(q)'
  <2>1. Turno(q)
    BY <1>1
  <2>2. ~TrasNotas(q)'
    BY <1>2, <1>3 DEF TrasNotas, PasoDe
  <2>3. QED
    BY <1>2, <1>6, <2>1, <2>2 DEF Turno
<1>9. NotasDebidas'
  <2>1. ASSUME NEW f \in Factura, estado'[f] = "PUBLICADA", notas'[f] # {}
        PROVE  Debida(f)'
    <3>1. CASE estado[f] # "PUBLICADA"
      <4>1. PICK q \in Peticion : AutorizarPublicar(q) /\ id[q] = f
        BY <1>1, <2>1, <3>1, PublicaSinNotas
      <4>2. /\ pc[q] = "otorgar" /\ ent[q].tipo = "autorizar" /\ notas' = notas
        BY <4>1 DEF AutorizarPublicar, En
      <4>3. SinNotas(f)
        BY <1>1, <4>1, <4>2 DEF Turno, TrasNotas
      <4>4. QED
        BY <2>1, <4>2, <4>3 DEF SinNotas, NotasDe
    <3>2. CASE estado[f] = "PUBLICADA" /\ notas[f] # {}
      <4>1. PICK q \in Peticion : actualiza[q] /\ id[q] = f
        BY <1>1, <3>2 DEF NotasDebidas, Debida
      <4>2. q # p
        BY <1>5, <4>1
      <4>3. QED
        BY <1>2, <1>6, <4>1, <4>2 DEF Debida
    <3>3. CASE notas[f] = {}
      <4>1. GuardaNotas(p) /\ UNCHANGED id
        BY <2>1, <3>3, QuienCambiaNotas
      <4>2. id[p] = f
        BY <1>1, <2>1, <3>3, <4>1 DEF GuardaNotas, TypeOK
      <4>3. actualiza'[p]
        BY <1>1, <4>1 DEF GuardaNotas, TypeOK
      <4>4. QED
        BY <4>1, <4>2, <4>3 DEF Debida
    <3>4. QED
      BY <3>1, <3>2, <3>3
  <2>2. QED
    BY <2>1 DEF NotasDebidas
<1>10. QED
  BY <1>4, <1>7, <1>8, <1>9

LEMMA SerieTarea ==
  ASSUME EnSerie, InvSerie, NEW p \in Peticion, Tarea(p)
  PROVE  Sola' /\ (\A q \in Peticion : Turno(q)') /\ NotasDebidas'
<1>1. TypeOK /\ Sola /\ (\A q \in Peticion : Turno(q)) /\ NotasDebidas
  BY DEF InvSerie, InvInductivo
<1>2. /\ UNCHANGED <<pc, ent, id, notas>>
      /\ \/ UNCHANGED <<estado, actualiza>>
         \/ FondoActualiza(p)
  BY DEF Tarea, FondoActualiza, FondoListar, FondoRevocar, FondoFin, bd, peticiones
<1>3. \A q \in Peticion : actualiza'[q] => actualiza[q]
  BY <1>1, <1>2 DEF FondoActualiza, TypeOK
<1>4. Sola'
  BY <1>1, <1>2 DEF Sola, EnCurso
<1>5. ASSUME NEW q \in Peticion  PROVE Turno(q)'
  <2>1. Turno(q)
    BY <1>1
  <2>2. QED
    BY <1>2, <1>3, <2>1 DEF Turno, TrasNotas, SinNotas, NotasDe
<1>6. NotasDebidas'
  <2>1. ASSUME NEW f \in Factura, estado'[f] = "PUBLICADA", notas'[f] # {}
        PROVE  Debida(f)'
    <3>1. CASE UNCHANGED <<estado, actualiza>>
      BY <1>1, <1>2, <2>1, <3>1 DEF NotasDebidas, Debida
    <3>2. CASE FondoActualiza(p)
      <4>1. estado' = IF Registrada(id[p]) /\ MismaOrg(p, id[p])
                      THEN [estado EXCEPT ![id[p]] = "PENDIENTE_VALIDACION"]
                      ELSE estado
        BY <3>2 DEF FondoActualiza, CambiaEstado, EnSerie
      <4>2. estado[f] = "PUBLICADA"
        BY <1>1, <2>1, <4>1 DEF TypeOK
      <4>3. id[p] # f
        <5>1. SUFFICES ASSUME id[p] = f  PROVE FALSE
          OBVIOUS
        <5>2. Registrada(f)
          BY <4>2 DEF Registrada, NoRegistrada
        <5>3. fila[f].gestor \in Usuario /\ ent[p].usuario \in Usuario
          BY <1>1 DEF TypeOK, Fila, Entrada
        <5>4. MismaOrg(p, f)
          BY <5>3 DEF MismaOrg, EnSerie
        <5>5. QED
          BY <1>1, <2>1, <4>1, <5>1, <5>2, <5>4 DEF TypeOK
      <4>4. PICK q \in Peticion : actualiza[q] /\ id[q] = f
        BY <1>1, <1>2, <2>1, <4>2 DEF NotasDebidas, Debida
      <4>5. actualiza'[q]
        BY <1>1, <3>2, <4>3, <4>4 DEF FondoActualiza, TypeOK
      <4>6. QED
        BY <1>2, <4>4, <4>5 DEF Debida
    <3>3. QED
      BY <1>2, <3>1, <3>2
  <2>2. QED
    BY <2>1 DEF NotasDebidas
<1>7. QED
  BY <1>4, <1>5, <1>6

LEMMA SeriePaso ==
  ASSUME EnSerie
  PROVE  InvSerie /\ [Next]_vars => InvSerie'
<1> SUFFICES ASSUME InvSerie, [Next]_vars  PROVE InvSerie'
  OBVIOUS
<1>1. InvInductivo'
  BY InvInductivoPaso DEF InvSerie
<1>2. Sola' /\ (\A q \in Peticion : Turno(q)') /\ NotasDebidas'
  <2>1. CASE \E p \in Peticion : LlegaAlguna(p)
    BY <2>1, SerieLlega
  <2>2. CASE \E p \in Peticion : Manejador(p)
    BY <2>2, SerieManejador
  <2>3. CASE \E p \in Peticion : Tarea(p)
    BY <2>3, SerieTarea
  <2>4. CASE Caida
    BY <2>4 DEF Caida, EnSerie
  <2>5. CASE UNCHANGED vars
    BY <2>5 DEF vars, InvSerie, Sola, EnCurso, Turno, TrasNotas, SinNotas, NotasDe,
                NotasDebidas, Debida
  <2>6. QED
    BY <2>1, <2>2, <2>3, <2>4, <2>5 DEF Next, Descansa
<1>3. QED
  BY <1>1, <1>2 DEF InvSerie

\* At rest no PUBLICADA factura has a note to resolve, for requests of every
\* kind that come one after another: between the look of
\* ExecuteRegistrarAutorizacion at the notes and its UPDATE nobody stores one,
\* and a note that is stored later owes the factura the update of its status,
\* which guardarNotasOCR starts and does not await.  Carrera shows that the
\* property is lost as soon as two handlers run at once.
THEOREM PublicadaSinNotasEnSerie ==
  ASSUME EnSerie
  PROVE  Spec => []PublicadaSinNotas
<1>1. Init => InvSerie
  BY SerieInicial
<1>2. InvSerie /\ [Next]_vars => InvSerie'
  BY SeriePaso
<1>3. InvSerie => PublicadaSinNotas
  BY DEF InvSerie, NotasDebidas, Debida, PublicadaSinNotas, Reposo
<1>4. QED
  BY <1>1, <1>2, <1>3, PTL DEF Spec
=============================================================================
