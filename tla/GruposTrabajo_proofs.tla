------------------------- MODULE GruposTrabajo_proofs -------------------------
(***************************************************************************)
(* Proofs about GruposTrabajo, for any number of groups, users and         *)
(* requests: that it implements GruposAbstracto, and its invariants.       *)
(***************************************************************************)
EXTENDS GruposTrabajo, FiniteSetTheorems, TLAPS

-----------------------------------------------------------------------------
(***************************************************************************)
(* The inductive invariant.                                                *)
(***************************************************************************)

\* The pair that a request is about.
ParDe(p) == <<ent[p].grupo, ent[p].quien>>

\* A request is only in steps of its kind.
PasoPropio ==
    \A p \in Peticion :
       /\ pc[p] \in {"lis_grupos", "lis_miembros"} => ent[p].tipo = "listar"
       /\ pc[p] \in {"cre_grupo", "cre_lider"} => ent[p].tipo = "crear"
       /\ pc[p] = "act_grupo" => ent[p].tipo = "actualizar"
       /\ pc[p] = "eli_grupo" => ent[p].tipo = "eliminar"
       /\ pc[p] \in {"agr_buscar", "agr_reactivar", "agr_insertar"}
             => ent[p].tipo = "agregar"
       /\ pc[p] = "qui_miembro" => ent[p].tipo = "quitar"

\* A group that does not exist has no rows, and no request changes its members.
GrupoNuevo ==
    \A g \in Grupo :
       ~Existe(g) =>
          /\ \A u \in Usuario : ~TieneFila(<<g, u>>)
          /\ \A p \in Peticion :
                ent[p].grupo = g => pc[p] \notin {"cre_lider", "agr_buscar",
                                      "agr_reactivar", "agr_insertar", "qui_miembro"}

\* Rows stay, so what a look-up has found is still there.
FilaHallada ==
    \A p \in Peticion : pc[p] = "agr_reactivar" => TieneFila(ParDe(p))

EnCursoFinito == IsFiniteSet({p \in Peticion : EnCurso(p)})

\* Two requests are about to insert the same row, or one is and the row is
\* there, only where two have crossed.
Cruces ==
    \A m \in Par :
       /\ \A p, q \in Insertando(m) : p = q \/ m \in cruce
       /\ \A p \in Insertando(m) : TieneFila(m) => m \in cruce

\* Who reads the groups has seen all that is a member now; whoever has been
\* listable all the time is listable, and is listed or still to be read.
Lectura ==
    \A p \in Peticion :
       /\ listado[p] \subseteq alguna[p]
       /\ \A m \in siempre[p] : Listable(m)
       /\ pc[p] = "libre" => listado[p] = {}
       /\ pc[p] \in {"lis_grupos", "lis_miembros"} => Miembros \subseteq alguna[p]
       /\ pc[p] = "lis_miembros" =>
             \A m \in siempre[p] : m \in listado[p] \/ m[1] \in porLeer[p]
       /\ ent[p].tipo = "listar" /\ pc[p] \in {"responder", "fin"}
             => siempre[p] \subseteq listado[p]

IInv == /\ TypeOK
        /\ PasoPropio /\ GrupoNuevo /\ FilaHallada
        /\ EnCursoFinito /\ Cruces /\ UnaFila /\ Lectura

-----------------------------------------------------------------------------
(***************************************************************************)
(* Type correctness.                                                       *)
(***************************************************************************)
Entrada == [tipo: Tipo, grupo: Grupo, quien: Usuario]

LEMMA BaseOK == /\ Base \in Entrada /\ Base.tipo = ""
                /\ Base.grupo \in Grupo /\ Base.quien \in Usuario
  BY ConstantesOK DEF Base, Entrada, Tipo

\* Whatever arrives is of a known kind and, if it is about a group, about one
\* that exists; only a listing starts a history.
LEMMA LlegaReal ==
  ASSUME NEW p \in Peticion, LlegaAlguna(p), TypeOK
  PROVE  \E e \in Entrada :
            /\ e.tipo # "" /\ Llega(p, e)
            /\ e.tipo \notin {"listar", "crear"} => Existe(e.grupo)
            /\ IF e.tipo = "listar"
               THEN /\ alguna' = [alguna EXCEPT ![p] = Miembros]
                    /\ siempre' = [siempre EXCEPT ![p] = {m \in Par : Listable(m)}]
               ELSE UNCHANGED <<alguna, siempre>>
<1> USE BaseOK DEF Entrada, Tipo
<1>1. CASE LlegaListado(p)
  <2>1. [Base EXCEPT !.tipo = "listar"] \in Entrada
        /\ [Base EXCEPT !.tipo = "listar"].tipo = "listar"
    OBVIOUS
  <2>2. QED
    BY <1>1, <2>1 DEF LlegaListado
<1>2. CASE LlegaCreacion(p)
  <2>1. ASSUME NEW u \in Usuario
        PROVE  /\ [Base EXCEPT !.tipo = "crear", !.quien = u] \in Entrada
               /\ [Base EXCEPT !.tipo = "crear", !.quien = u].tipo = "crear"
    OBVIOUS
  <2>2. QED
    BY <1>2, <2>1 DEF LlegaCreacion
<1>3. CASE LlegaCambioGrupo(p)
  <2>1. ASSUME NEW g \in Grupo, NEW t \in {"actualizar", "eliminar"}
        PROVE  /\ [Base EXCEPT !.tipo = t, !.grupo = g] \in Entrada
               /\ [Base EXCEPT !.tipo = t, !.grupo = g].tipo = t
               /\ [Base EXCEPT !.tipo = t, !.grupo = g].grupo = g
    OBVIOUS
  <2>2. QED
    BY <1>3, <2>1 DEF LlegaCambioGrupo
<1>4. CASE LlegaCambioMiembro(p)
  <2>1. ASSUME NEW g \in Grupo, NEW u \in Usuario, NEW t \in {"agregar", "quitar"}
        PROVE  /\ [tipo |-> t, grupo |-> g, quien |-> u] \in Entrada
               /\ [tipo |-> t, grupo |-> g, quien |-> u].tipo = t
               /\ [tipo |-> t, grupo |-> g, quien |-> u].grupo = g
    OBVIOUS
  <2>2. QED
    BY <1>4, <2>1 DEF LlegaCambioMiembro
<1>5. QED
  BY <1>1, <1>2, <1>3, <1>4 DEF LlegaAlguna

\* A function keeps its type when an entry gets another value of it.
LEMMA Asigna ==
  ASSUME NEW D, NEW S, NEW f \in [D -> S], NEW d, NEW x \in S
  PROVE  [f EXCEPT ![d] = x] \in [D -> S]
  OBVIOUS

LEMMA TipoInicial == Init => TypeOK
<1> SUFFICES ASSUME Init  PROVE TypeOK
  OBVIOUS
<1>1. grupo \in [Grupo -> [estado: {"no creado", "activo", "eliminado"}, lider: Usuario]]
  <2>1. ASSUME NEW g \in Grupo
        PROVE  grupo[g] \in [estado: {"no creado", "activo", "eliminado"}, lider: Usuario]
    BY ConstantesOK, BaseOK DEF Init
  <2>2. QED
    BY <2>1 DEF Init
<1>2. filas \in [Par -> [activas: Nat, inactivas: Nat]]
  BY DEF Init
<1>3. QED
  BY <1>1, <1>2, BaseOK DEF Init, TypeOK, Entrada

\* What a statement does to the rows of a pair leaves numbers of rows.
LEMMA FilasTipo ==
  ASSUME TypeOK, NEW m \in Par,
         Inserta(m) \/ Reactiva(m) \/ Desactiva(m) \/ UNCHANGED filas
  PROVE  filas' \in [Par -> [activas: Nat, inactivas: Nat]]
<1>1. /\ filas \in [Par -> [activas: Nat, inactivas: Nat]]
      /\ filas[m].activas \in Nat /\ filas[m].inactivas \in Nat
  BY DEF TypeOK
<1>2. Total(filas[m]) \in Nat
  BY <1>1 DEF Total
<1>3. QED
  BY <1>1, <1>2 DEF Inserta, Reactiva, Desactiva

\* The histories keep their type.
LEMMA AnotaTipo ==
  ASSUME TypeOK, Anota
  PROVE  alguna' \in [Peticion -> SUBSET Par] /\ siempre' \in [Peticion -> SUBSET Par]
<1>1. Miembros' \subseteq Par
  BY DEF Miembros
<1>2. ASSUME NEW p \in Peticion
      PROVE  /\ alguna[p] \in SUBSET Par /\ siempre[p] \in SUBSET Par
  BY DEF TypeOK
<1>3. QED
  BY <1>1, <1>2 DEF Anota

LEMMA TipoInductivo == TypeOK /\ [Next]_vars => TypeOK'
<1> SUFFICES ASSUME TypeOK, [Next]_vars  PROVE TypeOK'
  OBVIOUS
<1> USE DEF tablas, lectura, Ir
<1> DEFINE Pasos == PasoDe \cup {"libre", "fin", "fallo", "caida"}
<1>1. ASSUME NEW p \in Peticion, LlegaAlguna(p)  PROVE TypeOK'
  <2>1. PICK e \in Entrada :
            /\ e.tipo # "" /\ Llega(p, e)
            /\ IF e.tipo = "listar"
               THEN /\ alguna' = [alguna EXCEPT ![p] = Miembros]
                    /\ siempre' = [siempre EXCEPT ![p] = {m \in Par : Listable(m)}]
               ELSE UNCHANGED <<alguna, siempre>>
    BY <1>1, LlegaReal
  <2>2. PrimerPaso(e.tipo) \in Pasos
    BY <2>1 DEF PrimerPaso, PasoDe, Entrada, Tipo
  <2>3. Miembros \in SUBSET Par /\ {m \in Par : Listable(m)} \in SUBSET Par
    BY DEF Miembros
  <2>4. alguna' \in [Peticion -> SUBSET Par] /\ siempre' \in [Peticion -> SUBSET Par]
    BY <2>1, <2>3 DEF TypeOK
  <2>5. QED
    BY <2>1, <2>2, <2>4 DEF Llega, TypeOK, Entrada
<1>2. ASSUME NEW p \in Peticion, Manejador(p)  PROVE TypeOK'
  <2>1. ParDe(p) \in Par /\ ent[p] \in Entrada
    BY DEF ParDe, Par, TypeOK, Entrada
  <2>2. CASE ListarGrupos(p)
    <3>1. {g \in Grupo : Visible(g)} \in SUBSET Grupo
      OBVIOUS
    <3>2. porLeer' \in [Peticion -> SUBSET Grupo]
      BY <2>2, <3>1 DEF ListarGrupos, TypeOK
    <3>3. QED
      BY <2>2, <3>2 DEF ListarGrupos, TypeOK, PasoDe
  <2>3. CASE ListarMiembros(p)
    <3>1. ASSUME NEW g \in porLeer[p]
          PROVE  /\ listado[p] \cup MiembrosLeidos(g) \in SUBSET Par
                 /\ porLeer[p] \ {g} \in SUBSET Grupo
      <4>1. MiembrosLeidos(g) \subseteq Par
        BY DEF MiembrosLeidos, Miembros
      <4>2. listado[p] \subseteq Par /\ porLeer[p] \subseteq Grupo
        BY DEF TypeOK
      <4>3. QED
        BY <4>1, <4>2
    <3>2. listado' \in [Peticion -> SUBSET Par] /\ porLeer' \in [Peticion -> SUBSET Grupo]
      <4>1. \/ UNCHANGED <<listado, porLeer>>
            \/ \E l \in SUBSET Par, r \in SUBSET Grupo :
                  /\ listado' = [listado EXCEPT ![p] = l]
                  /\ porLeer' = [porLeer EXCEPT ![p] = r]
        BY <2>3, <3>1 DEF ListarMiembros
      <4>2. CASE \E l \in SUBSET Par, r \in SUBSET Grupo :
                  /\ listado' = [listado EXCEPT ![p] = l]
                  /\ porLeer' = [porLeer EXCEPT ![p] = r]
        <5>1. PICK l \in SUBSET Par, r \in SUBSET Grupo :
                  /\ listado' = [listado EXCEPT ![p] = l]
                  /\ porLeer' = [porLeer EXCEPT ![p] = r]
          BY <4>2
        <5>2. listado \in [Peticion -> SUBSET Par] /\ porLeer \in [Peticion -> SUBSET Grupo]
          BY DEF TypeOK
        <5>3. QED
          BY <5>1, <5>2, Asigna
      <4>3. QED
        BY <4>1, <4>2 DEF TypeOK
    <3>3. pc' \in [Peticion -> Pasos]
      BY <2>3 DEF ListarMiembros, TypeOK, PasoDe
    <3>4. QED
      BY <2>3, <3>2, <3>3 DEF ListarMiembros, TypeOK
  <2>4. CASE CrearGrupo(p)
    <3>1. PICK g \in Grupo :
              /\ grupo' = [grupo EXCEPT ![g] = [estado |-> "activo", lider |-> ent[p].quien]]
              /\ ent' = [ent EXCEPT ![p].grupo = g]
      BY <2>4 DEF CrearGrupo, FilaGrupo
    <3>2. /\ grupo' \in [Grupo -> [estado: {"no creado", "activo", "eliminado"},
                                   lider: Usuario]]
          /\ ent' \in [Peticion -> Entrada]
      BY <2>1, <3>1 DEF TypeOK, Entrada
    <3>3. cruce' \subseteq Par
      BY <2>4 DEF CrearGrupo, FilaGrupo, Cruza, TypeOK
    <3>4. pc' \in [Peticion -> Pasos] /\ UNCHANGED <<filas, unica, porLeer, listado>>
      BY <2>4 DEF CrearGrupo, FilaGrupo, PasoDe, TypeOK
    <3>5. QED
      BY <2>4, <3>2, <3>3, <3>4, AnotaTipo DEF CrearGrupo, FilaGrupo, TypeOK, Entrada
  <2>5. CASE CrearLider(p) \/ AgregarReactivar(p) \/ AgregarInsertar(p) \/ QuitarMiembro(p)
    <3>1. /\ Anota
          /\ UNCHANGED <<grupo, unica, ent, porLeer, listado, cruce>>
          /\ \E paso \in Pasos : Ir(p, paso)
          /\ Inserta(ParDe(p)) \/ Reactiva(ParDe(p)) \/ Desactiva(ParDe(p))
                \/ UNCHANGED filas
      <4>1. CASE CrearLider(p)
        BY <4>1 DEF CrearLider, InsertaLider, ParDe, PasoDe
      <4>2. CASE AgregarReactivar(p)
        BY <4>2 DEF AgregarReactivar, ParDe, PasoDe
      <4>3. CASE AgregarInsertar(p)
        BY <4>3 DEF AgregarInsertar, ParDe, PasoDe
      <4>4. CASE QuitarMiembro(p)
        BY <4>4 DEF QuitarMiembro, ParDe, PasoDe
      <4>5. QED
        BY <2>5, <4>1, <4>2, <4>3, <4>4
    <3>2. filas' \in [Par -> [activas: Nat, inactivas: Nat]]
      BY <2>1, <3>1, FilasTipo
    <3>3. pc' \in [Peticion -> Pasos]
      BY <3>1 DEF TypeOK
    <3>4. alguna' \in [Peticion -> SUBSET Par] /\ siempre' \in [Peticion -> SUBSET Par]
      BY <3>1, AnotaTipo
    <3>5. UNCHANGED <<grupo, unica, ent, porLeer, listado, cruce>>
      BY <3>1
    <3>6. QED
      BY <3>2, <3>3, <3>4, <3>5 DEF TypeOK
  <2>6. CASE EliminarGrupo(p)
    <3>1. grupo' \in [Grupo -> [estado: {"no creado", "activo", "eliminado"},
                                lider: Usuario]]
      <4>1. /\ grupo \in [Grupo -> [estado: {"no creado", "activo", "eliminado"},
                                    lider: Usuario]]
            /\ ent[p].grupo \in Grupo
        BY DEF TypeOK
      <4>2. \/ UNCHANGED grupo
            \/ grupo' = [grupo EXCEPT ![ent[p].grupo].estado = "eliminado"]
        BY <2>6 DEF EliminarGrupo
      <4>3. QED
        BY <4>1, <4>2
    <3>2. pc' \in [Peticion -> Pasos]
      BY <2>6 DEF EliminarGrupo, PasoDe, TypeOK
    <3>3. QED
      BY <2>6, <3>1, <3>2, AnotaTipo DEF EliminarGrupo, TypeOK
  <2>7. CASE AgregarBuscar(p)
    <3>1. cruce' \subseteq Par
      BY <2>7 DEF AgregarBuscar, Cruza, TypeOK
    <3>2. QED
      BY <2>7, <3>1 DEF AgregarBuscar, TypeOK, PasoDe
  <2>8. CASE ActualizarGrupo(p) \/ Responder(p)
    BY <2>8 DEF ActualizarGrupo, Responder, TypeOK, PasoDe
  <2>9. QED
    BY <1>2, <2>2, <2>3, <2>4, <2>5, <2>6, <2>7, <2>8 DEF Manejador
<1>3. ASSUME NEW p \in Peticion, Falla(p)  PROVE TypeOK'
  BY <1>3 DEF Falla, TypeOK
<1>4. CASE Caida
  BY <1>4 DEF Caida, TypeOK
<1>5. CASE UNCHANGED vars
  BY <1>5 DEF vars, TypeOK
<1>6. QED
  BY <1>1, <1>2, <1>3, <1>4, <1>5 DEF Next, Descansa

\* Every variable has its type in every state.
THEOREM Tipos == Spec => []TypeOK
<1>1. QED
  BY TipoInicial, TipoInductivo, PTL DEF Spec

-----------------------------------------------------------------------------
(***************************************************************************)
(* What a step of a request changes.                                       *)
(***************************************************************************)

\* A step touches no request but p.
SoloDe(p) ==
    \A q \in Peticion \ {p} :
       /\ pc'[q] = pc[q] /\ ent'[q] = ent[q]
       /\ porLeer'[q] = porLeer[q] /\ listado'[q] = listado[q]

\* crearGrupo takes a group that was not there, and with it a pair.
LEMMA CrearGrupoEfecto ==
  ASSUME TypeOK, NEW p \in Peticion, CrearGrupo(p)
  PROVE  \E g \in Grupo :
            /\ ~Existe(g) /\ grupo'[g].estado = "activo"
            /\ \A h \in Grupo : h # g => grupo'[h] = grupo[h]
            /\ ent'[p] = [ent[p] EXCEPT !.grupo = g] /\ ent'[p].grupo = g
            /\ ent'[p].tipo = ent[p].tipo /\ ent'[p].quien = ent[p].quien
            /\ \A q \in Peticion : q # p => ent'[q] = ent[q] /\ pc'[q] = pc[q]
            /\ pc[p] = "cre_grupo" /\ pc'[p] = "cre_lider"
<1>1. PICK g \in Grupo :
         /\ ~Existe(g)
         /\ grupo' = [grupo EXCEPT ![g] = [estado |-> "activo", lider |-> ent[p].quien]]
         /\ ent' = [ent EXCEPT ![p].grupo = g]
  BY DEF CrearGrupo, FilaGrupo
<1>2. /\ ent[p] \in [tipo: Tipo, grupo: Grupo, quien: Usuario]
      /\ ent'[p] = [ent[p] EXCEPT !.grupo = g]
      /\ \A q \in Peticion : q # p => ent'[q] = ent[q]
  BY <1>1 DEF TypeOK
<1>3. /\ ent'[p].grupo = g /\ ent'[p].tipo = ent[p].tipo
      /\ ent'[p].quien = ent[p].quien
  BY <1>2
<1>4. grupo'[g].estado = "activo" /\ \A h \in Grupo : h # g => grupo'[h] = grupo[h]
  BY <1>1 DEF TypeOK
<1>5. /\ \A q \in Peticion : q # p => pc'[q] = pc[q]
      /\ pc[p] = "cre_grupo" /\ pc'[p] = "cre_lider"
  BY DEF CrearGrupo, FilaGrupo, Ir, TypeOK
<1>6. QED
  BY <1>1, <1>2, <1>3, <1>4, <1>5

LEMMA Ajenos ==
  ASSUME TypeOK, NEW p \in Peticion, Manejador(p)
  PROVE  /\ SoloDe(p) /\ pc[p] \in PasoDe
         /\ ent'[p] = ent[p] \/ CrearGrupo(p)
         /\ ent'[p].tipo = ent[p].tipo /\ ent'[p].quien = ent[p].quien
         /\ unica' = unica /\ cruce \subseteq cruce'
<1> USE DEF SoloDe, Ir, TypeOK, tablas, lectura, PasoDe
<1>1. CASE ListarGrupos(p)
  BY <1>1 DEF ListarGrupos
<1>2. CASE ListarMiembros(p)
  BY <1>2 DEF ListarMiembros
<1>3. CASE CrearGrupo(p)
  BY <1>3, CrearGrupoEfecto DEF CrearGrupo, FilaGrupo, Cruza
<1>4. CASE CrearLider(p) \/ AgregarReactivar(p)
  BY <1>4 DEF CrearLider, AgregarReactivar
<1>5. CASE AgregarInsertar(p) \/ QuitarMiembro(p)
  BY <1>5 DEF AgregarInsertar, QuitarMiembro
<1>6. CASE EliminarGrupo(p) \/ ActualizarGrupo(p) \/ Responder(p)
  BY <1>6 DEF EliminarGrupo, ActualizarGrupo, Responder
<1>7. CASE AgregarBuscar(p)
  BY <1>7 DEF AgregarBuscar, Cruza
<1>8. QED
  BY <1>1, <1>2, <1>3, <1>4, <1>5, <1>6, <1>7 DEF Manejador

\* What is done to the rows of a pair: how many there are only changes when
\* one is inserted, and no other pair is touched.
LEMMA FilasEfecto ==
  ASSUME TypeOK, NEW m \in Par
  PROVE  /\ TieneFila(m) <=> Total(filas[m]) > 0
         /\ Total(filas[m]) \in Nat /\ filas[m].activas \in Nat
         /\ m \in Miembros <=> filas[m].activas > 0
         /\ Inserta(m) => /\ Total(filas'[m]) = Total(filas[m]) + 1
                          /\ filas'[m].activas > 0
         /\ Reactiva(m) => /\ Total(filas'[m]) = Total(filas[m])
                           /\ filas'[m].activas = Total(filas[m])
         /\ Desactiva(m) => /\ Total(filas'[m]) = Total(filas[m])
                            /\ filas'[m].activas = 0
         /\ Inserta(m) \/ Reactiva(m) \/ Desactiva(m) =>
               \A n \in Par : n # m => filas'[n] = filas[n]
<1>1. /\ filas \in [Par -> [activas: Nat, inactivas: Nat]]
      /\ filas[m].activas \in Nat /\ filas[m].inactivas \in Nat
  BY DEF TypeOK
<1>2. QED
  BY <1>1 DEF TieneFila, Total, Miembros, Inserta, Reactiva, Desactiva

\* A request changes the number of rows of its own pair, by one, if at all.
LEMMA FilasPaso ==
  ASSUME TypeOK, NEW p \in Peticion, Manejador(p), NEW m \in Par
  PROVE  \/ Total(filas'[m]) = Total(filas[m])
         \/ /\ Total(filas'[m]) = Total(filas[m]) + 1
            /\ m = ParDe(p) /\ pc[p] \in {"cre_lider", "agr_insertar"}
            /\ pc'[p] = "responder" /\ ~(unica /\ TieneFila(m))
<1>1. ParDe(p) \in Par
  BY DEF ParDe, Par, TypeOK
<1>2. CASE UNCHANGED filas
  BY <1>2
<1>3. CASE CrearLider(p)
  BY <1>1, <1>3, FilasEfecto DEF CrearLider, InsertaLider, ParDe, Ir, TypeOK
<1>4. CASE AgregarReactivar(p)
  BY <1>1, <1>4, FilasEfecto DEF AgregarReactivar, ParDe
<1>5. CASE AgregarInsertar(p)
  BY <1>1, <1>2, <1>5, FilasEfecto DEF AgregarInsertar, ParDe, Ir, TypeOK
<1>6. CASE QuitarMiembro(p)
  BY <1>1, <1>2, <1>6, FilasEfecto DEF QuitarMiembro, ParDe
<1>7. QED
  BY <1>2, <1>3, <1>4, <1>5, <1>6
  DEF Manejador, ListarGrupos, ListarMiembros, CrearGrupo, FilaGrupo, EliminarGrupo,
      ActualizarGrupo, AgregarBuscar, Responder, tablas

\* Rows stay, and so do groups.
LEMMA Quedan ==
  ASSUME TypeOK, TypeOK', [Next]_vars
  PROVE  /\ \A m \in Par : TieneFila(m) => TieneFila(m)'
         /\ \A g \in Grupo : Existe(g) => Existe(g)'
         /\ unica' = unica /\ cruce \subseteq cruce'
<1>1. ASSUME NEW p \in Peticion, Manejador(p)
      PROVE  /\ \A m \in Par : TieneFila(m) => TieneFila(m)'
             /\ \A g \in Grupo : Existe(g) => Existe(g)'
             /\ unica' = unica /\ cruce \subseteq cruce'
  <2>1. ASSUME NEW m \in Par, TieneFila(m)  PROVE TieneFila(m)'
    <3>1. Total(filas[m]) > 0 /\ Total(filas[m]) \in Nat
      BY <2>1, FilasEfecto
    <3>2. Total(filas'[m]) > 0
      BY <1>1, <3>1, FilasPaso
    <3>3. QED
      BY <3>2 DEF TieneFila, Total
  <2>2. ASSUME NEW g \in Grupo, Existe(g)  PROVE Existe(g)'
    <3>1. CASE CrearGrupo(p)
      <4>1. PICK h \in Grupo :
               /\ grupo'[h].estado = "activo"
               /\ \A i \in Grupo : i # h => grupo'[i] = grupo[i]
        BY <3>1, CrearGrupoEfecto
      <4>2. QED
        BY <2>2, <4>1 DEF Existe
    <3>2. CASE EliminarGrupo(p)
      <4>1. grupo'[g] = grupo[g] \/ grupo'[g].estado = "eliminado"
        <5>1. \/ UNCHANGED grupo
              \/ grupo' = [grupo EXCEPT ![ent[p].grupo].estado = "eliminado"]
          BY <3>2 DEF EliminarGrupo
        <5>2. grupo \in [Grupo -> [estado: {"no creado", "activo", "eliminado"},
                                   lider: Usuario]]
          BY DEF TypeOK
        <5>3. QED
          BY <5>1, <5>2
      <4>2. QED
        BY <2>2, <4>1 DEF Existe
    <3>3. CASE UNCHANGED grupo
      BY <2>2, <3>3 DEF Existe
    <3>4. QED
      BY <1>1, <3>1, <3>2, <3>3
      DEF Manejador, ListarGrupos, ListarMiembros, CrearLider, ActualizarGrupo,
          AgregarBuscar, AgregarReactivar, AgregarInsertar, QuitarMiembro,
          Responder, tablas
  <2>3. QED
    BY <1>1, <2>1, <2>2, Ajenos
<1>2. CASE UNCHANGED <<tablas, cruce>>
  BY <1>2 DEF tablas, TieneFila, Existe
<1>3. QED
  BY <1>1, <1>2, LlegaReal
  DEF Next, Llega, Falla, Caida, Descansa, vars

-----------------------------------------------------------------------------
(***************************************************************************)
(* The steps that keep the inductive invariant, conjunct by conjunct.      *)
(***************************************************************************)
LEMMA PasoPropioInductivo ==
  ASSUME TypeOK, PasoPropio, [Next]_vars
  PROVE  PasoPropio'
<1> USE DEF PasoPropio
<1>1. ASSUME NEW p \in Peticion, LlegaAlguna(p)  PROVE PasoPropio'
  <2>1. PICK e \in Entrada : e.tipo # "" /\ Llega(p, e)
    BY <1>1, LlegaReal
  <2>2. QED
    BY <2>1 DEF Llega, PrimerPaso, Entrada, Tipo, Ir, TypeOK
<1>2. ASSUME NEW p \in Peticion, Manejador(p)  PROVE PasoPropio'
  <2>1. SoloDe(p) /\ ent'[p].tipo = ent[p].tipo
    BY <1>2, Ajenos
  <2>2. \/ pc'[p] \in {"responder", "fallo", "fin"}
        \/ pc[p] = "lis_grupos" /\ pc'[p] = "lis_miembros"
        \/ pc[p] = "lis_miembros" /\ pc'[p] = "lis_miembros"
        \/ pc[p] = "cre_grupo" /\ pc'[p] = "cre_lider"
        \/ pc[p] = "agr_buscar" /\ pc'[p] \in {"agr_reactivar", "agr_insertar"}
    BY <1>2 DEF Manejador, ListarGrupos, ListarMiembros, CrearGrupo, FilaGrupo, CrearLider,
                ActualizarGrupo, EliminarGrupo, AgregarBuscar, AgregarReactivar,
                AgregarInsertar, QuitarMiembro, Responder, Ir, TypeOK
  <2>3. QED
    BY <2>1, <2>2 DEF SoloDe
<1>3. CASE (\E p \in Peticion : Falla(p)) \/ Caida \/ UNCHANGED vars
  BY <1>3 DEF Falla, Caida, vars, Ir, TypeOK
<1>4. QED
  BY <1>1, <1>2, <1>3 DEF Next, Descansa

\* Where nothing exists nothing is added: only crearGrupo makes a group, and
\* with a number that no request has.
LEMMA GrupoNuevoInductivo ==
  ASSUME TypeOK, TypeOK', GrupoNuevo, [Next]_vars
  PROVE  GrupoNuevo'
<1> DEFINE Cambian == {"cre_lider", "agr_buscar", "agr_reactivar", "agr_insertar",
                       "qui_miembro"}
<1> SUFFICES ASSUME NEW g \in Grupo, ~Existe(g)'
             PROVE  /\ \A u \in Usuario : ~TieneFila(<<g, u>>)'
                    /\ \A q \in Peticion : ent'[q].grupo = g => pc'[q] \notin Cambian
  BY DEF GrupoNuevo
<1>1. /\ ~Existe(g)
      /\ \A u \in Usuario : <<g, u>> \in Par /\ ~TieneFila(<<g, u>>)
      /\ \A q \in Peticion : ent[q].grupo = g => pc[q] \notin Cambian
  BY Quedan DEF GrupoNuevo, Par
<1>2. ASSUME NEW p \in Peticion, LlegaAlguna(p)
      PROVE  \A q \in Peticion : ent'[q].grupo = g => pc'[q] \notin Cambian
  <2>1. PICK e \in Entrada : /\ e.tipo # "" /\ Llega(p, e)
                             /\ e.tipo \notin {"listar", "crear"} => Existe(e.grupo)
    BY <1>2, LlegaReal
  <2>2. PrimerPaso(e.tipo) \in Cambian => e.tipo \notin {"listar", "crear"}
    BY <2>1 DEF PrimerPaso, Entrada, Tipo
  <2>3. QED
    BY <1>1, <2>1, <2>2 DEF Llega, Ir, TypeOK
<1>3. ASSUME NEW p \in Peticion, Manejador(p)
      PROVE  \A q \in Peticion : ent'[q].grupo = g => pc'[q] \notin Cambian
  <2>1. SoloDe(p)
    BY <1>3, Ajenos
  <2>2. ent'[p].grupo = g => pc'[p] \notin Cambian
    <3>1. CASE CrearGrupo(p)
      <4>1. PICK h \in Grupo : grupo'[h].estado = "activo" /\ ent'[p].grupo = h
        BY <3>1, CrearGrupoEfecto
      <4>2. QED
        BY <4>1 DEF Existe
    <3>2. CASE AgregarBuscar(p)
      BY <1>1, <3>2 DEF AgregarBuscar
    <3>3. CASE pc'[p] \in {"responder", "fallo", "fin", "lis_miembros"}
      BY <3>3
    <3>4. QED
      BY <1>3, <3>1, <3>2, <3>3
      DEF Manejador, ListarGrupos, ListarMiembros, CrearLider, ActualizarGrupo,
          EliminarGrupo, AgregarReactivar, AgregarInsertar, QuitarMiembro,
          Responder, Ir, TypeOK
  <2>3. QED
    BY <1>1, <2>1, <2>2 DEF SoloDe
<1>4. ASSUME NEW p \in Peticion, Manejador(p), NEW u \in Usuario
      PROVE  ~TieneFila(<<g, u>>)'
  <2> DEFINE m == <<g, u>>
  <2>1. m \in Par /\ Total(filas[m]) = 0
    BY <1>1, FilasEfecto
  <2>2. m = ParDe(p) => pc[p] \notin {"cre_lider", "agr_insertar"}
    BY <1>1 DEF ParDe
  <2>3. Total(filas'[m]) = 0
    BY <1>4, <2>1, <2>2, FilasPaso
  <2>4. QED
    BY <2>3 DEF TieneFila, Total
<1>5. ASSUME UNCHANGED filas, NEW u \in Usuario
      PROVE  ~TieneFila(<<g, u>>)'
  BY <1>1, <1>5 DEF TieneFila
<1>6. CASE (\E p \in Peticion : Falla(p)) \/ Caida \/ UNCHANGED vars
  BY <1>1, <1>5, <1>6 DEF Falla, Caida, vars, tablas, Ir, TypeOK
<1>7. ASSUME NEW p \in Peticion, LlegaAlguna(p)
      PROVE  UNCHANGED filas
  BY <1>7, LlegaReal DEF Llega, tablas
<1>8. QED
  BY <1>2, <1>3, <1>4, <1>5, <1>6, <1>7 DEF Next, Descansa

LEMMA FilaHalladaInductiva ==
  ASSUME TypeOK, TypeOK', FilaHallada, [Next]_vars
  PROVE  FilaHallada'
<1> USE DEF FilaHallada
<1>1. \A q \in Peticion : ParDe(q) \in Par
  BY DEF ParDe, Par, TypeOK
<1>2. ASSUME NEW p \in Peticion, LlegaAlguna(p)  PROVE FilaHallada'
  <2>1. PICK e \in Entrada : e.tipo # "" /\ Llega(p, e)
    BY <1>2, LlegaReal
  <2>2. PrimerPaso(e.tipo) # "agr_reactivar"
    BY <2>1 DEF PrimerPaso, Entrada, Tipo
  <2>3. QED
    BY <2>1, <2>2 DEF Llega, Ir, ParDe, TieneFila, tablas, TypeOK
<1>3. ASSUME NEW p \in Peticion, Manejador(p)  PROVE FilaHallada'
  <2>1. SoloDe(p)
    BY <1>3, Ajenos
  <2>2. ASSUME NEW q \in Peticion, q # p, pc'[q] = "agr_reactivar"
        PROVE  TieneFila(ParDe(q))'
    BY <1>1, <2>1, <2>2, Quedan DEF SoloDe, ParDe
  <2>3. ASSUME pc'[p] = "agr_reactivar"
        PROVE  TieneFila(ParDe(p))'
    <3>1. AgregarBuscar(p)
      BY <1>3, <2>3
      DEF Manejador, ListarGrupos, ListarMiembros, CrearGrupo, FilaGrupo, CrearLider,
          ActualizarGrupo, EliminarGrupo, AgregarReactivar, AgregarInsertar,
          QuitarMiembro, Responder, Ir, TypeOK
    <3>2. QED
      BY <2>3, <3>1 DEF AgregarBuscar, Encontrado, ParDe, TieneFila, tablas, Ir, TypeOK
  <2>4. QED
    BY <2>2, <2>3
<1>4. CASE (\E p \in Peticion : Falla(p)) \/ Caida \/ UNCHANGED vars
  BY <1>4 DEF Falla, Caida, vars, tablas, Ir, ParDe, TieneFila, TypeOK
<1>5. QED
  BY <1>2, <1>3, <1>4 DEF Next, Descansa

\* Each request that arrives is one more.
LEMMA EnCursoFinitoInductivo ==
  ASSUME TypeOK, EnCursoFinito, [Next]_vars
  PROVE  EnCursoFinito'
<1> DEFINE Activas == {p \in Peticion : EnCurso(p)}
<1>1. ASSUME NEW p \in Peticion, Activas' \subseteq Activas \cup {p}
      PROVE  EnCursoFinito'
  <2>1. IsFiniteSet(Activas \cup {p})
    BY FS_AddElement DEF EnCursoFinito
  <2>2. IsFiniteSet(Activas')
    BY <1>1, <2>1, FS_Subset
  <2>3. QED
    BY <2>2 DEF EnCursoFinito
<1>2. ASSUME Activas' \subseteq Activas
      PROVE  EnCursoFinito'
  BY <1>2, FS_Subset DEF EnCursoFinito
<1>3. ASSUME NEW p \in Peticion, LlegaAlguna(p)  PROVE EnCursoFinito'
  <2>1. Activas' \subseteq Activas \cup {p}
    BY <1>3, LlegaReal DEF Llega, Ir, EnCurso, TypeOK
  <2>2. QED
    BY <1>1, <2>1
<1>4. ASSUME NEW p \in Peticion, Manejador(p)  PROVE EnCursoFinito'
  <2>1. Activas' \subseteq Activas \cup {p}
    BY <1>4, Ajenos DEF SoloDe, EnCurso
  <2>2. QED
    BY <1>1, <2>1
<1>5. CASE (\E p \in Peticion : Falla(p)) \/ Caida \/ UNCHANGED vars
  <2>1. Activas' \subseteq Activas
    BY <1>5 DEF Falla, Caida, vars, EnCurso, PasoDe, Ir, TypeOK
  <2>2. QED
    BY <1>2, <2>1
<1>6. QED
  BY <1>3, <1>4, <1>5 DEF Next, Descansa

\* A finite set with two elements has more than one.
LEMMA Dos ==
  ASSUME NEW S, IsFiniteSet(S), NEW a \in S, NEW b \in S, a # b
  PROVE  Cardinality(S) > 1
<1>1. /\ IsFiniteSet({a}) /\ Cardinality({a}) = 1
  BY FS_Singleton
<1>2. Cardinality({a, b}) = 2
  <2>1. Cardinality({a} \cup {b}) = 2
    BY <1>1, FS_AddElement
  <2>2. {a} \cup {b} = {a, b}
    OBVIOUS
  <2>3. QED
    BY <2>1, <2>2
<1>3. Cardinality({a, b}) <= Cardinality(S)
  BY FS_Subset
<1>4. Cardinality(S) \in Nat
  BY FS_CardinalityType
<1>5. QED
  BY <1>2, <1>3, <1>4

\* Who comes to insert a row found none, and is noted beside any other that
\* came; who inserts it leaves the others noted.
LEMMA CrucesInductivos ==
  ASSUME TypeOK, TypeOK', GrupoNuevo, EnCursoFinito', Cruces, [Next]_vars
  PROVE  Cruces'
<1> DEFINE Bien(m) ==
        /\ \A p, q \in Insertando(m) : p = q \/ m \in cruce
        /\ \A p \in Insertando(m) : TieneFila(m) => m \in cruce
<1> SUFFICES ASSUME NEW m \in Par  PROVE Bien(m)'
  BY DEF Cruces
<1>1. Bien(m)
  BY DEF Cruces
<1> HIDE DEF Bien
<1>2. ASSUME Insertando(m)' \subseteq Insertando(m), UNCHANGED <<filas, cruce>>
      PROVE  Bien(m)'
  BY <1>1, <1>2 DEF Bien, TieneFila
<1>3. ASSUME NEW p \in Peticion, LlegaAlguna(p)  PROVE Bien(m)'
  <2>1. PICK e \in Entrada : e.tipo # "" /\ Llega(p, e)
    BY <1>3, LlegaReal
  <2>2. PrimerPaso(e.tipo) \notin {"agr_insertar", "cre_lider"}
    BY <2>1 DEF PrimerPaso, Entrada, Tipo
  <2>3. Insertando(m)' \subseteq Insertando(m) /\ UNCHANGED <<filas, cruce>>
    BY <2>1, <2>2 DEF Llega, Ir, Insertando, tablas, TypeOK
  <2>4. QED
    BY <1>2, <2>3
<1>4. ASSUME NEW p \in Peticion, Manejador(p)  PROVE Bien(m)'
  <2>1. /\ SoloDe(p) /\ cruce \subseteq cruce'
        /\ \A q \in Peticion : q # p => (q \in Insertando(m)' <=> q \in Insertando(m))
    BY <1>4, Ajenos DEF SoloDe, Insertando
  <2>2. ASSUME Cruza
        PROVE  \A q, r \in Insertando(m)' : q = r \/ m \in cruce'
    <3> SUFFICES ASSUME NEW q \in Insertando(m)', NEW r \in Insertando(m)', q # r
                 PROVE  m \in cruce'
      OBVIOUS
    <3>1. IsFiniteSet(Insertando(m)')
      <4>1. Insertando(m)' \subseteq {s \in Peticion : EnCurso(s)'}
        BY DEF Insertando, EnCurso, PasoDe
      <4>2. QED
        BY <4>1, FS_Subset DEF EnCursoFinito
    <3>2. Cardinality(Insertando(m)') > 1
      BY <3>1, Dos
    <3>3. QED
      BY <2>2, <3>2 DEF Cruza
  <2>3. CASE p \notin Insertando(m)'
    <3>1. \A q \in Insertando(m)' : q \in Insertando(m) /\ q # p
      BY <2>1, <2>3 DEF Insertando
    <3>2. ASSUME NEW q \in Insertando(m)', TieneFila(m)'
          PROVE  m \in cruce'
      <4>1. CASE TieneFila(m)
        BY <1>1, <2>1, <3>1, <4>1 DEF Bien
      <4>2. CASE ~TieneFila(m)
        <5>1. Total(filas'[m]) # Total(filas[m])
          BY <3>2, <4>2, FilasEfecto DEF TieneFila, Total
        <5>2. p \in Insertando(m)
          BY <1>4, <5>1, FilasPaso DEF Insertando, ParDe
        <5>3. QED
          BY <1>1, <2>1, <3>1, <5>2 DEF Bien
      <4>3. QED
        BY <4>1, <4>2
    <3>3. QED
      BY <1>1, <2>1, <3>1, <3>2 DEF Bien
  <2>4. CASE p \in Insertando(m)'
    <3>1. UNCHANGED filas /\ Cruza /\ ~TieneFila(m)
      <4>1. CASE CrearGrupo(p)
        <5>1. PICK g \in Grupo : ~Existe(g) /\ ent'[p].grupo = g
                                 /\ ent'[p].quien = ent[p].quien
          BY <4>1, CrearGrupoEfecto
        <5>2. m = <<g, ent[p].quien>> /\ ent[p].quien \in Usuario
          BY <2>4, <5>1 DEF Insertando, TypeOK
        <5>3. QED
          BY <4>1, <5>1, <5>2 DEF CrearGrupo, FilaGrupo, GrupoNuevo
      <4>2. CASE AgregarBuscar(p)
        BY <2>4, <4>2 DEF AgregarBuscar, Insertando, Encontrado, tablas, Ir, TypeOK
      <4>3. QED
        BY <1>4, <2>4, <4>1, <4>2
        DEF Manejador, ListarGrupos, ListarMiembros, CrearLider, ActualizarGrupo,
            EliminarGrupo, AgregarReactivar, AgregarInsertar, QuitarMiembro,
            Responder, Ir, TypeOK, Insertando
    <3>2. ~TieneFila(m)'
      BY <3>1 DEF TieneFila
    <3>3. QED
      BY <2>2, <3>1, <3>2 DEF Bien
  <2>5. QED
    BY <2>3, <2>4
<1>5. CASE (\E p \in Peticion : Falla(p)) \/ Caida \/ UNCHANGED vars
  <2>1. Insertando(m)' \subseteq Insertando(m) /\ UNCHANGED <<filas, cruce>>
    BY <1>5 DEF Falla, Caida, vars, tablas, Insertando, Ir, TypeOK
  <2>2. QED
    BY <1>2, <2>1
<1>6. QED
  BY <1>3, <1>4, <1>5 DEF Next, Descansa

\* A second row comes only from an insertion that found a first one there.
LEMMA UnaFilaInductiva ==
  ASSUME TypeOK, TypeOK', Cruces, UnaFila, [Next]_vars
  PROVE  UnaFila'
<1> SUFFICES ASSUME NEW m \in Par, Total(filas'[m]) > 1
             PROVE  ~unica' /\ m \in cruce'
  BY DEF UnaFila
<1>1. unica' = unica /\ cruce \subseteq cruce'
  BY Quedan
<1>2. CASE Total(filas'[m]) = Total(filas[m])
  BY <1>1, <1>2 DEF UnaFila
<1>3. ASSUME NEW p \in Peticion, Manejador(p), Total(filas'[m]) # Total(filas[m])
      PROVE  ~unica' /\ m \in cruce'
  <2>1. /\ Total(filas'[m]) = Total(filas[m]) + 1
        /\ p \in Insertando(m) /\ ~(unica /\ TieneFila(m))
    BY <1>3, FilasPaso DEF Insertando, ParDe
  <2>2. TieneFila(m)
    BY <2>1, FilasEfecto
  <2>3. QED
    BY <1>1, <2>1, <2>2 DEF Cruces
<1>4. (\E p \in Peticion : Manejador(p)) \/ UNCHANGED filas
  BY LlegaReal DEF Next, Llega, Falla, Caida, Descansa, vars, tablas
<1>5. QED
  BY <1>2, <1>3, <1>4

\* The list gathers only members of the time it was read, and leaves out none
\* that was listable all that time.
LEMMA LecturaInductiva ==
  ASSUME TypeOK, TypeOK', PasoPropio, Lectura, [Next]_vars
  PROVE  Lectura'
<1> DEFINE Bien(q) ==
        /\ listado[q] \subseteq alguna[q]
        /\ \A m \in siempre[q] : Listable(m)
        /\ pc[q] = "libre" => listado[q] = {}
        /\ pc[q] \in {"lis_grupos", "lis_miembros"} => Miembros \subseteq alguna[q]
        /\ pc[q] = "lis_miembros" =>
              \A m \in siempre[q] : m \in listado[q] \/ m[1] \in porLeer[q]
        /\ ent[q].tipo = "listar" /\ pc[q] \in {"responder", "fin"}
              => siempre[q] \subseteq listado[q]
<1> SUFFICES ASSUME NEW q \in Peticion  PROVE Bien(q)'
  BY DEF Lectura
<1>1. Bien(q)
  BY DEF Lectura
<1>2. UNCHANGED tablas => Miembros' = Miembros /\ \A m \in Par : Listable(m)' = Listable(m)
  BY DEF tablas, Miembros, Listable, Visible
<1>3. siempre[q] \subseteq Par /\ siempre'[q] \subseteq Par
  BY DEF TypeOK
<1>4. ASSUME NEW p \in Peticion, LlegaAlguna(p)  PROVE Bien(q)'
  <2>1. PICK e \in Entrada :
            /\ e.tipo # "" /\ Llega(p, e)
            /\ IF e.tipo = "listar"
               THEN /\ alguna' = [alguna EXCEPT ![p] = Miembros]
                    /\ siempre' = [siempre EXCEPT ![p] = {m \in Par : Listable(m)}]
               ELSE UNCHANGED <<alguna, siempre>>
    BY <1>4, LlegaReal
  <2>2. /\ UNCHANGED <<tablas, porLeer, listado>> /\ pc[p] = "libre"
        /\ pc' = [pc EXCEPT ![p] = PrimerPaso(e.tipo)]
        /\ ent' = [ent EXCEPT ![p] = e]
    BY <2>1 DEF Llega, Ir
  <2>3. CASE q # p
    <3>1. /\ pc'[q] = pc[q] /\ ent'[q] = ent[q] /\ alguna'[q] = alguna[q]
          /\ siempre'[q] = siempre[q]
      BY <2>1, <2>2, <2>3 DEF TypeOK
    <3>2. QED
      BY <1>1, <1>2, <1>3, <2>2, <3>1
  <2>4. CASE q = p /\ e.tipo = "listar"
    <3>1. /\ pc'[q] = "lis_grupos" /\ alguna'[q] = Miembros /\ listado'[q] = {}
          /\ siempre'[q] = {m \in Par : Listable(m)}
      BY <1>1, <2>1, <2>2, <2>4 DEF PrimerPaso, TypeOK
    <3>2. QED
      BY <1>2, <2>2, <3>1
  <2>5. CASE q = p /\ e.tipo # "listar"
    <3>1. /\ pc'[q] \notin {"lis_grupos", "lis_miembros", "libre"}
          /\ ent'[q].tipo # "listar" /\ UNCHANGED <<alguna, siempre>>
      BY <2>1, <2>2, <2>5 DEF PrimerPaso, Entrada, Tipo, TypeOK
    <3>2. QED
      BY <1>1, <1>2, <1>3, <2>2, <3>1
  <2>6. QED
    BY <2>3, <2>4, <2>5
<1>5. ASSUME NEW p \in Peticion, Manejador(p)  PROVE Bien(q)'
  <2>1. SoloDe(p) /\ ent'[p].tipo = ent[p].tipo /\ pc[p] \in PasoDe
    BY <1>5, Ajenos
  <2>2. \A r \in Peticion : ent'[r].tipo = ent[r].tipo
    BY <2>1 DEF SoloDe
  <2>3. CASE ListarGrupos(p)
    <3>1. UNCHANGED <<tablas, listado, alguna, siempre>>
      BY <2>3 DEF ListarGrupos
    <3>2. CASE q = p
      <4>1. porLeer'[p] = {g \in Grupo : Visible(g)} /\ pc'[p] = "lis_miembros"
            /\ pc[p] = "lis_grupos"
        BY <2>3 DEF ListarGrupos, Ir, TypeOK
      <4>2. \A m \in siempre[q] : m[1] \in porLeer'[q]
        BY <1>1, <1>3, <3>2, <4>1 DEF Listable, Par
      <4>3. QED
        BY <1>1, <1>2, <1>3, <3>1, <3>2, <4>1, <4>2
    <3>3. CASE q # p
      BY <1>1, <1>2, <1>3, <2>1, <3>1, <3>3 DEF SoloDe
    <3>4. QED
      BY <3>2, <3>3
  <2>4. CASE ListarMiembros(p)
    <3>1. UNCHANGED <<tablas, alguna, siempre>> /\ pc[p] = "lis_miembros"
      BY <2>4 DEF ListarMiembros
    <3>2. CASE q = p
      <4>1. CASE \E g \in porLeer[p] :
               /\ listado' = [listado EXCEPT ![p] = listado[p] \cup MiembrosLeidos(g)]
               /\ porLeer' = [porLeer EXCEPT ![p] = porLeer[p] \ {g}]
               /\ UNCHANGED pc
        <5>1. PICK g \in porLeer[p] :
               /\ listado' = [listado EXCEPT ![p] = listado[p] \cup MiembrosLeidos(g)]
               /\ porLeer' = [porLeer EXCEPT ![p] = porLeer[p] \ {g}]
               /\ UNCHANGED pc
          BY <4>1
        <5>2. /\ listado'[p] = listado[p] \cup MiembrosLeidos(g)
              /\ porLeer'[p] = porLeer[p] \ {g}
          BY <5>1 DEF TypeOK
        <5>3. MiembrosLeidos(g) \subseteq Miembros
          BY DEF MiembrosLeidos
        <5>4. \A m \in siempre[p] : m[1] = g => m \in MiembrosLeidos(g)
          BY <1>1, <3>2 DEF Listable, MiembrosLeidos
        <5>5. QED
          BY <1>1, <1>2, <1>3, <2>2, <3>1, <3>2, <5>1, <5>2, <5>3, <5>4
      <4>2. CASE porLeer[p] = {} /\ Ir(p, "responder") /\ UNCHANGED <<porLeer, listado>>
        <5>1. pc'[p] = "responder"
          BY <4>2 DEF Ir, TypeOK
        <5>2. QED
          BY <1>1, <1>2, <1>3, <2>2, <3>1, <3>2, <4>2, <5>1
      <4>3. QED
        BY <2>4, <4>1, <4>2 DEF ListarMiembros
    <3>3. CASE q # p
      BY <1>1, <1>2, <1>3, <2>1, <3>1, <3>3 DEF SoloDe
    <3>4. QED
      BY <3>2, <3>3
  <2>5. CASE ~ListarGrupos(p) /\ ~ListarMiembros(p)
    <3>1. /\ UNCHANGED listado /\ UNCHANGED porLeer
          /\ Anota \/ UNCHANGED <<tablas, alguna, siempre>>
      BY <1>5, <2>5
      DEF Manejador, CrearGrupo, FilaGrupo, CrearLider, ActualizarGrupo, EliminarGrupo,
          AgregarBuscar, AgregarReactivar, AgregarInsertar, QuitarMiembro,
          Responder, lectura
    <3>2. q = p => /\ pc[p] \notin {"lis_grupos", "lis_miembros", "libre", "fin"}
                   /\ pc'[p] \notin {"lis_grupos", "lis_miembros", "libre"}
                   /\ ent[p].tipo = "listar" => pc[p] = "responder"
      BY <1>5, <2>5
      DEF Manejador, CrearGrupo, FilaGrupo, CrearLider, ActualizarGrupo, EliminarGrupo,
          AgregarBuscar, AgregarReactivar, AgregarInsertar, QuitarMiembro,
          Responder, PasoPropio, Ir, TypeOK
    <3>3. q # p => pc'[q] = pc[q]
      BY <2>1 DEF SoloDe
    <3>4. CASE UNCHANGED <<tablas, alguna, siempre>>
      BY <1>1, <1>2, <1>3, <2>2, <3>1, <3>2, <3>3, <3>4
    <3>5. CASE Anota
      <4>1. /\ alguna[q] \subseteq alguna'[q] /\ siempre'[q] \subseteq siempre[q]
            /\ \A m \in siempre'[q] : Listable(m)'
            /\ pc[q] \in {"lis_grupos", "lis_miembros"} => Miembros' \subseteq alguna'[q]
        BY <3>5 DEF Anota
      <4>2. QED
        BY <1>1, <2>2, <3>1, <3>2, <3>3, <4>1
    <3>6. QED
      BY <3>1, <3>4, <3>5
  <2>6. QED
    BY <2>3, <2>4, <2>5
<1>6. CASE (\E p \in Peticion : Falla(p)) \/ Caida \/ UNCHANGED vars
  <2>1. /\ UNCHANGED <<tablas, ent, listado, porLeer, alguna, siempre>>
        /\ pc'[q] = pc[q] \/ pc'[q] \in {"fallo", "caida"}
    BY <1>6 DEF Falla, Caida, vars, tablas, lectura, Ir, TypeOK
  <2>2. QED
    BY <1>1, <1>2, <1>3, <2>1
<1>7. QED
  BY <1>4, <1>5, <1>6 DEF Next, Descansa

LEMMA InvInicial == Init => IInv
<1> SUFFICES ASSUME Init  PROVE IInv
  OBVIOUS
<1>1. TypeOK
  BY TipoInicial
<1>2. PasoPropio /\ FilaHallada /\ Lectura
  BY DEF Init, PasoPropio, FilaHallada, Lectura
<1>3. Cruces
  BY DEF Init, Cruces, Insertando
<1>f. ASSUME NEW m \in Par
      PROVE  filas[m] = [activas |-> IF m[1] \in DOMAIN LiderPrevio /\ m[2] = LiderPrevio[m[1]]
                                     THEN 1 ELSE 0,
                         inactivas |-> 0]
  BY DEF Init
<1>4. GrupoNuevo
  <2>1. ASSUME NEW g \in Grupo, ~Existe(g), NEW u \in Usuario
        PROVE  ~TieneFila(<<g, u>>)
    <3>1. g \notin DOMAIN LiderPrevio
      BY <2>1 DEF Init, Existe
    <3>2. <<g, u>> \in Par /\ <<g, u>>[1] = g
      BY DEF Par
    <3>3. filas[<<g, u>>] = [activas |-> 0, inactivas |-> 0]
      BY <1>f, <3>1, <3>2
    <3>4. QED
      BY <3>3 DEF TieneFila
  <2>2. \A p \in Peticion : pc[p] = "libre"
    BY DEF Init
  <2>3. QED
    BY <2>1, <2>2 DEF GrupoNuevo
<1>5. EnCursoFinito
  <2>1. {p \in Peticion : EnCurso(p)} = {}
    BY DEF Init, EnCurso, PasoDe
  <2>2. QED
    BY <2>1, FS_EmptySet DEF EnCursoFinito
<1>6. UnaFila
  <2>1. ASSUME NEW m \in Par  PROVE ~(Total(filas[m]) > 1)
    <3>1. \/ filas[m] = [activas |-> 1, inactivas |-> 0]
          \/ filas[m] = [activas |-> 0, inactivas |-> 0]
      BY <1>f
    <3>2. QED
      BY <3>1 DEF Total
  <2>2. QED
    BY <2>1 DEF UnaFila
<1>7. QED
  BY <1>1, <1>2, <1>3, <1>4, <1>5, <1>6 DEF IInv

LEMMA InvInductivo == IInv /\ [Next]_vars => IInv'
<1> SUFFICES ASSUME IInv, [Next]_vars  PROVE IInv'
  OBVIOUS
<1>1. TypeOK' /\ EnCursoFinito'
  BY TipoInductivo, EnCursoFinitoInductivo DEF IInv
<1>2. QED
  BY <1>1, PasoPropioInductivo, GrupoNuevoInductivo, FilaHalladaInductiva,
     CrucesInductivos, UnaFilaInductiva, LecturaInductiva DEF IInv

LEMMA Invariante == Spec => []IInv
  BY InvInicial, InvInductivo, PTL DEF Spec

\* A user has more than one row in a group only without a unique constraint,
\* and where two requests were about to insert the first.
THEOREM UnaFilaSiempre == Spec => []UnaFila
<1>1. IInv => UnaFila
  BY DEF IInv
<1>2. QED
  BY <1>1, Invariante, PTL

\* A list of the groups gives only members of the time it was read, and all
\* of those who were members of an active group all that time.
THEOREM ListadoFielSiempre == Spec => []ListadoFiel
<1>1. IInv => ListadoFiel
  BY DEF IInv, Lectura, ListadoFiel
<1>2. QED
  BY <1>1, Invariante, PTL

-----------------------------------------------------------------------------
(***************************************************************************)
(* Requests about members are atomic: every step maps to a step of         *)
(* GruposAbstracto or changes nothing that it sees.                        *)
(***************************************************************************)
Filados == {m \in Par : TieneFila(m)}

Ordenes == [p \in Peticion |-> [que |-> Que(ent[p].tipo), par |-> ParDe(p)]]

Alcances == [p \in Peticion |-> Alcance(pc[p])]

\* What Alcance makes of the steps.
LEMMA AlcancePasos ==
  /\ \A s \in PasoDe \ {"cre_lider", "responder"} : Alcance(s) = "pendiente"
  /\ Alcance("libre") = "libre" /\ Alcance("fin") = "si"
  /\ Alcance("fallo") = "no" /\ Alcance("caida") = "no"
  /\ Alcance("cre_lider") = "fundado" /\ Alcance("responder") = "aplicada"
  BY DEF Alcance, PasoDe

\* What Que makes of the kinds.
LEMMA QueTipos ==
  /\ Que("agregar") = "agregar" /\ Que("quitar") = "quitar" /\ Que("crear") = "fundar"
  /\ \A t \in Tipo \ {"agregar", "quitar", "crear"} : Que(t) = "nada"
  BY DEF Que, Tipo

\* The abstract state is of the variables filas, ent and pc.
LEMMA Vista ==
  /\ UNCHANGED filas => Miembros' = Miembros /\ Filados' = Filados
  /\ UNCHANGED ent => Ordenes' = Ordenes
  /\ UNCHANGED pc => Alcances' = Alcances
  BY DEF Miembros, Filados, TieneFila, Ordenes, ParDe, Alcances

\* A step of one request is a step of it alone.
LEMMA AlcanceIr ==
  ASSUME TypeOK, NEW p \in Peticion, NEW paso, Ir(p, paso)
  PROVE  Alcances' = [Alcances EXCEPT ![p] = Alcance(paso)]
<1>1. \A q \in Peticion : pc'[q] = IF q = p THEN paso ELSE pc[q]
  BY DEF Ir, TypeOK
<1>2. \A q \in Peticion : Alcance(pc'[q]) = IF q = p THEN Alcance(paso) ELSE Alcances[q]
  BY <1>1 DEF Alcances
<1>3. QED
  BY <1>2 DEF Alcances

\* Inserting a row of a pair, or giving one back, makes it a member.
LEMMA MiembrosMas ==
  ASSUME TypeOK, NEW m \in Par, Inserta(m) \/ (Reactiva(m) /\ TieneFila(m))
  PROVE  Miembros' = Miembros \cup {m} /\ Filados' = Filados \cup {m}
<1>1. /\ filas'[m].activas > 0 /\ filas'[m].activas + filas'[m].inactivas > 0
      /\ \A n \in Par : n # m => filas'[n] = filas[n]
  <2>1. filas[m].activas \in Nat /\ filas[m].inactivas \in Nat
    BY DEF TypeOK
  <2>2. CASE Inserta(m)
    <3>1. filas'[m] = [filas[m] EXCEPT !.activas = filas[m].activas + 1]
          /\ filas[m] \in [activas: Nat, inactivas: Nat]
      BY <2>2 DEF Inserta, TypeOK
    <3>2. /\ filas'[m].activas = filas[m].activas + 1
          /\ filas'[m].inactivas = filas[m].inactivas
      BY <3>1
    <3>3. QED
      BY <2>1, <2>2, <3>2, FilasEfecto
  <2>3. CASE Reactiva(m) /\ TieneFila(m)
    <3>1. filas'[m] = [activas |-> Total(filas[m]), inactivas |-> 0]
      BY <2>3 DEF Reactiva, TypeOK
    <3>2. filas'[m].activas = Total(filas[m]) /\ filas'[m].inactivas = 0
      BY <3>1
    <3>3. QED
      BY <2>1, <2>3, <3>2, FilasEfecto DEF Total, TieneFila
  <2>4. QED
    BY <2>2, <2>3
<1>2. \A n \in Par : (filas'[n].activas > 0) <=> (n = m \/ filas[n].activas > 0)
  BY <1>1
<1>3. \A n \in Par : (filas'[n].activas + filas'[n].inactivas > 0)
                        <=> (n = m \/ filas[n].activas + filas[n].inactivas > 0)
  BY <1>1
<1>4. QED
  BY <1>2, <1>3 DEF Miembros, Filados, TieneFila

\* Taking a member out leaves its rows.
LEMMA MiembrosMenos ==
  ASSUME TypeOK, NEW m \in Par, Desactiva(m), m \in Miembros
  PROVE  Miembros' = Miembros \ {m} /\ Filados' = Filados
<1>1. filas[m].activas \in Nat /\ filas[m].inactivas \in Nat /\ filas[m].activas > 0
  BY DEF TypeOK, Miembros
<1>2. filas'[m] = [activas |-> 0, inactivas |-> Total(filas[m])]
  BY DEF Desactiva, TypeOK
<1>3. /\ filas'[m].activas = 0 /\ filas'[m].activas + filas'[m].inactivas > 0
      /\ filas[m].activas + filas[m].inactivas > 0
  BY <1>1, <1>2 DEF Total
<1>4. \A n \in Par : n # m => filas'[n] = filas[n]
  BY FilasEfecto
<1>5. \A n \in Par : (filas'[n].activas > 0) <=> (n # m /\ filas[n].activas > 0)
  BY <1>3, <1>4
<1>6. \A n \in Par : (filas'[n].activas + filas'[n].inactivas > 0)
                        <=> (filas[n].activas + filas[n].inactivas > 0)
  BY <1>3, <1>4
<1>7. QED
  BY <1>5, <1>6 DEF Miembros, Filados, TieneFila

\* What may be refused is refused at once.
LEMMA PasoNiega ==
  ASSUME TypeOK, NEW P \in SUBSET Peticion, P # {}, \A q \in P : EnCurso(q),
         UNCHANGED <<filas, ent>>,
         \A q \in Peticion : IF q \in P THEN pc'[q] \in {"fallo", "caida"}
                                        ELSE pc'[q] = pc[q]
  PROVE  Abstracto!Niega(P)
<1>1. \A q \in P : Alcances[q] \in {"pendiente", "fundado", "aplicada"}
  BY AlcancePasos DEF EnCurso, Alcances
<1>2. \A q \in Peticion : Alcance(pc'[q]) = IF q \in P THEN "no" ELSE Alcances[q]
  BY AlcancePasos DEF Alcances
<1>3. Alcances' = [q \in Peticion |-> IF q \in P THEN "no" ELSE Alcances[q]]
  BY <1>2 DEF Alcances
<1>4. Miembros' = Miembros /\ Filados' = Filados /\ Ordenes' = Ordenes
  BY Vista
<1>5. QED
  BY <1>1, <1>3, <1>4 DEF Abstracto!Niega, Alcances, Filados, Ordenes, ParDe

\* An arrival is Pide.
LEMMA LlegadaPide ==
  ASSUME TypeOK, NEW p \in Peticion, LlegaAlguna(p)
  PROVE  Abstracto!Pide(p)
<1>1. PICK e \in Entrada : e.tipo # "" /\ Llega(p, e)
  BY LlegaReal
<1>2. /\ pc[p] = "libre" /\ Ir(p, PrimerPaso(e.tipo))
      /\ ent' = [ent EXCEPT ![p] = e] /\ UNCHANGED filas
  BY <1>1 DEF Llega, tablas
<1> DEFINE o == [que |-> Que(e.tipo), par |-> <<e.grupo, e.quien>>]
<1>3. o \in Abstracto!Orden
  <2>1. e.tipo \in Tipo /\ e.grupo \in Grupo /\ e.quien \in Usuario
    BY DEF Entrada
  <2>2. Que(e.tipo) \in {"nada", "agregar", "quitar", "fundar"}
    BY <2>1, QueTipos
  <2>3. QED
    BY <2>1, <2>2 DEF Abstracto!Orden, Abstracto!Par
<1>4. Ordenes' = [Ordenes EXCEPT ![p] = o]
  <2>1. \A q \in Peticion : ent'[q] = IF q = p THEN e ELSE ent[q]
    BY <1>2 DEF TypeOK
  <2>2. \A q \in Peticion : [que |-> Que(ent'[q].tipo), par |-> <<ent'[q].grupo, ent'[q].quien>>]
                              = IF q = p THEN o ELSE Ordenes[q]
    BY <2>1 DEF Ordenes, ParDe
  <2>3. QED
    BY <2>2 DEF Ordenes, ParDe
<1>5. Alcances[p] = "libre" /\ Alcances' = [Alcances EXCEPT ![p] = "pendiente"]
  <2>1. PrimerPaso(e.tipo) \in PasoDe \ {"cre_lider", "responder"}
    BY <1>1 DEF PrimerPaso, PasoDe, Entrada, Tipo
  <2>2. QED
    BY <1>2, <2>1, AlcanceIr, AlcancePasos DEF Alcances
<1>6. Miembros' = Miembros /\ Filados' = Filados
  BY <1>2, Vista
<1>7. QED
  BY <1>3, <1>4, <1>5, <1>6 DEF Abstracto!Pide, Alcances, Filados, Ordenes, ParDe

\* The one effect of p, when its row is written or found.
LEMMA PasoEfecto ==
  ASSUME TypeOK, NEW p \in Peticion, NEW de, NEW a, NEW paso,
         Alcance(pc[p]) = de, Ir(p, paso), Alcance(paso) = a, UNCHANGED ent
  PROVE  Abstracto!Efecto(p, de, a)
<1>1. Alcances[p] = de /\ Alcances' = [Alcances EXCEPT ![p] = a]
  BY AlcanceIr DEF Alcances
<1>2. Ordenes' = Ordenes
  BY Vista
<1>3. QED
  BY <1>1, <1>2 DEF Abstracto!Efecto, Alcances, Ordenes, ParDe

\* A step of a request that fails is Niega of that request.
LEMMA PasoFalla ==
  ASSUME TypeOK, NEW p \in Peticion, EnCurso(p), Ir(p, "fallo"), UNCHANGED <<filas, ent>>
  PROVE  \E P \in SUBSET Peticion : Abstracto!Niega(P)
<1>1. \A q \in Peticion : IF q \in {p} THEN pc'[q] \in {"fallo", "caida"} ELSE pc'[q] = pc[q]
  BY DEF Ir, TypeOK
<1>2. QED
  BY <1>1, PasoNiega

\* A statement that changes no members.
LEMMA PasoNada ==
  ASSUME TypeOK, NEW p \in Peticion, ent[p].tipo \in Tipo \ {"agregar", "quitar", "crear"},
         pc[p] \in PasoDe \ {"cre_lider", "responder"}, Ir(p, "responder"),
         UNCHANGED <<filas, ent>>
  PROVE  Abstracto!Nada(p)
<1>1. Abstracto!Efecto(p, "pendiente", "aplicada")
  BY PasoEfecto, AlcancePasos
<1>2. Ordenes[p].que = "nada"
  BY QueTipos DEF Ordenes
<1>3. QED
  BY <1>1, <1>2, Vista DEF Abstracto!Nada, Ordenes, Filados, ParDe

\* The abstract step of every step of a request.
PasoAbstracto ==
    \/ Abstracto!Next
    \/ UNCHANGED Abstracto!vars

\* Nothing that GruposAbstracto sees changes.
LEMMA PasoMudo ==
  ASSUME TypeOK, NEW p \in Peticion, NEW paso, UNCHANGED <<filas, ent>>,
         UNCHANGED pc \/ (Ir(p, paso) /\ Alcance(paso) = Alcance(pc[p]))
  PROVE  UNCHANGED Abstracto!vars
<1>1. Alcances' = Alcances
  <2>1. CASE UNCHANGED pc
    BY <2>1, Vista
  <2>2. CASE Ir(p, paso) /\ Alcance(paso) = Alcance(pc[p])
    BY <2>2, AlcanceIr DEF Alcances
  <2>3. QED
    BY <2>1, <2>2
<1>2. QED
  BY <1>1, Vista DEF Abstracto!vars, Alcances, Ordenes, Filados, ParDe

LEMMA ManejadorAbstracto ==
  ASSUME IInv, NEW p \in Peticion, Manejador(p)
  PROVE  PasoAbstracto
<1>1. /\ TypeOK /\ ParDe(p) \in Par /\ ent[p].tipo \in Tipo
      /\ Ordenes[p] = [que |-> Que(ent[p].tipo), par |-> ParDe(p)]
  BY DEF IInv, ParDe, Par, TypeOK, Ordenes
<1> DEFINE m == ParDe(p)
<1> USE AlcancePasos DEF PasoAbstracto, Abstracto!Next
<1>2. CASE ListarGrupos(p)
  <2>1. Ir(p, "lis_miembros") /\ UNCHANGED <<filas, ent>> /\ pc[p] = "lis_grupos"
    BY <1>2 DEF ListarGrupos, tablas
  <2>2. Alcance(pc[p]) = "pendiente" /\ Alcance("lis_miembros") = "pendiente"
    BY <2>1 DEF PasoDe
  <2>3. QED
    BY <1>1, <2>1, <2>2, PasoMudo
<1>3. CASE ListarMiembros(p)
  <2>1. /\ UNCHANGED <<filas, ent>> /\ pc[p] = "lis_miembros"
        /\ UNCHANGED pc \/ Ir(p, "responder")
    BY <1>3 DEF ListarMiembros, tablas
  <2>2. CASE UNCHANGED pc
    BY <1>1, <2>1, <2>2, PasoMudo
  <2>3. CASE Ir(p, "responder")
    <3>1. ent[p].tipo \in Tipo \ {"agregar", "quitar", "crear"}
      BY <1>1, <2>1 DEF IInv, PasoPropio
    <3>2. Abstracto!Nada(p)
      BY <1>1, <2>1, <2>3, <3>1, PasoNada DEF PasoDe
    <3>3. QED
      BY <3>2
  <2>4. QED
    BY <2>1, <2>2, <2>3
<1>4. CASE CrearGrupo(p)
  <2>1. PICK g \in Grupo : /\ ent'[p].grupo = g /\ ent'[p].tipo = ent[p].tipo
                           /\ ent'[p].quien = ent[p].quien
                           /\ \A q \in Peticion : q # p => ent'[q] = ent[q]
    BY <1>1, <1>4, CrearGrupoEfecto
  <2>2. pc[p] = "cre_grupo" /\ Ir(p, "cre_lider") /\ UNCHANGED filas
    BY <1>4 DEF CrearGrupo, FilaGrupo
  <2>3. Ordenes' = [Ordenes EXCEPT ![p].par = <<g, Ordenes[p].par[2]>>]
    <3>1. /\ [que |-> Que(ent'[p].tipo), par |-> <<ent'[p].grupo, ent'[p].quien>>]
                = [Ordenes[p] EXCEPT !.par = <<g, Ordenes[p].par[2]>>]
      BY <1>1, <2>1 DEF ParDe
    <3>2. \A q \in Peticion : q # p =>
             [que |-> Que(ent'[q].tipo), par |-> <<ent'[q].grupo, ent'[q].quien>>] = Ordenes[q]
      BY <2>1 DEF Ordenes, ParDe
    <3>3. QED
      BY <3>1, <3>2 DEF Ordenes, ParDe
  <2>4. Ordenes[p].que = "fundar"
    BY <1>1, <2>2, QueTipos DEF IInv, PasoPropio
  <2>5. Alcances[p] = "pendiente" /\ Alcances' = [Alcances EXCEPT ![p] = "fundado"]
    BY <1>1, <2>2, AlcanceIr DEF Alcances, PasoDe
  <2>6. Miembros' = Miembros /\ Filados' = Filados
    BY <2>2, Vista
  <2>7. Abstracto!Funda(p)
    BY <2>3, <2>4, <2>5, <2>6 DEF Abstracto!Funda, Alcances, Ordenes, Filados, ParDe
  <2>8. QED
    BY <2>7
<1>5. CASE CrearLider(p)
  <2>1. /\ pc[p] = "cre_lider" /\ Ir(p, "responder") /\ UNCHANGED ent
        /\ (TieneFila(m) /\ UNCHANGED filas) \/ Inserta(m)
    BY <1>5 DEF CrearLider, InsertaLider, ParDe
  <2>2. Ordenes[p].que = "fundar" /\ Ordenes[p].par = m
    BY <1>1, <2>1, QueTipos DEF IInv, PasoPropio
  <2>3. Abstracto!Efecto(p, "fundado", "aplicada")
    BY <1>1, <2>1, PasoEfecto
  <2>4. /\ Filados' = Filados \cup {m}
        /\ Miembros' = Miembros \cup {m} \/ (m \in Filados /\ Miembros' = Miembros)
    <3>1. CASE Inserta(m)
      BY <1>1, <3>1, MiembrosMas
    <3>2. CASE TieneFila(m) /\ UNCHANGED filas
      <4>1. m \in Filados
        BY <1>1, <3>2 DEF Filados
      <4>2. QED
        BY <3>2, <4>1, Vista
    <3>3. QED
      BY <2>1, <3>1, <3>2
  <2>5. Abstracto!Lidera(p)
    BY <2>2, <2>3, <2>4 DEF Abstracto!Lidera, Ordenes, Filados, ParDe
  <2>6. QED
    BY <2>5
<1>6. CASE ActualizarGrupo(p)
  <2>1. /\ pc[p] = "act_grupo"
        /\ Ir(p, "responder") \/ Ir(p, "fallo")
        /\ UNCHANGED <<filas, ent>>
    BY <1>6 DEF ActualizarGrupo, tablas
  <2>2. CASE Ir(p, "responder")
    <3>1. ent[p].tipo \in Tipo \ {"agregar", "quitar", "crear"}
      BY <1>1, <2>1 DEF IInv, PasoPropio
    <3>2. Abstracto!Nada(p)
      BY <1>1, <2>1, <2>2, <3>1, PasoNada DEF PasoDe
    <3>3. QED
      BY <3>2
  <2>3. CASE Ir(p, "fallo")
    BY <1>1, <2>1, <2>3, PasoFalla DEF EnCurso, PasoDe
  <2>4. QED
    BY <2>1, <2>2, <2>3
<1>7. CASE EliminarGrupo(p)
  <2>1. /\ pc[p] = "eli_grupo"
        /\ Ir(p, "responder") \/ Ir(p, "fallo")
        /\ UNCHANGED <<filas, ent>>
    BY <1>7 DEF EliminarGrupo
  <2>2. CASE Ir(p, "responder")
    <3>1. ent[p].tipo \in Tipo \ {"agregar", "quitar", "crear"}
      BY <1>1, <2>1 DEF IInv, PasoPropio
    <3>2. Abstracto!Nada(p)
      BY <1>1, <2>1, <2>2, <3>1, PasoNada DEF PasoDe
    <3>3. QED
      BY <3>2
  <2>3. CASE Ir(p, "fallo")
    BY <1>1, <2>1, <2>3, PasoFalla DEF EnCurso, PasoDe
  <2>4. QED
    BY <2>1, <2>2, <2>3
<1>8. CASE AgregarBuscar(p)
  <2>1. /\ pc[p] = "agr_buscar"
        /\ Ir(p, "agr_reactivar") \/ Ir(p, "agr_insertar")
        /\ UNCHANGED <<filas, ent>>
    BY <1>8 DEF AgregarBuscar, tablas
  <2>2. /\ Alcance(pc[p]) = "pendiente" /\ Alcance("agr_reactivar") = "pendiente"
        /\ Alcance("agr_insertar") = "pendiente"
    BY <2>1 DEF PasoDe
  <2>3. QED
    BY <1>1, <2>1, <2>2, PasoMudo
<1>9. CASE AgregarReactivar(p) \/ (AgregarInsertar(p) /\ Ir(p, "responder"))
  <2>1. /\ pc[p] \in {"agr_reactivar", "agr_insertar"} /\ Ir(p, "responder") /\ UNCHANGED ent
        /\ Inserta(m) \/ (Reactiva(m) /\ TieneFila(m))
    <3>1. CASE AgregarReactivar(p)
      BY <3>1 DEF AgregarReactivar, ParDe, IInv, FilaHallada
    <3>2. CASE AgregarInsertar(p) /\ Ir(p, "responder")
      BY <1>1, <3>2 DEF AgregarInsertar, ParDe, Ir, TypeOK
    <3>3. QED
      BY <1>9, <3>1, <3>2
  <2>2. Ordenes[p].que = "agregar" /\ Ordenes[p].par = m
    BY <1>1, <2>1, QueTipos DEF IInv, PasoPropio
  <2>3. Abstracto!Efecto(p, "pendiente", "aplicada")
    BY <1>1, <2>1, PasoEfecto DEF PasoDe
  <2>4. Miembros' = Miembros \cup {m} /\ Filados' = Filados \cup {m}
    BY <1>1, <2>1, MiembrosMas
  <2>5. Abstracto!Agrega(p)
    BY <2>2, <2>3, <2>4 DEF Abstracto!Agrega, Ordenes, Filados, ParDe
  <2>6. QED
    BY <2>5
<1>10. CASE QuitarMiembro(p) /\ Ir(p, "responder")
  <2>1. /\ pc[p] = "qui_miembro" /\ UNCHANGED ent /\ m \in Miembros /\ Desactiva(m)
    BY <1>1, <1>10 DEF QuitarMiembro, ParDe, Ir, TypeOK
  <2>2. Ordenes[p].que = "quitar" /\ Ordenes[p].par = m
    BY <1>1, <2>1, QueTipos DEF IInv, PasoPropio
  <2>3. Abstracto!Efecto(p, "pendiente", "aplicada")
    BY <1>1, <1>10, <2>1, PasoEfecto DEF PasoDe
  <2>4. Miembros' = Miembros \ {m} /\ Filados' = Filados
    BY <1>1, <2>1, MiembrosMenos
  <2>5. Abstracto!Quita(p)
    BY <2>1, <2>2, <2>3, <2>4 DEF Abstracto!Quita, Ordenes, Filados, ParDe
  <2>6. QED
    BY <2>5
<1>11. CASE (AgregarInsertar(p) \/ QuitarMiembro(p)) /\ ~Ir(p, "responder")
  <2>1. EnCurso(p) /\ Ir(p, "fallo") /\ UNCHANGED <<filas, ent>>
    BY <1>11 DEF AgregarInsertar, QuitarMiembro, EnCurso, PasoDe
  <2>2. QED
    BY <1>1, <2>1, PasoFalla
<1>12. CASE Responder(p)
  <2>1. pc[p] = "responder" /\ Ir(p, "fin") /\ UNCHANGED <<filas, ent>>
    BY <1>12 DEF Responder, tablas
  <2>2. Alcances[p] = "aplicada" /\ Alcances' = [Alcances EXCEPT ![p] = "si"]
    BY <1>1, <2>1, AlcanceIr DEF Alcances
  <2>3. Abstracto!Responde(p)
    BY <2>1, <2>2, Vista DEF Abstracto!Responde, Alcances, Ordenes, Filados, ParDe
  <2>4. QED
    BY <2>3
<1>13. QED
  BY <1>2, <1>3, <1>4, <1>5, <1>6, <1>7, <1>8, <1>9, <1>10, <1>11, <1>12 DEF Manejador

LEMMA InicioAbstracto == Init => Abstracto!Init
<1> SUFFICES ASSUME Init  PROVE Abstracto!Init
  OBVIOUS
<1>1. TypeOK
  BY TipoInicial
<1>2. \A m \in Par : filas[m].activas \in Nat /\ filas[m].inactivas = 0
  <2>1. ASSUME NEW m \in Par
        PROVE  filas[m] = [activas |-> 1, inactivas |-> 0]
               \/ filas[m] = [activas |-> 0, inactivas |-> 0]
    BY DEF Init
  <2>2. QED
    BY <2>1
<1>3. Filados = Miembros /\ Miembros \in SUBSET Par
  BY <1>2 DEF Filados, Miembros, TieneFila
<1>4. Ordenes \in [Peticion -> Abstracto!Orden]
  <2>1. ASSUME NEW p \in Peticion
        PROVE  [que |-> Que(ent[p].tipo), par |-> ParDe(p)] \in Abstracto!Orden
    <3>1. Que(ent[p].tipo) = "nada"
      BY BaseOK, QueTipos DEF Init, Tipo
    <3>2. ent[p].grupo \in Grupo /\ ent[p].quien \in Usuario
      BY <1>1 DEF TypeOK
    <3>3. QED
      BY <3>1, <3>2 DEF Abstracto!Orden, Abstracto!Par, ParDe
  <2>2. QED
    BY <2>1 DEF Ordenes
<1>5. Alcances = [p \in Peticion |-> "libre"]
  BY AlcancePasos DEF Init, Alcances
<1>6. QED
  BY <1>3, <1>4, <1>5 DEF Abstracto!Init, Abstracto!Par, Par, Filados, Ordenes, Alcances, ParDe

LEMMA PasoImplementa == IInv /\ [Next]_vars => [Abstracto!Next]_(Abstracto!vars)
<1> SUFFICES ASSUME IInv, [Next]_vars  PROVE Abstracto!Next \/ UNCHANGED Abstracto!vars
  OBVIOUS
<1>1. TypeOK
  BY DEF IInv
<1>2. ASSUME NEW p \in Peticion, LlegaAlguna(p)  PROVE Abstracto!Next
  BY <1>1, <1>2, LlegadaPide DEF Abstracto!Next
<1>3. ASSUME NEW p \in Peticion, Manejador(p)
      PROVE  Abstracto!Next \/ UNCHANGED Abstracto!vars
  BY <1>3, ManejadorAbstracto DEF PasoAbstracto
<1>4. ASSUME NEW p \in Peticion, Falla(p)  PROVE Abstracto!Next
  <2>1. EnCurso(p) /\ Ir(p, "fallo") /\ UNCHANGED <<filas, ent>>
    BY <1>4 DEF Falla, tablas
  <2>2. QED
    BY <1>1, <2>1, PasoFalla DEF Abstracto!Next
<1>5. CASE Caida
  <2> DEFINE P == {q \in Peticion : EnCurso(q)}
  <2>1. /\ P \in SUBSET Peticion /\ P # {} /\ \A q \in P : EnCurso(q)
        /\ UNCHANGED <<filas, ent>>
        /\ \A q \in Peticion : IF q \in P THEN pc'[q] \in {"fallo", "caida"}
                                          ELSE pc'[q] = pc[q]
    BY <1>5 DEF Caida, tablas
  <2>2. Abstracto!Niega(P)
    BY <1>1, <2>1, PasoNiega
  <2>3. QED
    BY <2>1, <2>2 DEF Abstracto!Next
<1>6. CASE UNCHANGED vars
  <2>1. UNCHANGED <<filas, ent, pc>>
    BY <1>6 DEF vars, tablas
  <2>2. QED
    BY <2>1, Vista DEF Abstracto!vars, Alcances, Ordenes, Filados, ParDe
<1>7. QED
  BY <1>2, <1>3, <1>4, <1>5, <1>6 DEF Next, Descansa

\* Whatever the look-ups and the insertions of the requests interleave with,
\* each adds or removes its member at one instant before it is answered, or
\* not at all.
THEOREM GruposImplementan == Spec => ImplementaGrupos
<1>1. Init => Abstracto!Init
  BY InicioAbstracto
<1>2. IInv /\ [Next]_vars => [Abstracto!Next]_(Abstracto!vars)
  BY PasoImplementa
<1>3. QED
  BY <1>1, <1>2, Invariante, PTL DEF Spec, ImplementaGrupos, Abstracto!Spec
===============================================================================
