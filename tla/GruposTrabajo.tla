----------------------------- MODULE GruposTrabajo -----------------------------
(***************************************************************************)
(* The working groups of one organization and their members.               *)
(*                                                                         *)
(* Each HTTP request is a process, each statement an action, and no two    *)
(* statements run in one transaction.  The answer is a step of its own:    *)
(* what a statement did stays when the request fails after it.             *)
(***************************************************************************)
EXTENDS Naturals, FiniteSets

CONSTANTS
    Grupo,           \* the rows grupo_trabajo may get
    Usuario,
    Conocido,        \* the users that the view identity_api.v_usuario has
    Peticion,        \* the HTTP requests
    MaxActivas,      \* bound: how many are handled at once
    LiderPrevio      \* the groups of the beginning, each with its leader

Par == Grupo \X Usuario

Tipo == {"", "listar", "crear", "actualizar", "eliminar", "agregar", "quitar"}

ASSUME ConstantesOK ==
    /\ Grupo # {} /\ Usuario # {} /\ Conocido \subseteq Usuario
    /\ MaxActivas \in Nat
    /\ DOMAIN LiderPrevio \subseteq Grupo
    /\ \A g \in DOMAIN LiderPrevio : LiderPrevio[g] \in Usuario

VARIABLES
    grupo,      \* grupo_trabajo: its state and its leader
    filas,      \* how many rows of grupo_miembro a pair has
    unica,      \* whether grupo_miembro has a unique constraint on the pair:
                \* the schema is not in the repository
    pc, ent,    \* where a request is, and what it carries
    porLeer,    \* the groups whose members listarGrupos has still to read
    listado,    \* the members it has read
    alguna,     \* history: the pairs that were members at some point of it
    siempre,    \* history: the pairs that were listable at every point of it
    cruce       \* history: the pairs that two requests found without a row

tablas == <<grupo, filas, unica>>
lectura == <<porLeer, listado, alguna, siempre>>
vars == <<tablas, pc, ent, lectura, cruce>>

PasoDe == {"lis_grupos", "lis_miembros", "cre_grupo", "cre_lider",
           "act_grupo", "eli_grupo", "agr_buscar", "agr_reactivar",
           "agr_insertar", "qui_miembro", "responder"}

TypeOK ==
    /\ grupo \in [Grupo -> [estado: {"no creado", "activo", "eliminado"},
                            lider: Usuario]]
    /\ filas \in [Par -> [activas: Nat, inactivas: Nat]]
    /\ unica \in BOOLEAN
    /\ pc \in [Peticion -> PasoDe \cup {"libre", "fin", "fallo", "caida"}]
    /\ ent \in [Peticion -> [tipo: Tipo, grupo: Grupo, quien: Usuario]]
    /\ porLeer \in [Peticion -> SUBSET Grupo]
    /\ listado \in [Peticion -> SUBSET Par]
    /\ alguna \in [Peticion -> SUBSET Par]
    /\ siempre \in [Peticion -> SUBSET Par]
    /\ cruce \subseteq Par

-----------------------------------------------------------------------------
Base == [tipo |-> "", grupo |-> CHOOSE g \in Grupo : TRUE,
         quien |-> CHOOSE u \in Usuario : TRUE]

Init ==
    /\ grupo = [g \in Grupo |->
                  IF g \in DOMAIN LiderPrevio
                  THEN [estado |-> "activo", lider |-> LiderPrevio[g]]
                  ELSE [estado |-> "no creado", lider |-> Base.quien]]
    /\ filas = [m \in Par |->
                  [activas |-> IF m[1] \in DOMAIN LiderPrevio /\ m[2] = LiderPrevio[m[1]]
                               THEN 1 ELSE 0,
                   inactivas |-> 0]]
    /\ unica \in BOOLEAN
    /\ pc = [p \in Peticion |-> "libre"]
    /\ ent = [p \in Peticion |-> Base]
    /\ porLeer = [p \in Peticion |-> {}]
    /\ listado = [p \in Peticion |-> {}]
    /\ alguna = [p \in Peticion |-> {}]
    /\ siempre = [p \in Peticion |-> {}]
    /\ cruce = {}

EnCurso(p) == pc[p] \in PasoDe

Ir(p, paso) == pc' = [pc EXCEPT ![p] = paso]

TieneFila(m) == filas[m].activas + filas[m].inactivas > 0

Miembros == {m \in Par : filas[m].activas > 0}

\* A group is read through the view of users, by its leader, and so is each
\* of its members.
Visible(g) == grupo[g].estado = "activo" /\ grupo[g].lider \in Conocido

Listable(m) == Visible(m[1]) /\ m[2] \in Conocido /\ m \in Miembros

\* The histories, after the tables have changed.
Anota ==
    /\ alguna' = [p \in Peticion |-> IF pc[p] \in {"lis_grupos", "lis_miembros"}
                                     THEN alguna[p] \cup Miembros' ELSE alguna[p]]
    /\ siempre' = [p \in Peticion |-> {m \in siempre[p] : Listable(m)'}]

-----------------------------------------------------------------------------
PrimerPaso(tipo) == CASE tipo = "listar"     -> "lis_grupos"
                      [] tipo = "crear"      -> "cre_grupo"
                      [] tipo = "actualizar" -> "act_grupo"
                      [] tipo = "eliminar"   -> "eli_grupo"
                      [] tipo = "agregar"    -> "agr_buscar"
                      [] tipo = "quitar"     -> "qui_miembro"

Existe(g) == grupo[g].estado # "no creado"

Llega(p, e) ==
    /\ pc[p] = "libre"
    /\ Cardinality({q \in Peticion : EnCurso(q)}) < MaxActivas
    /\ Ir(p, PrimerPaso(e.tipo))
    /\ ent' = [ent EXCEPT ![p] = e]
    /\ UNCHANGED <<tablas, porLeer, listado, cruce>>

\* GET :id/grupos.
LlegaListado(p) ==
    /\ Llega(p, [Base EXCEPT !.tipo = "listar"])
    /\ alguna' = [alguna EXCEPT ![p] = Miembros]
    /\ siempre' = [siempre EXCEPT ![p] = {m \in Par : Listable(m)}]

\* POST :id/grupos, led by whom the body names.
LlegaCreacion(p) ==
    /\ \E u \in Usuario : Llega(p, [Base EXCEPT !.tipo = "crear", !.quien = u])
    /\ UNCHANGED <<alguna, siempre>>

\* PATCH and DELETE grupos/:grupoId.
LlegaCambioGrupo(p) ==
    /\ \E g \in Grupo, t \in {"actualizar", "eliminar"} :
          Existe(g) /\ Llega(p, [Base EXCEPT !.tipo = t, !.grupo = g])
    /\ UNCHANGED <<alguna, siempre>>

\* POST and DELETE grupos/:grupoId/miembros: neither asks whether the group is
\* active, nor whether the user is a member of the organization.
LlegaCambioMiembro(p) ==
    /\ \E g \in Grupo, u \in Usuario, t \in {"agregar", "quitar"} :
          Existe(g) /\ Llega(p, [tipo |-> t, grupo |-> g, quien |-> u])
    /\ UNCHANGED <<alguna, siempre>>

-----------------------------------------------------------------------------
(***************************************************************************)
(* listarGrupos: the groups in one statement, then the members of each.    *)
(***************************************************************************)
ListarGrupos(p) ==
    /\ pc[p] = "lis_grupos"
    /\ porLeer' = [porLeer EXCEPT ![p] = {g \in Grupo : Visible(g)}]
    /\ Ir(p, "lis_miembros")
    /\ UNCHANGED <<tablas, ent, listado, alguna, siempre, cruce>>

\* Mutant of MiembrosLeidos: without "gm.active = true".
MiembrosConBaja(g) == {m \in Par : m[1] = g /\ m[2] \in Conocido /\ TieneFila(m)}

\* fetchGrupoMiembros.
MiembrosLeidos(g) == {m \in Miembros : m[1] = g /\ m[2] \in Conocido}

\* The next group, in the order of the names; after the last, the answer.
ListarMiembros(p) ==
    /\ pc[p] = "lis_miembros"
    /\ \/ \E g \in porLeer[p] :
            /\ listado' = [listado EXCEPT ![p] = listado[p] \cup MiembrosLeidos(g)]
            /\ porLeer' = [porLeer EXCEPT ![p] = porLeer[p] \ {g}]
            /\ UNCHANGED pc
       \/ porLeer[p] = {} /\ Ir(p, "responder") /\ UNCHANGED <<porLeer, listado>>
    /\ UNCHANGED <<tablas, ent, alguna, siempre, cruce>>

-----------------------------------------------------------------------------
(***************************************************************************)
(* The rows of grupo_miembro.                                              *)
(***************************************************************************)
Inserta(m) == filas' = [filas EXCEPT ![m].activas = filas[m].activas + 1]

Total(f) == f.activas + f.inactivas

\* Mutant of Reactiva: the UPDATE gives the role in the group and no more.
ReactivaCargo(m) == filas' = filas

\* An UPDATE changes every row of the pair.
Reactiva(m) ==
    filas' = [filas EXCEPT ![m] = [activas |-> Total(filas[m]), inactivas |-> 0]]

Desactiva(m) ==
    filas' = [filas EXCEPT ![m] = [activas |-> 0, inactivas |-> Total(filas[m])]]

\* Those that are about to insert a row of the pair.
Insertando(m) == {p \in Peticion : /\ pc[p] \in {"agr_insertar", "cre_lider"}
                                   /\ <<ent[p].grupo, ent[p].quien>> = m}

Cruza == cruce' = cruce \cup {m \in Par : Cardinality(Insertando(m)') > 1}

-----------------------------------------------------------------------------
(***************************************************************************)
(* crearGrupo.                                                             *)
(***************************************************************************)
\* Mutant of FilaGrupo: the two ids of the INSERT crossed, so the leader is the
\* organization.
FilaGrupoCruzada(p) == [estado |-> "activo", lider |-> "organizacion"]

\* The new row: its leader is the user that the request names.
FilaGrupo(p) == [estado |-> "activo", lider |-> ent[p].quien]

CrearGrupo(p) ==
    /\ pc[p] = "cre_grupo"
    /\ \E g \in Grupo :
         /\ ~Existe(g)
         /\ grupo' = [grupo EXCEPT ![g] = FilaGrupo(p)]
         /\ ent' = [ent EXCEPT ![p].grupo = g]
    /\ Ir(p, "cre_lider")
    /\ UNCHANGED <<filas, unica, porLeer, listado>>
    /\ Anota /\ Cruza

\* ON CONFLICT DO NOTHING.
InsertaLider(m) ==
    IF unica /\ TieneFila(m) THEN UNCHANGED filas ELSE Inserta(m)

\* The two reads that follow only fill the answer.
CrearLider(p) ==
    /\ pc[p] = "cre_lider"
    /\ InsertaLider(<<ent[p].grupo, ent[p].quien>>)
    /\ Ir(p, "responder")
    /\ UNCHANGED <<grupo, unica, ent, porLeer, listado, cruce>>
    /\ Anota

-----------------------------------------------------------------------------
(***************************************************************************)
(* actualizarGrupo and eliminarGrupo: only an active group matches.  The   *)
(* name and the description are left out.                                  *)
(***************************************************************************)
ActualizarGrupo(p) ==
    /\ pc[p] = "act_grupo"
    /\ Ir(p, IF grupo[ent[p].grupo].estado = "activo" THEN "responder" ELSE "fallo")
    /\ UNCHANGED <<tablas, ent, lectura, cruce>>

EliminarGrupo(p) ==
    /\ pc[p] = "eli_grupo"
    /\ \/ /\ grupo[ent[p].grupo].estado = "activo"
          /\ grupo' = [grupo EXCEPT ![ent[p].grupo].estado = "eliminado"]
          /\ Ir(p, "responder")
       \/ /\ grupo[ent[p].grupo].estado # "activo"
          /\ Ir(p, "fallo") /\ UNCHANGED grupo
    /\ UNCHANGED <<filas, unica, ent, porLeer, listado, cruce>>
    /\ Anota

-----------------------------------------------------------------------------
(***************************************************************************)
(* agregarMiembroGrupo and removerMiembroGrupo.                            *)
(***************************************************************************)

\* Mutant of Encontrado: only the active rows are looked for.
EncontradoActivo(m) == filas[m].activas > 0

Encontrado(m) == TieneFila(m)

AgregarBuscar(p) ==
    /\ pc[p] = "agr_buscar"
    /\ Ir(p, IF Encontrado(<<ent[p].grupo, ent[p].quien>>)
             THEN "agr_reactivar" ELSE "agr_insertar")
    /\ UNCHANGED <<tablas, ent, lectura>>
    /\ Cruza

AgregarReactivar(p) ==
    /\ pc[p] = "agr_reactivar"
    /\ Reactiva(<<ent[p].grupo, ent[p].quien>>)
    /\ Ir(p, "responder")
    /\ UNCHANGED <<grupo, unica, ent, porLeer, listado, cruce>>
    /\ Anota

\* A row that came since the look-up is an error where the pair is unique.
AgregarInsertar(p) ==
    /\ pc[p] = "agr_insertar"
    /\ LET m == <<ent[p].grupo, ent[p].quien>> IN
         \/ ~(unica /\ TieneFila(m)) /\ Inserta(m) /\ Ir(p, "responder")
         \/ unica /\ TieneFila(m) /\ Ir(p, "fallo") /\ UNCHANGED filas
    /\ UNCHANGED <<grupo, unica, ent, porLeer, listado, cruce>>
    /\ Anota

QuitarMiembro(p) ==
    /\ pc[p] = "qui_miembro"
    /\ LET m == <<ent[p].grupo, ent[p].quien>> IN
         \/ m \in Miembros /\ Desactiva(m) /\ Ir(p, "responder")
         \/ m \notin Miembros /\ Ir(p, "fallo") /\ UNCHANGED filas
    /\ UNCHANGED <<grupo, unica, ent, porLeer, listado, cruce>>
    /\ Anota

-----------------------------------------------------------------------------
Responder(p) ==
    /\ pc[p] = "responder" /\ Ir(p, "fin")
    /\ UNCHANGED <<tablas, ent, lectura, cruce>>

\* A statement fails, or its answer does not come.
Falla(p) ==
    /\ EnCurso(p) /\ Ir(p, "fallo")
    /\ UNCHANGED <<tablas, ent, lectura, cruce>>

\* The process stops.
Caida ==
    /\ \E p \in Peticion : EnCurso(p)
    /\ pc' = [p \in Peticion |-> IF EnCurso(p) THEN "caida" ELSE pc[p]]
    /\ UNCHANGED <<tablas, ent, lectura, cruce>>

LlegaAlguna(p) ==
    LlegaListado(p) \/ LlegaCreacion(p) \/ LlegaCambioGrupo(p) \/ LlegaCambioMiembro(p)

Manejador(p) ==
    \/ ListarGrupos(p) \/ ListarMiembros(p) \/ CrearGrupo(p) \/ CrearLider(p)
    \/ ActualizarGrupo(p) \/ EliminarGrupo(p) \/ AgregarBuscar(p)
    \/ AgregarReactivar(p) \/ AgregarInsertar(p) \/ QuitarMiembro(p) \/ Responder(p)

\* No more requests will come.
Descansa == (\A p \in Peticion : ~EnCurso(p)) /\ UNCHANGED vars

Next ==
    \/ \E p \in Peticion : LlegaAlguna(p) \/ Manejador(p) \/ Falla(p)
    \/ Caida
    \/ Descansa

Spec == Init /\ [][Next]_vars

-----------------------------------------------------------------------------
(***************************************************************************)
(* What it promises.                                                       *)
(***************************************************************************)

\* A user has more than one row in a group only without a unique constraint,
\* and when two requests were about to insert the first at the same time:
\* leaving, coming back, failures and crashes never add one.
UnaFila ==
    \A m \in Par : Total(filas[m]) > 1 => ~unica /\ m \in cruce

\* The list of the groups is read group by group, while others change them.
\* Still every member it gives was one while it was read, and whoever was a
\* member of an active group all that time is in it.
ListadoFiel ==
    \A p \in Peticion :
       ent[p].tipo = "listar" =>
          /\ listado[p] \subseteq alguna[p]
          /\ pc[p] \in {"responder", "fin"} => siempre[p] \subseteq listado[p]

-----------------------------------------------------------------------------
(***************************************************************************)
(* Requests about members are atomic, as GruposAbstracto says.             *)
(***************************************************************************)
Que(tipo) == CASE tipo = "agregar" -> "agregar"
               [] tipo = "quitar"  -> "quitar"
               [] tipo = "crear"   -> "fundar"
               [] OTHER            -> "nada"

Alcance(paso) == CASE paso = "libre"              -> "libre"
                   [] paso = "fin"                -> "si"
                   [] paso \in {"fallo", "caida"} -> "no"
                   [] paso = "responder"          -> "aplicada"
                   [] paso = "cre_lider"          -> "fundado"
                   [] OTHER                       -> "pendiente"

Abstracto == INSTANCE GruposAbstracto WITH
    dentro <- Miembros,
    fila   <- {m \in Par : TieneFila(m)},
    orden  <- [p \in Peticion |-> [que |-> Que(ent[p].tipo),
                                   par |-> <<ent[p].grupo, ent[p].quien>>]],
    res    <- [p \in Peticion |-> Alcance(pc[p])]

\* Whatever the look-ups and the insertions interleave with, a request adds
\* or removes its member at one instant before it is answered, or not at all.
ImplementaGrupos == Abstracto!Spec
=============================================================================
