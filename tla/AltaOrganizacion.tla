---------------------------- MODULE AltaOrganizacion ----------------------------
(***************************************************************************)
(* Registration of an organization: POST /organizacion, a chain of         *)
(* statements that share no transaction, and POST verificacion-tributaria, *)
(* which writes the same row of the tax data.                              *)
(*                                                                         *)
(* The repository holds no schema: a repeated insertion may be accepted or *)
(* rejected (Falla).  A request brings its economic activities from one    *)
(* source (fuente), and of each only the code matters.                     *)
(***************************************************************************)
EXTENDS Naturals, FiniteSets

CONSTANTS
    Rut,           \* the tax ids of the organizations, digits and check digit
    Codigo,        \* the codes of economic activities
    Usuario, Peticion,
    Previas,       \* rows of core.organizacion before the first request
    MaxActivas,    \* bound: how many requests are handled at once
    ConFallos      \* bound: whether a statement may fail and the process crash

\* The key (rut, dv) of core.organizacion: split in two columns, or all of it
\* in the first and the second empty.
Clave == Rut \X {"separado", "junto"}

ASSUME ConstantesOK ==
    /\ Rut # {} /\ Usuario # {} /\ Previas \subseteq Clave
    /\ IsFiniteSet(Peticion) /\ MaxActivas \in Nat /\ ConFallos \in BOOLEAN

Entrada == [tipo: {"", "alta", "verificar"}, clave: Clave, quien: Usuario,
            giros: SUBSET Codigo, conSii: BOOLEAN]

VARIABLES
    organizacion,  \* the keys in core.organizacion
    verificacion,  \* organizacion_verificacion_tributaria: what is in the row
    categoria,     \* the codes in categoria_economica
    actividad,     \* actividad_organizacion: how many rows link a code
    admin,         \* organizacion_miembro: who is ADMIN of what
    pc, ent,       \* where a request is, and what it carries
    quedan         \* the giros whose category it has still to insert

tablas == <<organizacion, verificacion, categoria, actividad, admin>>
vars == <<tablas, pc, ent, quedan>>

PasoDe == {"org", "verif", "categorias", "actividades", "asociar", "cruda"}

TypeOK ==
    /\ organizacion \subseteq Clave
    /\ verificacion \in [Clave -> {"ninguna", "normalizada", "cruda", "mezclada"}]
    /\ categoria \subseteq Codigo
    /\ actividad \in [Clave \X Codigo -> 0..Cardinality(Peticion)]
    /\ admin \subseteq Clave \X Usuario
    /\ pc \in [Peticion -> PasoDe \cup {"libre", "fin", "fallo", "caida"}]
    /\ ent \in [Peticion -> Entrada]
    /\ quedan \in [Peticion -> SUBSET Codigo]

Base == [tipo |-> "", clave |-> CHOOSE c \in Clave : TRUE,
         quien |-> CHOOSE u \in Usuario : TRUE, giros |-> {}, conSii |-> FALSE]

Init ==
    /\ organizacion = Previas
    /\ verificacion = [c \in Clave |-> "ninguna"]
    /\ categoria = {}
    /\ actividad = [a \in Clave \X Codigo |-> 0]
    /\ admin = {}
    /\ pc = [p \in Peticion |-> "libre"]
    /\ ent = [p \in Peticion |-> Base]
    /\ quedan = [p \in Peticion |-> {}]

EnCurso(p) == pc[p] \in PasoDe

Ir(p, paso) == pc' = [pc EXCEPT ![p] = paso]

-----------------------------------------------------------------------------
(***************************************************************************)
(* The controller.                                                         *)
(***************************************************************************)

\* Mutant of ClaveDeAlta: the second column is left out.
ClaveDeAltaSinDv(r) == <<r, "null">>

\* setRut keeps the text as it came, and nothing sets rutDv, which is "".
ClaveDeAlta(r) == <<r, "junto">>

Llega(p, e, paso) ==
    /\ pc[p] = "libre"
    /\ Cardinality({q \in Peticion : EnCurso(q)}) < MaxActivas
    /\ Ir(p, paso)
    /\ ent' = [ent EXCEPT ![p] = e]
    /\ UNCHANGED <<tablas, quedan>>

\* TributaryModel.fromRaw takes the columns out of rawSii; of a null it throws.
TrasNormalizar(conSii) == IF conSii THEN "org" ELSE "fallo"

LlegaAlta(p) ==
    \E r \in Rut, u \in Usuario, g \in SUBSET Codigo, sii \in BOOLEAN :
       Llega(p, [tipo |-> "alta", clave |-> ClaveDeAlta(r), quien |-> u,
                 giros |-> g, conSii |-> sii],
             TrasNormalizar(sii))

LlegaVerificacion(p) ==
    \E c \in organizacion :
       Llega(p, [Base EXCEPT !.tipo = "verificar", !.clave = c], "cruda")

-----------------------------------------------------------------------------
(***************************************************************************)
(* createOrganizacion of the use case, statement by statement.             *)
(***************************************************************************)

\* Mutant of TrasOrganizacion: the tax data of a row that was there already
\* are taken for done.
TrasOrganizacionNueva(p) ==
    IF ent[p].giros = {} \/ ent[p].clave \in organizacion
    THEN "asociar" ELSE "verif"

TrasOrganizacion(p) == IF ent[p].giros = {} THEN "asociar" ELSE "verif"

\* INSERT ... ON CONFLICT (rut, dv): the row is there afterwards.
Crear(p) ==
    /\ pc[p] = "org"
    /\ organizacion' = organizacion \cup {ent[p].clave}
    /\ Ir(p, TrasOrganizacion(p))
    /\ UNCHANGED <<verificacion, categoria, actividad, admin, ent, quedan>>

\* insertTributaryData: every column comes from the answer of the SII.
InsertarVerificacion(p) ==
    /\ pc[p] = "verif"
    /\ verificacion' = [verificacion EXCEPT ![ent[p].clave] = "normalizada"]
    /\ quedan' = [quedan EXCEPT ![p] = ent[p].giros]
    /\ Ir(p, "categorias")
    /\ UNCHANGED <<organizacion, categoria, actividad, admin, ent>>

TrasCategoria(p, g) == IF quedan[p] = {g} THEN "actividades" ELSE "categorias"

\* insertActividadEconomica: whatever goes wrong is taken for "already there".
InsertarCategoria(p) ==
    /\ pc[p] = "categorias"
    /\ \E g \in quedan[p] :
         /\ quedan' = [quedan EXCEPT ![p] = @ \ {g}]
         /\ \/ categoria' = categoria \cup {g}
            \/ ConFallos /\ UNCHANGED categoria
         /\ Ir(p, TrasCategoria(p, g))
    /\ UNCHANGED <<organizacion, verificacion, actividad, admin, ent>>

\* Mutant of Enlazados: the codes without a category are left out.
EnlazadosConCategoria(p) == ent[p].giros \cap categoria

Enlazados(p) == ent[p].giros

\* soncronizarActividadesEconomicas: one INSERT of all the rows, which are
\* added to those the organization had.
SincronizarActividades(p) ==
    /\ pc[p] = "actividades"
    /\ actividad' = [a \in Clave \X Codigo |->
                       IF a[1] = ent[p].clave /\ a[2] \in Enlazados(p)
                       THEN actividad[a] + 1 ELSE actividad[a]]
    /\ Ir(p, "asociar")
    /\ UNCHANGED <<organizacion, verificacion, categoria, admin, ent, quedan>>

\* asociarUsuarioAOrganizacion: its author is ADMIN.
Asociar(p) ==
    /\ pc[p] = "asociar"
    /\ admin' = admin \cup {<<ent[p].clave, ent[p].quien>>}
    /\ Ir(p, "fin")
    /\ UNCHANGED <<organizacion, verificacion, categoria, actividad, ent, quedan>>

-----------------------------------------------------------------------------
(***************************************************************************)
(* The other writer, and the question.                                     *)
(***************************************************************************)

\* Mutant of TrasCruda: the row is replaced, and not a few of its columns.
TrasCrudaEntera(v) == "cruda"

TrasCruda(v) == IF v \in {"ninguna", "cruda"} THEN "cruda" ELSE "mezclada"

\* upsertRaw: fuente and raw_response change, the columns that were taken from
\* the answer before stay.
GuardarCruda(p) ==
    /\ pc[p] = "cruda"
    /\ verificacion' = [verificacion EXCEPT ![ent[p].clave] = TrasCruda(@)]
    /\ Ir(p, "fin")
    /\ UNCHANGED <<organizacion, categoria, actividad, admin, ent, quedan>>

-----------------------------------------------------------------------------
\* Any other statement may fail, and the handler throws.
Falla(p) ==
    /\ ConFallos /\ EnCurso(p) /\ pc[p] # "categorias"
    /\ Ir(p, "fallo")
    /\ UNCHANGED <<tablas, ent, quedan>>

\* The process stops.
Caida ==
    /\ ConFallos /\ \E p \in Peticion : EnCurso(p)
    /\ pc' = [p \in Peticion |-> IF EnCurso(p) THEN "caida" ELSE pc[p]]
    /\ UNCHANGED <<tablas, ent, quedan>>

Manejador(p) ==
    \/ Crear(p) \/ InsertarVerificacion(p) \/ InsertarCategoria(p)
    \/ SincronizarActividades(p) \/ Asociar(p) \/ GuardarCruda(p)

\* No more requests will come.
Descansa == (\A p \in Peticion : ~EnCurso(p)) /\ UNCHANGED vars

Next ==
    \/ \E p \in Peticion :
          LlegaAlta(p) \/ LlegaVerificacion(p) \/ Manejador(p) \/ Falla(p)
    \/ Caida
    \/ Descansa

Spec == Init /\ [][Next]_vars

-----------------------------------------------------------------------------
(***************************************************************************)
(* What it promises.                                                       *)
(***************************************************************************)
Alta(p) == ent[p].tipo = "alta"

\* A registration that is answered 201 left everything behind, also when it
\* is the second try of one that failed half-way: the row, its author as
\* ADMIN and, if it had giros, the tax data and a row for each of them.
AltaCompleta ==
    \A p \in Peticion :
       Alta(p) /\ pc[p] = "fin" =>
          /\ ent[p].clave \in organizacion
          /\ <<ent[p].clave, ent[p].quien>> \in admin
          /\ ent[p].giros # {} =>
                verificacion[ent[p].clave] \in {"normalizada", "mezclada"}
          /\ \A g \in ent[p].giros : actividad[ent[p].clave, g] > 0

Enlazado(c) == {g \in Codigo : actividad[c, g] > 0}

\* The activities of an organization come whole: they are those of one or
\* several registrations of it, never a part of one, whatever failed.
ActividadesEnteras ==
    \A c \in Clave :
       \E P \in SUBSET {p \in Peticion : Alta(p) /\ ent[p].clave = c} :
          Enlazado(c) = UNION {ent[p].giros : p \in P}

\* Tax data that were normalised once stay so: the raw write of the other
\* endpoint, or a failure half-way, never takes them away from an
\* organization with activities.
ActividadConVerificacion ==
    \A c \in Clave :
       Enlazado(c) # {} => verificacion[c] \in {"normalizada", "mezclada"}
=============================================================================
