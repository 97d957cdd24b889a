------------------------ MODULE AltaOrganizacion_proofs ------------------------
(***************************************************************************)
(* What is proved of the registration of an organization: its types, that  *)
(* a registration answered 201 is complete, and that the economic          *)
(* activities of an organization come whole and never without its tax      *)
(* data.                                                                   *)
(***************************************************************************)
EXTENDS AltaOrganizacion, FiniteSetTheorems, TLAPS

\* Tax data that were normalised once.
Firme(v) == v \in {"normalizada", "mezclada"}

\* What the place of a request says of what it did: every statement that was
\* executed left its row, and nobody took it away.
Progreso(p) ==
    /\ pc[p] = "libre" => ent[p].tipo = ""
    /\ pc[p] = "cruda" => ent[p].tipo = "verificar"
    /\ pc[p] \in {"org", "verif", "categorias", "actividades", "asociar"} => Alta(p)
    /\ Alta(p) /\ pc[p] \in {"verif", "categorias", "actividades", "asociar", "fin"} =>
          ent[p].clave \in organizacion
    /\ Alta(p) /\ pc[p] \in {"categorias", "actividades"} =>
          Firme(verificacion[ent[p].clave])
    /\ Alta(p) /\ pc[p] \in {"asociar", "fin"} =>
          /\ ent[p].giros # {} => Firme(verificacion[ent[p].clave])
          /\ \A g \in ent[p].giros : actividad[ent[p].clave, g] > 0
    /\ Alta(p) /\ pc[p] = "fin" => <<ent[p].clave, ent[p].quien>> \in admin

PasoPropio == \A p \in Peticion : Progreso(p)

\* The requests that inserted their activities, or never will.
Pasadas == {p \in Peticion : pc[p] \in {"asociar", "cruda", "fin", "fallo", "caida"}}

\* No code is linked more often than requests have passed that statement.
Cuenta == \A a \in Clave \X Codigo :
             actividad[a] \in Nat /\ actividad[a] <= Cardinality(Pasadas)

\* TypeOK without the bound of actividad.
Formas ==
    /\ organizacion \subseteq Clave
    /\ verificacion \in [Clave -> {"ninguna", "normalizada", "cruda", "mezclada"}]
    /\ categoria \subseteq Codigo
    /\ actividad \in [Clave \X Codigo -> Nat]
    /\ admin \subseteq Clave \X Usuario
    /\ pc \in [Peticion -> PasoDe \cup {"libre", "fin", "fallo", "caida"}]
    /\ ent \in [Peticion -> Entrada]
    /\ quedan \in [Peticion -> SUBSET Codigo]

IInv == Formas /\ Cuenta /\ PasoPropio /\ ActividadesEnteras /\ ActividadConVerificacion

-----------------------------------------------------------------------------
(***************************************************************************)
(* What a step does.                                                       *)
(***************************************************************************)

LEMMA BaseTipo == Base \in Entrada /\ Base.tipo = ""
<1>1. Clave # {} /\ Usuario # {}
  <2>1. PICK r \in Rut : TRUE
    BY ConstantesOK
  <2>2. <<r, "junto">> \in Clave
    BY <2>1 DEF Clave
  <2>3. QED
    BY <2>2, ConstantesOK
<1>2. (CHOOSE c \in Clave : TRUE) \in Clave /\ (CHOOSE u \in Usuario : TRUE) \in Usuario
  BY <1>1
<1>3. QED
  BY <1>2 DEF Base, Entrada

\* A registration or a question comes.
Entra(p) ==
    /\ pc[p] = "libre"
    /\ \A q \in Peticion \ {p} : pc'[q] = pc[q] /\ ent'[q] = ent[q]
    /\ \/ pc'[p] \in {"org", "fallo"} /\ ent'[p].tipo = "alta"
       \/ pc'[p] = "cruda" /\ ent'[p].tipo = "verificar"
    /\ UNCHANGED <<tablas, quedan>>

\* A statement of a request adds to the tables, and nobody else moves.
Crece ==
    /\ organizacion \subseteq organizacion' /\ admin \subseteq admin'
    /\ \A c \in Clave : Firme(verificacion[c]) => Firme(verificacion'[c])
    /\ \A a \in Clave \X Codigo : actividad'[a] >= actividad[a]

Avanza(p) ==
    /\ pc[p] \in PasoDe /\ ent' = ent
    /\ \A q \in Peticion \ {p} : pc'[q] = pc[q]

\* Some requests end without an answer.
Para ==
    /\ \A p \in Peticion : \/ pc'[p] = pc[p]
                           \/ EnCurso(p) /\ pc'[p] \in {"fallo", "caida"}
    /\ UNCHANGED <<tablas, ent, quedan>>

LEMMA LlegaEfecto ==
  ASSUME Formas, NEW p \in Peticion, LlegaAlta(p) \/ LlegaVerificacion(p)
  PROVE  Entra(p) /\ Formas'
<1>1. /\ pc \in [Peticion -> PasoDe \cup {"libre", "fin", "fallo", "caida"}]
      /\ ent \in [Peticion -> Entrada] /\ organizacion \subseteq Clave
  BY DEF Formas
<1>2. ASSUME NEW e \in Entrada, NEW paso \in {"org", "fallo", "cruda"}, Llega(p, e, paso),
             \/ paso \in {"org", "fallo"} /\ e.tipo = "alta"
             \/ paso = "cruda" /\ e.tipo = "verificar"
      PROVE  Entra(p) /\ Formas'
  <2>1. /\ pc[p] = "libre" /\ pc' = [pc EXCEPT ![p] = paso]
        /\ ent' = [ent EXCEPT ![p] = e] /\ UNCHANGED <<tablas, quedan>>
    BY <1>2 DEF Llega, Ir
  <2>2. /\ pc'[p] = paso /\ ent'[p] = e
        /\ \A q \in Peticion \ {p} : pc'[q] = pc[q] /\ ent'[q] = ent[q]
    BY <1>1, <2>1
  <2>3. /\ pc' \in [Peticion -> PasoDe \cup {"libre", "fin", "fallo", "caida"}]
        /\ ent' \in [Peticion -> Entrada]
    BY <1>1, <1>2, <2>1 DEF PasoDe
  <2>4. Entra(p)
    BY <1>2, <2>1, <2>2 DEF Entra
  <2>5. QED
    BY <2>1, <2>3, <2>4 DEF Formas, tablas
<1>3. CASE LlegaAlta(p)
  <2>1. PICK r \in Rut, u \in Usuario, g \in SUBSET Codigo, sii \in BOOLEAN :
           Llega(p, [tipo |-> "alta", clave |-> ClaveDeAlta(r), quien |-> u,
                     giros |-> g, conSii |-> sii],
                 TrasNormalizar(sii))
    BY <1>3 DEF LlegaAlta
  <2>2. ClaveDeAlta(r) \in Clave /\ TrasNormalizar(sii) \in {"org", "fallo"}
    BY DEF ClaveDeAlta, Clave, TrasNormalizar
  <2>3. [tipo |-> "alta", clave |-> ClaveDeAlta(r), quien |-> u,
         giros |-> g, conSii |-> sii] \in Entrada
    BY <2>2 DEF Entrada
  <2>4. QED
    BY <1>2, <2>1, <2>2, <2>3
<1>4. CASE LlegaVerificacion(p)
  <2>1. PICK c \in organizacion :
           Llega(p, [Base EXCEPT !.tipo = "verificar", !.clave = c], "cruda")
    BY <1>4 DEF LlegaVerificacion
  <2>2. /\ [Base EXCEPT !.tipo = "verificar", !.clave = c] \in Entrada
        /\ [Base EXCEPT !.tipo = "verificar", !.clave = c].tipo = "verificar"
    BY <1>1, BaseTipo DEF Entrada
  <2>3. QED
    BY <1>2, <2>1, <2>2
<1>5. QED
  BY <1>3, <1>4

LEMMA ParaEfecto ==
  ASSUME Formas,
         (\E p \in Peticion : Falla(p)) \/ Caida \/ UNCHANGED vars
  PROVE  Para /\ Formas'
<1>1. pc \in [Peticion -> PasoDe \cup {"libre", "fin", "fallo", "caida"}]
  BY DEF Formas
<1>2. CASE \E p \in Peticion : Falla(p)
  <2>1. PICK p \in Peticion : Falla(p)
    BY <1>2
  <2>2. /\ EnCurso(p) /\ pc' = [pc EXCEPT ![p] = "fallo"]
        /\ UNCHANGED <<tablas, ent, quedan>>
    BY <2>1 DEF Falla, Ir
  <2>3. Para
    BY <1>1, <2>2 DEF Para
  <2>4. pc' \in [Peticion -> PasoDe \cup {"libre", "fin", "fallo", "caida"}]
    BY <1>1, <2>2
  <2>5. QED
    BY <2>2, <2>3, <2>4 DEF Formas, tablas
<1>3. CASE Caida
  <2>1. /\ pc' = [p \in Peticion |-> IF EnCurso(p) THEN "caida" ELSE pc[p]]
        /\ UNCHANGED <<tablas, ent, quedan>>
    BY <1>3 DEF Caida
  <2>2. Para
    BY <2>1 DEF Para
  <2>3. pc' \in [Peticion -> PasoDe \cup {"libre", "fin", "fallo", "caida"}]
    BY <1>1, <2>1
  <2>4. QED
    BY <2>1, <2>2, <2>3 DEF Formas, tablas
<1>4. CASE UNCHANGED vars
  BY <1>4 DEF vars, tablas, Para, Formas
<1>5. QED
  BY <1>2, <1>3, <1>4
LEMMA ManejadorEfecto ==
  ASSUME Formas, NEW p \in Peticion, Manejador(p)
  PROVE  Formas' /\ Crece /\ Avanza(p)
<1> DEFINE Lugares == PasoDe \cup {"libre", "fin", "fallo", "caida"}
<1>1. /\ organizacion \subseteq Clave
      /\ verificacion \in [Clave -> {"ninguna", "normalizada", "cruda", "mezclada"}]
      /\ categoria \subseteq Codigo
      /\ actividad \in [Clave \X Codigo -> Nat]
      /\ admin \subseteq Clave \X Usuario
      /\ pc \in [Peticion -> Lugares]
      /\ ent \in [Peticion -> Entrada]
      /\ quedan \in [Peticion -> SUBSET Codigo]
  BY DEF Formas
<1>2. ent[p].clave \in Clave /\ ent[p].quien \in Usuario /\ ent[p].giros \subseteq Codigo
  BY <1>1 DEF Entrada
<1>3. ASSUME NEW paso \in Lugares, Ir(p, paso), pc[p] \in PasoDe, UNCHANGED ent
      PROVE  pc' \in [Peticion -> Lugares] /\ Avanza(p)
  BY <1>1, <1>3 DEF Ir, Avanza
<1>4. CASE Crear(p)
  <2>1. TrasOrganizacion(p) \in Lugares /\ pc[p] \in PasoDe
    BY <1>4 DEF TrasOrganizacion, PasoDe, Crear
  <2>2. pc' \in [Peticion -> Lugares] /\ Avanza(p)
    BY <1>3, <1>4, <2>1 DEF Crear
  <2>3. Formas'
    BY <1>1, <1>2, <1>4, <2>2 DEF Crear, Formas
  <2>4. QED
    BY <1>1, <1>4, <2>2, <2>3 DEF Crear, Crece
<1>5. CASE InsertarVerificacion(p)
  <2>1. pc' \in [Peticion -> Lugares] /\ Avanza(p)
    BY <1>3, <1>5 DEF InsertarVerificacion, PasoDe
  <2>2. /\ verificacion' = [verificacion EXCEPT ![ent[p].clave] = "normalizada"]
        /\ quedan' = [quedan EXCEPT ![p] = ent[p].giros]
        /\ UNCHANGED <<organizacion, categoria, actividad, admin, ent>>
    BY <1>5 DEF InsertarVerificacion
  <2>3. /\ verificacion' \in [Clave -> {"ninguna", "normalizada", "cruda", "mezclada"}]
        /\ quedan' \in [Peticion -> SUBSET Codigo]
        /\ \A c \in Clave : Firme(verificacion[c]) => Firme(verificacion'[c])
    BY <1>1, <1>2, <2>2 DEF Firme
  <2>4. Formas'
    BY <1>1, <2>1, <2>2, <2>3 DEF Formas
  <2>5. QED
    BY <1>1, <2>1, <2>2, <2>3, <2>4 DEF Crece
<1>6. CASE InsertarCategoria(p)
  <2>1. PICK g \in quedan[p] :
           /\ quedan' = [quedan EXCEPT ![p] = @ \ {g}]
           /\ categoria' = categoria \cup {g} \/ UNCHANGED categoria
           /\ Ir(p, TrasCategoria(p, g))
    BY <1>6 DEF InsertarCategoria
  <2>2. /\ pc[p] = "categorias"
        /\ UNCHANGED <<organizacion, verificacion, actividad, admin, ent>>
    BY <1>6 DEF InsertarCategoria
  <2>3. TrasCategoria(p, g) \in Lugares
    BY DEF TrasCategoria, PasoDe
  <2>4. pc' \in [Peticion -> Lugares] /\ Avanza(p)
    BY <1>3, <2>1, <2>2, <2>3 DEF PasoDe
  <2>5. categoria' \subseteq Codigo /\ quedan' \in [Peticion -> SUBSET Codigo]
    BY <1>1, <2>1
  <2>6. Formas'
    BY <1>1, <2>2, <2>4, <2>5 DEF Formas
  <2>7. QED
    BY <1>1, <2>2, <2>4, <2>6 DEF Crece
<1>7. CASE SincronizarActividades(p)
  <2>1. pc' \in [Peticion -> Lugares] /\ Avanza(p)
    BY <1>3, <1>7 DEF SincronizarActividades, PasoDe
  <2>2. /\ actividad' = [a \in Clave \X Codigo |->
                          IF a[1] = ent[p].clave /\ a[2] \in Enlazados(p)
                          THEN actividad[a] + 1 ELSE actividad[a]]
        /\ UNCHANGED <<organizacion, verificacion, categoria, admin, ent, quedan>>
    BY <1>7 DEF SincronizarActividades
  <2>3. \A a \in Clave \X Codigo : actividad[a] \in Nat
    BY <1>1
  <2>4. actividad' \in [Clave \X Codigo -> Nat]
    BY <2>2, <2>3
  <2>5. \A a \in Clave \X Codigo : actividad'[a] >= actividad[a]
    BY <2>2, <2>3
  <2>6. Formas'
    BY <1>1, <2>1, <2>2, <2>4 DEF Formas
  <2>7. QED
    BY <1>1, <2>1, <2>2, <2>5, <2>6 DEF Crece
<1>8. CASE Asociar(p)
  <2>1. pc' \in [Peticion -> Lugares] /\ Avanza(p)
    BY <1>3, <1>8 DEF Asociar, PasoDe
  <2>2. Formas'
    BY <1>1, <1>2, <1>8, <2>1 DEF Asociar, Formas
  <2>3. QED
    BY <1>1, <1>8, <2>1, <2>2 DEF Asociar, Crece
<1>9. CASE GuardarCruda(p)
  <2>1. pc' \in [Peticion -> Lugares] /\ Avanza(p)
    BY <1>3, <1>9 DEF GuardarCruda, PasoDe
  <2>2. /\ verificacion' = [verificacion EXCEPT
                              ![ent[p].clave] = TrasCruda(verificacion[ent[p].clave])]
        /\ UNCHANGED <<organizacion, categoria, actividad, admin, ent, quedan>>
    BY <1>9 DEF GuardarCruda
  <2>3. \A v \in {"ninguna", "normalizada", "cruda", "mezclada"} :
           /\ TrasCruda(v) \in {"cruda", "mezclada"}
           /\ Firme(v) => Firme(TrasCruda(v))
    BY DEF TrasCruda, Firme
  <2>4. /\ verificacion' \in [Clave -> {"ninguna", "normalizada", "cruda", "mezclada"}]
        /\ \A c \in Clave : Firme(verificacion[c]) => Firme(verificacion'[c])
    BY <1>1, <1>2, <2>2, <2>3
  <2>5. Formas'
    BY <1>1, <2>1, <2>2, <2>4 DEF Formas
  <2>6. QED
    BY <1>1, <2>1, <2>2, <2>4, <2>5 DEF Crece
<1>10. QED
  BY <1>4, <1>5, <1>6, <1>7, <1>8, <1>9 DEF Manejador

-----------------------------------------------------------------------------
(***************************************************************************)
(* The place of a request and the tables.                                  *)
(***************************************************************************)

\* What a request did stays, whatever the others add.
LEMMA ProgresoAjeno ==
  ASSUME Formas, Formas', Crece, NEW q \in Peticion, Progreso(q),
         pc'[q] = pc[q], ent'[q] = ent[q]
  PROVE  Progreso(q)'
<1>1. /\ ent[q].clave \in Clave /\ ent[q].giros \subseteq Codigo
      /\ actividad \in [Clave \X Codigo -> Nat] /\ actividad' \in [Clave \X Codigo -> Nat]
  BY DEF Formas, Entrada
<1>2. \A g \in ent[q].giros : <<ent[q].clave, g>> \in Clave \X Codigo
  BY <1>1
<1>3. \A g \in ent[q].giros :
         actividad[ent[q].clave, g] > 0 => actividad'[ent[q].clave, g] > 0
  <2>1. \A a \in Clave \X Codigo :
           actividad[a] \in Nat /\ actividad'[a] \in Nat /\ actividad'[a] >= actividad[a]
    BY <1>1 DEF Crece
  <2>2. \A a \in Clave \X Codigo : actividad[a] > 0 => actividad'[a] > 0
    BY <2>1
  <2>3. QED
    BY <1>2, <2>2
<1>4. ent[q].clave \in organizacion => ent[q].clave \in organizacion'
  BY DEF Crece
<1>5. Firme(verificacion[ent[q].clave]) => Firme(verificacion'[ent[q].clave])
  BY <1>1 DEF Crece
<1>6. <<ent[q].clave, ent[q].quien>> \in admin => <<ent[q].clave, ent[q].quien>> \in admin'
  BY DEF Crece
<1>7. QED
  BY <1>3, <1>4, <1>5, <1>6 DEF Progreso, Alta

LEMMA ProgresoPropio ==
  ASSUME Formas, Formas', Crece, NEW p \in Peticion, Progreso(p), Manejador(p)
  PROVE  Progreso(p)'
<1> DEFINE c == ent[p].clave
<1>1. /\ c \in Clave /\ ent[p].giros \subseteq Codigo
      /\ verificacion \in [Clave -> {"ninguna", "normalizada", "cruda", "mezclada"}]
      /\ actividad \in [Clave \X Codigo -> Nat] /\ actividad' \in [Clave \X Codigo -> Nat]
      /\ pc \in [Peticion -> PasoDe \cup {"libre", "fin", "fallo", "caida"}]
  BY DEF Formas, Entrada
<1>2. ent' = ent
  BY ManejadorEfecto DEF Avanza
<1>3. Alta(p)' = Alta(p)
  BY <1>2 DEF Alta
<1>4. CASE Crear(p)
  <2>1. /\ pc[p] = "org" /\ c \in organizacion'
        /\ pc'[p] \in {"verif", "asociar"}
        /\ pc'[p] = "asociar" => ent[p].giros = {}
    BY <1>1, <1>4 DEF Crear, Ir, TrasOrganizacion
  <2>2. QED
    BY <1>2, <1>3, <2>1 DEF Progreso
<1>5. CASE InsertarVerificacion(p)
  <2>1. /\ pc[p] = "verif" /\ pc'[p] = "categorias" /\ organizacion' = organizacion
        /\ verificacion'[c] = "normalizada"
    BY <1>1, <1>5 DEF InsertarVerificacion, Ir
  <2>2. QED
    BY <1>2, <1>3, <2>1 DEF Progreso, Firme
<1>6. CASE InsertarCategoria(p)
  <2>1. /\ pc[p] = "categorias" /\ pc'[p] \in {"categorias", "actividades"}
        /\ organizacion' = organizacion /\ verificacion' = verificacion
    BY <1>1, <1>6 DEF InsertarCategoria, Ir, TrasCategoria
  <2>2. QED
    BY <1>2, <1>3, <2>1 DEF Progreso
<1>7. CASE SincronizarActividades(p)
  <2>1. /\ pc[p] = "actividades" /\ pc'[p] = "asociar"
        /\ organizacion' = organizacion /\ verificacion' = verificacion
        /\ actividad' = [a \in Clave \X Codigo |->
                           IF a[1] = ent[p].clave /\ a[2] \in ent[p].giros
                           THEN actividad[a] + 1 ELSE actividad[a]]
    BY <1>1, <1>7 DEF SincronizarActividades, Ir, Enlazados
  <2>2. \A g \in ent[p].giros : actividad'[c, g] > 0
    <3>1. \A a \in Clave \X Codigo :
             a[1] = ent[p].clave /\ a[2] \in ent[p].giros => actividad'[a] > 0
      <4>1. \A a \in Clave \X Codigo : actividad[a] \in Nat
        BY <1>1
      <4>2. QED
        BY <2>1, <4>1
    <3>2. \A g \in ent[p].giros : <<ent[p].clave, g>> \in Clave \X Codigo
      BY <1>1
    <3>3. QED
      BY <3>1, <3>2
  <2>3. QED
    BY <1>2, <1>3, <2>1, <2>2 DEF Progreso
<1>8. CASE Asociar(p)
  <2>1. /\ pc[p] = "asociar" /\ pc'[p] = "fin"
        /\ organizacion' = organizacion /\ verificacion' = verificacion
        /\ actividad' = actividad /\ <<c, ent[p].quien>> \in admin'
    BY <1>1, <1>8 DEF Asociar, Ir
  <2>2. QED
    BY <1>2, <1>3, <2>1 DEF Progreso
<1>9. CASE GuardarCruda(p)
  <2>1. pc[p] = "cruda" /\ pc'[p] = "fin"
    BY <1>1, <1>9 DEF GuardarCruda, Ir
  <2>2. ~Alta(p)
    BY <2>1 DEF Progreso, Alta
  <2>3. QED
    BY <1>2, <1>3, <2>1, <2>2 DEF Progreso
<1>10. QED
  BY <1>4, <1>5, <1>6, <1>7, <1>8, <1>9 DEF Manejador

LEMMA PasoPropioInductiva ==
  ASSUME Formas, PasoPropio, [Next]_vars
  PROVE  Formas' /\ PasoPropio'
<1>1. CASE \E p \in Peticion : LlegaAlta(p) \/ LlegaVerificacion(p)
  <2>1. PICK p \in Peticion : LlegaAlta(p) \/ LlegaVerificacion(p)
    BY <1>1
  <2>2. Entra(p) /\ Formas'
    BY <2>1, LlegaEfecto
  <2>3. Crece
    BY <2>2 DEF Entra, Crece, tablas, Formas
  <2>4. Progreso(p)'
    BY <2>2 DEF Entra, Progreso, Alta
  <2>5. ASSUME NEW q \in Peticion, q # p  PROVE Progreso(q)'
    BY <2>2, <2>3, <2>5, ProgresoAjeno DEF Entra, PasoPropio
  <2>6. QED
    BY <2>2, <2>4, <2>5 DEF PasoPropio
<1>2. CASE \E p \in Peticion : Manejador(p)
  <2>1. PICK p \in Peticion : Manejador(p)
    BY <1>2
  <2>2. Formas' /\ Crece /\ Avanza(p)
    BY <2>1, ManejadorEfecto
  <2>3. Progreso(p)'
    BY <2>1, <2>2, ProgresoPropio DEF PasoPropio
  <2>4. ASSUME NEW q \in Peticion, q # p  PROVE Progreso(q)'
    BY <2>2, <2>4, ProgresoAjeno DEF Avanza, PasoPropio
  <2>5. QED
    BY <2>2, <2>3, <2>4 DEF PasoPropio
<1>3. CASE (\E p \in Peticion : Falla(p)) \/ Caida \/ UNCHANGED vars
  <2>1. Para /\ Formas'
    BY <1>3, ParaEfecto
  <2>2. Crece
    BY <2>1 DEF Para, Crece, tablas, Formas
  <2>3. ASSUME NEW q \in Peticion  PROVE Progreso(q)'
    <3>1. CASE pc'[q] = pc[q]
      BY <2>1, <2>2, <3>1, ProgresoAjeno DEF Para, PasoPropio
    <3>2. CASE pc'[q] \in {"fallo", "caida"}
      BY <3>2 DEF Progreso
    <3>3. QED
      BY <2>1, <3>1, <3>2 DEF Para
  <2>4. QED
    BY <2>1, <2>3 DEF PasoPropio
<1>4. QED
  BY <1>1, <1>2, <1>3 DEF Next, Descansa
-----------------------------------------------------------------------------
(***************************************************************************)
(* The activities.                                                         *)
(***************************************************************************)

\* The links change in one statement only, by the giros of the request.
Enlaza(p) ==
    /\ pc[p] = "actividades" /\ pc'[p] = "asociar"
    /\ actividad' = [a \in Clave \X Codigo |->
                       IF a[1] = ent[p].clave /\ a[2] \in ent[p].giros
                       THEN actividad[a] + 1 ELSE actividad[a]]
    /\ UNCHANGED <<verificacion, ent>>

LEMMA ActividadEfecto ==
  ASSUME Formas, PasoPropio, [Next]_vars
  PROVE  /\ actividad' = actividad \/ \E p \in Peticion : Enlaza(p)
         /\ \A p \in Peticion : pc[p] # "libre" => ent'[p] = ent[p]
         /\ \A c \in Clave : Firme(verificacion[c]) => Firme(verificacion'[c])
         /\ Pasadas \subseteq Pasadas'
<1>0. pc \in [Peticion -> PasoDe \cup {"libre", "fin", "fallo", "caida"}]
  BY DEF Formas
<1>1. CASE \E p \in Peticion : LlegaAlta(p) \/ LlegaVerificacion(p)
  <2>1. PICK p \in Peticion : Entra(p)
    BY <1>1, LlegaEfecto
  <2>2. actividad' = actividad /\ verificacion' = verificacion
    BY <2>1 DEF Entra, tablas
  <2>3. Pasadas \subseteq Pasadas'
    BY <2>1 DEF Entra, Pasadas
  <2>4. QED
    BY <2>1, <2>2, <2>3 DEF Entra
<1>2. CASE \E p \in Peticion : Manejador(p)
  <2>1. PICK p \in Peticion : Manejador(p)
    BY <1>2
  <2>2. Crece /\ Avanza(p)
    BY <2>1, ManejadorEfecto
  <2>3. p \in Pasadas => pc'[p] = "fin"
    <3>1. CASE Crear(p) \/ InsertarVerificacion(p) \/ InsertarCategoria(p)
               \/ SincronizarActividades(p)
      <4>1. pc[p] \in {"org", "verif", "categorias", "actividades"}
        BY <3>1 DEF Crear, InsertarVerificacion, InsertarCategoria, SincronizarActividades
      <4>2. QED
        BY <4>1 DEF Pasadas
    <3>2. CASE Asociar(p) \/ GuardarCruda(p)
      BY <1>0, <3>2 DEF Asociar, GuardarCruda, Ir
    <3>3. QED
      BY <2>1, <3>1, <3>2 DEF Manejador
  <2>4. Pasadas \subseteq Pasadas'
    BY <2>2, <2>3 DEF Avanza, Pasadas
  <2>5. actividad' = actividad \/ Enlaza(p)
    <3>1. CASE SincronizarActividades(p)
      BY <1>0, <3>1 DEF SincronizarActividades, Ir, Enlazados, Enlaza
    <3>2. CASE Crear(p) \/ InsertarVerificacion(p) \/ InsertarCategoria(p)
               \/ Asociar(p) \/ GuardarCruda(p)
      BY <3>2 DEF Crear, InsertarVerificacion, InsertarCategoria, Asociar, GuardarCruda
    <3>3. QED
      BY <2>1, <3>1, <3>2 DEF Manejador
  <2>6. QED
    BY <2>2, <2>4, <2>5 DEF Avanza, Crece
<1>3. CASE (\E p \in Peticion : Falla(p)) \/ Caida \/ UNCHANGED vars
  <2>1. Para
    BY <1>3, ParaEfecto
  <2>2. Pasadas \subseteq Pasadas'
    BY <2>1 DEF Para, Pasadas
  <2>3. QED
    BY <2>1, <2>2 DEF Para, tablas
<1>4. QED
  BY <1>1, <1>2, <1>3 DEF Next, Descansa

\* What is linked after the statement of p.
LEMMA EnlazadoTras ==
  ASSUME Formas, NEW p \in Peticion, Enlaza(p), NEW c \in Clave
  PROVE  Enlazado(c)' = IF c = ent[p].clave THEN Enlazado(c) \cup ent[p].giros
                        ELSE Enlazado(c)
<1>1. /\ \A a \in Clave \X Codigo : actividad[a] \in Nat
      /\ ent[p].giros \subseteq Codigo
  BY DEF Formas, Entrada
<1>2. \A a \in Clave \X Codigo :
         actividad'[a] > 0 <=> \/ actividad[a] > 0
                               \/ a[1] = ent[p].clave /\ a[2] \in ent[p].giros
  BY <1>1 DEF Enlaza
<1>3. \A g \in Codigo : /\ <<c, g>> \in Clave \X Codigo
                        /\ <<c, g>>[1] = c /\ <<c, g>>[2] = g
  OBVIOUS
<1>4. \A g \in Codigo :
         actividad'[c, g] > 0 <=> actividad[c, g] > 0 \/ (c = ent[p].clave /\ g \in ent[p].giros)
  BY <1>2, <1>3
<1>5. Enlazado(c)' = {g \in Codigo : actividad'[c, g] > 0}
  BY DEF Enlazado
<1>6. QED
  BY <1>1, <1>4, <1>5 DEF Enlazado

LEMMA CuentaInductiva ==
  ASSUME Formas, PasoPropio, Cuenta, [Next]_vars
  PROVE  Cuenta'
<1>1. IsFiniteSet(Pasadas) /\ IsFiniteSet(Pasadas')
  <2>1. Pasadas \subseteq Peticion /\ Pasadas' \subseteq Peticion
    BY DEF Pasadas
  <2>2. QED
    BY <2>1, ConstantesOK, FS_Subset
<1>2. Pasadas \subseteq Pasadas'
  BY ActividadEfecto
<1>3. /\ Cardinality(Pasadas) \in Nat /\ Cardinality(Pasadas') \in Nat
      /\ Cardinality(Pasadas) <= Cardinality(Pasadas')
  BY <1>1, <1>2, FS_Subset, FS_CardinalityType
<1>4. CASE actividad' = actividad
  BY <1>3, <1>4 DEF Cuenta
<1>5. ASSUME NEW p \in Peticion, Enlaza(p)
      PROVE  Cuenta'
  <2>1. p \notin Pasadas /\ p \in Pasadas'
    BY <1>5 DEF Enlaza, Pasadas
  <2>2. Cardinality(Pasadas \cup {p}) = Cardinality(Pasadas) + 1
    BY <1>1, <2>1, FS_AddElement
  <2>3. Cardinality(Pasadas \cup {p}) <= Cardinality(Pasadas')
    <3>1. Pasadas \cup {p} \subseteq Pasadas'
      BY <1>2, <2>1
    <3>2. QED
      BY <1>1, <3>1, FS_Subset
  <2>4. \A a \in Clave \X Codigo :
           actividad'[a] = actividad[a] \/ actividad'[a] = actividad[a] + 1
    BY <1>5 DEF Enlaza
  <2>5. QED
    BY <1>3, <2>2, <2>3, <2>4 DEF Cuenta
<1>6. QED
  BY <1>4, <1>5, ActividadEfecto

LEMMA EnterasInductiva ==
  ASSUME Formas, PasoPropio, ActividadesEnteras, [Next]_vars
  PROVE  ActividadesEnteras'
<1> DEFINE Altas(c) == {p \in Peticion : Alta(p) /\ ent[p].clave = c}
           AltasTras(c) == {p \in Peticion : ent'[p].tipo = "alta" /\ ent'[p].clave = c}
<1>1. \A c \in Clave : \A p \in Altas(c) : p \in AltasTras(c) /\ ent'[p] = ent[p]
  <2> TAKE c \in Clave
  <2> TAKE p \in Altas(c)
  <2>1. pc[p] # "libre"
    BY DEF PasoPropio, Progreso, Alta
  <2>2. ent'[p] = ent[p]
    BY <2>1, ActividadEfecto
  <2>3. QED
    BY <2>2 DEF Alta
<1>2. \A c \in Clave : \A P \in SUBSET Altas(c) :
         /\ P \in SUBSET AltasTras(c)
         /\ UNION {ent'[p].giros : p \in P} = UNION {ent[p].giros : p \in P}
  BY <1>1
<1>3. ASSUME NEW c \in Clave
      PROVE  \E P \in SUBSET AltasTras(c) : Enlazado(c)' = UNION {ent'[p].giros : p \in P}
  <2>1. PICK P \in SUBSET Altas(c) : Enlazado(c) = UNION {ent[p].giros : p \in P}
    BY DEF ActividadesEnteras
  <2>2. P \in SUBSET AltasTras(c) /\ Enlazado(c) = UNION {ent'[p].giros : p \in P}
    BY <1>2, <2>1
  <2>3. CASE Enlazado(c)' = Enlazado(c)
    BY <2>2, <2>3
  <2>4. ASSUME NEW p \in Peticion, Enlaza(p), c = ent[p].clave
        PROVE  \E Q \in SUBSET AltasTras(c) : Enlazado(c)' = UNION {ent'[q].giros : q \in Q}
    <3>1. Enlazado(c)' = Enlazado(c) \cup ent[p].giros
      BY <2>4, EnlazadoTras
    <3>2. p \in AltasTras(c) /\ ent'[p] = ent[p]
      BY <1>1, <2>4 DEF Enlaza, PasoPropio, Progreso, Alta
    <3>3. P \cup {p} \in SUBSET AltasTras(c)
      BY <2>2, <3>2
    <3>4. {ent'[q].giros : q \in P \cup {p}} = {ent'[q].giros : q \in P} \cup {ent'[p].giros}
      OBVIOUS
    <3>5. \A A, B : UNION (A \cup {B}) = (UNION A) \cup B
      OBVIOUS
    <3>6. UNION {ent'[q].giros : q \in P \cup {p}}
             = (UNION {ent'[q].giros : q \in P}) \cup ent'[p].giros
      BY <3>4, <3>5
    <3>7. Enlazado(c)' = (UNION {ent'[q].giros : q \in P}) \cup ent'[p].giros
      BY <2>2, <3>1, <3>2
    <3>8. Enlazado(c)' = UNION {ent'[q].giros : q \in P \cup {p}}
      BY <3>6, <3>7
    <3>9. QED
      BY <3>3, <3>8, Zenon
  <2>5. CASE actividad' = actividad
    BY <2>3, <2>5 DEF Enlazado
  <2>6. ASSUME NEW p \in Peticion, Enlaza(p), c # ent[p].clave
        PROVE  Enlazado(c)' = Enlazado(c)
    BY <2>6, EnlazadoTras
  <2>7. QED
    BY <2>3, <2>4, <2>5, <2>6, ActividadEfecto
<1>4. QED
  BY <1>3 DEF ActividadesEnteras, Alta

LEMMA VerificacionInductiva ==
  ASSUME Formas, PasoPropio, ActividadConVerificacion, [Next]_vars
  PROVE  ActividadConVerificacion'
<1>1. ASSUME NEW c \in Clave, Enlazado(c)' # {}
      PROVE  Firme(verificacion'[c])
  <2>1. CASE Enlazado(c)' = Enlazado(c)
    BY <1>1, <2>1, ActividadEfecto DEF ActividadConVerificacion, Firme
  <2>2. ASSUME NEW p \in Peticion, Enlaza(p), c = ent[p].clave
        PROVE  Firme(verificacion'[c])
    BY <2>2 DEF Enlaza, PasoPropio, Progreso
  <2>3. CASE actividad' = actividad
    BY <2>1, <2>3 DEF Enlazado
  <2>4. ASSUME NEW p \in Peticion, Enlaza(p), c # ent[p].clave
        PROVE  Enlazado(c)' = Enlazado(c)
    BY <2>4, EnlazadoTras
  <2>5. QED
    BY <2>1, <2>2, <2>3, <2>4, ActividadEfecto
<1>2. QED
  BY <1>1 DEF ActividadConVerificacion, Firme

-----------------------------------------------------------------------------
(***************************************************************************)
(* The invariant.                                                          *)
(***************************************************************************)
LEMMA IInvInicial == Init => IInv
<1> SUFFICES ASSUME Init PROVE IInv
  OBVIOUS
<1>1. Formas
  BY BaseTipo, ConstantesOK DEF Init, Formas, PasoDe
<1>2. \A p \in Peticion : pc[p] = "libre" /\ ent[p] = Base
  BY DEF Init
<1>3. PasoPropio
  BY <1>2, BaseTipo DEF PasoPropio, Progreso, Alta
<1>4. Cuenta
  <2>1. Pasadas = {}
    BY <1>2 DEF Pasadas
  <2>2. Cardinality(Pasadas) = 0
    BY <2>1, FS_EmptySet
  <2>3. \A a \in Clave \X Codigo : actividad[a] = 0
    BY DEF Init
  <2>4. QED
    BY <2>2, <2>3 DEF Cuenta
<1>5. \A c \in Clave : Enlazado(c) = {}
  <2>1. \A a \in Clave \X Codigo : ~(actividad[a] > 0)
    BY DEF Init
  <2>2. \A c \in Clave, g \in Codigo : <<c, g>> \in Clave \X Codigo
    OBVIOUS
  <2>3. \A c \in Clave, g \in Codigo : ~(actividad[c, g] > 0)
    BY <2>1, <2>2
  <2>4. QED
    BY <2>3 DEF Enlazado
<1>6. ActividadesEnteras
  <2>1. UNION {ent[p].giros : p \in {}} = {}
    OBVIOUS
  <2>2. \A c \in Clave : {} \in SUBSET {p \in Peticion : Alta(p) /\ ent[p].clave = c}
    OBVIOUS
  <2>3. QED
    BY <1>5, <2>1, <2>2 DEF ActividadesEnteras
<1>7. ActividadConVerificacion
  BY <1>5 DEF ActividadConVerificacion
<1>8. QED
  BY <1>1, <1>3, <1>4, <1>6, <1>7 DEF IInv

LEMMA IInvInductiva == IInv /\ [Next]_vars => IInv'
<1> SUFFICES ASSUME IInv, [Next]_vars PROVE IInv'
  OBVIOUS
<1>1. Formas' /\ PasoPropio'
  BY PasoPropioInductiva DEF IInv
<1>2. Cuenta'
  BY CuentaInductiva DEF IInv
<1>3. ActividadesEnteras'
  BY EnterasInductiva DEF IInv
<1>4. ActividadConVerificacion'
  BY VerificacionInductiva DEF IInv
<1>5. QED
  BY <1>1, <1>2, <1>3, <1>4 DEF IInv

LEMMA Invariante == Spec => []IInv
<1>1. Init => IInv
  BY IInvInicial
<1>2. IInv /\ [Next]_vars => IInv'
  BY IInvInductiva
<1>3. QED
  BY <1>1, <1>2, PTL DEF Spec

-----------------------------------------------------------------------------
(***************************************************************************)
(* The theorems.                                                           *)
(***************************************************************************)

\* Every variable keeps its type; a code is linked to an organization at most
\* once by each request, which bounds the rows that the repeated INSERT of
\* soncronizarActividadesEconomicas leaves behind.
THEOREM Tipos == Spec => []TypeOK
<1>1. IInv => TypeOK
  <2> SUFFICES ASSUME IInv PROVE TypeOK
    OBVIOUS
  <2>1. Pasadas \subseteq Peticion
    BY DEF Pasadas
  <2>2. /\ Cardinality(Pasadas) <= Cardinality(Peticion)
        /\ Cardinality(Pasadas) \in Nat /\ Cardinality(Peticion) \in Nat
    BY <2>1, ConstantesOK, FS_Subset, FS_CardinalityType
  <2>3. \A a \in Clave \X Codigo : actividad[a] \in 0..Cardinality(Peticion)
    BY <2>2 DEF IInv, Cuenta
  <2>4. actividad \in [Clave \X Codigo -> 0..Cardinality(Peticion)]
    BY <2>3 DEF IInv, Formas
  <2>5. QED
    BY <2>4 DEF IInv, Formas, TypeOK
<1>2. QED
  BY <1>1, Invariante, PTL

\* A registration that is answered 201 left its row, its author as ADMIN and,
\* with giros, the tax data and a link for each of them, for any number of
\* requests and however many failed half-way before it (createOrganizacion).
THEOREM AltaCompletaSiempre == Spec => []AltaCompleta
<1>1. IInv => AltaCompleta
  BY DEF IInv, PasoPropio, Progreso, AltaCompleta, Firme
<1>2. QED
  BY <1>1, Invariante, PTL

\* The activities of an organization are those of whole registrations of it,
\* whatever failed in between (soncronizarActividadesEconomicas is one INSERT).
THEOREM ActividadesEnterasSiempre == Spec => []ActividadesEnteras
<1>1. IInv => ActividadesEnteras
  BY DEF IInv
<1>2. QED
  BY <1>1, Invariante, PTL

\* No organization has activities without normalised tax data: neither the raw
\* write of the other endpoint nor a failure takes them away (upsertRaw).
THEOREM ActividadConVerificacionSiempre == Spec => []ActividadConVerificacion
<1>1. IInv => ActividadConVerificacion
  BY DEF IInv
<1>2. QED
  BY <1>1, Invariante, PTL
=============================================================================
