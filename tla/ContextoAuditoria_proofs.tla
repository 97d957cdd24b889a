----------------------- MODULE ContextoAuditoria_proofs -----------------------
(***************************************************************************)
(* Proofs about ContextoAuditoria, for any number of calls, connections    *)
(* and failures.                                                           *)
(***************************************************************************)
EXTENDS ContextoAuditoria, FiniteSetTheorems, TLAPS

-----------------------------------------------------------------------------
(***************************************************************************)
(* The inductive invariant.                                                *)
(***************************************************************************)

\* Whoever has written has got past the statement that writes.
Escribio(p) == pc[p] \notin {"libre", "conectar", "comenzar", "fijar",
                             "operar", "sola"}

Hecho(p) == \E e \in bitacora : e.de = p

\* A connection has one holder, which is in the middle of a call or hangs.
TomaUnica ==
    /\ \A p, q \in Peticion : toma[p] # Ninguna /\ toma[p] = toma[q] => p = q
    /\ \A p \in Peticion :
          toma[p] # Ninguna =>
             pc[p] \in (PasoDe \ {"conectar"}) \cup {"colgada"}

\* Only a session with an open transaction has something to remember.
SesionCerrada ==
    \A c \in Conexion : ~sesion[c].abierta => sesion[c] = Limpia

\* A single statement comes for nobody.
SolaDeNadie ==
    \A p \in Peticion : /\ pc[p] = "sola" => tipo[p] = "sola"
                        /\ tipo[p] = "sola" => usuario[p] = Nulo

\* A block between its START TRANSACTION and its COMMIT has its transaction
\* open, and when it operates the session names its user; if it has none, it
\* names nobody, or whom the inherited transaction named.
BloqueAbierto ==
    \A p \in Peticion :
       toma[p] # Ninguna =>
          /\ pc[p] \in {"fijar", "operar", "confirmar"} => sesion[toma[p]].abierta
          /\ pc[p] = "operar" /\ usuario[p] # Nulo
                => sesion[toma[p]].ctx = usuario[p]
          /\ pc[p] \in {"fijar", "operar"} /\ usuario[p] = Nulo /\ ~heredada[p]
                => sesion[toma[p]].ctx = Nulo

\* What is written, committed or not, is signed as ContextoPropio says.
Firmado(e) == /\ Escribio(e.de)
              /\ \/ e.ctx = usuario[e.de]
                 \/ usuario[e.de] = Nulo /\ heredada[e.de]

Firmas == /\ \A e \in bitacora : Firmado(e)
          /\ \A c \in Conexion : \A e \in sesion[c].escritos : Firmado(e)

\* What an open transaction holds belongs to the block that runs in it, to a
\* call whose ROLLBACK was not answered, or to a statement that went well.
Pendientes ==
    \A c \in Conexion : \A e \in sesion[c].escritos :
       \/ toma[e.de] = c /\ pc[e.de] \in {"confirmar", "revertir"}
       \/ sinSaber[e.de]
       \/ pc[e.de] \in {"liberar_ok", "fin"}

\* How far a call got, and what is committed of it.
Resultado(p) ==
    /\ sinSaber[p] => Escribio(p) /\ pc[p] # "confirmar"
    /\ pc[p] = "confirmar" =>
          /\ ~Hecho(p)
          /\ toma[p] # Ninguna => \E e \in sesion[toma[p]].escritos : e.de = p
    /\ pc[p] \in {"revertir", "liberar_error", "fallo", "colgada"}
          => (Hecho(p) => sinSaber[p])
    /\ pc[p] \in {"liberar_ok", "fin"}
          => Hecho(p) \/ (tipo[p] = "sola" /\ heredada[p])

Resultados == \A p \in Peticion : Resultado(p)

\* Each call that hangs had a failure of its own, or took a transaction that a
\* failure had aborted.
Colgadas == {p \in Peticion : pc[p] = "colgada"}

Abortadas == {c \in Conexion : /\ sesion[c].abortada
                               /\ \A p \in Peticion :
                                     toma[p] = c => pc[p] # "colgada"}

Deuda == /\ IsFiniteSet(Colgadas) /\ IsFiniteSet(Abortadas)
         /\ Cardinality(Colgadas) + Cardinality(Abortadas) <= fallos

IInv == /\ TypeOK
        /\ TomaUnica /\ SesionCerrada /\ SolaDeNadie /\ BloqueAbierto
        /\ Firmas /\ Pendientes /\ Resultados /\ Deuda
-----------------------------------------------------------------------------
(***************************************************************************)
(* Type correctness.                                                       *)
(***************************************************************************)

\* What the statements do to a connection keeps it one.
LEMMA SesionTipo ==
  ASSUME NEW s \in Sesion, NEW p \in Peticion, NEW u \in Contexto
  PROVE  /\ Limpia \in Sesion
         /\ Abrir(s) \in Sesion /\ Abortar(s) \in Sesion
         /\ ConContexto(s, u) \in Sesion /\ ConEscrito(s, p) \in Sesion
         /\ Terminada(s) \in Sesion /\ Deshecha(s) \in Sesion
<1>1. Limpia \in Sesion
  BY DEF Limpia, Sesion, Contexto
<1>2. [de |-> p, ctx |-> s.ctx] \in Escrito
  BY DEF Sesion, Escrito
<1>3. ConEscrito(s, p) \in Sesion
  BY <1>2 DEF ConEscrito, Sesion
<1>4. QED
  BY <1>1, <1>3
  DEF Abrir, Abortar, ConContexto, Terminada, Deshecha, Sesion

LEMMA TipoInicial == Init => TypeOK
  BY ConstantesOK DEF Init, TypeOK, Limpia, Contexto, Sesion

\* A statement on the connection that the call has, or none.
LEMMA PasoTipo ==
  ASSUME TypeOK, NEW p \in Peticion,
         NEW paso \in PasoDe \cup {"fin", "fallo", "colgada"},
         Ir(p, paso),
         UNCHANGED <<toma, tipo, usuario>>,
         \/ UNCHANGED sesion
         \/ \E c \in Conexion, s \in Sesion : sesion' = [sesion EXCEPT ![c] = s],
         bitacora' \subseteq Escrito,
         UNCHANGED fallos \/ Fallo,
         \/ UNCHANGED sinSaber
         \/ \E b \in BOOLEAN : sinSaber' = [sinSaber EXCEPT ![p] = b],
         \/ UNCHANGED heredada
         \/ \E b \in BOOLEAN : heredada' = [heredada EXCEPT ![p] = b]
  PROVE  TypeOK'
<1>1. sesion' \in [Conexion -> Sesion]
  BY DEF TypeOK
<1>2. fallos' \in 0..MaxFallos
  BY ConstantesOK DEF TypeOK, Fallo
<1>3. pc' \in [Peticion -> PasoDe \cup {"libre", "fin", "fallo", "colgada", "caida"}]
  BY DEF TypeOK, Ir
<1>4. sinSaber' \in [Peticion -> BOOLEAN] /\ heredada' \in [Peticion -> BOOLEAN]
  BY DEF TypeOK
<1>5. QED
  BY <1>1, <1>2, <1>3, <1>4 DEF TypeOK

LEMMA TipoInductivo == TypeOK /\ [Next]_vars => TypeOK'
<1> SUFFICES ASSUME TypeOK, [Next]_vars  PROVE TypeOK'
  OBVIOUS
<1> USE DEF externo, Entrada
<1>1. ASSUME NEW p \in Peticion, Llega(p)  PROVE TypeOK'
  <2>1. PICK t \in {"bloque", "sola"}, u \in Quienes[p] :
             /\ tipo' = [tipo EXCEPT ![p] = t]
             /\ usuario' = [usuario EXCEPT ![p] = u]
    BY <1>1 DEF Llega
  <2>2. u \in Contexto
    BY ConstantesOK DEF Contexto
  <2>3. QED
    BY <1>1, <2>1, <2>2 DEF Llega, Ir, TypeOK, PasoDe
<1>2. ASSUME NEW p \in Peticion, Manejador(p)  PROVE TypeOK'
  <2> DEFINE c == toma[p]
             s == sesion[c]
  <2>1. CASE Conectar(p)
    BY <2>1 DEF Conectar, SinConexion, Ir, TypeOK, PasoDe
  <2>2. CASE Liberar(p)
    BY <2>2 DEF Liberar, TrasLiberar, Ir, TypeOK
  <2>3. CASE Lanza(p)
    <3>1. \E paso \in PasoDe \cup {"fin", "fallo", "colgada"} : Ir(p, paso)
      BY <2>3 DEF Lanza, PasoDe
    <3>2. QED
      BY <2>3, <3>1, PasoTipo DEF Lanza, TypeOK
  <2>4. CASE ~Perdida(p) /\ (Comenzar(p) \/ Fijar(p) \/ Operar(p)
                               \/ Confirmar(p) \/ Revertir(p) \/ Sola(p))
    <3>1. /\ c \in Conexion /\ s \in Sesion
          /\ usuario[p] \in Contexto
          /\ s.escritos \subseteq Escrito /\ [de |-> p, ctx |-> s.ctx] \in Escrito
          /\ s.abierta \in BOOLEAN
      BY <2>4 DEF Perdida, TypeOK, Sesion, Escrito
    <3>2. /\ Abrir(s) \in Sesion /\ Abortar(s) \in Sesion
          /\ ConContexto(s, usuario[p]) \in Sesion /\ ConEscrito(s, p) \in Sesion
          /\ Terminada(s) \in Sesion /\ Deshecha(s) \in Sesion
      BY <3>1, SesionTipo
    <3>3. {"fijar", "colgada", "operar", "revertir", "confirmar", "liberar_ok",
           "liberar_error"} \subseteq PasoDe \cup {"fin", "fallo", "colgada"}
      BY DEF PasoDe
    <3>4. bitacora \subseteq Escrito /\ fallos \in 0..MaxFallos
      BY DEF TypeOK
    <3> HIDE DEF c, s
    <3>5. CASE Comenzar(p)
      BY <3>1, <3>2, <3>3, <3>4, <3>5, PasoTipo DEF Comenzar, c, s
    <3>6. CASE Fijar(p)
      BY <3>1, <3>2, <3>3, <3>4, <3>6, PasoTipo DEF Fijar, c, s
    <3>7. CASE Operar(p)
      BY <3>1, <3>2, <3>3, <3>4, <3>7, PasoTipo DEF Operar, c, s
    <3>8. CASE Confirmar(p)
      BY <3>1, <3>2, <3>3, <3>4, <3>8, PasoTipo DEF Confirmar, c, s
    <3>9. CASE Revertir(p)
      BY <3>1, <3>2, <3>3, <3>4, <3>9, PasoTipo DEF Revertir, c, s
    <3>10. CASE Sola(p)
      BY <3>1, <3>2, <3>3, <3>4, <3>10, PasoTipo DEF Sola, Fallo, c, s
    <3>11. QED
      BY <2>4, <3>5, <3>6, <3>7, <3>8, <3>9, <3>10
  <2>5. QED
    BY <1>2, <2>1, <2>2, <2>3, <2>4
    DEF Manejador, Comenzar, Fijar, Operar, Confirmar, Revertir, Sola
<1>3. ASSUME NEW c \in Conexion, Cae(c)  PROVE TypeOK'
  <2>1. Limpia \in Sesion
    BY DEF Limpia, Sesion, Contexto
  <2>2. QED
    BY <1>3, <2>1, ConstantesOK DEF Cae, Fallo, TypeOK
<1>4. CASE Caida
  <2>1. Limpia \in Sesion
    BY DEF Limpia, Sesion, Contexto
  <2>2. QED
    BY <1>4, <2>1, ConstantesOK DEF Caida, Fallo, TypeOK
<1>5. CASE UNCHANGED vars
  BY <1>5 DEF vars, TypeOK
<1>6. QED
  BY <1>1, <1>2, <1>3, <1>4, <1>5 DEF Next, Descansa

\* Every variable has its type in every state.
THEOREM Tipos == Spec => []TypeOK
<1>1. QED
  BY TipoInicial, TipoInductivo, PTL DEF Spec

-----------------------------------------------------------------------------
(***************************************************************************)
(* The steps that keep the inductive invariant, conjunct by conjunct.      *)
(***************************************************************************)

\* A connection that is in use is not given to another call.
LEMMA TomaUnicaInductiva ==
  ASSUME TypeOK, TomaUnica, [Next]_vars
  PROVE  TomaUnica'
<1> USE DEF TypeOK, TomaUnica, PasoDe, Ir, Perdida
<1>1. ASSUME NEW p \in Peticion, Llega(p)  PROVE TomaUnica'
  BY <1>1 DEF Llega
<1>2. ASSUME NEW p \in Peticion, Conectar(p)  PROVE TomaUnica'
  BY <1>2, ConstantesOK DEF Conectar, SinConexion, Libre
<1>3. ASSUME NEW p \in Peticion, Liberar(p)  PROVE TomaUnica'
  BY <1>3 DEF Liberar, TrasLiberar
<1>4. ASSUME NEW p \in Peticion,
             Comenzar(p) \/ Fijar(p) \/ Operar(p) \/ Confirmar(p) \/ Revertir(p)
                \/ Lanza(p) \/ Sola(p)
      PROVE  TomaUnica'
  <2>1. toma' = toma
    BY <1>4 DEF Comenzar, Fijar, Operar, Confirmar, Revertir, Lanza, Sola
  <2>2. \E paso \in PasoDe \cup {"fallo", "colgada"} :
           /\ Ir(p, paso)
           /\ paso \in (PasoDe \ {"conectar"}) \cup {"colgada"}
                 \/ toma[p] = Ninguna
    BY <1>4 DEF Comenzar, Fijar, Operar, Confirmar, Revertir, Lanza, Sola
  <2>3. QED
    BY <2>1, <2>2
<1>5. ASSUME NEW c \in Conexion, Cae(c)  PROVE TomaUnica'
  BY <1>5 DEF Cae
<1>6. CASE Caida
  BY <1>6 DEF Caida
<1>7. CASE UNCHANGED vars
  BY <1>7 DEF vars
<1>8. QED
  BY <1>1, <1>2, <1>3, <1>4, <1>5, <1>6, <1>7 DEF Next, Manejador, Descansa

\* After COMMIT, ROLLBACK or a loss a session is clean, and outside of a
\* transaction no statement leaves anything in it.
LEMMA SesionCerradaInductiva ==
  ASSUME TypeOK, TomaUnica, SesionCerrada, BloqueAbierto, [Next]_vars
  PROVE  SesionCerrada'
<1> USE DEF SesionCerrada, externo, Entrada
<1>1. ASSUME NEW p \in Peticion, Manejador(p), sesion' # sesion
      PROVE  SesionCerrada'
  <2> DEFINE c == toma[p]
             s == sesion[c]
  <2>1. /\ c \in Conexion /\ s \in Sesion
        /\ \E t \in Sesion : /\ sesion' = [sesion EXCEPT ![c] = t]
                             /\ t.abierta \/ t = Limpia
    <3>1. ~Perdida(p) /\ c \in Conexion /\ s \in Sesion
          /\ (s.abierta \/ s = Limpia)
      BY <1>1 DEF Manejador, Conectar, Comenzar, Fijar, Operar, Confirmar,
                  Revertir, Lanza, Liberar, Sola, Perdida, TypeOK, SesionCerrada
    <3>2. /\ Abrir(s) \in Sesion /\ Abortar(s) \in Sesion
          /\ ConContexto(s, usuario[p]) \in Sesion /\ ConEscrito(s, p) \in Sesion
          /\ Terminada(s) \in Sesion /\ Deshecha(s) \in Sesion
      BY <3>1, SesionTipo DEF TypeOK
    <3>3. /\ Abrir(s).abierta
          /\ Abortar(s).abierta \/ Abortar(s) = Limpia
          /\ ConContexto(s, usuario[p]).abierta \/ ConContexto(s, usuario[p]) = Limpia
          /\ s.abierta => ConEscrito(s, p).abierta
          /\ Terminada(s) = Limpia /\ Deshecha(s) = Limpia
      BY <3>1 DEF Abrir, Abortar, ConContexto, ConEscrito, Terminada, Deshecha, Sesion
    <3>4. pc[p] = "operar" => s.abierta
      BY <3>1 DEF BloqueAbierto, Perdida
    <3> HIDE DEF c, s
    <3>5. CASE Comenzar(p) \/ Fijar(p)
      BY <1>1, <3>1, <3>2, <3>3, <3>5 DEF Comenzar, Fijar, c, s
    <3>6. CASE Operar(p)
      BY <1>1, <3>1, <3>2, <3>3, <3>4, <3>6 DEF Operar, c, s
    <3>7. CASE Confirmar(p) \/ Revertir(p)
      BY <1>1, <3>1, <3>2, <3>3, <3>7 DEF Confirmar, Revertir, c, s
    <3>8. CASE Sola(p)
      BY <1>1, <3>1, <3>2, <3>3, <3>8 DEF Sola, c, s
    <3>9. QED
      BY <1>1, <3>1, <3>5, <3>6, <3>7, <3>8
      DEF Manejador, Conectar, Lanza, Liberar
  <2>2. QED
    BY <2>1 DEF TypeOK
<1>2. CASE sesion' = sesion
  BY <1>2
<1>3. ASSUME NEW c \in Conexion, Cae(c)  PROVE SesionCerrada'
  BY <1>3 DEF Cae, TypeOK
<1>4. CASE Caida
  BY <1>4 DEF Caida
<1>5. QED
  BY <1>1, <1>2, <1>3, <1>4 DEF Next, Llega, Descansa, vars

LEMMA SolaDeNadieInductiva ==
  ASSUME TypeOK, SolaDeNadie, [Next]_vars
  PROVE  SolaDeNadie'
<1> USE DEF TypeOK, SolaDeNadie, PasoDe, Ir, Entrada
<1>1. ASSUME NEW p \in Peticion, Llega(p)  PROVE SolaDeNadie'
  BY <1>1 DEF Llega
<1>2. ASSUME NEW p \in Peticion, Manejador(p)  PROVE SolaDeNadie'
  <2>1. /\ UNCHANGED <<tipo, usuario>>
        /\ \E paso \in PasoDe \cup {"fin", "fallo", "colgada"} :
              Ir(p, paso) /\ (paso = "sola" => tipo[p] = "sola")
    BY <1>2 DEF Manejador, Conectar, SinConexion, Comenzar, Fijar, Operar,
                Confirmar, Revertir, Lanza, Liberar, Sola
  <2>2. QED
    BY <2>1
<1>3. CASE (\E c \in Conexion : Cae(c)) \/ Caida \/ UNCHANGED vars
  BY <1>3 DEF Cae, Caida, vars
<1>4. QED
  BY <1>1, <1>2, <1>3 DEF Next, Descansa

\* What each statement does to a connection, field by field.
LEMMA Efectos ==
  ASSUME NEW s \in Sesion, NEW p, NEW u
  PROVE  /\ Abrir(s).abierta /\ Abrir(s).ctx = s.ctx
         /\ Abrir(s).escritos = s.escritos /\ Abrir(s).abortada = s.abortada
         /\ Abortar(s).abierta = s.abierta /\ Abortar(s).ctx = s.ctx
         /\ Abortar(s).escritos = s.escritos
         /\ ConContexto(s, u).abierta = s.abierta
         /\ s.abierta => ConContexto(s, u).ctx = u
         /\ ConContexto(s, u).escritos = s.escritos
         /\ ConContexto(s, u).abortada = s.abortada
         /\ ConEscrito(s, p).abierta = s.abierta /\ ConEscrito(s, p).ctx = s.ctx
         /\ ConEscrito(s, p).escritos = s.escritos \cup {[de |-> p, ctx |-> s.ctx]}
         /\ ConEscrito(s, p).abortada = s.abortada
         /\ Terminada(s) = Limpia /\ Deshecha(s) = Limpia
         /\ ~Limpia.abierta /\ Limpia.ctx = Nulo /\ Limpia.escritos = {}
         /\ ~Limpia.abortada
  BY DEF Abrir, Abortar, ConContexto, ConEscrito, Terminada, Deshecha, Limpia, Sesion

\* A step touches no call but p, and no connection but the one p has.
SoloDe(p) ==
    /\ UNCHANGED <<tipo, usuario>>
    /\ \A q \in Peticion \ {p} :
          /\ toma'[q] = toma[q] /\ pc'[q] = pc[q]
          /\ heredada'[q] = heredada[q] /\ sinSaber'[q] = sinSaber[q]
    /\ \A c \in Conexion \ {toma[p]} : sesion'[c] = sesion[c]

\* So does every call that goes on.
LEMMA Ajenos ==
  ASSUME TypeOK, NEW p \in Peticion, Manejador(p)
  PROVE  SoloDe(p)
<1> DEFINE Suyo == sesion' = sesion \/ \E s : sesion' = [sesion EXCEPT ![toma[p]] = s]
<1> USE DEF Ir, Entrada, externo
<1>1. ASSUME UNCHANGED <<tipo, usuario>>, Suyo,
             toma' = toma \/ \E x : toma' = [toma EXCEPT ![p] = x],
             pc' = pc \/ \E x : pc' = [pc EXCEPT ![p] = x],
             heredada' = heredada \/ \E x : heredada' = [heredada EXCEPT ![p] = x],
             sinSaber' = sinSaber \/ \E x : sinSaber' = [sinSaber EXCEPT ![p] = x]
      PROVE  SoloDe(p)
  BY <1>1 DEF TypeOK, SoloDe
<1>2. CASE Conectar(p) \/ Lanza(p) \/ Liberar(p)
  BY <1>1, <1>2 DEF Conectar, SinConexion, Lanza, Liberar
<1>3. CASE Comenzar(p)
  BY <1>1, <1>3 DEF Comenzar
<1>4. CASE Fijar(p)
  BY <1>1, <1>4 DEF Fijar
<1>5. CASE Operar(p)
  BY <1>1, <1>5 DEF Operar
<1>6. CASE Confirmar(p)
  BY <1>1, <1>6 DEF Confirmar
<1>7. CASE Revertir(p)
  BY <1>1, <1>7 DEF Revertir
<1>8. CASE Sola(p)
  BY <1>1, <1>8 DEF Sola
<1>9. QED
  BY <1>2, <1>3, <1>4, <1>5, <1>6, <1>7, <1>8 DEF Manejador

\* Nobody else runs in the transaction of a block.
LEMMA BloqueAbiertoInductivo ==
  ASSUME TypeOK, TypeOK', TomaUnica, SesionCerrada, SolaDeNadie, BloqueAbierto,
         [Next]_vars
  PROVE  BloqueAbierto'
<1> USE DEF BloqueAbierto
<1>1. ASSUME NEW p \in Peticion, Llega(p)  PROVE BloqueAbierto'
  BY <1>1 DEF Llega, Ir, Entrada, externo, TypeOK, TomaUnica, PasoDe
<1>2. ASSUME NEW p \in Peticion, Manejador(p)  PROVE BloqueAbierto'
  <2> DEFINE Propio(q) ==
        toma'[q] # Ninguna =>
          /\ pc'[q] \in {"fijar", "operar", "confirmar"} => sesion'[toma'[q]].abierta
          /\ pc'[q] = "operar" /\ usuario'[q] # Nulo
                => sesion'[toma'[q]].ctx = usuario'[q]
          /\ pc'[q] \in {"fijar", "operar"} /\ usuario'[q] = Nulo /\ ~heredada'[q]
                => sesion'[toma'[q]].ctx = Nulo
  <2>1. ASSUME NEW q \in Peticion \ {p}  PROVE Propio(q)
    <3>1. toma[q] # Ninguna => toma[q] \in Conexion \ {toma[p]}
      BY DEF TomaUnica, TypeOK
    <3>2. QED
      BY <1>2, <3>1, Ajenos DEF SoloDe, TypeOK
  <2>2. Propio(p)
    <3> DEFINE c == toma[p]
               s == sesion[c]
    <3>1. /\ UNCHANGED usuario /\ usuario[p] \in Contexto
          /\ pc[p] \in PasoDe /\ heredada[p] \in BOOLEAN
      BY <1>2, Ajenos DEF Manejador, Conectar, Comenzar, Fijar, Operar, Confirmar,
                  Revertir, Lanza, Liberar, Sola, TypeOK, PasoDe, SoloDe
    <3>2. CASE pc'[p] \notin {"fijar", "operar", "confirmar"} \/ Perdida(p)'
      BY <3>2 DEF Perdida
    <3>3. CASE ~Perdida(p) /\ UNCHANGED toma
               /\ (Comenzar(p) \/ Fijar(p) \/ Operar(p))
      <4>1. c \in Conexion /\ s \in Sesion /\ (~s.abierta => s = Limpia)
            /\ toma'[p] = c
        BY <3>3 DEF Perdida, TypeOK, SesionCerrada
      <4> HIDE DEF c
      <4>3. CASE Comenzar(p)
        BY <3>1, <4>1, <4>3, Efectos DEF Comenzar, Ir, TypeOK, c
      <4>4. CASE Fijar(p)
        <5>1. s.abierta /\ (usuario[p] = Nulo /\ ~heredada[p] => s.ctx = Nulo)
          BY <3>1, <3>3, <4>4 DEF Fijar, Perdida, c
        <5>2. ConContexto(s, usuario[p]).abierta
              /\ ConContexto(s, usuario[p]).ctx = usuario[p]
          BY <4>1, <5>1, Efectos
        <5>3. /\ heredada' = heredada
              /\ \/ sesion'[c] = ConContexto(s, usuario[p]) /\ usuario[p] # Nulo
                 \/ sesion'[c] = s /\ usuario[p] = Nulo
          BY <4>1, <4>4 DEF Fijar, TypeOK, c
        <5> HIDE DEF s
        <5>4. QED
          BY <3>1, <4>1, <5>1, <5>2, <5>3
      <4>5. CASE Operar(p)
        BY <3>1, <4>1, <4>5, Efectos DEF Operar, Ir, TypeOK, c, Perdida
      <4>6. QED
        BY <3>3, <4>3, <4>4, <4>5
    <3>4. CASE Conectar(p) \/ Liberar(p)
      BY <3>2, <3>4 DEF Conectar, SinConexion, Liberar, Ir, TypeOK
    <3>5. CASE Confirmar(p) \/ Revertir(p) \/ Sola(p)
      BY <3>2, <3>5 DEF Confirmar, Revertir, Sola, Ir, TypeOK
    <3>6. CASE Lanza(p)
      BY <3>2, <3>6 DEF Lanza, Perdida
    <3>7. QED
      BY <1>2, <3>3, <3>4, <3>5, <3>6
      DEF Manejador, Comenzar, Fijar, Operar, Perdida
  <2>3. QED
    BY <2>1, <2>2
<1>3. ASSUME NEW c \in Conexion, Cae(c)  PROVE BloqueAbierto'
  BY <1>3 DEF Cae, Entrada, TypeOK
<1>4. CASE Caida
  BY <1>4 DEF Caida, TypeOK
<1>5. CASE UNCHANGED vars
  BY <1>5 DEF vars
<1>6. QED
  BY <1>1, <1>2, <1>3, <1>4, <1>5 DEF Next, Descansa

\* What call p writes now.
Nuevo(p) == [de |-> p, ctx |-> sesion[toma[p]].ctx]

\* A session holds what it held and what the call that has it writes; what is
\* committed comes from the session of a block, or from a single statement; a
\* statement that did its work and threw leaves the call not knowing it.
LEMMA Escrituras ==
  ASSUME TypeOK, NEW p \in Peticion, Manejador(p)
  PROVE  /\ \A c \in Conexion : \A e \in sesion'[c].escritos :
               \/ e \in sesion[c].escritos
               \/ /\ e = Nuevo(p) /\ c = toma[p]
                  /\ \/ Operar(p)
                     \/ Sola(p) /\ (pc'[p] = "liberar_ok" \/ sinSaber'[p])
         /\ \A e \in bitacora' :
               \/ e \in bitacora
               \/ /\ \/ Confirmar(p) /\ e \in sesion[toma[p]].escritos
                     \/ Sola(p) /\ e = Nuevo(p)
                  /\ pc'[p] = "liberar_ok" \/ sinSaber'[p]
<1> DEFINE c == toma[p]
           s == sesion[c]
<1> USE DEF externo, Nuevo
<1>1. CASE Conectar(p) \/ Lanza(p) \/ Liberar(p)
  BY <1>1 DEF Conectar, Lanza, Liberar
<1>2. CASE ~Perdida(p) /\ (Comenzar(p) \/ Fijar(p) \/ Operar(p)
                             \/ Confirmar(p) \/ Revertir(p) \/ Sola(p))
  <2>1. c \in Conexion /\ s \in Sesion /\ sesion \in [Conexion -> Sesion]
    BY <1>2 DEF Perdida, TypeOK
  <2>2. /\ Abrir(s).escritos = s.escritos /\ Abortar(s).escritos = s.escritos
        /\ ConContexto(s, usuario[p]).escritos = s.escritos
        /\ ConEscrito(s, p).escritos = s.escritos \cup {Nuevo(p)}
        /\ Terminada(s).escritos = {} /\ Deshecha(s).escritos = {}
    BY <2>1, Efectos
  <2> HIDE DEF c, s, Nuevo
  <2>3. CASE Comenzar(p)
    BY <2>1, <2>2, <2>3 DEF Comenzar, c, s
  <2>4. CASE Fijar(p)
    BY <2>1, <2>2, <2>4 DEF Fijar, c, s
  <2>5. CASE Operar(p)
    BY <2>1, <2>2, <2>5 DEF Operar, c, s
  <2>6. CASE Confirmar(p)
    BY <2>1, <2>2, <2>6 DEF Confirmar, TypeOK, Ir, c, s
  <2>7. CASE Revertir(p)
    BY <2>1, <2>2, <2>7 DEF Revertir, c, s
  <2>8. CASE Sola(p)
    BY <2>1, <2>2, <2>8 DEF Sola, Nuevo, TypeOK, Ir, c, s
  <2>9. QED
    BY <1>2, <2>3, <2>4, <2>5, <2>6, <2>7, <2>8
<1>3. QED
  BY <1>1, <1>2
  DEF Manejador, Comenzar, Fijar, Operar, Confirmar, Revertir, Sola

\* Where a call may go from where it is.
LEMMA Camino ==
  ASSUME TypeOK, NEW p \in Peticion, Manejador(p)
  PROVE  /\ pc[p] \in PasoDe /\ pc'[p] \in PasoDe \cup {"fin", "fallo", "colgada"}
         /\ Escribio(p) => /\ Escribio(p)' /\ heredada'[p] = heredada[p]
                           /\ pc'[p] # "colgada"
         /\ Operar(p) \/ Sola(p) => /\ toma[p] # Ninguna
                                    /\ Escribio(p)'
         /\ Operar(p) => pc[p] = "operar" /\ heredada'[p] = heredada[p]
         /\ Sola(p) => pc[p] = "sola" /\ heredada'[p] = sesion[toma[p]].abierta
<1> USE DEF Escribio, PasoDe, Ir, Perdida
<1>1. CASE Conectar(p) \/ Lanza(p) \/ Liberar(p)
  BY <1>1 DEF Conectar, SinConexion, Lanza, Liberar, TypeOK, Operar, Sola
<1>2. CASE Comenzar(p) \/ Fijar(p)
  BY <1>2 DEF Comenzar, Fijar, TypeOK, Operar, Sola
<1>3. CASE Operar(p)
  BY <1>3 DEF Operar, TypeOK, Sola
<1>4. CASE Confirmar(p) \/ Revertir(p)
  BY <1>4 DEF Confirmar, Revertir, TypeOK, Operar, Sola
<1>5. CASE Sola(p)
  BY <1>5 DEF Sola, TypeOK, Operar
<1>6. QED
  BY <1>1, <1>2, <1>3, <1>4, <1>5 DEF Manejador

\* Every write is signed by the user of its call when it is made, and nothing
\* that the signature depends on changes after it.
LEMMA FirmasInductivas ==
  ASSUME TypeOK, TypeOK', TomaUnica, SesionCerrada, SolaDeNadie, BloqueAbierto,
         Firmas, [Next]_vars
  PROVE  Firmas'
<1>1. ASSUME NEW p \in Peticion, Llega(p)  PROVE Firmas'
  BY <1>1 DEF Llega, Firmas, Firmado, Escribio, Ir, Entrada, externo,
              TypeOK, Sesion, Escrito
<1>2. ASSUME NEW p \in Peticion, Manejador(p)  PROVE Firmas'
  <2>1. SoloDe(p)
    BY <1>2, Ajenos
  <2>2. ASSUME NEW e \in Escrito, Firmado(e)  PROVE Firmado(e)'
    <3>1. e.de \in Peticion
      BY DEF Escrito
    <3>2. CASE e.de # p
      BY <2>1, <2>2, <3>1, <3>2 DEF SoloDe, Firmado, Escribio
    <3>3. CASE e.de = p
      BY <1>2, <2>1, <2>2, <3>3, Camino DEF SoloDe, Firmado
    <3>4. QED
      BY <3>2, <3>3
  <2>3. ASSUME NEW e, e = Nuevo(p), Operar(p) \/ Sola(p)
        PROVE  Firmado(e)'
    <3>1. /\ toma[p] \in Conexion /\ usuario[p] \in Contexto
          /\ toma[p] # Ninguna /\ Escribio(p)' /\ usuario' = usuario
      BY <1>2, <2>1, <2>3, Camino DEF SoloDe, TypeOK
    <3>2. e.de = p /\ e.ctx = sesion[toma[p]].ctx
      BY <2>3 DEF Nuevo
    <3>3. CASE Operar(p)
      <4>1. sesion[toma[p]].ctx = usuario[p] \/ (usuario[p] = Nulo /\ heredada[p])
        BY <1>2, <3>1, <3>3, Camino DEF BloqueAbierto
      <4>2. QED
        BY <1>2, <3>1, <3>2, <3>3, <4>1, Camino DEF Firmado
    <3>4. CASE Sola(p)
      <4>1. usuario[p] = Nulo
        BY <1>2, <3>4, Camino DEF SolaDeNadie
      <4>2. sesion[toma[p]].abierta \/ sesion[toma[p]].ctx = Nulo
        BY <3>1 DEF SesionCerrada, Limpia
      <4>3. QED
        BY <1>2, <3>1, <3>2, <3>4, <4>1, <4>2, Camino DEF Firmado
    <3>5. QED
      BY <2>3, <3>3, <3>4
  <2>4. ASSUME NEW e \in bitacora'  PROVE Firmado(e)'
    BY <1>2, <2>2, <2>3, Escrituras DEF Firmas, TypeOK, Sesion, Confirmar, Perdida
  <2>5. ASSUME NEW c \in Conexion, NEW e \in sesion'[c].escritos
        PROVE  Firmado(e)'
    BY <1>2, <2>2, <2>3, Escrituras DEF Firmas, TypeOK, Sesion
  <2>6. QED
    BY <2>4, <2>5 DEF Firmas
<1>3. ASSUME NEW c \in Conexion, Cae(c)  PROVE Firmas'
  BY <1>3 DEF Cae, Firmas, Firmado, Escribio, Entrada, Limpia, TypeOK
<1>4. CASE Caida
  BY <1>4 DEF Caida, Firmas, Firmado, Escribio, EnCurso, Entrada, Limpia,
              TypeOK, Sesion, Escrito
<1>5. CASE UNCHANGED vars
  BY <1>5 DEF vars, Firmas, Firmado, Escribio
<1>6. QED
  BY <1>1, <1>2, <1>3, <1>4, <1>5 DEF Next, Descansa

\* What a call leaves in an open transaction when it goes is known to be in
\* doubt, or was answered.
LEMMA PendientesInductivos ==
  ASSUME TypeOK, TypeOK', TomaUnica, Firmas, Pendientes, [Next]_vars
  PROVE  Pendientes'
<1> DEFINE Explicado(e, c) == \/ toma[e.de] = c /\ pc[e.de] \in {"confirmar", "revertir"}
                              \/ sinSaber[e.de]
                              \/ pc[e.de] \in {"liberar_ok", "fin"}
<1>1. ASSUME NEW p \in Peticion, Llega(p)  PROVE Pendientes'
  BY <1>1 DEF Llega, Pendientes, Firmas, Firmado, Escribio, Ir, externo, TypeOK,
              Sesion, Escrito
<1>2. ASSUME NEW p \in Peticion, Manejador(p)  PROVE Pendientes'
  <2> SUFFICES ASSUME NEW c \in Conexion, NEW e \in sesion'[c].escritos
               PROVE  Explicado(e, c)'
    BY DEF Pendientes
  <2>1. SoloDe(p) /\ e.de \in Peticion /\ c # Ninguna
    BY <1>2, Ajenos, ConstantesOK DEF TypeOK, Sesion, Escrito
  <2>2. CASE e \in sesion[c].escritos
    <3>1. Explicado(e, c) /\ Escribio(e.de)
      BY <2>2 DEF Pendientes, Firmas, Firmado
    <3>2. CASE e.de # p
      BY <2>1, <3>1, <3>2 DEF SoloDe
    <3>3. CASE e.de = p
      <4>1. CASE Confirmar(p) \/ Revertir(p)
        <5>1. c = toma[p] => sesion'[c] = Limpia \/ sinSaber'[p]
          BY <4>1, Efectos DEF Confirmar, Revertir, TypeOK
        <5>2. sesion'[c] # Limpia
          BY DEF Limpia
        <5>3. sinSaber[p] => sinSaber'[p]
          BY <4>1 DEF Confirmar, Revertir, TypeOK
        <5>4. QED
          BY <3>1, <3>3, <4>1, <5>1, <5>2, <5>3 DEF Confirmar, Revertir
      <4>2. CASE Lanza(p) \/ Liberar(p)
        BY <2>1, <3>1, <3>3, <4>2 DEF Lanza, Liberar, Perdida, Ir, TypeOK
      <4>3. QED
        BY <1>2, <3>1, <3>3, <4>1, <4>2
        DEF Manejador, Conectar, Comenzar, Fijar, Operar, Sola, Escribio
    <3>4. QED
      BY <3>2, <3>3
  <2>3. CASE e = Nuevo(p) /\ c = toma[p] /\ Operar(p)
    BY <2>3 DEF Nuevo, Operar, Ir, TypeOK
  <2>4. CASE e = Nuevo(p) /\ (pc'[p] = "liberar_ok" \/ sinSaber'[p])
    BY <2>4 DEF Nuevo
  <2>5. QED
    BY <1>2, <2>2, <2>3, <2>4, Escrituras
<1>3. ASSUME NEW c \in Conexion, Cae(c)  PROVE Pendientes'
  BY <1>3 DEF Cae, Pendientes, Limpia, TypeOK, Sesion, Escrito
<1>4. CASE Caida
  BY <1>4 DEF Caida, Pendientes, Limpia
<1>5. CASE UNCHANGED vars
  BY <1>5 DEF vars, Pendientes
<1>6. QED
  BY <1>1, <1>2, <1>3, <1>4, <1>5 DEF Next, Descansa

\* The answer of a call agrees with what is committed of it, even when another
\* call commits what it left behind.
LEMMA ResultadosInductivos ==
  ASSUME TypeOK, TypeOK', TomaUnica, SolaDeNadie, SesionCerrada, Firmas,
         Pendientes, Resultados, [Next]_vars
  PROVE  Resultados'
<1> SUFFICES ASSUME NEW q \in Peticion  PROVE Resultado(q)'
  BY DEF Resultados
<1>1. Resultado(q)
  BY DEF Resultados
<1>2. Hecho(q) => Escribio(q)
  BY DEF Hecho, Firmas, Firmado
<1>3. ASSUME NEW p \in Peticion, Llega(p)  PROVE Resultado(q)'
  BY <1>1, <1>2, <1>3 DEF Llega, Resultado, Escribio, Hecho, Ir, Entrada, externo,
                          TypeOK
<1>4. ASSUME NEW p \in Peticion, Manejador(p), p # q  PROVE Resultado(q)'
  <2>1. SoloDe(p)
    BY <1>4, Ajenos
  <2>2. toma[q] # Ninguna => toma[q] # toma[p] /\ toma[q] \in Conexion
    BY <1>4 DEF TomaUnica, TypeOK
  <2>3. Hecho(q) => Hecho(q)'
    BY <1>4 DEF Hecho, Manejador, Conectar, Comenzar, Fijar, Operar, Confirmar,
                Revertir, Lanza, Liberar, Sola, externo
  <2>4. Hecho(q)' => Hecho(q) \/ sinSaber[q] \/ pc[q] \in {"liberar_ok", "fin"}
    <3> SUFFICES ASSUME NEW e \in bitacora', e.de = q, e \notin bitacora
                 PROVE  sinSaber[q] \/ pc[q] \in {"liberar_ok", "fin"}
      BY DEF Hecho
    <3>1. Confirmar(p) /\ e \in sesion[toma[p]].escritos
      BY <1>4, Escrituras DEF Nuevo
    <3>2. toma[p] \in Conexion
      BY <3>1 DEF Confirmar, Perdida, TypeOK
    <3>3. QED
      BY <2>2, <3>1, <3>2, ConstantesOK DEF Pendientes
  <2>5. QED
    BY <1>1, <1>4, <2>1, <2>2, <2>3, <2>4 DEF SoloDe, Resultado, Escribio
<1>5. ASSUME Manejador(q)  PROVE Resultado(q)'
  <2> USE DEF Resultado, Escribio, Hecho, Ir, externo, Entrada, Perdida
  <2>1. CASE Conectar(q) \/ Lanza(q) \/ Liberar(q)
    BY <1>1, <1>2, <2>1 DEF Conectar, SinConexion, Lanza, Liberar, TypeOK
  <2>2. CASE Comenzar(q) \/ Fijar(q)
    BY <1>1, <1>2, <2>2 DEF Comenzar, Fijar, TypeOK
  <2>3. CASE Operar(q)
    <3>1. toma[q] \in Conexion /\ sesion[toma[q]] \in Sesion
      BY <2>3 DEF Operar, TypeOK
    <3>2. \E e \in ConEscrito(sesion[toma[q]], q).escritos : e.de = q
      <4>1. Nuevo(q) \in ConEscrito(sesion[toma[q]], q).escritos
        BY <3>1, Efectos DEF Nuevo
      <4>2. QED
        BY <4>1 DEF Nuevo
    <3>3. ~Hecho(q) /\ ~sinSaber[q] /\ UNCHANGED <<bitacora, sinSaber, toma>>
      BY <1>1, <1>2, <2>3 DEF Operar
    <3>4. CASE pc'[q] = "confirmar"
      <4>1. sesion'[toma[q]] = ConEscrito(sesion[toma[q]], q)
        BY <2>3, <3>1, <3>4 DEF Operar, TypeOK
      <4>2. QED
        BY <3>2, <3>3, <3>4, <4>1
    <3>5. CASE pc'[q] = "revertir"
      BY <3>3, <3>5
    <3>6. QED
      BY <2>3, <3>4, <3>5 DEF Operar, TypeOK
  <2>4. CASE Confirmar(q)
    BY <1>1, <1>2, <2>4 DEF Confirmar, TypeOK
  <2>5. CASE Revertir(q)
    BY <1>1, <1>2, <2>5 DEF Revertir, TypeOK
  <2>6. CASE Sola(q)
    <3>1. tipo' = tipo /\ tipo[q] = "sola"
      BY <2>6 DEF Sola, SolaDeNadie
    <3>2. ~Hecho(q) /\ ~sinSaber[q]
      BY <1>1, <1>2, <2>6 DEF Sola
    <3>3. CASE pc'[q] = "liberar_ok"
      <4>1. Nuevo(q) \in bitacora' \/ heredada'[q]
        BY <2>6, <3>3 DEF Sola, Nuevo, TypeOK
      <4>2. QED
        BY <3>1, <3>2, <3>3, <4>1, <2>6 DEF Sola, Nuevo
    <3>4. CASE pc'[q] = "liberar_error" /\ (sinSaber'[q] \/ UNCHANGED <<bitacora, sinSaber>>)
      BY <3>2, <3>4
    <3>5. QED
      BY <2>6, <3>3, <3>4 DEF Sola, TypeOK
  <2>7. QED
    BY <1>5, <2>1, <2>2, <2>3, <2>4, <2>5, <2>6 DEF Manejador
<1>6. ASSUME NEW c \in Conexion, Cae(c)  PROVE Resultado(q)'
  BY <1>1, <1>6 DEF Cae, Resultado, Escribio, Hecho, Entrada, TypeOK
<1>7. CASE Caida
  BY <1>1, <1>7 DEF Caida, Resultado, Escribio, Hecho, EnCurso, PasoDe, Entrada,
                    TypeOK
<1>8. CASE UNCHANGED vars
  BY <1>1, <1>8 DEF vars, Resultado, Escribio, Hecho
<1>9. QED
  BY <1>3, <1>4, <1>5, <1>6, <1>7, <1>8 DEF Next, Descansa

-----------------------------------------------------------------------------
(***************************************************************************)
(* The count of the connections that are lost.                             *)
(***************************************************************************)

\* The cardinality of a set within a finite one with one element more.
LEMMA UnoMas ==
  ASSUME NEW S, IsFiniteSet(S), NEW x, NEW T, T \subseteq S \cup {x}
  PROVE  /\ IsFiniteSet(T) /\ Cardinality(T) \in Nat
         /\ Cardinality(T) <= Cardinality(S) + 1
<1>1. Cardinality(S) \in Nat
  BY FS_CardinalityType
<1>2. IsFiniteSet(S \cup {x}) /\ (\/ Cardinality(S \cup {x}) = Cardinality(S)
                                   \/ Cardinality(S \cup {x}) = Cardinality(S) + 1)
  BY FS_AddElement
<1>3. IsFiniteSet(T) /\ Cardinality(T) <= Cardinality(S \cup {x})
  BY <1>2, FS_Subset
<1>4. Cardinality(T) \in Nat
  BY <1>3, FS_CardinalityType
<1>5. QED
  BY <1>1, <1>2, <1>3, <1>4

\* Nothing new hangs or aborts.
LEMMA DeudaIgual ==
  ASSUME TypeOK, TypeOK', Deuda, Colgadas' \subseteq Colgadas,
         Abortadas' \subseteq Abortadas, fallos' >= fallos
  PROVE  Deuda'
<1>1. /\ IsFiniteSet(Colgadas') /\ IsFiniteSet(Abortadas')
      /\ Cardinality(Colgadas') <= Cardinality(Colgadas)
      /\ Cardinality(Abortadas') <= Cardinality(Abortadas)
  BY FS_Subset DEF Deuda
<1>2. /\ Cardinality(Colgadas) \in Nat /\ Cardinality(Abortadas) \in Nat
      /\ Cardinality(Colgadas') \in Nat /\ Cardinality(Abortadas') \in Nat
      /\ fallos \in Nat /\ fallos' \in Nat
  BY <1>1, FS_CardinalityType, ConstantesOK DEF Deuda, TypeOK
<1>3. QED
  BY <1>1, <1>2 DEF Deuda

\* One call hangs, or one transaction is aborted, and a failure is spent.
LEMMA DeudaPagada ==
  ASSUME TypeOK, TypeOK', Deuda, NEW x, Fallo,
         \/ Colgadas' \subseteq Colgadas \cup {x} /\ Abortadas' \subseteq Abortadas
         \/ Colgadas' \subseteq Colgadas /\ Abortadas' \subseteq Abortadas \cup {x}
  PROVE  Deuda'
<1>1. /\ IsFiniteSet(Colgadas) /\ IsFiniteSet(Abortadas)
      /\ Cardinality(Colgadas) \in Nat /\ Cardinality(Abortadas) \in Nat
      /\ fallos \in Nat /\ fallos' = fallos + 1
      /\ Cardinality(Colgadas) + Cardinality(Abortadas) <= fallos
  BY FS_CardinalityType, ConstantesOK DEF Deuda, TypeOK, Fallo
<1>2. ASSUME NEW S, NEW T, IsFiniteSet(T), S \subseteq T
      PROVE  /\ IsFiniteSet(S) /\ Cardinality(S) \in Nat
             /\ Cardinality(S) <= Cardinality(T)
  BY <1>2, FS_Subset, FS_CardinalityType
<1>3. CASE Colgadas' \subseteq Colgadas \cup {x} /\ Abortadas' \subseteq Abortadas
  <2>1. /\ IsFiniteSet(Colgadas') /\ Cardinality(Colgadas') \in Nat
        /\ Cardinality(Colgadas') <= Cardinality(Colgadas) + 1
    BY <1>1, <1>3, UnoMas
  <2>2. QED
    BY <1>1, <1>2, <1>3, <2>1 DEF Deuda
<1>4. CASE Colgadas' \subseteq Colgadas /\ Abortadas' \subseteq Abortadas \cup {x}
  <2>1. /\ IsFiniteSet(Abortadas') /\ Cardinality(Abortadas') \in Nat
        /\ Cardinality(Abortadas') <= Cardinality(Abortadas) + 1
    BY <1>1, <1>4, UnoMas
  <2>2. QED
    BY <1>1, <1>2, <1>4, <2>1 DEF Deuda
<1>5. QED
  BY <1>3, <1>4

\* A call that hangs for an aborted transaction takes its place in the count.
LEMMA DeudaTraspasada ==
  ASSUME TypeOK, TypeOK', Deuda, UNCHANGED fallos, NEW p, NEW c \in Abortadas,
         Colgadas' \subseteq Colgadas \cup {p}, Abortadas' \subseteq Abortadas \ {c}
  PROVE  Deuda'
<1>1. /\ IsFiniteSet(Colgadas) /\ IsFiniteSet(Abortadas)
      /\ Cardinality(Colgadas) \in Nat /\ Cardinality(Abortadas) \in Nat
      /\ Cardinality(Colgadas) + Cardinality(Abortadas) <= fallos
      /\ fallos \in Nat
  BY FS_CardinalityType, ConstantesOK DEF Deuda, TypeOK
<1>2. /\ IsFiniteSet(Colgadas') /\ Cardinality(Colgadas') \in Nat
      /\ Cardinality(Colgadas') <= Cardinality(Colgadas) + 1
  BY <1>1, UnoMas
<1>3. /\ IsFiniteSet(Abortadas \ {c})
      /\ Cardinality(Abortadas \ {c}) \in Nat
      /\ Cardinality(Abortadas \ {c}) = Cardinality(Abortadas) - 1
  BY <1>1, FS_RemoveElement, FS_CardinalityType
<1>4. IsFiniteSet(Abortadas') /\ Cardinality(Abortadas') <= Cardinality(Abortadas \ {c})
  BY <1>3, FS_Subset
<1>5. Cardinality(Abortadas') \in Nat
  BY <1>4, FS_CardinalityType
<1>6. QED
  BY <1>1, <1>2, <1>3, <1>4, <1>5 DEF Deuda

\* A call hangs, or aborts a transaction, with a failure of its own, or takes
\* over an aborted transaction that a failure has paid for.
LEMMA DeudaInductiva ==
  ASSUME TypeOK, TypeOK', TomaUnica, Deuda, [Next]_vars
  PROVE  Deuda'
<1> USE DEF Colgadas, Abortadas
<1>1. ASSUME NEW p \in Peticion, Llega(p)  PROVE Deuda'
  <2>1. Colgadas' \subseteq Colgadas /\ Abortadas' \subseteq Abortadas
    BY <1>1 DEF Llega, Ir, externo, TypeOK
  <2>2. QED
    BY <1>1, <2>1, DeudaIgual DEF Llega, TypeOK
<1>2. ASSUME NEW p \in Peticion, Manejador(p)  PROVE Deuda'
  <2> DEFINE c == toma[p]
             s == sesion[c]
  <2>1. SoloDe(p) /\ pc[p] # "colgada" /\ fallos \in Nat
    BY <1>2, Ajenos, Camino, ConstantesOK DEF TypeOK, PasoDe
  <2>2. fallos' \in Nat /\ (UNCHANGED fallos \/ Fallo)
    BY <1>2, ConstantesOK
    DEF Manejador, Conectar, Comenzar, Fijar, Operar, Confirmar, Revertir,
        Lanza, Liberar, Sola, Fallo, TypeOK
  <2>3. ASSUME pc'[p] # "colgada",
               \A d \in Conexion : sesion'[d].abortada => sesion[d].abortada,
               toma' = toma \/ toma' = [toma EXCEPT ![p] = Ninguna]
                  \/ \E d \in Conexion : toma' = [toma EXCEPT ![p] = d]
        PROVE  Deuda'
    <3>1. Colgadas' \subseteq Colgadas
      BY <2>1, <2>3 DEF SoloDe
    <3>2. Abortadas' \subseteq Abortadas
      BY <2>1, <2>3 DEF SoloDe, TypeOK
    <3>3. QED
      BY <2>1, <2>2, <3>1, <3>2, DeudaIgual DEF Fallo
  <2>4. CASE Conectar(p) \/ Lanza(p) \/ Liberar(p)
    <3>1. sesion' = sesion /\ pc'[p] # "colgada"
      BY <2>4 DEF Conectar, SinConexion, Lanza, Liberar, externo, Ir, TypeOK
    <3>2. toma' = toma \/ toma' = [toma EXCEPT ![p] = Ninguna]
            \/ \E d \in Conexion : toma' = [toma EXCEPT ![p] = d]
      BY <2>4 DEF Conectar, SinConexion, Lanza, Liberar, TrasLiberar
    <3>3. QED
      BY <2>3, <3>1, <3>2
  <2>5. CASE ~Perdida(p) /\ toma' = toma
    <3>1. c \in Conexion /\ s \in Sesion /\ c # Ninguna
      BY <2>5 DEF Perdida, TypeOK
    <3>2. /\ Abrir(s).abortada = s.abortada
          /\ ConContexto(s, usuario[p]).abortada = s.abortada
          /\ ConEscrito(s, p).abortada = s.abortada
          /\ ~Terminada(s).abortada /\ ~Deshecha(s).abortada
      BY <3>1, Efectos
    <3>3. Abortadas' \subseteq Abortadas \cup {c}
      BY <2>1, <2>5 DEF SoloDe
    <3>4. pc'[p] # "colgada" => Colgadas' \subseteq Colgadas
      BY <2>1 DEF SoloDe
    <3> HIDE DEF c, s
    <3>5. CASE Comenzar(p)
      <4>1. CASE s.abortada
        <5>1. c \in Abortadas /\ sesion' = sesion /\ pc'[p] = "colgada"
              /\ UNCHANGED fallos
          BY <2>1, <3>1, <3>5, <4>1 DEF Comenzar, Ir, TypeOK, TomaUnica, c, s
        <5>2. Colgadas' \subseteq Colgadas \cup {p}
          BY <2>1 DEF SoloDe
        <5>3. Abortadas' \subseteq Abortadas \ {c}
          BY <2>1, <2>5, <5>1 DEF SoloDe, c
        <5>4. QED
          BY <5>1, <5>2, <5>3, DeudaTraspasada
      <4>2. CASE ~s.abortada
        <5>1. /\ \A d \in Conexion : sesion'[d].abortada => sesion[d].abortada
              /\ \/ pc'[p] # "colgada"
                 \/ Fallo
          BY <2>1, <3>1, <3>2, <3>5, <4>2 DEF Comenzar, Ir, TypeOK, SoloDe, c, s
        <5>2. Colgadas' \subseteq Colgadas \cup {p} /\ Abortadas' \subseteq Abortadas
          BY <2>1, <2>5, <5>1 DEF SoloDe
        <5>3. QED
          BY <2>3, <2>5, <5>1, <5>2, DeudaPagada
      <4>3. QED
        BY <4>1, <4>2
    <3>6. CASE Fijar(p)
      <4>1. \A d \in Conexion : sesion'[d].abortada => sesion[d].abortada
        BY <2>1, <3>1, <3>2, <3>6 DEF Fijar, TypeOK, SoloDe, c, s
      <4>2. pc'[p] # "colgada"
        BY <3>6 DEF Fijar, Ir, TypeOK
      <4>3. QED
        BY <2>3, <2>5, <4>1, <4>2
    <3>7. CASE Operar(p)
      <4>1. pc'[p] # "colgada"
        BY <3>7 DEF Operar, Ir, TypeOK
      <4>2. \/ Fallo
            \/ \A d \in Conexion : sesion'[d].abortada => sesion[d].abortada
        BY <2>1, <3>1, <3>2, <3>7 DEF Operar, TypeOK, SoloDe, c, s
      <4>3. QED
        BY <2>3, <2>5, <3>3, <3>4, <4>1, <4>2, DeudaPagada
    <3>8. CASE Confirmar(p) \/ Revertir(p)
      <4>1. \A d \in Conexion : sesion'[d].abortada => sesion[d].abortada
        BY <2>1, <3>1, <3>2, <3>8 DEF Confirmar, Revertir, TypeOK, SoloDe, c, s
      <4>2. pc'[p] # "colgada"
        BY <3>8 DEF Confirmar, Revertir, Ir, TypeOK
      <4>3. QED
        BY <2>3, <2>5, <4>1, <4>2
    <3>9. CASE Sola(p)
      <4>1. pc'[p] # "colgada"
        BY <3>9 DEF Sola, Ir, TypeOK
      <4>2. \/ Fallo
            \/ \A d \in Conexion : sesion'[d].abortada => sesion[d].abortada
        BY <2>1, <3>1, <3>2, <3>9 DEF Sola, Fallo, TypeOK, SoloDe, c, s
      <4>3. QED
        BY <2>3, <2>5, <3>3, <3>4, <4>1, <4>2, DeudaPagada
    <3>10. QED
      BY <1>2, <2>4, <3>5, <3>6, <3>7, <3>8, <3>9 DEF Manejador
  <2>6. QED
    BY <1>2, <2>4, <2>5
    DEF Manejador, Comenzar, Fijar, Operar, Confirmar, Revertir, Sola
<1>3. ASSUME NEW c \in Conexion, Cae(c)  PROVE Deuda'
  <2>1. Colgadas' \subseteq Colgadas /\ fallos' = fallos + 1
    BY <1>3 DEF Cae, Fallo
  <2>2. Abortadas' \subseteq Abortadas
    BY <1>3 DEF Cae, Limpia, TypeOK
  <2>3. QED
    BY <2>1, <2>2, DeudaIgual, ConstantesOK DEF TypeOK
<1>4. CASE Caida
  <2>1. Colgadas' \subseteq Colgadas /\ Abortadas' = {} /\ fallos' = fallos + 1
    BY <1>4 DEF Caida, Fallo, EnCurso, Limpia
  <2>2. QED
    BY <2>1, DeudaIgual, ConstantesOK DEF TypeOK
<1>5. CASE UNCHANGED vars
  BY <1>5 DEF vars, Deuda
<1>6. QED
  BY <1>1, <1>2, <1>3, <1>4, <1>5 DEF Next, Descansa

-----------------------------------------------------------------------------
LEMMA InvInicial == Init => IInv
<1> SUFFICES ASSUME Init  PROVE IInv
  OBVIOUS
<1>1. TypeOK
  BY TipoInicial
<1>2. /\ TomaUnica /\ SesionCerrada /\ SolaDeNadie /\ BloqueAbierto
      /\ Firmas /\ Pendientes /\ Resultados
  BY DEF Init, Limpia, TomaUnica, SesionCerrada, SolaDeNadie, BloqueAbierto, Firmas,
         Pendientes, Resultados, Resultado, Hecho
<1>3. Deuda
  <2>1. Colgadas = {} /\ Abortadas = {} /\ fallos = 0
    BY DEF Init, Limpia, Colgadas, Abortadas
  <2>2. QED
    BY <2>1, FS_EmptySet DEF Deuda
<1>4. QED
  BY <1>1, <1>2, <1>3 DEF IInv

LEMMA InvInductivo == IInv /\ [Next]_vars => IInv'
  BY TipoInductivo, TomaUnicaInductiva, SesionCerradaInductiva, SolaDeNadieInductiva,
     BloqueAbiertoInductivo, FirmasInductivas, PendientesInductivos,
     ResultadosInductivos, DeudaInductiva DEF IInv

LEMMA Invariante == Spec => []IInv
  BY InvInicial, InvInductivo, PTL DEF Spec

\* What is committed carries the user of the call that wrote it, and only a
\* call that gave none may carry that of another, in an inherited transaction.
THEOREM ContextoPropioSiempre == Spec => []ContextoPropio
<1>1. IInv => ContextoPropio
  BY DEF IInv, Firmas, Firmado, ContextoPropio
<1>2. QED
  BY <1>1, Invariante, PTL

\* A block that was answered is committed, and a call that threw left nothing
\* behind unless its COMMIT, its ROLLBACK or its statement was not answered.
THEOREM ResultadoFielSiempre == Spec => []ResultadoFiel
<1>1. IInv => ResultadoFiel
  BY DEF IInv, Resultados, Resultado, Hecho, ResultadoFiel
<1>2. QED
  BY <1>1, Invariante, PTL

\* The pool loses no more connections to calls that hang than there were
\* failures.
THEOREM PoolEnteroSiempre == Spec => []PoolEntero
<1>1. ASSUME IInv  PROVE PoolEntero
  <2>1. /\ Cardinality(Colgadas) \in Nat /\ Cardinality(Abortadas) \in Nat
        /\ Cardinality(Colgadas) + Cardinality(Abortadas) <= fallos
    BY <1>1, FS_CardinalityType DEF IInv, Deuda
  <2>2. fallos \in Nat
    BY <1>1, ConstantesOK DEF IInv, TypeOK
  <2>3. Cardinality(Colgadas) <= fallos
    BY <2>1, <2>2
  <2>4. QED
    BY <1>1, <2>3 DEF IInv, TomaUnica, PoolEntero, Colgadas, EnCurso
<1>2. QED
  BY <1>1, Invariante, PTL
===============================================================================
