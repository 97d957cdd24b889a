---------------------- MODULE RectificacionFactura_proofs ----------------------
(***************************************************************************)
(* Proofs about RectificacionFactura, for any row, documents, values and   *)
(* requests.                                                               *)
(***************************************************************************)
EXTENDS RectificacionFactura, TLAPS

-----------------------------------------------------------------------------
(***************************************************************************)
(* The inductive invariant.                                                *)
(***************************************************************************)

Editando == {"validar", "actualizar", "resolver", "resolver_nulo"}

\* What a request carries passed the gates that come before its step.
Admitidas ==
    \A p \in Peticion :
       /\ pc[p] = "libre" => ent[p].tipo = ""
       /\ pc[p] \in Editando =>
             /\ ent[p].tipo = "editar" /\ ent[p].token = "con permiso"
             /\ ent[p].campo \in Tratados /\ Admite(ent[p].campo, ent[p].valor)
       /\ pc[p] \in Editando \ {"validar"} => <<ent[p].quien, ent[p].org>> \in ConFila
       /\ pc[p] \in {"leer", "anotar"} => ent[p].tipo = "respaldo"

\* The edit that wrote a field.
Origen(p, c) ==
    /\ pc[p] \in {"resolver", "resolver_nulo", "fin", "fallo", "caida"}
    /\ ent[p].tipo = "editar" /\ ent[p].campo = c /\ ent[p].valor = fila[c]
    /\ ent[p].token = "con permiso" /\ ent[p].valor.n # 0
    /\ c = "rutDeudor" => ent[p].valor.forma = "llana"
    /\ ent[p].quien = Gestor /\ ent[p].org = Duena
    /\ <<ent[p].quien, ent[p].org>> \in ConFila

ConOrigen == \A c \in Campo : fila[c] = FilaPrevia[c] \/ \E p \in Peticion : Origen(p, c)

IInv == /\ TypeOK
        /\ Admitidas /\ ConOrigen /\ DiscrepanciaAnotada /\ NotaVigente

-----------------------------------------------------------------------------
(***************************************************************************)
(* What each step changes, request by request.                             *)
(***************************************************************************)
Entrada == [tipo: {"", "editar", "respaldo"}, token: Token, quien: Usuario,
            org: Organizacion, campo: Campo, valor: Texto, doc: Fila]

Respuesta == {"", "no autorizado", "prohibido", "invalido", "actualizada",
              "no actualizada", "discrepancias", "sin discrepancias", "error"}

LEMMA BaseOK == Vacio \in Texto /\ Base \in Entrada /\ Base.tipo = ""
<1>1. Vacio \in Texto
  BY ConstantesOK DEF Vacio, Texto, Forma
<1>2. QED
  BY <1>1, ConstantesOK DEF Base, Entrada, Token, Campo, Fila

\* Nothing of the other requests.
Aparte(p) ==
    \A q \in Peticion : q # p => pc'[q] = pc[q] /\ ent'[q] = ent[q] /\ leida'[q] = leida[q]

\* What an edit, or a document, carries when it gets to its handler.
Pasa(e, paso) ==
    \/ /\ paso = "validar" /\ e.tipo = "editar" /\ e.token = "con permiso"
       /\ e.campo \in Tratados /\ Admite(e.campo, e.valor)
    \/ paso = "leer" /\ e.tipo = "respaldo"

LEMMA EdicionReal ==
  ASSUME NEW p \in Peticion, LlegaEdicion(p)
  PROVE  \/ \E que \in Respuesta : Rechaza(p, que)
         \/ \E e \in Entrada : Pasa(e, "validar") /\ Llega(p, e, "validar")
<1>1. PICK t \in Token, c \in Tratados, v \in Valores :
         \/ \E que \in Respuesta : Rechaza(p, que)
         \/ /\ Permite(t) /\ Admite(c, v)
            /\ \E b \in Cuerpos :
                  Llega(p, [Base EXCEPT !.tipo = "editar", !.token = t, !.quien = b[1],
                                        !.org = b[2], !.campo = c, !.valor = v], "validar")
  BY DEF LlegaEdicion, Respuesta
<1>2. CASE \E que \in Respuesta : Rechaza(p, que)
  BY <1>2
<1>3. ASSUME Permite(t), Admite(c, v), NEW b \in Cuerpos,
             Llega(p, [Base EXCEPT !.tipo = "editar", !.token = t, !.quien = b[1],
                                   !.org = b[2], !.campo = c, !.valor = v], "validar")
      PROVE  \E e \in Entrada : Pasa(e, "validar") /\ Llega(p, e, "validar")
  <2> DEFINE e == [Base EXCEPT !.tipo = "editar", !.token = t, !.quien = b[1],
                               !.org = b[2], !.campo = c, !.valor = v]
  <2>1. b[1] \in Usuario /\ b[2] \in Organizacion /\ c \in Campo /\ v \in Texto
    BY ConstantesOK
  <2>2. /\ e \in Entrada /\ e.tipo = "editar" /\ e.token = t
        /\ e.campo = c /\ e.valor = v
    BY <2>1, BaseOK DEF Entrada
  <2>3. QED
    BY <1>3, <2>2 DEF Pasa, Permite
<1>4. QED
  BY <1>1, <1>2, <1>3

LEMMA RespaldoReal ==
  ASSUME NEW p \in Peticion, LlegaRespaldo(p)
  PROVE  \E e \in Entrada : Pasa(e, "leer") /\ Llega(p, e, "leer")
<1>1. PICK d \in Documentos : Llega(p, [Base EXCEPT !.tipo = "respaldo", !.doc = d], "leer")
  BY DEF LlegaRespaldo
<1>2. /\ [Base EXCEPT !.tipo = "respaldo", !.doc = d] \in Entrada
      /\ [Base EXCEPT !.tipo = "respaldo", !.doc = d].tipo = "respaldo"
  BY BaseOK, ConstantesOK DEF Entrada
<1>3. QED
  BY <1>1, <1>2 DEF Pasa

LEMMA LlegaEfecto ==
  ASSUME TypeOK, NEW p \in Peticion, NEW e \in Entrada, NEW paso, Llega(p, e, paso)
  PROVE  /\ Aparte(p) /\ pc[p] = "libre" /\ pc'[p] = paso /\ ent'[p] = e
         /\ UNCHANGED <<fila, notas, leida, aviso, ultimo, corregido, dudoso, viejas>>
  BY DEF Llega, Cabe, Ir, Aparte, historia, TypeOK

LEMMA RechazaEfecto ==
  ASSUME TypeOK, NEW p \in Peticion, NEW que, Rechaza(p, que)
  PROVE  /\ Aparte(p) /\ pc[p] = "libre" /\ pc'[p] = "fallo"
         /\ UNCHANGED <<fila, notas, ent, leida, ultimo, corregido, dudoso, viejas>>
  BY DEF Rechaza, Cabe, Termina, Ir, Aparte, historia, TypeOK

LEMMA ValidarEfecto ==
  ASSUME TypeOK, NEW p \in Peticion, EditarValidar(p)
  PROVE  /\ Aparte(p) /\ pc[p] = "validar"
         /\ UNCHANGED <<fila, notas, leida, ultimo, corregido, dudoso, viejas>>
         /\ \/ /\ <<ent[p].quien, ent[p].org>> \in ConFila
               /\ pc'[p] = "actualizar" /\ ent'[p] = ent[p]
            \/ pc'[p] = "fallo" /\ ent'[p] = Base
  BY DEF EditarValidar, Pertenece, Termina, Olvida, Ir, Aparte, historia, TypeOK

LEMMA ActualizarEfecto ==
  ASSUME TypeOK, NEW p \in Peticion, EditarActualizar(p)
  PROVE  /\ Aparte(p) /\ pc[p] = "actualizar" /\ pc'[p] \in {"resolver", "resolver_nulo"}
         /\ UNCHANGED <<notas, ent, leida, aviso, ultimo, dudoso, viejas>>
         /\ \/ /\ ent[p].quien = Gestor /\ ent[p].org = Duena
               /\ fila'[ent[p].campo] = ent[p].valor
               /\ \A c \in Campo : c # ent[p].campo => fila'[c] = fila[c]
               /\ corregido' = corregido \cup {ent[p].campo}
            \/ UNCHANGED <<fila, corregido>>
<1>1. ent[p].campo \in Campo /\ fila \in [Campo -> Texto]
  BY DEF TypeOK, Fila
<1>2. /\ Aparte(p) /\ pc[p] = "actualizar" /\ pc'[p] \in {"resolver", "resolver_nulo"}
      /\ UNCHANGED <<notas, ent, leida, aviso, ultimo, dudoso, viejas>>
  BY DEF EditarActualizar, Ir, Aparte, TypeOK
<1>3. \/ Coincide(ent[p].quien, ent[p].org) /\ Escribe(p)
      \/ UNCHANGED <<fila, corregido>>
  BY DEF EditarActualizar
<1>4. QED
  BY <1>1, <1>2, <1>3 DEF Escribe, Coincide

LEMMA ResolverEfecto ==
  ASSUME TypeOK, NEW p \in Peticion, EditarResolver(p)
  PROVE  /\ Aparte(p) /\ pc[p] \in {"resolver", "resolver_nulo"}
         /\ UNCHANGED <<fila, ent, leida, ultimo, corregido>>
         /\ \/ /\ pc'[p] = "fin" /\ notas' = {m \in notas : m.campo # ent[p].campo}
               /\ viejas' = viejas \cap notas'
               /\ dudoso' = dudoso \cup ({ent[p].campo} \ corregido)
            \/ pc'[p] = "fallo" /\ UNCHANGED <<notas, dudoso, viejas>>
<1>1. /\ Aparte(p) /\ pc[p] \in {"resolver", "resolver_nulo"}
      /\ UNCHANGED <<fila, ent, leida, ultimo, corregido>>
  BY DEF EditarResolver, Termina, Ir, Aparte, TypeOK
<1>2. \/ /\ pc'[p] = "fin" /\ notas' = notas \ Resueltas(ent[p].campo)
         /\ viejas' = viejas \cap notas'
         /\ dudoso' = dudoso \cup ({ent[p].campo} \ corregido)
      \/ pc'[p] = "fallo" /\ UNCHANGED <<notas, dudoso, viejas>>
  BY DEF EditarResolver, Termina, Ir, TypeOK
<1>3. notas \ Resueltas(ent[p].campo) = {m \in notas : m.campo # ent[p].campo}
  BY DEF Resueltas
<1>4. QED
  BY <1>1, <1>2, <1>3

LEMMA LeerEfecto ==
  ASSUME TypeOK, NEW p \in Peticion, RespaldoLeer(p)
  PROVE  /\ Aparte(p) /\ pc[p] = "leer"
         /\ UNCHANGED <<fila, notas, ultimo, corregido, dudoso, viejas>>
         /\ \/ /\ pc'[p] = "anotar" /\ ent'[p] = ent[p]
               /\ leida'[p] = [c \in Campo |-> Leido(c, fila[c])]
            \/ pc'[p] = "fin" /\ ent'[p] = Base /\ leida'[p] = leida[p]
<1>1. /\ pc[p] = "leer" /\ UNCHANGED <<fila, notas, ultimo, corregido, dudoso, viejas>>
  BY DEF RespaldoLeer, historia
<1>2. \/ /\ leida' = [leida EXCEPT ![p] = [c \in Campo |-> Leido(c, fila[c])]]
         /\ Ir(p, "anotar") /\ ent' = ent
      \/ Ir(p, "fin") /\ Olvida(p) /\ leida' = leida
  BY DEF RespaldoLeer, Termina
<1>3. QED
  BY <1>1, <1>2 DEF Ir, Olvida, Aparte, TypeOK

LEMMA NotasEfecto ==
  ASSUME TypeOK, NEW p \in Peticion, RespaldoNotas(p)
  PROVE  /\ Aparte(p) /\ pc[p] = "anotar" /\ ent'[p] = Base
         /\ UNCHANGED fila
         /\ \/ /\ pc'[p] = "fin" /\ notas' = notas \cup NotasDe(p)
               /\ \A c \in Campo :
                     ultimo'[c] = IF c \in Tratados THEN ent[p].doc[c] ELSE ultimo[c]
               /\ corregido' = corregido \ Tratados
               /\ dudoso' = (dudoso \ Tratados) \cup Cambiados(p)
               /\ viejas' = (viejas \ NotasDe(p))
                               \cup {m \in NotasDe(p) : m.campo \in Cambiados(p)}
            \/ pc'[p] = "fallo" /\ UNCHANGED <<notas, ultimo, corregido, dudoso, viejas>>
<1>1. /\ pc[p] = "anotar" /\ UNCHANGED fila
      /\ leida' = [leida EXCEPT ![p] = FilaPrevia] /\ Olvida(p)
      /\ \E fin \in {"fin", "fallo"} : Ir(p, fin)
  BY DEF RespaldoNotas, Termina
<1>2. Aparte(p) /\ ent'[p] = Base
  BY <1>1 DEF Olvida, Ir, Aparte, TypeOK
<1>3. \/ /\ Ir(p, "fin") /\ notas' = notas \cup NotasDe(p)
         /\ ultimo' = [c \in Campo |-> IF c \in Tratados THEN ent[p].doc[c] ELSE ultimo[c]]
         /\ corregido' = corregido \ Tratados
         /\ dudoso' = (dudoso \ Tratados) \cup Cambiados(p)
         /\ viejas' = (viejas \ NotasDe(p))
                         \cup {m \in NotasDe(p) : m.campo \in Cambiados(p)}
      \/ Ir(p, "fallo") /\ UNCHANGED <<notas, ultimo, corregido, dudoso, viejas>>
  BY DEF RespaldoNotas, Termina, historia
<1>4. QED
  BY <1>1, <1>2, <1>3 DEF Ir, TypeOK

LEMMA CaidaEfecto ==
  ASSUME TypeOK, Caida
  PROVE  /\ UNCHANGED <<fila, notas, ent, leida, ultimo, corregido, dudoso, viejas>>
         /\ \A p \in Peticion : pc'[p] = IF EnCurso(p) THEN "caida" ELSE pc[p]
  BY DEF Caida, historia

-----------------------------------------------------------------------------
(***************************************************************************)
(* Type correctness.                                                       *)
(***************************************************************************)

\* What is read of a field, and what a document says against it, are texts.
LEMMA TextoLeido ==
  ASSUME NEW c \in Campo, NEW v \in Texto
  PROVE  Leido(c, v) \in Texto
  BY DEF Leido, Texto, Forma

LEMMA NotasTipo ==
  ASSUME TypeOK, NEW p \in Peticion
  PROVE  NotasDe(p) \subseteq [campo: Campo, doc: Texto]
<1>1. \A c \in Tratados : ent[p].doc[c] \in Texto /\ c \in Campo
  BY ConstantesOK DEF TypeOK, Fila
<1>2. QED
  BY <1>1 DEF NotasDe

LEMMA TipoInicial == Init => TypeOK
<1> SUFFICES ASSUME Init  PROVE TypeOK
  OBVIOUS
<1>1. FilaPrevia \in Fila /\ [c \in Campo |-> Vacio] \in Fila
  BY ConstantesOK, BaseOK DEF Fila
<1>2. QED
  BY <1>1, BaseOK DEF Init, TypeOK, Entrada

LEMMA TipoInductivo == TypeOK /\ [Next]_vars => TypeOK'
<1> SUFFICES ASSUME TypeOK, [Next]_vars  PROVE TypeOK'
  OBVIOUS
<1> USE BaseOK
<1>a. /\ pc \in [Peticion -> PasoDe \cup {"libre", "fin", "fallo", "caida"}]
      /\ ent \in [Peticion -> Entrada] /\ aviso \in [Peticion -> Respuesta]
      /\ leida \in [Peticion -> Fila] /\ ultimo \in Fila /\ fila \in Fila
  BY DEF TypeOK, Entrada, Respuesta
<1>1. ASSUME NEW p \in Peticion, NEW que \in Respuesta, Rechaza(p, que)  PROVE TypeOK'
  BY <1>1, <1>a DEF Rechaza, Termina, Ir, historia, TypeOK, Respuesta
<1>2. ASSUME NEW p \in Peticion, NEW e \in Entrada, NEW paso \in PasoDe, Llega(p, e, paso)
      PROVE  TypeOK'
  <2>1. ent' \in [Peticion -> Entrada]
    BY <1>2, <1>a DEF Llega
  <2>2. QED
    BY <1>2, <1>a, <2>1 DEF Llega, Ir, historia, TypeOK, Entrada
<1>3. ASSUME NEW p \in Peticion, EditarValidar(p)  PROVE TypeOK'
  <2>1. /\ pc' \in [Peticion -> PasoDe \cup {"libre", "fin", "fallo", "caida"}]
        /\ ent' \in [Peticion -> Entrada] /\ aviso' \in [Peticion -> Respuesta]
    BY <1>3, <1>a DEF EditarValidar, Termina, Olvida, Ir, PasoDe, Respuesta
  <2>2. QED
    BY <1>3, <2>1 DEF EditarValidar, historia, TypeOK, Entrada, Respuesta
<1>4. ASSUME NEW p \in Peticion, EditarActualizar(p)  PROVE TypeOK'
  <2>1. ent[p].campo \in Campo /\ ent[p].valor \in Texto
    BY <1>a DEF Entrada
  <2>2. fila' \in Fila /\ corregido' \subseteq Campo
    BY <1>4, <1>a, <2>1 DEF EditarActualizar, Escribe, TypeOK, Fila
  <2>3. QED
    BY <1>4, <1>a, <2>2 DEF EditarActualizar, Ir, TypeOK, PasoDe
<1>5. ASSUME NEW p \in Peticion, EditarResolver(p)  PROVE TypeOK'
  <2>1. ent[p].campo \in Campo
    BY <1>a DEF Entrada
  <2>2. notas' \subseteq notas /\ dudoso' \subseteq Campo /\ viejas' \subseteq notas'
    BY <1>5, <2>1 DEF EditarResolver, TypeOK
  <2>3. QED
    BY <1>5, <1>a, <2>2 DEF EditarResolver, Termina, Ir, TypeOK, Respuesta
<1>6. ASSUME NEW p \in Peticion, RespaldoLeer(p)  PROVE TypeOK'
  <2>1. [c \in Campo |-> Leido(c, fila[c])] \in Fila
    BY <1>a, TextoLeido DEF Fila
  <2>2. leida' \in [Peticion -> Fila]
    BY <1>6, <1>a, <2>1 DEF RespaldoLeer
  <2>3. /\ pc' \in [Peticion -> PasoDe \cup {"libre", "fin", "fallo", "caida"}]
        /\ ent' \in [Peticion -> Entrada] /\ aviso' \in [Peticion -> Respuesta]
    BY <1>6, <1>a DEF RespaldoLeer, Termina, Olvida, Ir, PasoDe, Respuesta
  <2>4. QED
    BY <1>6, <2>2, <2>3 DEF RespaldoLeer, historia, TypeOK, Entrada, Respuesta
<1>7. ASSUME NEW p \in Peticion, RespaldoNotas(p)  PROVE TypeOK'
  <2>1. notas' \subseteq [campo: Campo, doc: Texto]
    BY <1>7, NotasTipo DEF RespaldoNotas, TypeOK
  <2>2. ultimo' \in Fila
    <3>1. ent[p].doc \in [Campo -> Texto]
      BY <1>a DEF Entrada, Fila
    <3>2. QED
      BY <1>7, <1>a, <3>1 DEF RespaldoNotas, historia, Fila
  <2>3. leida' \in [Peticion -> Fila] /\ ent' \in [Peticion -> Entrada]
    BY <1>7, <1>a, ConstantesOK DEF RespaldoNotas, Olvida
  <2>4. pc' \in [Peticion -> PasoDe \cup {"libre", "fin", "fallo", "caida"}]
        /\ aviso' \in [Peticion -> Respuesta]
    BY <1>7, <1>a DEF RespaldoNotas, Termina, Ir, TypeOK, Respuesta
  <2>5. corregido' \subseteq Campo /\ dudoso' \subseteq Campo /\ viejas' \subseteq notas'
    BY <1>7, NotasEfecto, ConstantesOK DEF TypeOK, Cambiados
  <2>6. QED
    BY <1>7, <1>a, <2>1, <2>2, <2>3, <2>4, <2>5 DEF RespaldoNotas, TypeOK, Entrada, Respuesta
<1>8. CASE Caida
  BY <1>8, <1>a DEF Caida, historia, TypeOK
<1>9. CASE UNCHANGED vars
  BY <1>9 DEF vars, historia, TypeOK
<1>10. ASSUME NEW p \in Peticion, LlegaEdicion(p) \/ LlegaRespaldo(p)  PROVE TypeOK'
  BY <1>1, <1>2, <1>10, EdicionReal, RespaldoReal DEF PasoDe
<1>11. QED
  BY <1>3, <1>4, <1>5, <1>6, <1>7, <1>8, <1>9, <1>10 DEF Next, Manejador, Descansa

\* Every variable has its type in every state.
THEOREM Tipos == Spec => []TypeOK
<1>1. QED
  BY TipoInicial, TipoInductivo, PTL DEF Spec

-----------------------------------------------------------------------------
(***************************************************************************)
(* The other parts of the invariant.                                       *)
(***************************************************************************)

\* What a request carries does not change on its way.
LEMMA AdmitidasInductiva ==
  ASSUME TypeOK, Admitidas, [Next]_vars
  PROVE  Admitidas'
<1> USE DEF Aparte
<1>1. ASSUME NEW p \in Peticion, NEW que \in Respuesta, Rechaza(p, que)  PROVE Admitidas'
  BY <1>1, RechazaEfecto, BaseOK DEF Admitidas, Editando
<1>2. ASSUME NEW p \in Peticion, NEW e \in Entrada, NEW paso, Pasa(e, paso), Llega(p, e, paso)
      PROVE  Admitidas'
  <2>1. /\ Aparte(p) /\ pc'[p] = paso /\ ent'[p] = e
    BY <1>2, LlegaEfecto
  <2>2. QED
    BY <1>2, <2>1 DEF Pasa, Admitidas, Editando
<1>3. ASSUME NEW p \in Peticion, EditarValidar(p)  PROVE Admitidas'
  BY <1>3, ValidarEfecto, BaseOK DEF Admitidas, Editando
<1>4. ASSUME NEW p \in Peticion, EditarActualizar(p)  PROVE Admitidas'
  BY <1>4, ActualizarEfecto, BaseOK DEF Admitidas, Editando
<1>5. ASSUME NEW p \in Peticion, EditarResolver(p)  PROVE Admitidas'
  BY <1>5, ResolverEfecto, BaseOK DEF Admitidas, Editando
<1>6. ASSUME NEW p \in Peticion, RespaldoLeer(p)  PROVE Admitidas'
  BY <1>6, LeerEfecto, BaseOK DEF Admitidas, Editando
<1>7. ASSUME NEW p \in Peticion, RespaldoNotas(p)  PROVE Admitidas'
  BY <1>7, NotasEfecto, BaseOK DEF Admitidas, Editando
<1>8. CASE Caida
  BY <1>8, CaidaEfecto DEF EnCurso, PasoDe, Admitidas, Editando
<1>9. CASE UNCHANGED vars
  BY <1>9 DEF vars, Admitidas, Editando
<1>10. ASSUME NEW p \in Peticion, LlegaEdicion(p) \/ LlegaRespaldo(p)  PROVE Admitidas'
  BY <1>1, <1>2, <1>10, EdicionReal, RespaldoReal
<1>11. QED
  BY <1>3, <1>4, <1>5, <1>6, <1>7, <1>8, <1>9, <1>10 DEF Next, Manejador, Descansa

\* An edit that is under way or over keeps what it carried.
LEMMA OrigenInductivo ==
  ASSUME TypeOK, Admitidas, ConOrigen, [Next]_vars
  PROVE  ConOrigen'
<1> USE DEF Aparte
<1>1. ASSUME NEW p \in Peticion, NEW que \in Respuesta, Rechaza(p, que)  PROVE ConOrigen'
  <2>1. UNCHANGED fila /\ \A q \in Peticion, c \in Campo : Origen(q, c) => Origen(q, c)'
    BY <1>1, RechazaEfecto DEF Origen
  <2>2. QED
    BY <2>1 DEF ConOrigen
<1>2. ASSUME NEW p \in Peticion, NEW e \in Entrada, NEW paso, Pasa(e, paso), Llega(p, e, paso)
      PROVE  ConOrigen'
  <2>1. UNCHANGED fila /\ \A q \in Peticion, c \in Campo : Origen(q, c) => Origen(q, c)'
    BY <1>2, LlegaEfecto DEF Origen
  <2>2. QED
    BY <2>1 DEF ConOrigen
<1>3. ASSUME NEW p \in Peticion, EditarValidar(p)  PROVE ConOrigen'
  <2>1. UNCHANGED fila /\ \A q \in Peticion, c \in Campo : Origen(q, c) => Origen(q, c)'
    BY <1>3, ValidarEfecto DEF Origen
  <2>2. QED
    BY <2>1 DEF ConOrigen
<1>4. ASSUME NEW p \in Peticion, EditarActualizar(p)  PROVE ConOrigen'
  <2>1. \A q \in Peticion, c \in Campo : fila'[c] = fila[c] /\ Origen(q, c) => Origen(q, c)'
    BY <1>4, ActualizarEfecto DEF Origen
  <2>2. CASE UNCHANGED fila
    BY <2>1, <2>2 DEF ConOrigen
  <2>3. CASE fila' # fila
    <3>1. /\ ent[p].quien = Gestor /\ ent[p].org = Duena
          /\ fila'[ent[p].campo] = ent[p].valor /\ UNCHANGED ent
          /\ pc[p] = "actualizar" /\ pc'[p] \in {"resolver", "resolver_nulo"}
          /\ \A c \in Campo : c # ent[p].campo => fila'[c] = fila[c]
      BY <1>4, <2>3, ActualizarEfecto
    <3>2. /\ ent[p].tipo = "editar" /\ ent[p].token = "con permiso"
          /\ Admite(ent[p].campo, ent[p].valor) /\ <<ent[p].quien, ent[p].org>> \in ConFila
      BY <3>1 DEF Admitidas, Editando
    <3>3. ent[p].valor.n # 0 /\ (ent[p].campo = "rutDeudor" => ent[p].valor.forma = "llana")
      BY <3>2 DEF Admite
    <3>4. Origen(p, ent[p].campo)'
      BY <3>1, <3>2, <3>3 DEF Origen
    <3>5. \A c \in Campo : c # ent[p].campo /\ fila[c] # FilaPrevia[c] =>
             \E q \in Peticion : Origen(q, c)'
      BY <2>1, <3>1 DEF ConOrigen
    <3>6. QED
      BY <3>1, <3>4, <3>5 DEF ConOrigen
  <2>4. QED
    BY <2>2, <2>3
<1>5. ASSUME NEW p \in Peticion, EditarResolver(p)  PROVE ConOrigen'
  <2>1. UNCHANGED fila /\ \A q \in Peticion, c \in Campo : Origen(q, c) => Origen(q, c)'
    BY <1>5, ResolverEfecto DEF Origen
  <2>2. QED
    BY <2>1 DEF ConOrigen
<1>6. ASSUME NEW p \in Peticion, RespaldoLeer(p)  PROVE ConOrigen'
  <2>1. Aparte(p) /\ pc[p] = "leer" /\ UNCHANGED fila
    BY <1>6, LeerEfecto
  <2>2. \A q \in Peticion, c \in Campo : Origen(q, c) => Origen(q, c)'
    BY <2>1 DEF Origen
  <2>3. QED
    BY <2>1, <2>2 DEF ConOrigen
<1>7. ASSUME NEW p \in Peticion, RespaldoNotas(p)  PROVE ConOrigen'
  <2>1. Aparte(p) /\ pc[p] = "anotar" /\ UNCHANGED fila
    BY <1>7, NotasEfecto
  <2>2. \A q \in Peticion, c \in Campo : Origen(q, c) => Origen(q, c)'
    BY <2>1 DEF Origen
  <2>3. QED
    BY <2>1, <2>2 DEF ConOrigen
<1>8. CASE Caida
  <2>1. UNCHANGED fila /\ \A q \in Peticion, c \in Campo : Origen(q, c) => Origen(q, c)'
    BY <1>8, CaidaEfecto DEF Origen, EnCurso, PasoDe
  <2>2. QED
    BY <2>1 DEF ConOrigen
<1>9. CASE UNCHANGED vars
  <2>1. UNCHANGED fila /\ \A q \in Peticion, c \in Campo : Origen(q, c) => Origen(q, c)'
    BY <1>9 DEF vars, Origen
  <2>2. QED
    BY <2>1 DEF ConOrigen
<1>10. ASSUME NEW p \in Peticion, LlegaEdicion(p) \/ LlegaRespaldo(p)  PROVE ConOrigen'
  BY <1>1, <1>2, <1>10, EdicionReal, RespaldoReal
<1>11. QED
  BY <1>3, <1>4, <1>5, <1>6, <1>7, <1>8, <1>9, <1>10 DEF Next, Manejador, Descansa

\* A step that leaves the row, the notes and the documents as they were.
LEMMA DiscrepanciaIgual ==
  ASSUME DiscrepanciaAnotada, UNCHANGED <<fila, notas, ultimo, corregido, dudoso>>
  PROVE  DiscrepanciaAnotada'
  BY DEF DiscrepanciaAnotada

\* What a note of a document is about.
LEMMA NotasDeDef ==
  ASSUME NEW p \in Peticion, NEW m
  PROVE  m \in NotasDe(p) <=>
            \E c \in Tratados : /\ Discrepa(c, ent[p].doc[c], leida[p][c])
                                /\ m = [campo |-> c, doc |-> ent[p].doc[c]]
  BY DEF NotasDe

LEMMA DiscrepanciaInductiva ==
  ASSUME TypeOK, DiscrepanciaAnotada, [Next]_vars
  PROVE  DiscrepanciaAnotada'
<1>1. ASSUME NEW p \in Peticion, NEW que \in Respuesta, Rechaza(p, que)
      PROVE  DiscrepanciaAnotada'
  BY <1>1, RechazaEfecto, DiscrepanciaIgual
<1>2. ASSUME NEW p \in Peticion, NEW e \in Entrada, NEW paso, Pasa(e, paso), Llega(p, e, paso)
      PROVE  DiscrepanciaAnotada'
  BY <1>2, LlegaEfecto, DiscrepanciaIgual
<1>3. ASSUME NEW p \in Peticion, EditarValidar(p)  PROVE DiscrepanciaAnotada'
  BY <1>3, ValidarEfecto, DiscrepanciaIgual
<1>4. ASSUME NEW p \in Peticion, EditarActualizar(p)  PROVE DiscrepanciaAnotada'
  <2>1. /\ UNCHANGED <<notas, ultimo, dudoso>> /\ corregido \subseteq corregido'
        /\ \A c \in Campo : fila'[c] = fila[c] \/ c \in corregido'
    BY <1>4, ActualizarEfecto
  <2>2. ASSUME NEW c \in Tratados \ dudoso  PROVE fila'[c] = fila[c] \/ c \in corregido'
    BY <2>1, ConstantesOK
  <2>3. QED
    BY <2>1, <2>2 DEF DiscrepanciaAnotada
<1>5. ASSUME NEW p \in Peticion, EditarResolver(p)  PROVE DiscrepanciaAnotada'
  <2>1. /\ UNCHANGED <<fila, ultimo, corregido>> /\ dudoso \subseteq dudoso'
        /\ \A m \in notas : m \in notas' \/ (m.campo = ent[p].campo
                                             /\ ent[p].campo \in corregido \cup dudoso')
    BY <1>5, ResolverEfecto
  <2>2. QED
    BY <2>1 DEF DiscrepanciaAnotada
<1>6. ASSUME NEW p \in Peticion, RespaldoLeer(p)  PROVE DiscrepanciaAnotada'
  BY <1>6, LeerEfecto, DiscrepanciaIgual
<1>7. ASSUME NEW p \in Peticion, RespaldoNotas(p)  PROVE DiscrepanciaAnotada'
  <2>1. pc[p] = "anotar" /\ UNCHANGED fila
    BY <1>7, NotasEfecto
  <2>2. CASE UNCHANGED <<notas, ultimo, corregido, dudoso>>
    BY <2>1, <2>2, DiscrepanciaIgual
  <2>3. CASE /\ notas' = notas \cup NotasDe(p)
             /\ \A c \in Campo :
                   ultimo'[c] = IF c \in Tratados THEN ent[p].doc[c] ELSE ultimo[c]
             /\ dudoso' = (dudoso \ Tratados) \cup Cambiados(p)
    <3>1. SUFFICES ASSUME NEW c \in Tratados, c \notin dudoso', ultimo'[c].n # 0,
                          ultimo'[c] # fila[c] \/ ultimo'[c].forma = "varias",
                          ~(/\ c = "montoTotal" /\ fila[c].forma = "otra"
                            /\ ultimo'[c] = [fila[c] EXCEPT !.forma = "corrida"])
                   PROVE  \E m \in notas' : m.campo = c /\ m.doc = ultimo'[c]
      BY <2>1 DEF DiscrepanciaAnotada
    <3>2. ultimo'[c] = ent[p].doc[c] /\ leida[p][c] = Leido(c, fila[c])
      BY <2>3, <3>1, ConstantesOK DEF Cambiados
    <3>3. Discrepa(c, ent[p].doc[c], leida[p][c])
      BY <3>1, <3>2 DEF Discrepa, Presente, Leido
    <3>4. [campo |-> c, doc |-> ent[p].doc[c]] \in notas'
      BY <2>3, <3>1, <3>3, NotasDeDef
    <3>5. QED
      BY <3>2, <3>4
  <2>4. QED
    BY <1>7, <2>2, <2>3, NotasEfecto
<1>8. CASE Caida
  BY <1>8, CaidaEfecto, DiscrepanciaIgual
<1>9. CASE UNCHANGED vars
  BY <1>9, DiscrepanciaIgual DEF vars, historia
<1>10. ASSUME NEW p \in Peticion, LlegaEdicion(p) \/ LlegaRespaldo(p)
       PROVE  DiscrepanciaAnotada'
  BY <1>1, <1>2, <1>10, EdicionReal, RespaldoReal
<1>11. QED
  BY <1>3, <1>4, <1>5, <1>6, <1>7, <1>8, <1>9, <1>10 DEF Next, Manejador, Descansa

\* Who has not resolved the notes of a field, and the step does not.
SinResolverDe(p, m) ==
    /\ ent[p].tipo = "editar" /\ ent[p].campo = m.campo /\ ent[p].valor = m.doc
    /\ pc[p] \in {"resolver", "resolver_nulo", "fallo", "caida"}

\* A step after which each note was there, and contradicts the row, or has an
\* edit that owes its resolution, or is where it was and nobody stops owing.
LEMMA NotaIgual ==
  ASSUME NotaVigente,
         \A m \in notas' \ viejas' :
            \/ m.doc # fila'[m.campo]
            \/ SinResolver(m.campo, m.doc)'
            \/ /\ m \in notas \ viejas /\ fila'[m.campo] = fila[m.campo]
               /\ \A q \in Peticion : SinResolverDe(q, m) => SinResolverDe(q, m)'
  PROVE  NotaVigente'
<1>1. ASSUME NEW m \in notas' \ viejas', m.doc.forma # "varias",
             ~SinResolver(m.campo, m.doc)', m.doc = fila'[m.campo]
      PROVE  m.campo = "montoTotal" /\ m.doc.forma = "otra"
  <2>1. /\ m \in notas \ viejas /\ fila'[m.campo] = fila[m.campo]
        /\ \A q \in Peticion : SinResolverDe(q, m) => SinResolverDe(q, m)'
    BY <1>1
  <2>2. ~SinResolver(m.campo, m.doc)
    BY <1>1, <2>1 DEF SinResolver, SinResolverDe
  <2>3. QED
    BY <1>1, <2>1, <2>2 DEF NotaVigente
<1>2. QED
  BY <1>1 DEF NotaVigente

LEMMA NotaInductiva ==
  ASSUME TypeOK, Admitidas, NotaVigente, [Next]_vars
  PROVE  NotaVigente'
<1> USE DEF Aparte
<1>1. ASSUME NEW p \in Peticion, NEW que \in Respuesta, Rechaza(p, que)  PROVE NotaVigente'
  <2>1. \A q \in Peticion, m \in notas : SinResolverDe(q, m) => SinResolverDe(q, m)'
    BY <1>1, RechazaEfecto DEF SinResolverDe
  <2>2. QED
    BY <1>1, <2>1, RechazaEfecto, NotaIgual
<1>2. ASSUME NEW p \in Peticion, NEW e \in Entrada, NEW paso, Pasa(e, paso), Llega(p, e, paso)
      PROVE  NotaVigente'
  <2>1. \A q \in Peticion, m \in notas : SinResolverDe(q, m) => SinResolverDe(q, m)'
    BY <1>2, LlegaEfecto DEF SinResolverDe
  <2>2. QED
    BY <1>2, <2>1, LlegaEfecto, NotaIgual
<1>3. ASSUME NEW p \in Peticion, EditarValidar(p)  PROVE NotaVigente'
  <2>1. \A q \in Peticion, m \in notas : SinResolverDe(q, m) => SinResolverDe(q, m)'
    BY <1>3, ValidarEfecto DEF SinResolverDe
  <2>2. QED
    BY <1>3, <2>1, ValidarEfecto, NotaIgual
<1>4. ASSUME NEW p \in Peticion, EditarActualizar(p)  PROVE NotaVigente'
  <2>1. /\ Aparte(p) /\ pc[p] = "actualizar" /\ pc'[p] \in {"resolver", "resolver_nulo"}
        /\ UNCHANGED <<notas, ent, viejas>>
        /\ \A c \in Campo : \/ fila'[c] = fila[c]
                            \/ c = ent[p].campo /\ fila'[c] = ent[p].valor
    BY <1>4, ActualizarEfecto
  <2>2. ent[p].tipo = "editar"
    BY <2>1 DEF Admitidas, Editando
  <2>3. ASSUME NEW m \in notas
        PROVE  \/ m.doc # fila'[m.campo]
               \/ SinResolver(m.campo, m.doc)'
               \/ /\ fila'[m.campo] = fila[m.campo]
                  /\ \A q \in Peticion : SinResolverDe(q, m) => SinResolverDe(q, m)'
    <3>1. m.campo \in Campo
      BY DEF TypeOK
    <3>2. CASE fila'[m.campo] = fila[m.campo]
      <4>1. \A q \in Peticion : SinResolverDe(q, m) => SinResolverDe(q, m)'
        BY <2>1 DEF SinResolverDe
      <4>2. QED
        BY <3>2, <4>1
    <3>3. CASE m.campo = ent[p].campo /\ fila'[m.campo] = ent[p].valor
      <4>1. CASE m.doc = ent[p].valor
        BY <2>1, <2>2, <3>3, <4>1 DEF SinResolver
      <4>2. CASE m.doc # ent[p].valor
        BY <3>3, <4>2
      <4>3. QED
        BY <4>1, <4>2
    <3>4. QED
      BY <2>1, <3>1, <3>2, <3>3
  <2>4. QED
    BY <2>1, <2>3, NotaIgual
<1>5. ASSUME NEW p \in Peticion, EditarResolver(p)  PROVE NotaVigente'
  <2>1. /\ Aparte(p) /\ UNCHANGED <<fila, ent>>
        /\ notas' \ viejas' \subseteq notas \ viejas
        /\ pc'[p] = "fallo" \/ \A m \in notas' : m.campo # ent[p].campo
    BY <1>5, ResolverEfecto
  <2>2. ASSUME NEW m \in notas' \ viejas', NEW q \in Peticion, SinResolverDe(q, m)
        PROVE  SinResolverDe(q, m)'
    BY <2>1, <2>2 DEF SinResolverDe
  <2>3. QED
    BY <2>1, <2>2, NotaIgual
<1>6. ASSUME NEW p \in Peticion, RespaldoLeer(p)  PROVE NotaVigente'
  <2>1. /\ Aparte(p) /\ pc[p] = "leer" /\ UNCHANGED <<fila, notas, viejas>>
    BY <1>6, LeerEfecto
  <2>2. ent[p].tipo = "respaldo"
    BY <2>1 DEF Admitidas
  <2>3. \A q \in Peticion, m \in notas : SinResolverDe(q, m) => SinResolverDe(q, m)'
    BY <2>1, <2>2 DEF SinResolverDe
  <2>4. QED
    BY <2>1, <2>3, NotaIgual
<1>7. ASSUME NEW p \in Peticion, RespaldoNotas(p)  PROVE NotaVigente'
  <2>1. /\ Aparte(p) /\ pc[p] = "anotar" /\ UNCHANGED fila
        /\ \/ UNCHANGED <<notas, viejas>>
           \/ /\ notas' = notas \cup NotasDe(p)
              /\ viejas' = (viejas \ NotasDe(p))
                             \cup {m \in NotasDe(p) : m.campo \in Cambiados(p)}
    BY <1>7, NotasEfecto
  <2>2. ent[p].tipo = "respaldo"
    BY <2>1 DEF Admitidas
  <2>3. ASSUME NEW m \in NotasDe(p), m.campo \notin Cambiados(p), m.doc.forma # "varias"
        PROVE  m.doc # fila[m.campo] \/ (m.campo = "montoTotal" /\ m.doc.forma = "otra")
    <3>1. PICK c \in Tratados : /\ Discrepa(c, ent[p].doc[c], leida[p][c])
                                /\ m = [campo |-> c, doc |-> ent[p].doc[c]]
      BY NotasDeDef
    <3>2. m.campo = c /\ m.doc = ent[p].doc[c] /\ leida[p][c] = Leido(c, fila[c])
      BY <2>3, <3>1 DEF Cambiados
    <3>3. ent[p].doc[c] # Leido(c, fila[c])
      BY <2>3, <3>1, <3>2 DEF Discrepa
    <3>4. QED
      BY <3>2, <3>3 DEF Leido
  <2>4. ASSUME NEW m \in notas \ viejas, m.doc.forma # "varias"
        PROVE  \/ m.doc # fila[m.campo]
               \/ m.campo = "montoTotal" /\ m.doc.forma = "otra"
               \/ SinResolver(m.campo, m.doc)'
    <3>1. \A q \in Peticion : SinResolverDe(q, m) => SinResolverDe(q, m)'
      BY <2>1, <2>2 DEF SinResolverDe
    <3>2. SinResolver(m.campo, m.doc) => SinResolver(m.campo, m.doc)'
      BY <3>1 DEF SinResolver, SinResolverDe
    <3>3. QED
      BY <2>4, <3>2 DEF NotaVigente
  <2>5. ASSUME NEW m \in notas' \ viejas'
        PROVE  \/ m \in NotasDe(p) /\ m.campo \notin Cambiados(p)
               \/ m \in notas \ viejas
    BY <2>1, <2>5
  <2>6. QED
    BY <2>1, <2>3, <2>4, <2>5 DEF NotaVigente
<1>8. CASE Caida
  <2>1. \A q \in Peticion, m \in notas : SinResolverDe(q, m) => SinResolverDe(q, m)'
    BY <1>8, CaidaEfecto DEF SinResolverDe
  <2>2. QED
    BY <1>8, <2>1, CaidaEfecto, NotaIgual
<1>9. CASE UNCHANGED vars
  BY <1>9, NotaIgual DEF vars, historia, SinResolverDe
<1>10. ASSUME NEW p \in Peticion, LlegaEdicion(p) \/ LlegaRespaldo(p)  PROVE NotaVigente'
  BY <1>1, <1>2, <1>10, EdicionReal, RespaldoReal
<1>11. QED
  BY <1>3, <1>4, <1>5, <1>6, <1>7, <1>8, <1>9, <1>10 DEF Next, Manejador, Descansa


-----------------------------------------------------------------------------
LEMMA InvInicial == Init => IInv
<1> SUFFICES ASSUME Init  PROVE IInv
  OBVIOUS
<1>1. \A p \in Peticion : pc[p] = "libre" /\ ent[p] = Base
  BY DEF Init
<1>2. TypeOK /\ Admitidas
  BY <1>1, TipoInicial, BaseOK
  DEF Admitidas, Editando
<1>3. ConOrigen /\ NotaVigente
  BY DEF Init, ConOrigen, NotaVigente
<1>4. DiscrepanciaAnotada
  <2>1. \A c \in Tratados : ultimo[c].n = 0
    BY ConstantesOK DEF Init, Vacio
  <2>2. QED
    BY <2>1 DEF DiscrepanciaAnotada
<1>5. QED
  BY <1>2, <1>3, <1>4 DEF IInv

LEMMA InvInductivo == IInv /\ [Next]_vars => IInv'
  BY TipoInductivo, AdmitidasInductiva, OrigenInductivo, DiscrepanciaInductiva,
     NotaInductiva DEF IInv

LEMMA Invariante == Spec => []IInv
  BY InvInicial, InvInductivo, PTL DEF Spec

\* What a field holds was there at the beginning or came in an edit that
\* passed every gate, whatever bodies, tokens and values are sent.
THEOREM CambioConOrigenSiempre == Spec => []CambioConOrigen
<1>1. IInv => CambioConOrigen
  BY DEF IInv, ConOrigen, Origen, CambioConOrigen
<1>2. QED
  BY <1>1, Invariante, PTL

\* A discrepancy with the last document has its note, or an edit answered it.
THEOREM DiscrepanciaAnotadaSiempre == Spec => []DiscrepanciaAnotada
<1>1. IInv => DiscrepanciaAnotada
  BY DEF IInv
<1>2. QED
  BY <1>1, Invariante, PTL

\* A note contradicts the row, whatever the edits and the documents interleave
\* with, as far as NotaVigente says.
THEOREM NotaVigenteSiempre == Spec => []NotaVigente
<1>1. IInv => NotaVigente
  BY DEF IInv
<1>2. QED
  BY <1>1, Invariante, PTL
=============================================================================
