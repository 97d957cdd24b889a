------------------------ MODULE MCRectificacionFactura ------------------------
(***************************************************************************)
(* A small instance of RectificacionFactura for TLC.                       *)
(***************************************************************************)
EXTENDS RectificacionFactura

CONSTANTS ana, ben, o1, o2

T(n, f) == [n |-> n, forma |-> f]

DosCampos == {"rutDeudor", "montoTotal"}

PrimeraFila == [c \in Campo |-> T(1, "llana")]

\* The other way of writing a thing, another thing, and what no field takes.
ValoresPosibles == {T(1, "otra"), T(2, "llana"), T(0, "llana"), T(2, "invalida")}

\* What it says of the RUT and of the amount: another RUT; several of them,
\* and an amount with decimals; neither; and that amount without its point.
DocumentosPosibles ==
    {[c \in Campo |-> CASE c = "rutDeudor" -> d[1] [] c = "montoTotal" -> d[2]
                        [] OTHER -> T(1, "llana")] :
       d \in {<<T(2, "llana"), T(1, "llana")>>,
              <<T(1, "varias"), T(1, "otra")>>, <<T(0, "llana"), T(0, "llana")>>,
              <<T(1, "llana"), T(1, "corrida")>>}}

\* Ana and Ben are members of the organization of the factura, and Ana may
\* come for another one.
Filas == {<<ana, o1>>, <<ben, o1>>}
CuerposPosibles == Filas \cup {<<ana, o2>>}
=============================================================================
