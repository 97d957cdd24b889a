-------------------------- MODULE FacturaPropiedades --------------------------
(***************************************************************************)
(* What FacturaPublicacion must never do, and what it must end up doing.   *)
(***************************************************************************)
EXTENDS FacturaPublicacion

\* Somebody accepted the terms for f, and the acceptance is on record.
Aceptada(f) == \E a \in autorizaciones : a.factura = f /\ a.acepto

\* A form that asked for more than an authorisation got to the grants of f.
FormOtorgo(f) ==
    \E p \in Peticion : /\ ent[p].tipo = "formulario" /\ id[p] = f
                        /\ ent[p].estado # "PENDIENTE_AUTORIZACION"
                        /\ pc[p] \in {"orgs", "otorgar", "fin", "fallo", "caida"}

\* A validated request wrote s itself in the status column of f.
Escribio(f, s) ==
    \E p \in Peticion :
       /\ id[p] = f /\ ent[p].estado = s
       /\ \/ ent[p].tipo = "formulario"
          \/ ent[p].tipo = "editar" /\ ent[p].campo = "status"
       /\ pc[p] \notin {"libre", "validar", "ed_actualizar", "form_existe",
                        "form_estado", "form_insertar"}

\* The notes of request p were stored, and what it says of them announced.
Anuncio(p) ==
    /\ ent[p].discrepa # {}
    /\ aviso[p] \in {"FACTURA_CON_DISCREPANCIAS_OCR",
                     "FACTURA_PUBLICADA_PENDIENTE_VALIDACION"}

\* A financiadora sees a factura only if its terms were accepted or a form got
\* as far as its grants, whatever was interleaved, failed or crashed on the way: the
\* grants of ExecuteRegistrarAutorizacion come after the record.
PermisoConOrigen ==
    \A f \in Factura : visible[f] # {} => Aceptada(f) \/ FormOtorgo(f)

\* A factura is PUBLICADA only if its terms were accepted, or a client wrote
\* that very status with the form or with PATCH /factura.
PublicadaConOrigen ==
    \A f \in Factura : estado[f] = "PUBLICADA" =>
                          Aceptada(f) \/ Escribio(f, "PUBLICADA")

\* A financiadora loses sight of a factura only after a request stored, and
\* announced, notes about it: the revocation loop of guardarNotasOCR.
RevocacionConMotivo ==
    [][\A f \in Factura :
          ~(visible[f] \subseteq visible'[f]) =>
             \E p \in Peticion : id[p] = f /\ Anuncio(p)]_vars

\* What makes the properties above inductive: where a request is tells which
\* kind it is, and what it has done already.
Rumbo(p) ==
    /\ pc[p] \in {"aut_notas", "aut_registrar"} => ent[p].tipo = "autorizar"
    /\ pc[p] \in {"ed_actualizar", "ed_resolver", "ed_resolver_nulo"}
          => ent[p].tipo = "editar"
    /\ pc[p] \in {"form_existe", "form_estado", "form_insertar"}
          => ent[p].tipo = "formulario"
    /\ pc[p] \in {"dte_insertar", "dte_vacia", "dte_notas"}
          => ent[p].tipo = "dte"
    /\ pc[p] = "validar" => ent[p].tipo \in {"editar", "formulario", "dte"}
    /\ pc[p] \in {"orgs", "otorgar"} =>
          \/ ent[p].tipo = "autorizar" /\ Aceptada(id[p])
          \/ /\ ent[p].tipo = "formulario"
             /\ ent[p].estado # "PENDIENTE_AUTORIZACION"
    /\ pc[p] = "resp_notas" => HayDiscrepancias(p)
    /\ revoca[p] # "no" => pc[p] = "fin" /\ Anuncio(p)

InvInductivo ==
    /\ TypeOK
    /\ \A p \in Peticion : Rumbo(p)
    /\ PermisoConOrigen
    /\ PublicadaConOrigen

\* When everything in flight has ended, no PUBLICADA factura has a note to
\* resolve: ExecuteRegistrarAutorizacion checks, guardarNotasOCR takes back.
PublicadaSinNotas ==
    Reposo => \A f \in Factura : estado[f] = "PUBLICADA" => notas[f] = {}

\* When no more requests come, the service comes to rest: the ones that came
\* were answered and the promises nobody awaits have settled, so no loop of
\* grants or revocations goes on for ever, whatever failed in it.
TodoTermina == ~Reposo ~> Reposo

\* An accepted authorisation ends with the factura PUBLICADA.
AceptarPublica ==
    \A p \in Peticion, f \in Factura :
       (pc[p] = "orgs" /\ ent[p].tipo = "autorizar" /\ id[p] = f)
          ~> estado[f] = "PUBLICADA"

\* A factura with a note to resolve ends up out of sight of everybody.
NotasRetiranVista ==
    \A f \in Factura : (notas[f] # {}) ~> (notas[f] = {} \/ visible[f] = {})

-----------------------------------------------------------------------------
(***************************************************************************)
(* What the comments and messages of the code say, and it does not do.     *)
(***************************************************************************)

\* To publish a factura "se necesita aceptarr terminos, dar permisos y notificar"
\* (facturaManager.useCase.ts:64): at rest, the financiadoras of a PUBLICADA
\* factura hold the permission to see it that its acceptance gave them.  The
\* marketplace list asks for no permission and shows it all the same.
PublicadaConPermisos ==
    Reposo => \A f \in Factura :
                 estado[f] = "PUBLICADA" => visible[f] = Financiadora
=============================================================================
