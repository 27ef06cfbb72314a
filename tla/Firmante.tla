------------------------------ MODULE Firmante ------------------------------
(***************************************************************************)
(* The process of the signer: every request of Signer that needs the       *)
(* wallet first goes through the key store, in the same handler.  The      *)
(* process lives and dies as a whole.                                      *)
(***************************************************************************)
EXTENDS Signer, Llavero

varsFirmante == <<vars, varsLlavero>>

InitFirmante == Init /\ InitLlavero

\* cargar_o_crear has returned the wallet, and the handler goes on.
ConLlave ==
    /\ gestion = "nada" /\ PuedeAbrir
    /\ \/ \E tx \in Transacciones, n \in Importes : AceptarRetirada(tx, n) \/ AceptarOrden(tx, n)
       \/ \E w \in Carteras \cup {Propia} : Registrar(w)
    /\ UNCHANGED varsLlavero

\* What is left of a handler that had the wallet, the counter that /health
\* moves, the clock, and what happens to the files from outside.
SinLlave ==
    /\ gestion = "nada"
    /\ \/ PonerAlDia \/ Anotar \/ GuardarContador \/ Firmar \/ TerminarRegistro
       \/ BorrarRetirada \/ Medianoche \/ AtrasarReloj \/ DanarFichero
    /\ UNCHANGED varsLlavero

\* /health and every other request, once the service is on.
Abrir2 == Atiende /\ modo = "local_encrypted" /\ CargarOCrear /\ UNCHANGED vars

NextFirmante ==
    \/ ConLlave
    \/ SinLlave
    \/ Abrir2
    \/ Caer /\ Morir
    \/ \E m \in {"disabled", "local_encrypted"} : Arrancar(m) /\ Renacer

SpecFirmante == InitFirmante /\ [][NextFirmante]_varsFirmante
=============================================================================
