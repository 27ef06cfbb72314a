------------------------------- MODULE Operar -------------------------------
(***************************************************************************)
(* The two halves of an order, side by side: the API that prepares it and  *)
(* the signer that signs it.  They are two processes with no state in      *)
(* common, and the transaction goes from one to the other through the      *)
(* browser, which may send the signer anything; so a behaviour of the      *)
(* whole is a behaviour of each, and here only the one that `maquina`      *)
(* names moves.                                                            *)
(***************************************************************************)
EXTENDS Firmante, TradePrepare

VARIABLE maquina       \* which of them moves

varsOperar == <<maquina, varsFirmante, varsPreparar>>

InitOperar ==
    /\ maquina \in {"firmante", "preparacion"}
    /\ InitFirmante /\ InitPreparar
    /\ maquina # "preparacion" =>
          curva = (CHOOSE c \in Curvas : TRUE) /\ saldo = (CHOOSE s \in Saldos : TRUE)

NextOperar ==
    /\ UNCHANGED maquina
    /\ \/ maquina = "firmante" /\ NextFirmante /\ UNCHANGED varsPreparar
       \/ maquina = "preparacion" /\ NextPreparar /\ UNCHANGED varsFirmante

SpecOperar == InitOperar /\ [][NextOperar]_varsOperar
=============================================================================
