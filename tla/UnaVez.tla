------------------------------- MODULE UnaVez --------------------------------
(***************************************************************************)
(* What a ledger of decisions promises (packages/execution, orders.py:56:  *)
(* a decision never produces two orders), without saying how: each         *)
(* decision is carried out at most once, and what it spends is spent then. *)
(***************************************************************************)
EXTENDS Naturals

CONSTANTS Decisiones, Importe    \* what each decision spends

VARIABLES hechas, gasto

Init == hechas = {} /\ gasto = [d \in Decisiones |-> 0]

Hacer(d) ==
    /\ d \notin hechas
    /\ hechas' = hechas \cup {d}
    /\ gasto' = [gasto EXCEPT ![d] = Importe[d]]

Next == \E d \in Decisiones : Hacer(d)

Spec == Init /\ [][Next]_<<hechas, gasto>>
=============================================================================
