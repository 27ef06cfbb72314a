------------------------------ MODULE MCOperar ------------------------------
(* Instances of Operar for TLC: the signer of MCSigner; one order and one  *)
(* warming at a time, two prices more than a slippage apart, and balances  *)
(* with which a sale pays for its fee, does not, or is of nothing.         *)
EXTENDS Operar, MCSigner

MCCurvas == {[vs |-> 30000, vt |-> 1000, rt |-> 800], [vs |-> 37500, vt |-> 800, rt |-> 600]}
=============================================================================
