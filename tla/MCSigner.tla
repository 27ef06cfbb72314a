------------------------------ MODULE MCSigner ------------------------------
(* Instances of Firmante for TLC: two withdrawal wallets, two days, caps of *)
(* one per order and two per day, and one transaction of each shape the   *)
(* policy treats differently.                                               *)
EXTENDS Firmante, TLC

CONSTANTS w1, w2

Tx(quien, progs, sis) == [pagador |-> quien, programas |-> progs, sistema |-> sis]

MCTransacciones ==
    { Tx(Propia, {"ComputeBudget", "ATA", "Pumpfun"}, {}),          \* a buy
      Tx(Propia, {"ComputeBudget", "Otro"}, {}),                    \* a foreign program
      Tx(Propia, {"System"}, {w1, w2}) }                            \* two destinations
    \cup UNION { { Tx(w, {"ComputeBudget", "Pumpfun"}, {}),         \* another payer
                   Tx(Propia, {"System", "ComputeBudget"}, {w}),    \* a withdrawal
                   Tx(Propia, {"System"}, {w, Nadie}),              \* not only transfers
                   Tx(Propia, {"System", "Pumpfun"}, {w}) }         \* a buy hidden inside
                 : w \in Carteras }

Simetria == Permutations(Carteras)
=============================================================================
