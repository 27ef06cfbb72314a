------------------------------ MODULE MCIngesta ------------------------------
(* Instances of Ingesta for TLC: two engines, two creations of one creator  *)
(* and one event that creates nothing, with room for two in every memory so *)
(* that the third one always takes the place of another.                    *)
EXTENDS Ingesta, TLC

CONSTANTS m1, m2, creador

MCCreaciones == {1, 3}
MCCreadorDe == [e \in MCCreaciones |-> creador]
Simetria == Permutations(Motores)
=============================================================================
