------------------------------- MODULE MCRadar -------------------------------
(* Instances of Radar for TLC.  Memories of one or two places and bursts of *)
(* two trades, so that evictions, prunings and stampedes come within a few  *)
(* notifications.                                                           *)
EXTENDS Radar, TLC

CONSTANTS m1, m2, m3

Lectura(c, p) == [cap |-> c, progreso |-> p]

\* A bad reading, full and below the cap at birth (2), a growth and a
\* graduation.
MCLecturas == {Lectura(1, "lleno"), Lectura(3, "lejos"), Lectura(4, "lleno")}

Simetria == Permutations(Mints)
=============================================================================
