----------------------------- MODULE MCAutoStop -----------------------------
(* Instances of AutoStop for TLC.  From 10 to 5 is a fall of exactly half,  *)
(* the threshold of both rules; the token may be watched again while the    *)
(* loop still holds the object of the first time.                           *)
EXTENDS AutoStop

MCReglas == {[trailing |-> 50, stop |-> 50]}
=============================================================================
