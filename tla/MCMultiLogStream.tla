-------------------------- MODULE MCMultiLogStream --------------------------
(* Instances of MultiLogStream for TLC: two keys, and as many ids as one    *)
(* connection can be asked for, so that after a reconnection the provider   *)
(* may give an id it gave before to another key.                            *)
EXTENDS MultiLogStream

MCSubs == 1 .. 3
=============================================================================
