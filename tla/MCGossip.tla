------------------------------ MODULE MCGossip ------------------------------
(* Gossip for TLC.                                                         *)
EXTENDS Gossip

CONSTANTS home, dacha, x, y, c1, c2, c3
=============================================================================
