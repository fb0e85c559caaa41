---------------------------- MODULE MCBridgePool ----------------------------
(* BridgePool for TLC: the bandwidths of main.rs, a priority bridges.json   *)
(* may give a tool, and links on which all, some or none of the bridges    *)
(* fit.                                                                    *)
EXTENDS BridgePool

CONSTANTS chat, search, model, radio, sat

SomeNeed     == [b \in Bridges |-> CASE b = chat -> 5 [] b = search -> 10 [] b = model -> 50]
SomePriority == [b \in Bridges |-> IF b = search THEN 7 ELSE 1]
=============================================================================
