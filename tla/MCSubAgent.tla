----------------------------- MODULE MCSubAgent -----------------------------
(* SubAgent for TLC.                                                       *)
EXTENDS SubAgent, TLC

CONSTANTS m1, m2

(* The connections are interchangeable.                                    *)
ConnSymmetry == Permutations(Conns)
=============================================================================
