----------------------------- MODULE MCSession ------------------------------
(* Session for TLC.                                                        *)
EXTENDS Session, TLC

CONSTANTS p1, p2
=============================================================================
