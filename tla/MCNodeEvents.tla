---------------------------- MODULE MCNodeEvents ----------------------------
(* An instance of NodeEvents for TLC.                                      *)
EXTENDS NodeEvents

CONSTANTS g1, g2, t1, t2
=============================================================================
