---------------------------- MODULE MCProbeList -----------------------------
(* An instance of ProbeList for TLC.                                       *)
EXTENDS ProbeList

CONSTANTS m, p1, p2, p3
=============================================================================
