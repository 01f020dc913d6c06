---------------------------- MODULE MCSuspicion -----------------------------
(* An instance of Suspicion for TLC.  The timeouts are those of the test   *)
(* of remainingTime, rounded down to seconds: 30 s, 16 s, 7.81 s and, with *)
(* four confirmations, 2 s.                                                *)
EXTENDS Suspicion

CONSTANTS n0, n1, n2, n3, n4

FourConfirms == <<30, 16, 7>>
=============================================================================
