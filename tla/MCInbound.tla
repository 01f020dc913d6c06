------------------------------ MODULE MCInbound -----------------------------
(* Instances of Inbound for TLC: two alive, two suspect or dead and one user *)
(* message.                                                                *)
EXTENDS Inbound

CONSTANTS a1, a2, s1, d1, u1
=============================================================================
