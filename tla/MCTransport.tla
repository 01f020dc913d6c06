---------------------------- MODULE MCTransport -----------------------------
(* An instance of Transport for TLC: two alive, two suspect or dead and one *)
(* user message.                                                           *)
EXTENDS Transport

CONSTANTS a1, a2, s1, d1, u1
=============================================================================
