------------------------------- MODULE MCWire -------------------------------
(* An instance of Wire for TLC.                                            *)
EXTENDS Wire

CONSTANTS n1, n2, c1, c2, c3, k1, k2

\* Packets and connections share only the keyrings: one kind at a time.
idle(c) == client[c] = Closed /\ at[c] = "none" /\ request[c] = Nothing
OneKind == packets = <<>> \/ \A c \in Conn : idle(c)

\* The third connection is there for the limit on exchanges, which keys do not matter to.
ThirdWithoutKeys == idle(c3) \/ rings[Server] = NoKeyring
=============================================================================
