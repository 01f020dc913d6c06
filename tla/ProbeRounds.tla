---------------------------- MODULE ProbeRounds -----------------------------
(***************************************************************************)
(* What the periodic probing promises: it goes in rounds, and a round does *)
(* not end before everyone who was active when it began has been probed or *)
(* is no longer active.  Only a forgetting of dead members may cut a round *)
(* short.  Nothing is said about the order within a round, or about those  *)
(* who become active while it lasts.                                       *)
(***************************************************************************)
CONSTANTS Peer, NoNode

VARIABLES
  members,     \* the peers that are known
  active,      \* those that are neither dead nor left
  expired,     \* those that have been dead or left for long enough
  owed,        \* those that have to be probed before the round may end
  target       \* the peer probed last, NoNode if there was none to probe

vars == <<members, active, expired, owed, target>>

Init ==
  /\ members = {} /\ active = {} /\ expired = {} /\ owed = {}
  /\ target = NoNode

Activate(j) ==
  /\ j \notin active
  /\ members' = members \cup {j} /\ active' = active \cup {j} /\ expired' = expired \ {j}
  /\ UNCHANGED <<owed, target>>

Deactivate(j) ==
  /\ j \in active
  /\ active' = active \ {j} /\ owed' = owed \ {j}
  /\ UNCHANGED <<members, expired, target>>

Expire(j) ==
  /\ j \in members \ active
  /\ expired' = expired \cup {j}
  /\ UNCHANGED <<members, active, owed, target>>

Probe(j) ==
  /\ j \in active
  /\ target' = j /\ owed' = owed \ {j}
  /\ UNCHANGED <<members, active, expired>>

NextRound(j) ==
  /\ owed = {} /\ j \in active
  /\ target' = j /\ owed' = active \ {j}
  /\ UNCHANGED <<members, active, expired>>

\* Probing fails only if there is nobody to probe.
NoProbe ==
  /\ active = {}
  /\ target' = NoNode
  /\ UNCHANGED <<members, active, expired, owed>>

\* Exactly the expired members are forgotten.
Forget ==
  /\ members' = members \ expired /\ expired' = {} /\ owed' = {}
  /\ UNCHANGED <<active, target>>

Next ==
  \/ \E j \in Peer : Activate(j) \/ Deactivate(j) \/ Expire(j) \/ Probe(j) \/ NextRound(j)
  \/ NoProbe \/ Forget

Spec == Init /\ [][Next]_vars
=============================================================================
