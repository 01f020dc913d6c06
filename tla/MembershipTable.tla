-------------------------- MODULE MembershipTable ---------------------------
(***************************************************************************)
(* What the nodeMaps of a cluster promise to the users of GetNodeState,    *)
(* Members and the node events, whatever messages arrive in whatever order *)
(* and however goroutines interleave: the life of an entry only grows      *)
(* while the entry exists, an entry that is suspect, dead or left becomes  *)
(* alive again only with a strictly newer life, a dead or left entry never *)
(* becomes suspect, only dead or left entries are forgotten, and a step    *)
(* changes the map of one node only.                                       *)
(***************************************************************************)
EXTENDS Naturals

CONSTANTS Node, TagValue

VARIABLE nodeMap

State(i, j) == nodeMap[i][j].State
Becomes(i, j, states) == nodeMap'[i][j] \in [State : states, Lives : Nat, Tags : TagValue]
NoOlder(i, j) == nodeMap'[i][j].Lives >= nodeMap[i][j].Lives
Newer(i, j) == nodeMap'[i][j].Lives > nodeMap[i][j].Lives
SameTags(i, j) == nodeMap'[i][j].Tags = nodeMap[i][j].Tags
OthersSame(i, S) ==
  \A k, j \in Node : k # i \/ j \notin S => nodeMap'[k][j] = nodeMap[k][j]

Init == \A i, j \in Node : State(i, j) = "none"

Appear(i, j) == State(i, j) = "none" /\ Becomes(i, j, {"alive"})

Renew(i, j) == State(i, j) # "none" /\ Becomes(i, j, {"alive"}) /\ Newer(i, j)

Accuse(i, j) ==
  /\ i # j /\ State(i, j) = "alive"
  /\ Becomes(i, j, {"suspect"}) /\ NoOlder(i, j) /\ SameTags(i, j)

Die(i, j) ==
  /\ State(i, j) \in {"alive", "suspect"}
  /\ Becomes(i, j, {"dead", "left"}) /\ NoOlder(i, j) /\ SameTags(i, j)

Forget(i, S) ==
  \A j \in S : State(i, j) \in {"dead", "left"} /\ nodeMap'[i][j].State = "none"

Next ==
  \E i \in Node :
    \/ \E j \in Node :
         /\ Appear(i, j) \/ Renew(i, j) \/ Accuse(i, j) \/ Die(i, j)
         /\ OthersSame(i, {j})
    \/ \E S \in SUBSET Node : Forget(i, S) /\ OthersSame(i, S)

Spec == Init /\ [][Next]_nodeMap
=============================================================================
