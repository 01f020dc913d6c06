----------------------------- MODULE ProbeList ------------------------------
(***************************************************************************)
(* The list of nodes behind the periodic probes: nextProbeNode walks       *)
(* through m.nodes with probeIdx, while aliveNode swaps a new node into    *)
(* the middle of the list and reap moves the expired nodes to the end,     *)
(* cuts them off and shuffles the rest.                                    *)
(*                                                                         *)
(* Every operation holds nodeL, so each is one step.  State is reduced to  *)
(* what the walk looks at: a suspect node is probed like an alive one, and *)
(* a dead node is skipped like one that left.  Indices start at 0, as in   *)
(* the code; at(list, k) is list[k].                                       *)
(***************************************************************************)
EXTENDS Integers, Sequences, FiniteSetsExt

CONSTANTS
  Self,            \* m.ID()
  Peer,            \* the other nodes
  NoNode

ASSUME PeerAssumption ==
  IsFiniteSet(Peer) /\ Self \notin Peer /\ NoNode \notin Peer \cup {Self}

VARIABLES
  nodes,           \* m.nodes
  state,           \* state[j]: "none" if j is not in nodeMap, "active", "dead" or left,
                   \* "expired" when StateChange is more than DeadNodeExpiredTimeout ago
  numNodes,
  probeIdx,
  target,          \* what nextProbeNode returned last, NoNode after an error
  owed             \* history: peers active since the round began and not yet probed in it

vars == <<nodes, state, numNodes, probeIdx, target, owed>>

Member == Peer \cup {Self}
Active == {j \in Peer : state[j] = "active"}

DeadOrLeft(j) == state[j] \in {"dead", "expired"}

at(list, k) == list[k + 1]

\* list[i], list[k] = list[k], list[i]
swap(list, i, k) == [list EXCEPT ![i + 1] = at(list, k), ![k + 1] = at(list, i)]

\* After setAlive, which leaves the list empty if the own CIDRsAllowed refuse the node.
Init ==
  /\ nodes \in {<<Self>>, <<>>} /\ numNodes = Len(nodes)
  /\ state = [j \in Member |-> IF j \in Range(nodes) THEN "active" ELSE "none"]
  /\ probeIdx = -1
  /\ target = NoNode /\ owed = {}

-----------------------------------------------------------------------------
\* The results of rand.Uint32() % n, and 0 for n = 0.
randIntN(n) == IF n = 0 THEN {0} ELSE 0..(n - 1)

\* aliveNode of a node that is not in nodeMap.
addNode(j) ==
  /\ state[j] = "none"
  /\ state' = [state EXCEPT ![j] = "active"]
  /\ \E idx \in randIntN(Len(nodes)) : nodes' = swap(Append(nodes, j), idx, Len(nodes))
  /\ numNodes' = numNodes + 1
  /\ UNCHANGED <<probeIdx, target, owed>>

\* aliveNode of a node that is dead or left.
renewNode(j) ==
  /\ state[j] \in {"dead", "expired"}
  /\ state' = [state EXCEPT ![j] = "active"]
  /\ UNCHANGED <<nodes, numNodes, probeIdx, target, owed>>

\* deadNode.  The node itself dies by leaving, and aliveNode ignores it from then on.
deadNode(j) ==
  /\ state[j] = "active"
  /\ state' = [state EXCEPT ![j] = "dead"]
  /\ owed' = owed \ {j}
  /\ UNCHANGED <<nodes, numNodes, probeIdx, target>>

expire(j) ==
  /\ state[j] = "dead"
  /\ state' = [state EXCEPT ![j] = "expired"]
  /\ UNCHANGED <<nodes, numNodes, probeIdx, target, owed>>

skipped(i) == at(nodes, i) = Self \/ DeadOrLeft(at(nodes, i))

\* The inner loop of nextProbeNode: the first index from k on that is not skipped.
nextIdx(k) == Min({i \in k..(Len(nodes) - 1) : ~skipped(i)} \cup {Len(nodes)})

\* Slips of nextProbeNode: the walk goes on at index 1 after the end of the list, or
\* reports an error there.
nextProbeNodeSkipsFirst ==
  LET ahead == nextIdx(probeIdx + 1)
      found == IF ahead < Len(nodes) THEN ahead ELSE nextIdx(1)
  IN  /\ UNCHANGED <<nodes, state, numNodes>>
      /\ probeIdx' = found
      /\ target' = IF found < Len(nodes) THEN at(nodes, found) ELSE NoNode
      /\ owed' = (IF ahead < Len(nodes) THEN owed ELSE Active) \ {target'}

nextProbeNodeOnce ==
  LET found == nextIdx(probeIdx + 1)
  IN  /\ UNCHANGED <<nodes, state, numNodes>>
      /\ probeIdx' = found
      /\ target' = IF found < Len(nodes) THEN at(nodes, found) ELSE NoNode
      /\ owed' = owed \ {target'}

\* The walk goes on behind probeIdx and, if nobody is left there, starts again at
\* the beginning of the list, once.
nextProbeNode ==
  LET ahead == nextIdx(probeIdx + 1)
      found == IF ahead < Len(nodes) THEN ahead ELSE nextIdx(0)
  IN  /\ UNCHANGED <<nodes, state, numNodes>>
      /\ probeIdx' = found
      /\ target' = IF found < Len(nodes) THEN at(nodes, found) ELSE NoNode
      /\ owed' = (IF ahead < Len(nodes) THEN owed ELSE Active) \ {target'}

\* One turn of the loop of swapExpiredToEnd.
swapTurn(was) ==
  IF state[at(was.list, was.i)] = "expired"
    THEN [list |-> swap(was.list, was.i, was.expiredIdx - 1), i |-> was.i,
          expiredIdx |-> was.expiredIdx - 1]
    ELSE [list |-> was.list, i |-> was.i + 1, expiredIdx |-> was.expiredIdx]

\* Every turn either goes on to the next node or shortens the part that is still to
\* be looked at, so the loop takes as many turns as there are nodes.
swapExpiredToEnd(list) ==
  LET after[k \in 0..Len(list)] ==
        IF k = 0 THEN [list |-> list, i |-> 0, expiredIdx |-> Len(list)]
                 ELSE swapTurn(after[k - 1])
  IN  after[Len(list)]

\* Slip of expiredPart: the map loses one node too few.
expiredPartShort(moved) == SubSeq(moved.list, moved.expiredIdx + 2, Len(moved.list))

expiredPart(moved) == SubSeq(moved.list, moved.expiredIdx + 1, Len(moved.list))

\* The orders that shuffleNodes may produce.
Shuffle == [n \in 0..Cardinality(Member) |-> {p \in [1..n -> 1..n] : Range(p) = 1..n}]

reap ==
  LET moved == swapExpiredToEnd(nodes)
      kept == SubSeq(moved.list, 1, moved.expiredIdx)
      gone == Range(expiredPart(moved))
  IN  /\ state' = [j \in Member |-> IF j \in gone THEN "none" ELSE state[j]]
      /\ numNodes' = moved.expiredIdx
      /\ \E p \in Shuffle[Len(kept)] : nodes' = [k \in DOMAIN p |-> kept[p[k]]]
      /\ owed' = {}
      /\ UNCHANGED <<probeIdx, target>>

Next ==
  \/ \E j \in Peer : addNode(j) \/ renewNode(j)
  \/ \E j \in Member : deadNode(j) \/ expire(j)
  \/ nextProbeNode
  \/ reap

Spec == Init /\ [][Next]_vars

\* probe runs on a ticker.
FairSpec == Spec /\ WF_vars(nextProbeNode)

-----------------------------------------------------------------------------
\* The list, the map and the counter that GetNumNodes reads without the lock describe
\* the same nodes, each once: the swaps of aliveNode and reap lose and repeat none.
ListMatchesMap ==
  /\ Range(nodes) = {j \in Member : state[j] # "none"}
  /\ Len(nodes) = Cardinality(Range(nodes)) /\ numNodes = Len(nodes)

\* Round robin: although nodes join, die and come back between two probes, nobody
\* who is active throughout a round is passed over in it, only a reap cuts a round
\* short, it forgets exactly the expired nodes, and an error means that there is
\* nobody to probe (ProbeRounds).
Rounds == INSTANCE ProbeRounds WITH
            members <- Range(nodes) \ {Self},
            active <- Active,
            expired <- {j \in Peer : state[j] = "expired"}
RoundsImplemented == Rounds!Spec

\* Once reap and aliveNode no longer rearrange the list, nextProbeNode reaches every
\* node that stays active, whatever the others do.
EveryoneProbed ==
  <>[][nodes' = nodes]_vars =>
    \A j \in Peer : [](state[j] = "active" => <>(target = j \/ state[j] # "active"))
=============================================================================
