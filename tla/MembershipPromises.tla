------------------------- MODULE MembershipPromises -------------------------
(***************************************************************************)
(* Proofs about what the nodes may conclude from their maps: suspicions    *)
(* and State fields agree, deaths and departures have their causes, every  *)
(* suspect entry has a timer that will end it, a life is announced with    *)
(* one value of the tags, and Membership implements MembershipTable: every *)
(* step of a node maps to a step of the table or leaves all nodeMaps       *)
(* alone.                                                                  *)
(***************************************************************************)
EXTENDS MembershipLives

-----------------------------------------------------------------------------
(* Suspicions, their timers, and the deaths they lead to.                  *)

SelfNotSuspect == \A i \in Node : nodeMap[i][i].State # "suspect"

SuspicionInv ==
  SelfInv /\ SuspicionMatchesState /\ SelfNotSuspect

\* aliveNode, suspectNode and deadNode change State and suspicions together.
LEMMA SuspicionMatchesStep ==
  ASSUME TypeOK, CallsSelf, SuspicionMatchesState, NEW i \in Node, NodeStep(i)
  PROVE  SuspicionMatchesState'
<1> USE DEF SuspicionMatchesState, Suspected
<1>0. ASSUME NEW j \in Node,
             \A k, m \in Node : k # i \/ m # j =>
               nodeMap'[k][m] = nodeMap[k][m] /\ suspicions'[k][m] = suspicions[k][m],
             suspicions'[i][j].confirmMap # {} <=> nodeMap'[i][j].State = "suspect"
      PROVE  SuspicionMatchesState'
  BY <1>0
<1>1. CASE quietStep(i)
  BY <1>1, Zenon DEF quietStep
<1>2. CASE Build(i)
  BY <1>2, BuildEffect DEF Listed
<1>3. ASSUME NEW a \in aliveSource(i), aliveStep(i, a) PROVE SuspicionMatchesState'
  <2>1. a.ID \in Node
    BY <1>3, Zenon DEF aliveStep, alive
  <2>2. CASE addNode(i, a)
    BY <1>3, <2>1, <2>2, AliveEffect DEF addNode, Listed
  <2>3. CASE renewNode(i, a)
    <3>1. suspicions'[i][a.ID].confirmMap = {}
          /\ \A k, m \in Node : k # i \/ m # a.ID => suspicions'[k][m] = suspicions[k][m]
      BY <2>1, <2>3, CoreType, SetSuspicion, NoSuspicionType DEF renewNode
    <3>2. nodeMap'[i][a.ID].State = "alive"
          /\ \A k, m \in Node : k # i \/ m # a.ID => nodeMap'[k][m] = nodeMap[k][m]
      BY <1>3, AliveEffect
    <3> QED BY <1>0, <2>1, <3>1, <3>2
  <2> QED BY <1>3, <2>2, <2>3, Zenon DEF aliveStep
<1>4. ASSUME NEW l \in Nat, refuteStep(i, l) PROVE SuspicionMatchesState'
  <2>1. suspicions' = suspicions /\ nodeMap'[i][i].State = nodeMap[i][i].State
        /\ \A k, m \in Node : k # i \/ m # i => nodeMap'[k][m] = nodeMap[k][m]
    BY <1>4, RefuteEffect, Zenon DEF refuteStep, refute
  <2> QED BY <1>0, <2>1
<1>5. ASSUME NEW s \in suspectSource(i), confirmStep(i, s) PROVE SuspicionMatchesState'
  <2> DEFINE sc == suspicions[i][s.ID]
             new == [confirmCap |-> sc.confirmCap, confirmMap |-> sc.confirmMap \cup {s.From}]
  <2>1. sc \in suspicion /\ s.ID \in Node /\ s.From \in Node /\ sc.confirmMap # {}
    BY <1>5 DEF TypeOK, confirmStep, suspect
  <2>2. new \in suspicion /\ new.confirmMap # {}
    BY <2>1, Zenon DEF suspicion
  <2>3. setSuspicion(i, s.ID, new) /\ UNCHANGED nodeMap
    BY <1>5, Zenon DEF confirmStep
  <2>4. /\ suspicions'[i][s.ID] = new
        /\ \A k, m \in Node : k # i \/ m # s.ID => suspicions'[k][m] = suspicions[k][m]
    BY <2>1, <2>2, <2>3, CoreType, SetSuspicion
  <2> QED BY <2>1, <2>2, <2>3, <2>4
<1>6. ASSUME NEW s \in suspectSource(i), suspectStep(i, s) PROVE SuspicionMatchesState'
  <2>1. s.ID \in Node
    BY <1>6, Zenon DEF suspectStep, suspect
  <2>2. suspicions'[i][s.ID].confirmMap = {s.From} /\ nodeMap'[i][s.ID].State = "suspect"
    BY <1>6, SuspectEffect
  <2>3. \A k, m \in Node : k # i \/ m # s.ID =>
          nodeMap'[k][m] = nodeMap[k][m] /\ suspicions'[k][m] = suspicions[k][m]
    BY <1>6, SuspectEffect
  <2>4. suspicions'[i][s.ID].confirmMap # {}
    BY <2>2, Zenon
  <2> QED BY <1>0, <2>1, <2>2, <2>3, <2>4, Zenon
<1>7. ASSUME NEW d \in deadSource(i), deadStep(i, d) PROVE SuspicionMatchesState'
  <2>1. d.ID \in Node /\ suspicions'[i][d.ID].confirmMap = {}
        /\ nodeMap'[i][d.ID].State # "suspect"
    BY <1>7, DeadEffect, Zenon DEF deadStep, dead
  <2>2. \A k, m \in Node : k # i \/ m # d.ID =>
          nodeMap'[k][m] = nodeMap[k][m] /\ suspicions'[k][m] = suspicions[k][m]
    BY <1>7, DeadEffect
  <2> QED BY <1>0, <2>1, <2>2, Zenon
<1>8. ASSUME NEW expired \in SUBSET Node, reap(i, expired) PROVE SuspicionMatchesState'
  BY <1>8, ReapEffect DEF NoEntry, DeadOrLeft
<1> QED BY NodeStepCore, <1>1, <1>2, <1>3, <1>4, <1>5, <1>6, <1>7, <1>8, Zenon DEF coreStep

\* suspectNode never marks the node's own entry.
LEMMA SelfNotSuspectStep ==
  ASSUME TypeOK, CallsSelf, SelfNotSuspect, NEW i \in Node, NodeStep(i)
  PROVE  SelfNotSuspect'
<1> USE DEF SelfNotSuspect
<1>1. CASE UNCHANGED nodeMap
  BY <1>1, Zenon
<1>2. CASE Build(i)
  BY <1>2, BuildEffect, Zenon
<1>3. ASSUME NEW a \in aliveSource(i), aliveStep(i, a) PROVE SelfNotSuspect'
  BY <1>3, AliveEffect, Zenon
<1>4. ASSUME NEW l \in Nat, refuteStep(i, l) PROVE SelfNotSuspect'
  BY <1>4, RefuteEffect, Zenon
<1>6. ASSUME NEW s \in suspectSource(i), suspectStep(i, s) PROVE SelfNotSuspect'
  BY <1>6, SuspectEffect DEF suspectStep
<1>7. ASSUME NEW d \in deadSource(i), deadStep(i, d) PROVE SelfNotSuspect'
  BY <1>7, DeadEffect
<1>8. ASSUME NEW expired \in SUBSET Node, reap(i, expired) PROVE SelfNotSuspect'
  BY <1>8, ReapEffect DEF NoEntry
<1> QED BY NodeStepCore, <1>1, <1>2, <1>3, <1>4, <1>6, <1>7, <1>8, Zenon
        DEF coreStep, quietStep, confirmStep

\* SuspicionInv holds initially and every step keeps it.
LEMMA SuspicionInvInductive ==
  /\ Init => SuspicionInv
  /\ SuspicionInv /\ [Next]_vars => SuspicionInv'
<1>1. Init => SuspicionInv
  <2> SUFFICES ASSUME Init PROVE SuspicionMatchesState /\ SelfNotSuspect
    BY SelfInvInductive, Zenon DEF SuspicionInv
  <2> QED BY Zenon DEF Init, SuspicionMatchesState, Suspected, SelfNotSuspect, NoEntry, NoSuspicion
<1>2. ASSUME SuspicionInv, [Next]_vars PROVE SuspicionInv'
  <2>1. SelfInv' /\ TypeOK /\ CallsSelf
    BY <1>2, SelfInvInductive, Zenon DEF SuspicionInv, SelfInv
  <2>2. CASE UNCHANGED vars
    BY <1>2, <2>1, <2>2, Zenon
       DEF SuspicionInv, SuspicionMatchesState, Suspected, SelfNotSuspect, vars, coreVars
  <2>3. CASE Next
    BY <1>2, <2>1, <2>3, SuspicionMatchesStep, SelfNotSuspectStep, Zenon DEF SuspicionInv, Next
  <2> QED BY <1>2, <2>2, <2>3, Zenon
<1> QED BY <1>1, <1>2, Zenon

\* The suspicions map holds exactly the suspect entries.
THEOREM SuspicionsMatchStates == Spec => []SuspicionMatchesState
BY SuspicionInvInductive, PTL DEF Spec, SuspicionInv

-----------------------------------------------------------------------------
(* A death has a cause: a Leave of the node, or a suspicion that was       *)
(* broadcast.                                                              *)

\* The life l of node j has been accused.
Accused(j, l) == \E s \in suspects : s.ID = j /\ s.Lives = l

\* What State and Left say of node j and its life l has its cause.
StateCaused(st, j, l) ==
  /\ st = "left" => left[j]
  /\ st \in {"suspect", "dead"} => Accused(j, l)
DeadCaused(d) == IF d.Left THEN left[d.ID] ELSE Accused(d.ID, d.Lives)

Caused ==
  /\ \A k, j \in Node : StateCaused(nodeMap[k][j].State, j, nodeMap[k][j].Lives)
  /\ \A d \in deads : DeadCaused(d)
  /\ \A k \in Node : \A d \in deadCalls[k] : DeadCaused(d)
  /\ \A k \in Node : \A r \in merging[k] : r.State = "left" => left[r.ID]

CausedInv == SuspicionInv /\ Caused

\* Causes do not go away: Leave is not undone, and a broadcast may always arrive.
LEMMA CausesStay ==
  ASSUME TypeOK, CallsSelf, NEW i \in Node, NodeStep(i)
  PROVE  /\ suspects \subseteq suspects'
         /\ \A k \in Node : left[k] => left'[k]
<1>1. suspects \subseteq suspects'
  <2>1. coreStep(i)
    BY NodeStepCore, Zenon
  <2>2. CASE \/ UNCHANGED suspects
             \/ \E s : suspects' = suspects \cup {s}
    BY <2>2, Zenon
  <2> QED BY <2>1, <2>2, BuildEffect, RefuteEffect, SuspectEffect, ReapEffect, Zenon
          DEF coreStep, quietStep, aliveStep, confirmStep, refuteStep, refute, deadStep, markDead
<1> QED BY <1>1, Frame, Zenon

\* The messages that deadNode may be called with have a cause.
LEMMA SourceCaused ==
  ASSUME TypeOK, Caused, NEW i \in Node, NEW d \in deadSource(i)
  PROVE  DeadCaused(d)
<1>1. CASE d \in deads \cup deadCalls[i]
  BY <1>1, Zenon DEF Caused
<1>2. ASSUME NEW r \in merging[i], r.State = "left", d = asLeft(r) PROVE DeadCaused(d)
  BY <1>2, Zenon DEF Caused, DeadCaused, asLeft
<1> QED BY <1>1, <1>2, Zenon DEF deadSource

\* After a step, every entry and every dead message still has its cause.
LEMMA CausedStep ==
  ASSUME TypeOK, CallsSelf, SelfNotSuspect, Caused, NEW i \in Node, NodeStep(i)
  PROVE  /\ \A k, j \in Node : StateCaused(nodeMap[k][j].State, j, nodeMap[k][j].Lives)'
         /\ \A d \in deads' : DeadCaused(d)'
<1> DEFINE P == /\ \A k, j \in Node : StateCaused(nodeMap[k][j].State, j, nodeMap[k][j].Lives)'
                /\ \A d \in deads' : DeadCaused(d)'
<1>1. suspects \subseteq suspects' /\ \A k \in Node : left[k] => left'[k]
  BY CausesStay, Zenon
<1>2. \A d \in dead : DeadCaused(d) => DeadCaused(d)'
  BY <1>1, Zenon DEF DeadCaused, Accused, dead
<1>3. \A k, j \in Node : nodeMap'[k][j] = nodeMap[k][j]
        => StateCaused(nodeMap[k][j].State, j, nodeMap[k][j].Lives)'
  BY <1>1 DEF Caused, StateCaused, Accused
<1>4. \A d \in deads : DeadCaused(d)'
  BY <1>2, Zenon DEF Caused, TypeOK
<1>5. ASSUME NEW j \in Node, UNCHANGED deads,
             \A k, m \in Node : k # i \/ m # j => nodeMap'[k][m] = nodeMap[k][m],
             StateCaused(nodeMap[i][j].State, j, nodeMap[i][j].Lives)'
      PROVE  P
  BY <1>3, <1>4, <1>5, Zenon
<1>6. CASE UNCHANGED <<nodeMap, deads>>
  BY <1>3, <1>4, <1>6, Zenon
<1>7. CASE Build(i)
  <2>1. CASE i \in Allowed[i]
    <3>1. /\ nodeMap'[i][i].State = "alive" /\ UNCHANGED deads
          /\ \A k, m \in Node : k # i \/ m # i => nodeMap'[k][m] = nodeMap[k][m]
      BY <1>7, <2>1, BuildEffect, Zenon
    <3> QED BY <1>5, <3>1, Zenon DEF StateCaused
  <2>2. CASE i \notin Allowed[i]
    BY <1>6, <1>7, <2>2, BuildEffect, Zenon
  <2> QED BY <2>1, <2>2, Zenon
<1>8. ASSUME NEW a \in aliveSource(i), aliveStep(i, a) PROVE P
  <2>1. a.ID \in Node /\ UNCHANGED deads
    BY <1>8, Zenon DEF aliveStep, alive
  <2>2. /\ nodeMap'[i][a.ID].State = "alive"
        /\ \A k, m \in Node : k # i \/ m # a.ID => nodeMap'[k][m] = nodeMap[k][m]
    BY <1>8, AliveEffect
  <2> QED BY <1>5, <2>1, <2>2, Zenon DEF StateCaused
<1>9. ASSUME NEW l \in Nat, refuteStep(i, l) PROVE P
  <2>1. /\ UNCHANGED deads /\ nodeMap'[i][i].State = nodeMap[i][i].State
        /\ \A k, m \in Node : k # i \/ m # i => nodeMap'[k][m] = nodeMap[k][m]
    BY <1>9, RefuteEffect, Zenon DEF refuteStep, refute
  <2>2. nodeMap[i][i].State \notin {"suspect", "dead", "left"}
    BY <1>9, Zenon DEF refuteStep, DeadOrLeft, SelfNotSuspect
  <2> QED BY <1>5, <2>1, <2>2, Zenon DEF StateCaused
<1>10. ASSUME NEW s \in suspectSource(i), suspectStep(i, s) PROVE P
  <2>1. s.ID \in Node /\ UNCHANGED deads
    BY <1>10, Zenon DEF suspectStep, suspect, firstSuspect
  <2>2. /\ nodeMap'[i][s.ID].State = "suspect" /\ nodeMap'[i][s.ID].Lives = s.Lives
        /\ \A k, m \in Node : k # i \/ m # s.ID => nodeMap'[k][m] = nodeMap[k][m]
        /\ s \in suspects'
    BY <1>10, SuspectEffect, SMTT(20)
  <2> QED BY <1>5, <2>1, <2>2, Zenon DEF StateCaused, Accused
<1>11. ASSUME NEW d \in deadSource(i), deadStep(i, d) PROVE P
  <2>1. d.ID \in Node /\ DeadCaused(d)'
    BY <1>2, <1>11, SourceCaused, Zenon DEF deadStep, dead
  <2>2. /\ nodeMap'[i][d.ID].State = (IF d.Left THEN "left" ELSE "dead")
        /\ nodeMap'[i][d.ID].Lives = d.Lives /\ deads' = deads \cup {d}
        /\ \A k, m \in Node : k # i \/ m # d.ID => nodeMap'[k][m] = nodeMap[k][m]
    BY <1>11, DeadEffect
  <2>3. StateCaused(nodeMap[i][d.ID].State, d.ID, nodeMap[i][d.ID].Lives)'
    BY <2>1, <2>2, Zenon DEF StateCaused, DeadCaused
  <2> QED BY <1>3, <1>4, <2>1, <2>2, <2>3, Zenon
<1>12. ASSUME NEW expired \in SUBSET Node, reap(i, expired) PROVE P
  <2>1. /\ \A j \in expired : nodeMap'[i][j].State = "none"
        /\ \A k, m \in Node : k # i \/ m \notin expired => nodeMap'[k][m] = nodeMap[k][m]
        /\ UNCHANGED deads
    BY <1>12, ReapEffect DEF NoEntry
  <2>2. \A j \in expired : StateCaused(nodeMap[i][j].State, j, nodeMap[i][j].Lives)'
    BY <2>1, Zenon DEF StateCaused
  <2> QED BY <1>3, <1>4, <2>1, <2>2, Zenon
<1> QED BY NodeStepCore, <1>6, <1>7, <1>8, <1>9, <1>10, <1>11, <1>12, Zenon
        DEF coreStep, quietStep, confirmStep

\* The same for the calls of deadNode in progress and the states being merged.
LEMMA CallsCaused ==
  ASSUME TypeOK, TypeOK', CallsSelf, Caused, NEW i \in Node, NodeStep(i)
  PROVE  /\ \A k \in Node : \A d \in deadCalls'[k] : DeadCaused(d)'
         /\ \A k \in Node : \A r \in merging'[k] : r.State = "left" => left'[r.ID]
<1>1. /\ suspects \subseteq suspects' /\ \A k \in Node : left[k] => left'[k]
      /\ callStep
  BY CausesStay, NodeStepCalls, Zenon
<1>2. ASSUME NEW k \in Node, NEW d \in deadCalls'[k] PROVE DeadCaused(d)'
  <2>1. d.ID \in Node
    BY CallTypes DEF TypeOK, dead
  <2>2. CASE d \in deadCalls[k]
    BY <1>1, <2>1, <2>2, Zenon DEF Caused, DeadCaused, Accused
  <2>3. CASE newDeadCall(k, d)
    BY <1>1, <2>1, <2>3 DEF newDeadCall, Caused, StateCaused, DeadCaused, Accused
  <2> QED BY <1>1, <2>2, <2>3, Zenon DEF callStep
<1>3. ASSUME NEW k \in Node, NEW r \in merging'[k], r.State = "left" PROVE left'[r.ID]
  <2>1. r.ID \in Node
    BY DEF TypeOK, stateToMerge
  <2>2. CASE r \in merging[k]
    BY <1>1, <1>3, <2>1, <2>2, Zenon DEF Caused
  <2>3. ASSUME NEW m \in Node, nodeMap[m][r.ID].State = "left" PROVE left'[r.ID]
    BY <1>1, <2>1, <2>3, Zenon DEF Caused, StateCaused
  <2>4. CASE r \notin merging[k]
    <3>1. newMerge(r)
      BY <1>1, <2>4, Zenon DEF callStep
    <3>2. PICK m \in Node : r.State = nodeMap[m][r.ID].State
      BY <3>1, Zenon DEF newMerge
    <3> QED BY <1>3, <2>3, <3>2, Zenon
  <2> QED BY <2>2, <2>4, Zenon
<1> QED BY <1>2, <1>3, Zenon

\* CausedInv holds initially and every step keeps it.
LEMMA CausedInvInductive ==
  /\ Init => CausedInv
  /\ CausedInv /\ [Next]_vars => CausedInv'
<1>1. Init => CausedInv
  <2> SUFFICES ASSUME Init PROVE Caused
    BY SuspicionInvInductive, Zenon DEF CausedInv
  <2> QED BY Zenon DEF Init, Caused, StateCaused, NoEntry
<1>2. ASSUME CausedInv, [Next]_vars PROVE CausedInv'
  <2>1. /\ SuspicionInv' /\ TypeOK /\ TypeOK' /\ CallsSelf /\ SelfNotSuspect /\ Caused
    BY <1>2, SuspicionInvInductive, Zenon DEF CausedInv, SuspicionInv, SelfInv
  <2>2. CASE UNCHANGED vars
    BY <2>1, <2>2
       DEF CausedInv, Caused, StateCaused, DeadCaused, Accused, vars, coreVars, callVars
  <2>3. CASE Next
    BY <2>1, <2>3, CausedStep, CallsCaused, Zenon DEF CausedInv, Caused, Next
  <2> QED BY <1>2, <2>2, <2>3, Zenon
<1> QED BY <1>1, <1>2, Zenon

\* Nobody is declared dead out of the blue: every death that is not a Leave follows
\* a broadcast suspicion of that very life.
THEOREM DeathsAreSuspected == Spec => []DeathNeedsSuspicion
<1>1. CausedInv => DeathNeedsSuspicion
  BY DEF CausedInv, Caused, StateCaused, DeadCaused, Accused, DeathNeedsSuspicion
<1> QED BY <1>1, CausedInvInductive, PTL DEF Spec

\* StateLeft is reported only of a node that has called Leave.
THEOREM LeftNodesCalledLeave == Spec => []LeftNeedsLeave
<1>1. CausedInv => LeftNeedsLeave
  BY Zenon DEF CausedInv, Caused, StateCaused, DeadCaused, LeftNeedsLeave
<1> QED BY <1>1, CausedInvInductive, PTL DEF Spec

-----------------------------------------------------------------------------
(* Every suspicion has a timer or the deadNode call of one.                *)

timeoutCall(j, l) == [ID |-> j, Lives |-> l, Left |-> FALSE]
armed(i, j, l) == \E t \in timers[i] : t.ID = j /\ t.Lives = l

TimerInv == SuspicionInv /\ SuspectHasTimer

\* A suspect entry is an old one, untouched, or its timer has just been armed.
LEMMA SuspectEntryStep ==
  ASSUME TypeOK, CallsSelf, SelfNotSuspect, NEW i \in Node, NodeStep(i),
         NEW k \in Node, NEW j \in Node, nodeMap'[k][j].State = "suspect"
  PROVE  \/ nodeMap[k][j].State = "suspect" /\ nodeMap'[k][j].Lives = nodeMap[k][j].Lives
         \/ armed(k, j, nodeMap[k][j].Lives)'
<1> DEFINE P == \/ /\ nodeMap[k][j].State = "suspect"
                   /\ nodeMap'[k][j].Lives = nodeMap[k][j].Lives
                \/ armed(k, j, nodeMap[k][j].Lives)'
<1>1. CASE nodeMap'[k][j] = nodeMap[k][j]
  BY <1>1, Zenon
<1>2. CASE Build(i)
  BY <1>1, <1>2, BuildEffect, Zenon
<1>3. ASSUME NEW a \in aliveSource(i), aliveStep(i, a) PROVE P
  BY <1>1, <1>3, AliveEffect
<1>4. ASSUME NEW l \in Nat, refuteStep(i, l) PROVE P
  BY <1>1, <1>4, RefuteEffect DEF SelfNotSuspect
<1>5. ASSUME NEW s \in suspectSource(i), suspectStep(i, s) PROVE P
  <2>1. CASE k # i \/ j # s.ID
    BY <1>1, <1>5, <2>1, SuspectEffect
  <2>2. CASE k = i /\ j = s.ID
    <3>1. nodeMap'[k][j].Lives = s.Lives
      BY <1>5, <2>2, SuspectEffect
    <3>2. PICK q \in TimerSlot :
            timers' = [timers EXCEPT ![i] = @ \cup {[ID |-> s.ID, Lives |-> s.Lives, slot |-> q]}]
      BY <1>5, Zenon DEF suspectStep, firstSuspect
    <3>3. [ID |-> s.ID, Lives |-> s.Lives, slot |-> q] \in timers'[i]
      BY <3>2, Zenon DEF TypeOK
    <3> QED BY <2>2, <3>1, <3>3, Zenon DEF armed
  <2> QED BY <2>1, <2>2, Zenon
<1>6. ASSUME NEW d \in deadSource(i), deadStep(i, d) PROVE P
  BY <1>1, <1>6, DeadEffect
<1>7. ASSUME NEW expired \in SUBSET Node, reap(i, expired) PROVE P
  BY <1>1, <1>7, ReapEffect DEF NoEntry
<1>8. CASE UNCHANGED nodeMap
  BY <1>1, <1>8, Zenon
<1> QED BY NodeStepCore, <1>2, <1>3, <1>4, <1>5, <1>6, <1>7, <1>8, Zenon
        DEF coreStep, quietStep, confirmStep

\* A timer goes away only by running, and then it calls deadNode if its guard holds.
LEMMA TimersKept ==
  ASSUME TypeOK, CallsSelf, NEW i \in Node, NodeStep(i), NEW k \in Node, NEW t \in timers[k],
         nodeMap[k][t.ID].State = "suspect", nodeMap[k][t.ID].Lives = t.Lives
  PROVE  t \in timers'[k] \/ timeoutCall(t.ID, t.Lives) \in deadCalls'[k]
<1>1. CASE UNCHANGED timers
  BY <1>1, Zenon
<1>2. ASSUME NEW u \in timers[i], suspicionTimeout(i, u)
      PROVE  t \in timers'[k] \/ timeoutCall(t.ID, t.Lives) \in deadCalls'[k]
  <2>1. CASE k = i /\ u = t
    BY <1>2, <2>1, CallTypes, Zenon DEF suspicionTimeout, timeoutCall
  <2>2. CASE k # i \/ u # t
    BY <1>2, <2>2, Zenon DEF suspicionTimeout, TypeOK
  <2> QED BY <2>1, <2>2, Zenon
<1>3. ASSUME NEW s, suspectStep(i, s) PROVE t \in timers'[k]
  <2>1. PICK u : timers' = [timers EXCEPT ![i] = @ \cup {u}]
    BY <1>3, Zenon DEF suspectStep, firstSuspect
  <2> QED BY <2>1, Zenon DEF TypeOK
<1> QED BY NodeStepCore, <1>1, <1>2, <1>3, BuildEffect, ReapEffect, Zenon
        DEF coreStep, quietStep, aliveStep, refuteStep, refute, confirmStep, deadStep, markDead

\* A pending deadNode call goes away only by being made.
LEMMA DeadCallsKept ==
  ASSUME TypeOK, NEW i \in Node, NodeStep(i), NEW k \in Node, NEW d \in deadCalls[k]
  PROVE  d \in deadCalls'[k] \/ (k = i /\ DeadCall(i, d))
<1>1. CASE UNCHANGED deadCalls
  BY <1>1, Zenon
<1>2. CASE \E e : deadCalls' = [deadCalls EXCEPT ![i] = @ \cup {e}]
  BY <1>2, CallTypes, Zenon
<1>3. CASE Leave(i) \/ \E t \in timers[i] : suspicionTimeout(i, t)
  BY <1>1, <1>2, <1>3, Zenon DEF Leave, suspicionTimeout
<1>4. ASSUME NEW e \in deadCalls[i], DeadCall(i, e)
      PROVE  d \in deadCalls'[k] \/ (k = i /\ DeadCall(i, d))
  <2>1. deadCalls' = [deadCalls EXCEPT ![i] = @ \ {e}]
    BY <1>4, Zenon DEF DeadCall
  <2> QED BY <1>4, <2>1, CallTypes, Zenon
<1> QED
  BY <1>1, <1>3, <1>4, Zenon
     DEF NodeStep, Build, Shutdown, UpdateTagsPanic, UpdateTags, probe, probeAcked,
         probeFailed, AliveCall, handleAlive, handleSuspect, handleDead, sendLocalState,
         mergeState, reap, callVars

\* The deadNode call of a timer ends the suspicion it was made for.
LEMMA DeadCallEnds ==
  ASSUME TypeOK, SelfNotSuspect, NEW i \in Node, NEW j \in Node,
         nodeMap[i][j].State = "suspect", DeadCall(i, timeoutCall(j, nodeMap[i][j].Lives))
  PROVE  nodeMap'[i][j].State # "suspect"
<1> DEFINE d == timeoutCall(j, nodeMap[i][j].Lives)
<1>1. d.ID = j /\ d.Lives = nodeMap[i][j].Lives /\ ~d.Left /\ j # i /\ d.Lives \in Nat
  BY CoreType, EntryType, Zenon DEF timeoutCall, SelfNotSuspect
<1>2. deadNode(i, d)
  BY Zenon DEF DeadCall
<1> HIDE DEF d
<1>3. Listed(i, j) /\ ~DeadOrLeft(i, j)
  BY Zenon DEF Listed, DeadOrLeft
<1>4. markDead(i, d)
  BY <1>1, <1>2, <1>3 DEF deadNode, ignoreDead
<1>5. setNode(i, j, "dead", d.Lives, nodeMap[i][j].Tags)
  BY <1>1, <1>4, Zenon DEF markDead
<1>6. coreTypeOK /\ nodeMap[i][j].Tags \in TagValue /\ "dead" \in StateType \cup {"none"}
  BY CoreType, EntryType, Zenon DEF StateType
<1> QED BY <1>1, <1>5, <1>6, SetNode

\* A suspect entry keeps its timer or the deadNode call of it.
LEMMA SuspectHasTimerStep ==
  ASSUME TypeOK, CallsSelf, SelfNotSuspect, SuspectHasTimer, NEW i \in Node, NodeStep(i)
  PROVE  SuspectHasTimer'
<1> SUFFICES ASSUME NEW k \in Node, NEW j \in Node, nodeMap'[k][j].State = "suspect"
             PROVE  \/ armed(k, j, nodeMap[k][j].Lives)'
                    \/ timeoutCall(j, nodeMap'[k][j].Lives) \in deadCalls'[k]
  BY Zenon DEF SuspectHasTimer, armed, timeoutCall
<1>1. CASE nodeMap[k][j].State = "suspect" /\ nodeMap'[k][j].Lives = nodeMap[k][j].Lives
  <2>1. CASE armed(k, j, nodeMap[k][j].Lives)
    BY <1>1, <2>1, TimersKept, Zenon DEF armed
  <2>2. CASE timeoutCall(j, nodeMap[k][j].Lives) \in deadCalls[k]
    BY <1>1, <2>2, DeadCallsKept, DeadCallEnds, Zenon
  <2> QED BY <1>1, <2>1, <2>2, Zenon DEF SuspectHasTimer, armed, timeoutCall
<1> QED BY <1>1, SuspectEntryStep, Zenon

\* TimerInv holds initially and every step keeps it.
LEMMA TimerInvInductive ==
  /\ Init => TimerInv
  /\ TimerInv /\ [Next]_vars => TimerInv'
<1>1. Init => TimerInv
  BY SuspicionInvInductive DEF TimerInv, Init, SuspectHasTimer, NoEntry
<1>2. ASSUME TimerInv, [Next]_vars PROVE TimerInv'
  <2>1. SuspicionInv' /\ TypeOK /\ CallsSelf /\ SelfNotSuspect
    BY <1>2, SuspicionInvInductive, Zenon DEF TimerInv, SuspicionInv, SelfInv
  <2>2. CASE UNCHANGED vars
    BY <1>2, <2>1, <2>2, Zenon DEF TimerInv, SuspectHasTimer, vars, coreVars, callVars
  <2>3. CASE Next
    BY <1>2, <2>1, <2>3, SuspectHasTimerStep, Zenon DEF TimerInv, Next
  <2> QED BY <1>2, <2>2, <2>3, Zenon
<1> QED BY <1>1, <1>2, Zenon

\* Every suspect entry has a timer, or the deadNode call of one, for its very life.
THEOREM SuspectsHaveTimers == Spec => []SuspectHasTimer
BY TimerInvInductive, PTL DEF Spec, TimerInv

-----------------------------------------------------------------------------
(* A life is announced with one value of the tags.                         *)

asEntry(i, j) == [ID |-> j, Lives |-> nodeMap[i][j].Lives, Tags |-> nodeMap[i][j].Tags]

\* Whoever sees a node alive has it from an alive message.
AliveAnnounced ==
  /\ \A i, j \in Node : nodeMap[i][j].State = "alive" => asEntry(i, j) \in alives
  /\ \A i \in Node : \A r \in merging[i] : r.State = "alive" => asAlive(r) \in alives

announced == alives \cup UNION {aliveCalls[i] : i \in Node}

TagsOfLife ==
  \A a, b \in announced : a.ID = b.ID /\ a.Lives = b.Lives => a.Tags = b.Tags

TagsInv == LivesInv /\ AliveAnnounced /\ TagsOfLife

\* An alive message is new only when its life is: handlers pass on what they got,
\* Build and refute draw the next life.
LEMMA AlivesStep ==
  ASSUME LivesInv, AliveAnnounced, NEW i \in Node, NodeStep(i)
  PROVE  \/ alives' = alives
         \/ \E z \in alive : /\ alives' = alives \cup {z}
                             /\ z \in announced \/ z.Lives > lives[z.ID]
<1> DEFINE P == \/ alives' = alives
                \/ \E z \in alive : /\ alives' = alives \cup {z}
                                    /\ z \in announced \/ z.Lives > lives[z.ID]
<1>1. TypeOK /\ coreStep(i)
  BY NodeStepCore, Zenon DEF LivesInv, SelfInv
<1>2. lives[i] \in Nat /\ nodeMap[i][i].Tags \in TagValue
  BY <1>1, CoreType, EntryType, Zenon DEF TypeOK
<1>3. CASE Build(i)
  <2> DEFINE z == [ID |-> i, Lives |-> lives[i] + 1, Tags |-> DefaultTags]
  <2>1. z \in alive /\ z.ID = i /\ z.Lives = lives[i] + 1
    BY <1>2, ConstantsAssumption, SMTT(30) DEF alive
  <2>2. alives' = alives \/ alives' = alives \cup {z}
    BY <1>1, <1>3, BuildEffect, Zenon
  <2> HIDE DEF z
  <2> QED BY <1>2, <2>1, <2>2
<1>4. ASSUME NEW a \in aliveSource(i), aliveStep(i, a) PROVE P
  <2>1. a \in alive /\ alives' = alives \cup {a}
    BY <1>1, <1>4, AliveEffect, Zenon DEF aliveStep
  <2>2. a \in announced
    BY <1>4, Zenon DEF aliveSource, announced, AliveAnnounced
  <2> QED BY <2>1, <2>2, Zenon
<1>5. ASSUME NEW l \in Nat, refuteStep(i, l) PROVE P
  <2> DEFINE z == [ID |-> i, Lives |-> outbid(i, l), Tags |-> nodeMap[i][i].Tags]
  <2>1. outbid(i, l) \in Nat /\ outbid(i, l) > lives[i] /\ alives' = alives \cup {z}
    BY <1>1, <1>2, <1>5, RefuteEffect DEF outbid
  <2>2. z \in alive /\ z.ID = i /\ z.Lives > lives[i]
    BY <1>2, <2>1, Zenon DEF alive
  <2> HIDE DEF z
  <2> QED BY <2>1, <2>2, Zenon
<1>6. CASE alives' = alives
  BY <1>6, Zenon
<1> HIDE DEF P
<1>7. P
  BY <1>1, <1>3, <1>4, <1>5, <1>6, Zenon
     DEF P, coreStep, quietStep, confirmStep, suspectStep, firstSuspect, deadStep, markDead, reap
<1> QED BY <1>7, Zenon DEF P

\* A step shows a node alive only with what an alive message says.
LEMMA AliveAnnouncedStep ==
  ASSUME LivesInv, AliveAnnounced, NEW i \in Node, NodeStep(i)
  PROVE  AliveAnnounced'
<1>1. TypeOK /\ coreStep(i) /\ callStep /\ TypeOK'
  BY NodeStepCore, NodeStepCalls, NextType, Zenon DEF LivesInv, SelfInv, Next
<1>2. alives \subseteq alives'
  BY AlivesStep, Zenon
<1> DEFINE P == \A k, j \in Node : nodeMap'[k][j].State = "alive" => asEntry(k, j)' \in alives'
<1>3. ASSUME NEW k \in Node, NEW j \in Node, nodeMap'[k][j] = nodeMap[k][j], nodeMap'[k][j].State = "alive"
      PROVE  asEntry(k, j)' \in alives'
  BY <1>2, <1>3, Zenon DEF asEntry, AliveAnnounced
<1>4. ASSUME NEW j \in Node, \A k, m \in Node : k # i \/ m # j => nodeMap'[k][m] = nodeMap[k][m],
             nodeMap'[i][j].State = "alive" => asEntry(i, j)' \in alives'
      PROVE  P
  BY <1>3, <1>4, Zenon
<1> HIDE DEF P
<1>5. ASSUME UNCHANGED nodeMap PROVE P
  BY <1>3, <1>5, Zenon DEF P
<1>6. ASSUME Build(i) PROVE P
  <2>1. ASSUME i \in Allowed[i] PROVE P
    <3>1. /\ nodeMap'[i][i].Lives = lives[i] + 1 /\ nodeMap'[i][i].Tags = DefaultTags
          /\ \A k, m \in Node : k # i \/ m # i => nodeMap'[k][m] = nodeMap[k][m]
          /\ [ID |-> i, Lives |-> lives[i] + 1, Tags |-> DefaultTags] \in alives'
      BY <1>1, <1>6, <2>1, BuildEffect, Zenon
    <3>2. asEntry(i, i)' \in alives'
      BY <3>1, Zenon DEF asEntry
    <3> QED BY <1>4, <3>1, <3>2, Zenon
  <2>2. ASSUME i \notin Allowed[i] PROVE P
    BY <1>1, <1>5, <1>6, <2>2, BuildEffect, Zenon
  <2> QED BY <2>1, <2>2, Zenon
<1>7. ASSUME NEW a \in aliveSource(i), aliveStep(i, a) PROVE P
  <2>1. /\ a \in alive /\ a \in alives'
        /\ nodeMap'[i][a.ID].Lives = a.Lives /\ nodeMap'[i][a.ID].Tags = a.Tags
        /\ \A k, m \in Node : k # i \/ m # a.ID => nodeMap'[k][m] = nodeMap[k][m]
    BY <1>1, <1>7, AliveEffect DEF aliveStep
  <2>2. a.ID \in Node /\ a = [ID |-> a.ID, Lives |-> a.Lives, Tags |-> a.Tags]
    BY <2>1, Zenon DEF alive
  <2>3. asEntry(i, a.ID)' = a
    BY <2>1, <2>2, Zenon DEF asEntry
  <2> QED BY <1>4, <2>1, <2>2, <2>3, Zenon
<1>8. ASSUME NEW l \in Nat, refuteStep(i, l) PROVE P
  <2>1. /\ nodeMap'[i][i].Lives = outbid(i, l) /\ nodeMap'[i][i].Tags = nodeMap[i][i].Tags
        /\ \A k, m \in Node : k # i \/ m # i => nodeMap'[k][m] = nodeMap[k][m]
        /\ [ID |-> i, Lives |-> outbid(i, l), Tags |-> nodeMap[i][i].Tags] \in alives'
    BY <1>1, <1>8, RefuteEffect, SMTT(30)
  <2>2. asEntry(i, i)' \in alives'
    BY <2>1, Zenon DEF asEntry
  <2> QED BY <1>4, <2>1, <2>2, Zenon
<1>9. ASSUME NEW s \in suspectSource(i), suspectStep(i, s) PROVE P
  <2>1. /\ s.ID \in Node /\ nodeMap'[i][s.ID].State = "suspect"
        /\ \A k, m \in Node : k # i \/ m # s.ID => nodeMap'[k][m] = nodeMap[k][m]
    BY <1>1, <1>9, SuspectEffect, Zenon DEF suspectStep, suspect
  <2> QED BY <1>4, <2>1, Zenon
<1>10. ASSUME NEW d \in deadSource(i), deadStep(i, d) PROVE P
  <2>1. /\ d.ID \in Node /\ nodeMap'[i][d.ID].State # "alive"
        /\ \A k, m \in Node : k # i \/ m # d.ID => nodeMap'[k][m] = nodeMap[k][m]
    BY <1>1, <1>10, DeadEffect DEF deadStep, dead
  <2> QED BY <1>4, <2>1, Zenon
<1>11. ASSUME NEW expired \in SUBSET Node, reap(i, expired) PROVE P
  <2>1. \A k, j \in Node : nodeMap'[k][j].State = "alive" => nodeMap'[k][j] = nodeMap[k][j]
    BY <1>1, <1>11, ReapEffect DEF NoEntry
  <2> QED BY <1>3, <2>1, Zenon DEF P
<1>12. P
  BY <1>1, <1>5, <1>6, <1>7, <1>8, <1>9, <1>10, <1>11, Zenon DEF coreStep, quietStep, confirmStep
<1>13. ASSUME NEW k \in Node, NEW r \in merging'[k], r.State = "alive" PROVE asAlive(r) \in alives'
  <2>1. CASE r \in merging[k]
    BY <1>2, <1>13, <2>1, Zenon DEF AliveAnnounced
  <2>2. CASE newMerge(r)
    <3>1. r.ID \in Node
      BY <1>1, <1>13 DEF TypeOK, stateToMerge
    <3>2. PICK m \in Node : /\ r.Lives = nodeMap[m][r.ID].Lives /\ r.Tags = nodeMap[m][r.ID].Tags
                            /\ r.State = nodeMap[m][r.ID].State
      BY <2>2, Zenon DEF newMerge
    <3>3. asEntry(m, r.ID) \in alives /\ asAlive(r) = asEntry(m, r.ID)
      BY <1>13, <3>1, <3>2, Zenon DEF AliveAnnounced, asAlive, asEntry
    <3> QED BY <1>2, <3>3, Zenon
  <2> QED BY <1>1, <1>13, <2>1, <2>2, Zenon DEF callStep
<1> QED BY <1>12, <1>13, Zenon DEF P, AliveAnnounced, asAlive

\* Of the announcements of one node, a step adds at most one, and its life is one
\* that nobody knows yet.
LEMMA AnnouncedStep ==
  ASSUME TagsInv, NEW i \in Node, NodeStep(i)
  PROVE  \A x, y \in announced' : x.ID = y.ID =>
           /\ x \in announced \/ x.Lives > lives[x.ID]
           /\ x \in announced \/ y \in announced \/ x = y
<1>1. TypeOK /\ callStep /\ LivesInv /\ AliveAnnounced
  BY NodeStepCalls, Zenon DEF TagsInv, LivesInv, SelfInv
<1>2. \A k \in Node : lives[k] \in Nat
  BY <1>1, Zenon DEF TypeOK
<1>3. ASSUME NEW k \in Node, NEW a \in aliveCalls'[k], a \notin announced
      PROVE  newAliveCall(k, a) /\ a.ID = k /\ a.Lives > lives[a.ID] /\ alives' = alives
  <2>1. newAliveCall(k, a)
    BY <1>1, <1>3, Zenon DEF callStep, announced
  <2> QED BY <1>2, <2>1 DEF newAliveCall
<1>4. ASSUME NEW a \in alives', a \notin announced
      PROVE  a.Lives > lives[a.ID] /\ alives' # alives /\ \A b \in alives' : b \in announced \/ b = a
  <2>1. PICK z \in alive : alives' = alives \cup {z} /\ (z \in announced \/ z.Lives > lives[z.ID])
    BY <1>1, <1>4, AlivesStep, Zenon DEF announced
  <2> QED BY <1>4, <2>1, Zenon DEF announced
<1>5. \A x \in announced' : x \in alives' \/ \E k \in Node : x \in aliveCalls'[k]
  BY Zenon DEF announced
<1> TAKE x, y \in announced'
<1> HAVE x.ID = y.ID
<1>6. x \in announced \/ x.Lives > lives[x.ID]
  BY <1>3, <1>4, <1>5, Zenon
<1>7. ASSUME x \notin announced, y \notin announced PROVE x = y
  <2>1. CASE x \in alives'
    BY <1>3, <1>4, <1>5, <1>7, <2>1, Zenon
  <2>2. CASE y \in alives'
    BY <1>3, <1>4, <1>5, <1>7, <2>2, Zenon
  <2>3. CASE x \notin alives' /\ y \notin alives'
    <3>1. PICK k \in Node : x \in aliveCalls'[k]
      BY <1>5, <2>3, Zenon
    <3>2. PICK m \in Node : y \in aliveCalls'[m]
      BY <1>5, <2>3, Zenon
    <3>3. k = m
      BY <1>3, <1>7, <3>1, <3>2
    <3>4. x \notin aliveCalls[k] /\ y \notin aliveCalls[k]
      BY <1>7, Zenon DEF announced
    <3> QED BY <1>1, <3>1, <3>2, <3>3, <3>4, Zenon DEF callStep
  <2> QED BY <2>1, <2>2, <2>3, Zenon
<1> QED BY <1>6, <1>7, Zenon

\* TagsInv holds initially and every step keeps it.
LEMMA TagsInvInductive ==
  /\ Init => TagsInv
  /\ TagsInv /\ [Next]_vars => TagsInv'
<1>1. Init => TagsInv
  <2> SUFFICES ASSUME Init PROVE AliveAnnounced /\ announced = {}
    BY LivesInvInductive, Zenon DEF TagsInv, TagsOfLife
  <2>1. AliveAnnounced
    BY Zenon DEF Init, AliveAnnounced, NoEntry
  <2>2. announced = {}
    BY Zenon DEF Init, announced
  <2> QED BY <2>1, <2>2, Zenon
<1>2. ASSUME TagsInv, [Next]_vars PROVE TagsInv'
  <2>1. LivesInv /\ LivesInv' /\ AliveAnnounced /\ TagsOfLife
    BY <1>2, LivesInvInductive, Zenon DEF TagsInv
  <2>2. CASE UNCHANGED vars
    BY <2>1, <2>2 DEF TagsInv, AliveAnnounced, TagsOfLife, announced, asEntry, asAlive, vars, coreVars, callVars
  <2>3. ASSUME NEW i \in Node, NodeStep(i) PROVE AliveAnnounced' /\ TagsOfLife'
    <3>1. AliveAnnounced'
      BY <2>1, <2>3, AliveAnnouncedStep, Zenon
    <3>2. \A b \in announced : b.ID \in Node /\ b.Lives \in Nat /\ b.Lives <= lives[b.ID] /\ lives[b.ID] \in Nat
      <4>1. TypeOK /\ LivesDrawn
        BY <2>1, Zenon DEF LivesInv, SelfInv
      <4>2. \A b \in alives : b.ID \in Node /\ b.Lives \in Nat /\ b.Lives <= lives[b.ID]
        BY <4>1, Zenon DEF TypeOK, LivesDrawn, alive
      <4>3. \A k \in Node : \A b \in aliveCalls[k] : b.ID = k /\ b.Lives \in Nat /\ b.Lives <= lives[k]
        BY <4>1 DEF TypeOK, LivesDrawn, alive
      <4>4. \A k \in Node : lives[k] \in Nat
        BY <4>1, Zenon DEF TypeOK
      <4> QED BY <4>2, <4>3, <4>4 DEF announced
    <3>3. ASSUME NEW a \in announced', NEW b \in announced', a.ID = b.ID, a.Lives = b.Lives PROVE a.Tags = b.Tags
      <4>1. /\ a \in announced \/ a.Lives > lives[a.ID]
            /\ b \in announced \/ b.Lives > lives[b.ID]
            /\ a \in announced \/ b \in announced \/ a = b
        BY <1>2, <2>3, <3>3, AnnouncedStep, Zenon
      <4>2. CASE a \in announced /\ b \in announced
        BY <2>1, <3>3, <4>2, Zenon DEF TagsOfLife
      <4>3. CASE a \in announced /\ b \notin announced
        BY <3>2, <3>3, <4>1, <4>3
      <4>4. CASE a \notin announced /\ b \in announced
        BY <3>2, <3>3, <4>1, <4>4
      <4> QED BY <4>1, <4>2, <4>3, <4>4, Zenon
    <3> QED BY <3>1, <3>3, Zenon DEF TagsOfLife
  <2> QED BY <1>2, <2>1, <2>2, <2>3, Zenon DEF TagsInv, Next
<1> QED BY <1>1, <1>2, Zenon

\* Two nodes that see a third alive with the same Lives see the same tags: every
\* life of every node is announced with one value of the tags.
THEOREM AliveTagsAlwaysAgree == Spec => []AliveTagsAgree
<1>1. TagsInv => AliveTagsAgree
  <2> SUFFICES ASSUME TagsInv, NEW i \in Node, NEW k \in Node, NEW j \in Node,
                      nodeMap[i][j].State = "alive", nodeMap[k][j].State = "alive",
                      nodeMap[i][j].Lives = nodeMap[k][j].Lives
               PROVE  nodeMap[i][j].Tags = nodeMap[k][j].Tags
    BY Zenon DEF AliveTagsAgree
  <2>1. asEntry(i, j) \in announced /\ asEntry(k, j) \in announced
    BY Zenon DEF TagsInv, AliveAnnounced, announced
  <2>2. asEntry(i, j).Tags = asEntry(k, j).Tags
    BY <2>1, Zenon DEF TagsInv, TagsOfLife, asEntry
  <2> QED BY <2>2, Zenon DEF asEntry
<1> QED BY <1>1, TagsInvInductive, PTL DEF Spec

-----------------------------------------------------------------------------
(* The maps keep the promises of MembershipTable.                          *)

\* A well-typed entry with a state of S is one that the table allows.
LEMMA BecomesState ==
  ASSUME TypeOK', NEW i \in Node, NEW j \in Node, NEW S, nodeMap'[i][j].State \in S
  PROVE  Table!Becomes(i, j, S)
<1>1. nodeMap'[i][j] \in nodeState
  BY Zenon DEF TypeOK
<1> QED BY <1>1, Zenon DEF nodeState, Table!Becomes

\* A step that writes one entry and is one of the table's steps on it.
LEMMA OneEntry ==
  ASSUME NEW i \in Node, NEW j \in Node,
         \A k, m \in Node : k # i \/ m # j => nodeMap'[k][m] = nodeMap[k][m],
         Table!Appear(i, j) \/ Table!Renew(i, j) \/ Table!Accuse(i, j) \/ Table!Die(i, j)
  PROVE  Table!Next
<1>1. Table!OthersSame(i, {j})
  BY Zenon DEF Table!OthersSame
<1> QED BY <1>1, Zenon DEF Table!Next

\* Every step of a node is a step of the table, or leaves the maps alone.
LEMMA TableStep ==
  ASSUME TypeOK, TypeOK', CallsSelf, LivesDrawn, SelfNotSuspect, NEW i \in Node, NodeStep(i)
  PROVE  Table!Next \/ UNCHANGED nodeMap
<1> DEFINE P == Table!Next \/ UNCHANGED nodeMap
<1>0. \A k, j \in Node : /\ nodeMap[k][j].State \in StateType \cup {"none"}
                         /\ nodeMap[k][j].Lives \in Nat
  BY CoreType, EntryType, Zenon
<1>1. CASE quietStep(i)
  BY <1>1, Zenon DEF quietStep
<1>2. CASE Build(i)
  <2>1. CASE i \in Allowed[i]
    <3>1. /\ ~Listed(i, i) /\ nodeMap'[i][i].State = "alive"
          /\ \A k, m \in Node : k # i \/ m # i => nodeMap'[k][m] = nodeMap[k][m]
      BY <1>2, <2>1, BuildEffect, Zenon
    <3>2. Table!Appear(i, i)
      BY <3>1, BecomesState, Zenon DEF Table!Appear, Table!State, Listed
    <3> QED BY <3>1, <3>2, OneEntry, Zenon
  <2>2. CASE i \notin Allowed[i]
    BY <1>2, <2>2, BuildEffect, Zenon
  <2> QED BY <2>1, <2>2, Zenon
<1>3. ASSUME NEW a \in aliveSource(i), aliveStep(i, a) PROVE P
  <2>1. a.ID \in Node
    BY <1>3, Zenon DEF aliveStep, alive
  <2>2. /\ nodeMap'[i][a.ID].State = "alive" /\ nodeMap'[i][a.ID].Lives = a.Lives
        /\ \A k, m \in Node : k # i \/ m # a.ID => nodeMap'[k][m] = nodeMap[k][m]
        /\ Listed(i, a.ID) => a.Lives > nodeMap[i][a.ID].Lives
    BY <1>3, AliveEffect, SMTT(30)
  <2>3. Table!Becomes(i, a.ID, {"alive"})
    BY <2>1, <2>2, BecomesState, Zenon
  <2>4. Table!Appear(i, a.ID) \/ Table!Renew(i, a.ID)
    BY <2>2, <2>3, Zenon DEF Table!Appear, Table!Renew, Table!Newer, Table!State, Listed
  <2> QED BY <2>1, <2>2, <2>4, OneEntry, Zenon
<1>4. ASSUME NEW l \in Nat, refuteStep(i, l) PROVE P
  <2>1. /\ nodeMap'[i][i].State = nodeMap[i][i].State
        /\ nodeMap'[i][i].Lives = outbid(i, l) /\ outbid(i, l) > lives[i]
        /\ \A k, m \in Node : k # i \/ m # i => nodeMap'[k][m] = nodeMap[k][m]
    BY <1>4, RefuteEffect, Zenon
  <2>2. nodeMap[i][i].State = "alive"
    BY <1>0, <1>4, Zenon DEF refuteStep, Listed, DeadOrLeft, SelfNotSuspect, StateType
  <2>3. nodeMap'[i][i].Lives > nodeMap[i][i].Lives
    <3>1. lives[i] \in Nat /\ nodeMap[i][i].Lives \in Nat /\ nodeMap[i][i].Lives <= lives[i]
      BY <1>0, LivesType, Zenon DEF LivesDrawn
    <3>2. outbid(i, l) \in Nat
      BY <3>1 DEF outbid, refuteStep
    <3> QED BY <2>1, <3>1, <3>2
  <2>4. Table!Renew(i, i)
    BY <2>1, <2>2, <2>3, BecomesState, Zenon DEF Table!Renew, Table!Newer, Table!State
  <2> QED BY <2>1, <2>4, OneEntry, Zenon
<1>5. ASSUME NEW s \in suspectSource(i), confirmStep(i, s) PROVE P
  BY <1>5, Zenon DEF confirmStep
<1>6. ASSUME NEW s \in suspectSource(i), suspectStep(i, s) PROVE P
  <2>1. /\ s.ID \in Node /\ s.ID # i /\ nodeMap[i][s.ID].State = "alive"
        /\ s.Lives >= nodeMap[i][s.ID].Lives
    BY <1>6, Zenon DEF suspectStep, suspect
  <2>2. /\ nodeMap'[i][s.ID].State = "suspect" /\ nodeMap'[i][s.ID].Lives = s.Lives
        /\ nodeMap'[i][s.ID].Tags = nodeMap[i][s.ID].Tags
        /\ \A k, m \in Node : k # i \/ m # s.ID => nodeMap'[k][m] = nodeMap[k][m]
    BY <1>6, SuspectEffect
  <2>3. Table!Becomes(i, s.ID, {"suspect"})
    BY <2>1, <2>2, BecomesState, ZenonT(30)
  <2>4. Table!Accuse(i, s.ID)
    BY <2>1, <2>2, <2>3, Zenon DEF Table!Accuse, Table!State, Table!NoOlder, Table!SameTags
  <2> QED BY <2>1, <2>2, <2>4, OneEntry, Zenon
<1>7. ASSUME NEW d \in deadSource(i), deadStep(i, d) PROVE P
  <2>1. d.ID \in Node /\ d.Lives >= nodeMap[i][d.ID].Lives
    BY <1>7, Zenon DEF deadStep, dead
  <2>2. nodeMap[i][d.ID].State \in {"alive", "suspect"}
    BY <1>0, <1>7, <2>1, Zenon DEF deadStep, Listed, DeadOrLeft, StateType
  <2>3. /\ nodeMap'[i][d.ID].State \in {"dead", "left"} /\ nodeMap'[i][d.ID].Lives = d.Lives
        /\ nodeMap'[i][d.ID].Tags = nodeMap[i][d.ID].Tags
        /\ \A k, m \in Node : k # i \/ m # d.ID => nodeMap'[k][m] = nodeMap[k][m]
    BY <1>7, DeadEffect, SMTT(30)
  <2>4. Table!Becomes(i, d.ID, {"dead", "left"})
    BY <2>1, <2>3, BecomesState, Zenon
  <2>5. Table!Die(i, d.ID)
    BY <2>1, <2>2, <2>3, <2>4, Zenon DEF Table!Die, Table!State, Table!NoOlder, Table!SameTags
  <2> QED BY <2>1, <2>3, <2>5, OneEntry, ZenonT(30)
<1>8. ASSUME NEW expired \in SUBSET Node, reap(i, expired) PROVE P
  <2>1. Table!Forget(i, expired)
    BY <1>8, ReapEffect DEF Table!Forget, Table!State, DeadOrLeft, NoEntry
  <2>2. Table!OthersSame(i, expired)
    BY <1>8, ReapEffect, Zenon DEF Table!OthersSame
  <2> QED BY <2>1, <2>2, Zenon DEF Table!Next
<1> QED BY NodeStepCore, <1>1, <1>2, <1>3, <1>4, <1>5, <1>6, <1>7, <1>8, Zenon DEF coreStep

\* The nodeMaps that the handlers, timers and API calls of a cluster produce keep
\* the promises of MembershipTable.
THEOREM MembershipImplementsTable == Spec => TableImplemented
<1> DEFINE Inv == LivesInv /\ SuspicionInv
<1>1. Init => Inv
  BY LivesInvInductive, SuspicionInvInductive, Zenon
<1>2. Inv /\ [Next]_vars => Inv'
  BY LivesInvInductive, SuspicionInvInductive, Zenon
<1>3. Init => Table!Init
  BY DEF Init, Table!Init, Table!State, NoEntry
<1>4. ASSUME Inv, Inv', [Next]_vars PROVE [Table!Next]_nodeMap
  <2>1. TypeOK /\ TypeOK' /\ CallsSelf /\ LivesDrawn /\ SelfNotSuspect
    BY <1>4, Zenon DEF LivesInv, SuspicionInv, SelfInv
  <2>2. CASE UNCHANGED vars
    BY <2>2, Zenon DEF vars, coreVars
  <2>3. CASE Next
    BY <2>1, <2>3, TableStep, Zenon DEF Next
  <2> QED BY <1>4, <2>2, <2>3, Zenon
<1> HIDE DEF Inv
<1> QED BY <1>1, <1>2, <1>3, <1>4, PTL DEF Spec, TableImplemented, Table!Spec

-----------------------------------------------------------------------------
(* The order that an entry follows.                                        *)

rank(state) == IF state = "alive" THEN 0 ELSE IF state = "suspect" THEN 1 ELSE 2

\* Entry e is later news than entry f: of a newer life, or graver about the same.
later(e, f) ==
  e.Lives > f.Lives \/ (e.Lives = f.Lives /\ rank(e.State) > rank(f.State))

\* Until it is reaped, an entry only moves on in the order of lives and, within one
\* life, from alive over suspect to dead or left: whatever arrives late, twice or
\* out of order, no step of aliveNode, suspectNode, deadNode, refute or mergeState
\* takes it back, so that it never returns to an earlier value.
THEOREM EntriesOnlyMoveOn ==
  Spec => [][\A i, j \in Node : Listed(i, j) /\ Listed(i, j)' =>
               \/ nodeMap'[i][j] = nodeMap[i][j]
               \/ later(nodeMap'[i][j], nodeMap[i][j])]_nodeMap
<1> DEFINE On(i, j) == Listed(i, j) /\ Listed(i, j)' =>
                         \/ nodeMap'[i][j] = nodeMap[i][j]
                         \/ later(nodeMap'[i][j], nodeMap[i][j])
           MoveOn == \A i, j \in Node : On(i, j)
<1>1. ASSUME TypeOK, TypeOK', Table!Next PROVE MoveOn
  <2>1. \A i, j \in Node : nodeMap[i][j].Lives \in Nat /\ nodeMap'[i][j].Lives \in Nat
    BY <1>1, EntryType DEF TypeOK, nodeState
  <2>2. PICK i \in Node :
          \/ \E j \in Node : /\ Table!Appear(i, j) \/ Table!Renew(i, j)
                                \/ Table!Accuse(i, j) \/ Table!Die(i, j)
                             /\ Table!OthersSame(i, {j})
          \/ \E S \in SUBSET Node : Table!Forget(i, S) /\ Table!OthersSame(i, S)
    BY <1>1, Zenon DEF Table!Next
  <2>3. ASSUME NEW j \in Node, Table!OthersSame(i, {j}), On(i, j) PROVE MoveOn
    BY <2>3, Zenon DEF Table!OthersSame
  <2>4. ASSUME NEW j \in Node, Table!Appear(i, j) PROVE On(i, j)
    BY <2>4, Zenon DEF Table!Appear, Table!State, Listed
  <2>5. ASSUME NEW j \in Node, Table!Renew(i, j) PROVE On(i, j)
    BY <2>5, Zenon DEF Table!Renew, Table!Newer, later
  <2>6. ASSUME NEW j \in Node, Table!Accuse(i, j) PROVE On(i, j)
    <3>1. /\ nodeMap[i][j].State = "alive" /\ nodeMap'[i][j].State = "suspect"
          /\ nodeMap'[i][j].Lives >= nodeMap[i][j].Lives
      BY <2>6, Zenon DEF Table!Accuse, Table!State, Table!Becomes, Table!NoOlder
    <3> QED BY <2>1, <3>1 DEF later, rank
  <2>7. ASSUME NEW j \in Node, Table!Die(i, j) PROVE On(i, j)
    <3>1. /\ nodeMap[i][j].State \in {"alive", "suspect"}
          /\ nodeMap'[i][j].State \in {"dead", "left"}
          /\ nodeMap'[i][j].Lives >= nodeMap[i][j].Lives
      BY <2>7, Zenon DEF Table!Die, Table!State, Table!Becomes, Table!NoOlder
    <3> QED BY <2>1, <3>1 DEF later, rank
  <2>8. ASSUME NEW S \in SUBSET Node, Table!Forget(i, S), Table!OthersSame(i, S) PROVE MoveOn
    BY <2>8, Zenon DEF Table!Forget, Table!OthersSame, Listed
  <2> HIDE DEF On, MoveOn
  <2> QED BY <2>2, <2>3, <2>4, <2>5, <2>6, <2>7, <2>8, Zenon
<1>2. TypeOK /\ TypeOK' /\ [Table!Next]_nodeMap => [MoveOn]_nodeMap
  BY <1>1, Zenon
<1> HIDE DEF MoveOn
<1>3. Spec => [][MoveOn]_nodeMap
  BY TypeCorrect, MembershipImplementsTable, <1>2, PTL DEF TableImplemented, Table!Spec
<1> QED BY <1>3, Zenon DEF MoveOn
=============================================================================
