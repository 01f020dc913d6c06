-------------------------- MODULE MembershipLives ---------------------------
(***************************************************************************)
(* Proofs about the lives of nodes: a running node is alive in its own     *)
(* map, nobody names a life that was not drawn, and until it leaves, a     *)
(* node's own entry is the newest news about it.                           *)
(***************************************************************************)
EXTENDS MembershipSteps

-----------------------------------------------------------------------------
(* Who is in a map, and what a node thinks of itself.                      *)

OnlyAllowed == \A i, j \in Node : Listed(i, j) => j \in Allowed[i]

SelfInv == TypeOK /\ CallsSelf /\ OnlyAllowed /\ SelfAlive

\* aliveNode refuses a node whose address is not allowed, so none gets into a map.
LEMMA OnlyAllowedStep ==
  ASSUME TypeOK, CallsSelf, OnlyAllowed, NEW i \in Node, NodeStep(i)
  PROVE  OnlyAllowed'
<1> USE DEF OnlyAllowed, Listed
<1>1. CASE quietStep(i)
  BY <1>1, Zenon DEF quietStep
<1>2. CASE Build(i)
  BY <1>2, BuildEffect
<1>3. ASSUME NEW a \in aliveSource(i), aliveStep(i, a) PROVE OnlyAllowed'
  BY <1>3, AliveEffect DEF aliveStep, alive
<1>4. ASSUME NEW l \in Nat, refuteStep(i, l) PROVE OnlyAllowed'
  BY <1>4, RefuteEffect DEF refuteStep
<1>5. ASSUME NEW s \in suspectSource(i), confirmStep(i, s) PROVE OnlyAllowed'
  BY <1>5, Zenon DEF confirmStep
<1>6. ASSUME NEW s \in suspectSource(i), suspectStep(i, s) PROVE OnlyAllowed'
  <2>1. /\ s.ID \in Node /\ nodeMap[i][s.ID].State = "alive"
        /\ \A k, m \in Node : k # i \/ m # s.ID => nodeMap'[k][m] = nodeMap[k][m]
    BY <1>6, SuspectEffect, Zenon DEF suspectStep, suspect
  <2> QED BY <2>1, Zenon
<1>7. ASSUME NEW d \in deadSource(i), deadStep(i, d) PROVE OnlyAllowed'
  <2>1. /\ d.ID \in Node /\ nodeMap[i][d.ID].State # "none"
        /\ \A k, m \in Node : k # i \/ m # d.ID => nodeMap'[k][m] = nodeMap[k][m]
    BY <1>7, DeadEffect, Zenon DEF deadStep, dead
  <2> QED BY <2>1, Zenon
<1>8. ASSUME NEW expired \in SUBSET Node, reap(i, expired) PROVE OnlyAllowed'
  BY <1>8, ReapEffect DEF NoEntry
<1> QED BY NodeStepCore, <1>1, <1>2, <1>3, <1>4, <1>5, <1>6, <1>7, <1>8, Zenon DEF coreStep

\* No step makes a running node see itself other than alive before it leaves.
LEMMA SelfAliveStep ==
  ASSUME TypeOK, CallsSelf, SelfAlive, NEW i \in Node, NodeStep(i)
  PROVE  SelfAlive'
<1> SUFFICES ASSUME NEW k \in Node, status'[k] # "new", ~left'[k], k \in Allowed[k]
             PROVE  nodeMap'[k][k].State = "alive"
  BY Zenon DEF SelfAlive
<1>1. CASE Build(i) /\ k = i
  BY <1>1, BuildEffect, Zenon
<1>2. CASE ~(Build(i) /\ k = i)
  <2>1. nodeMap[k][k].State = "alive" /\ ~left[k]
    BY <1>2, Frame, Zenon DEF SelfAlive
  <2>2. CASE quietStep(i)
    BY <2>1, <2>2, Zenon DEF quietStep
  <2>3. CASE Build(i)
    BY <1>2, <2>1, <2>3, BuildEffect, Zenon
  <2>4. ASSUME NEW a \in aliveSource(i), aliveStep(i, a) PROVE nodeMap'[k][k].State = "alive"
    BY <2>1, <2>4, AliveEffect, Zenon
  <2>5. ASSUME NEW l \in Nat, refuteStep(i, l) PROVE nodeMap'[k][k].State = "alive"
    BY <2>1, <2>5, RefuteEffect, Zenon
  <2>6. ASSUME NEW s \in suspectSource(i), confirmStep(i, s) PROVE nodeMap'[k][k].State = "alive"
    BY <2>1, <2>6, Zenon DEF confirmStep
  <2>7. ASSUME NEW s \in suspectSource(i), suspectStep(i, s) PROVE nodeMap'[k][k].State = "alive"
    BY <2>1, <2>7, SuspectEffect DEF suspectStep
  <2>8. ASSUME NEW d \in deadSource(i), deadStep(i, d) PROVE nodeMap'[k][k].State = "alive"
    BY <2>1, <2>8, DeadEffect DEF deadStep
  <2>9. ASSUME NEW expired \in SUBSET Node, reap(i, expired)
        PROVE  nodeMap'[k][k].State = "alive"
    BY <2>1, <2>9, ReapEffect DEF DeadOrLeft
  <2> QED BY NodeStepCore, <2>2, <2>3, <2>4, <2>5, <2>6, <2>7, <2>8, <2>9, Zenon DEF coreStep
<1> QED BY <1>1, <1>2, Zenon

\* SelfInv holds initially and every step keeps it.
LEMMA SelfInvInductive ==
  /\ Init => SelfInv
  /\ SelfInv /\ [Next]_vars => SelfInv'
<1>1. Init => SelfInv
  BY InitType, ConstantsAssumption
     DEF Init, SelfInv, CallsSelf, OnlyAllowed, Listed, NoEntry, SelfAlive
<1>2. ASSUME SelfInv, [Next]_vars PROVE SelfInv'
  <2>1. TypeOK' /\ CallsSelf'
    BY <1>2, NextType, CallsSelfNext, Zenon DEF SelfInv
  <2>2. CASE UNCHANGED vars
    BY <1>2, <2>1, <2>2, Zenon DEF SelfInv, OnlyAllowed, Listed, SelfAlive, vars, coreVars
  <2>3. CASE Next
    BY <1>2, <2>1, <2>3, OnlyAllowedStep, SelfAliveStep, Zenon DEF SelfInv, Next
  <2> QED BY <1>2, <2>2, <2>3, Zenon
<1> QED BY <1>1, <1>2, Zenon

\* A running node that has not left is alive in its own map: every accusation of
\* suspectNode and deadNode ends in refute, and reap never takes the node itself.
THEOREM SelfStaysAlive == Spec => []SelfAlive
BY SelfInvInductive, PTL DEF Spec, SelfInv

-----------------------------------------------------------------------------
(* Nobody names a life that its owner has not drawn.                       *)

LivesInv == SelfInv /\ LivesDrawn

\* nextLiveNo never goes back.
LEMMA LivesGrow ==
  ASSUME TypeOK, NEW i \in Node, coreStep(i)
  PROVE  \A k \in Node : lives'[k] >= lives[k]
<1>0. \A k \in Node : lives[k] \in Nat
  BY Zenon DEF TypeOK
<1>1. CASE quietStep(i)
  BY <1>1, Zenon DEF quietStep
<1>2. CASE Build(i)
  BY <1>0, <1>2, BuildEffect
<1>3. CASE \E l \in Nat : refuteStep(i, l)
  <2>1. PICK l \in Nat : refuteStep(i, l)
    BY <1>3, Zenon
  <2>2. outbid(i, l) \in Nat
    BY <1>0 DEF outbid
  <2> QED BY <1>0, <2>1, <2>2, RefuteEffect
<1>4. CASE UNCHANGED lives
  BY <1>0, <1>4
<1> QED BY <1>1, <1>2, <1>3, <1>4, Zenon
        DEF coreStep, aliveStep, confirmStep, suspectStep, firstSuspect, deadStep, markDead, reap

\* The messages that a handler may be given name drawn lives only.
LEMMA SourceLives ==
  ASSUME TypeOK, LivesDrawn, NEW i \in Node
  PROVE  /\ \A a \in aliveSource(i) : a.Lives <= lives[a.ID]
         /\ \A s \in suspectSource(i) : s.Lives <= lives[s.ID]
         /\ \A d \in deadSource(i) : d.Lives <= lives[d.ID]
BY DEF LivesDrawn, aliveSource, suspectSource, deadSource, asAlive, asSuspect, asLeft

\* After a step, maps and messages still name drawn lives only.
LEMMA LivesDrawnCore ==
  ASSUME SelfInv, LivesDrawn, NEW i \in Node, NodeStep(i)
  PROVE  /\ \A k, j \in Node : nodeMap'[k][j].Lives <= lives'[j]
         /\ \A a \in alives' : a.Lives <= lives'[a.ID]
         /\ \A s \in suspects' : s.Lives <= lives'[s.ID]
         /\ \A d \in deads' : d.Lives <= lives'[d.ID]
<1> DEFINE P == /\ \A k, j \in Node : nodeMap'[k][j].Lives <= lives'[j]
                /\ \A a \in alives' : a.Lives <= lives'[a.ID]
                /\ \A s \in suspects' : s.Lives <= lives'[s.ID]
                /\ \A d \in deads' : d.Lives <= lives'[d.ID]
<1>1. TypeOK /\ CallsSelf /\ coreStep(i) /\ TypeOK'
  BY NodeStepCore, NextType, Zenon DEF SelfInv, Next
<1>2. \A k \in Node : lives'[k] >= lives[k] /\ lives[k] \in Nat /\ lives'[k] \in Nat
  BY <1>1, LivesGrow, Zenon DEF TypeOK
<1>3. \A k, j \in Node : nodeMap[k][j].Lives \in Nat /\ nodeMap[k][j].Lives <= lives'[j]
  BY <1>1, <1>2, CoreType, EntryType DEF LivesDrawn
<1>4. /\ \A a \in alives : a.ID \in Node /\ a.Lives \in Nat /\ a.Lives <= lives'[a.ID]
      /\ \A s \in suspects : s.ID \in Node /\ s.Lives \in Nat /\ s.Lives <= lives'[s.ID]
      /\ \A d \in deads : d.ID \in Node /\ d.Lives \in Nat /\ d.Lives <= lives'[d.ID]
  BY <1>1, <1>2 DEF LivesDrawn, TypeOK, alive, suspect, dead
<1>5. CASE quietStep(i)
  BY <1>3, <1>4, <1>5, Zenon DEF quietStep, suspect
<1>6. CASE Build(i)
  BY <1>1, <1>2, <1>3, <1>4, <1>6, BuildEffect
<1>7. ASSUME NEW a \in aliveSource(i), aliveStep(i, a) PROVE P
  <2>1. a.ID \in Node /\ a.Lives \in Nat /\ a.Lives <= lives[a.ID]
    BY <1>1, <1>7, SourceLives, Zenon DEF aliveStep, alive
  <2>2. UNCHANGED <<lives, suspects, deads>>
    BY <1>7, Zenon DEF aliveStep
  <2> QED BY <1>1, <1>3, <1>4, <1>7, <2>1, <2>2, AliveEffect
<1>8. ASSUME NEW l \in Nat, refuteStep(i, l) PROVE P
  <2>1. UNCHANGED <<suspects, deads>> /\ lives'[i] \in Nat
    BY <1>2, <1>8, Zenon DEF refuteStep, refute
  <2>2. \A k, j \in Node : nodeMap'[k][j].Lives <= lives'[j]
    BY <1>1, <1>3, <1>8, <2>1, RefuteEffect
  <2>3. \A a \in alives' : a.Lives <= lives'[a.ID]
    BY <1>1, <1>4, <1>8, <2>1, RefuteEffect
  <2> QED BY <1>4, <2>1, <2>2, <2>3, Zenon
<1>9. ASSUME NEW s \in suspectSource(i), confirmStep(i, s) PROVE P
  BY <1>1, <1>2, <1>3, <1>4, <1>9, SourceLives, Zenon DEF confirmStep, suspect
<1>10. ASSUME NEW s \in suspectSource(i), suspectStep(i, s) PROVE P
  <2>1. s.ID \in Node /\ s.Lives \in Nat /\ s.Lives <= lives[s.ID]
    BY <1>1, <1>10, SourceLives, Zenon DEF suspectStep, suspect
  <2>2. UNCHANGED <<lives, alives, deads>>
    BY <1>10, Zenon DEF suspectStep, firstSuspect
  <2> QED BY <1>1, <1>3, <1>4, <1>10, <2>1, <2>2, SuspectEffect, SMTT(20)
<1>11. ASSUME NEW d \in deadSource(i), deadStep(i, d) PROVE P
  <2>1. d.ID \in Node /\ d.Lives \in Nat /\ d.Lives <= lives[d.ID]
    BY <1>1, <1>11, SourceLives, Zenon DEF deadStep, dead
  <2>2. UNCHANGED <<lives, alives, suspects>>
    BY <1>11, Zenon DEF deadStep, markDead
  <2> QED BY <1>1, <1>3, <1>4, <1>11, <2>1, <2>2, DeadEffect, SMTT(20)
<1>12. ASSUME NEW expired \in SUBSET Node, reap(i, expired) PROVE P
  BY <1>1, <1>2, <1>3, <1>4, <1>12, ReapEffect DEF NoEntry
<1> QED BY <1>1, <1>5, <1>6, <1>7, <1>8, <1>9, <1>10, <1>11, <1>12, Zenon DEF coreStep

\* LivesInv holds initially and every step keeps it.
LEMMA LivesInvInductive ==
  /\ Init => LivesInv
  /\ LivesInv /\ [Next]_vars => LivesInv'
<1>1. Init => LivesInv
  <2> SUFFICES ASSUME Init PROVE LivesDrawn
    BY SelfInvInductive, Zenon DEF LivesInv
  <2> QED BY SMTT(20) DEF Init, LivesDrawn, NoEntry
<1>2. ASSUME LivesInv, [Next]_vars PROVE LivesInv'
  <2>1. SelfInv /\ SelfInv' /\ TypeOK /\ LivesDrawn
    BY <1>2, SelfInvInductive, Zenon DEF LivesInv, SelfInv
  <2>2. CASE UNCHANGED vars
    BY <2>1, <2>2, Zenon DEF LivesInv, LivesDrawn, vars, coreVars, callVars
  <2>3. ASSUME NEW i \in Node, NodeStep(i) PROVE LivesDrawn'
    <3>1. TypeOK' /\ callStep /\ \A k \in Node : lives'[k] >= lives[k]
      BY <2>1, <2>3, NodeStepCalls, NodeStepCore, LivesGrow, Zenon DEF SelfInv
    <3>6. \A k \in Node : lives[k] \in Nat /\ lives'[k] \in Nat
      BY <2>1, <3>1, Zenon DEF TypeOK
    <3>7. \A m, j \in Node : nodeMap[m][j].Lives \in Nat
      BY <2>1, EntryType, CoreType, Zenon
    <3>0. \A m, j \in Node : nodeMap[m][j].Lives <= lives'[j]
      BY <2>1, <3>1, <3>6, <3>7, SMTT(20) DEF LivesDrawn
    <3>2. ASSUME NEW k \in Node, NEW p \in probing'[k] PROVE p.Lives <= lives'[p.ID]
      <4>1. p.ID \in Node /\ p.Lives \in Nat
        BY <3>1 DEF TypeOK
      <4>2. CASE p \in probing[k]
        BY <2>1, <3>1, <3>6, <4>1, <4>2, SMTT(20) DEF LivesDrawn
      <4>3. CASE p \notin probing[k]
        BY <3>0, <3>1, <4>1, <4>3, Zenon DEF callStep, newProbe
      <4> QED BY <4>2, <4>3, Zenon
    <3>3. ASSUME NEW k \in Node, NEW r \in merging'[k] PROVE r.Lives <= lives'[r.ID]
      <4>1. r.ID \in Node /\ r.Lives \in Nat
        BY <3>1 DEF TypeOK, stateToMerge
      <4>2. CASE r \in merging[k]
        BY <2>1, <3>1, <3>6, <4>1, <4>2 DEF LivesDrawn
      <4>3. CASE r \notin merging[k]
        BY <3>0, <3>1, <4>1, <4>3, Zenon DEF callStep, newMerge
      <4> QED BY <4>2, <4>3, Zenon
    <3>4. ASSUME NEW k \in Node, NEW a \in aliveCalls'[k] PROVE a.ID = k /\ a.Lives <= lives'[k]
      <4>1. a.Lives \in Nat /\ lives[k] \in Nat /\ lives'[k] >= lives[k] /\ lives'[k] \in Nat
        BY <2>1, <3>1, <3>6 DEF TypeOK, alive
      <4>2. CASE a \in aliveCalls[k]
        BY <2>1, <4>1, <4>2 DEF LivesDrawn
      <4>3. CASE a \notin aliveCalls[k]
        BY <3>1, <4>1, <4>3 DEF callStep, newAliveCall
      <4> QED BY <4>2, <4>3, Zenon
    <3>5. ASSUME NEW k \in Node, NEW d \in deadCalls'[k] PROVE d.Lives <= lives'[d.ID]
      <4>1. d.ID \in Node /\ d.Lives \in Nat
        BY <3>1 DEF TypeOK, dead
      <4>2. CASE d \in deadCalls[k]
        BY <2>1, <3>1, <3>6, <4>1, <4>2 DEF LivesDrawn
      <4>3. CASE d \notin deadCalls[k]
        BY <3>0, <3>1, <4>1, <4>3, Zenon DEF callStep, newDeadCall
      <4> QED BY <4>2, <4>3, Zenon
    <3> QED BY <2>1, <2>3, <3>2, <3>3, <3>4, <3>5, LivesDrawnCore, Zenon DEF LivesDrawn
  <2> QED BY <1>2, <2>1, <2>2, <2>3, Zenon DEF LivesInv, Next
<1> QED BY <1>1, <1>2, Zenon

\* Every Lives in an entry, a message, a probe, a push/pull state or a pending call
\* was drawn by its owner from nextLiveNo.
THEOREM LivesAreDrawn == Spec => []LivesDrawn
BY LivesInvInductive, PTL DEF Spec, LivesInv

-----------------------------------------------------------------------------
(* Until it leaves, a node's own entry is the newest news about it.        *)

NewestInv == LivesInv /\ OwnEntryNewest

\* Until it leaves, the life in a node's own entry never goes back.
LEMMA OwnLivesGrow ==
  ASSUME LivesInv, NEW i \in Node, NodeStep(i), NEW j \in Node, ~left'[j]
  PROVE  nodeMap'[j][j].Lives >= nodeMap[j][j].Lives
<1> DEFINE P == nodeMap'[j][j].Lives >= nodeMap[j][j].Lives
<1>1. TypeOK /\ coreStep(i) /\ ~left[j] /\ SelfAlive /\ OnlyAllowed
  BY NodeStepCore, Frame, Zenon DEF LivesInv, SelfInv
<1>2. nodeMap[j][j].Lives \in Nat /\ lives[j] \in Nat /\ nodeMap[j][j].Lives <= lives[j]
  BY <1>1, CoreType, EntryType, Zenon DEF LivesInv, LivesDrawn, TypeOK
<1>3. ASSUME status[i] = "up", i = j, j \in Allowed[j] PROVE nodeMap[j][j].State = "alive"
  BY <1>1, <1>3, Zenon DEF SelfAlive
<1>4. CASE quietStep(i)
  BY <1>2, <1>4 DEF quietStep
<1>5. CASE Build(i)
  BY <1>1, <1>2, <1>5, BuildEffect
<1>6. ASSUME NEW a \in aliveSource(i), aliveStep(i, a) PROVE P
  <2>1. a.Lives \in Nat /\ a.ID \in Allowed[i] /\ status[i] = "up"
    BY <1>6, Zenon DEF aliveStep, alive
  <2>2. CASE i = j /\ a.ID = j
    BY <1>1, <1>2, <1>3, <1>6, <2>1, <2>2, AliveEffect DEF Listed
  <2>3. CASE i # j \/ a.ID # j
    BY <1>1, <1>2, <1>6, <2>3, AliveEffect
  <2> QED BY <2>2, <2>3, Zenon
<1>7. ASSUME NEW l \in Nat, refuteStep(i, l) PROVE P
  <2>1. outbid(i, l) \in Nat
    BY <1>1, SMTT(30) DEF outbid, TypeOK
  <2> QED BY <1>1, <1>2, <1>7, <2>1, RefuteEffect
<1>8. ASSUME NEW s \in suspectSource(i), confirmStep(i, s) PROVE P
  BY <1>2, <1>8 DEF confirmStep
<1>9. ASSUME NEW s \in suspectSource(i), suspectStep(i, s) PROVE P
  BY <1>1, <1>2, <1>9, SuspectEffect, SMTT(30) DEF suspectStep
<1>10. ASSUME NEW d \in deadSource(i), deadStep(i, d) PROVE P
  BY <1>1, <1>2, <1>10, DeadEffect DEF deadStep
<1>11. ASSUME NEW expired \in SUBSET Node, reap(i, expired) PROVE P
  <2>1. i # j \/ j \notin expired
    BY <1>1, <1>3, <1>11, ReapEffect, Zenon DEF reap, OnlyAllowed, DeadOrLeft, Listed
  <2> QED BY <1>1, <1>2, <1>11, <2>1, ReapEffect
<1> QED BY <1>1, <1>4, <1>5, <1>6, <1>7, <1>8, <1>9, <1>10, <1>11, Zenon DEF coreStep

\* What a handler may be told about j is no newer than j's own entry, unless it is j's
\* own call of UpdateTags.
LEMMA SourceNewest ==
  ASSUME LivesInv, OwnEntryNewest, NEW i \in Node, NEW j \in Node, ~left[j]
  PROVE  /\ \A a \in aliveSource(i) : a.ID = j => a.Lives <= nodeMap[j][j].Lives \/ i = j
         /\ \A s \in suspectSource(i) : s.ID = j => s.Lives <= nodeMap[j][j].Lives
         /\ \A d \in deadSource(i) : d.ID = j => d.Lives <= nodeMap[j][j].Lives
BY DEF LivesInv, SelfInv, CallsSelf, OwnEntryNewest, aliveSource, suspectSource, deadSource,
       asAlive, asSuspect, asLeft

\* What OwnEntryNewest says of one node, for the maps and the messages.
newestCore(j) ==
  /\ \A i \in Node : nodeMap[i][j].Lives <= nodeMap[j][j].Lives
  /\ \A a \in alives : a.ID = j => a.Lives <= nodeMap[j][j].Lives
  /\ \A s \in suspects : s.ID = j => s.Lives <= nodeMap[j][j].Lives
  /\ \A d \in deads : d.ID = j => d.Lives <= nodeMap[j][j].Lives

\* After a step, maps and messages are still no newer than j's own entry.
LEMMA NewestCoreStep ==
  ASSUME NewestInv, NEW i \in Node, NodeStep(i), NEW j \in Node, ~left'[j]
  PROVE  newestCore(j)'
<1> DEFINE own == nodeMap'[j][j].Lives
<1>1. /\ TypeOK /\ TypeOK' /\ coreStep(i) /\ ~left[j] /\ LivesInv
      /\ own >= nodeMap[j][j].Lives
  BY NodeStepCore, NextType, Frame, OwnLivesGrow, Zenon DEF NewestInv, LivesInv, SelfInv, Next
<1>2. own \in Nat /\ nodeMap[j][j].Lives \in Nat
  BY <1>1, CoreType, EntryType DEF TypeOK, nodeState
<1>3. \A k \in Node : nodeMap[k][j].Lives \in Nat /\ nodeMap[k][j].Lives <= own
  <2> TAKE k \in Node
  <2>1. nodeMap[k][j].Lives \in Nat
    BY <1>1, CoreType, EntryType, Zenon
  <2>2. nodeMap[k][j].Lives <= nodeMap[j][j].Lives
    BY <1>1, Zenon DEF NewestInv, OwnEntryNewest
  <2> QED BY <1>1, <1>2, <2>1, <2>2, SMTT(30)
<1>4. /\ \A a \in alives : a.Lives \in Nat /\ (a.ID = j => a.Lives <= own)
      /\ \A s \in suspects : s.Lives \in Nat /\ (s.ID = j => s.Lives <= own)
      /\ \A d \in deads : d.Lives \in Nat /\ (d.ID = j => d.Lives <= own)
  BY <1>1, <1>2, SMTT(30) DEF NewestInv, OwnEntryNewest, TypeOK, alive, suspect, dead
<1>5. CASE quietStep(i)
  BY <1>1, <1>2, <1>3, <1>4, <1>5, Zenon DEF quietStep, newestCore
<1>6. CASE Build(i)
  <2>1. UNCHANGED <<suspects, deads>>
    BY <1>1, <1>6, BuildEffect, Zenon
  <2>2. CASE i \notin Allowed[i]
    <3>1. UNCHANGED <<nodeMap, alives>>
      BY <1>1, <1>6, <2>2, BuildEffect, Zenon
    <3> QED BY <1>3, <1>4, <2>1, <3>1, Zenon DEF newestCore
  <2>3. CASE i \in Allowed[i]
    <3>1. /\ nodeMap'[i][i].Lives = lives[i] + 1
          /\ \A k, m \in Node : k # i \/ m # i => nodeMap'[k][m] = nodeMap[k][m]
          /\ alives' = alives \cup {[ID |-> i, Lives |-> lives[i] + 1, Tags |-> DefaultTags]}
      BY <1>1, <1>6, <2>3, BuildEffect, Zenon
    <3>2. \A k \in Node : nodeMap'[k][j].Lives <= own
      BY <1>2, <1>3, <3>1
    <3>3. \A a \in alives' : a.ID = j => a.Lives <= own
      BY <1>2, <1>4, <3>1
    <3> QED BY <1>4, <2>1, <3>2, <3>3, Zenon DEF newestCore
  <2> QED BY <2>2, <2>3, Zenon
<1>7. ASSUME NEW a \in aliveSource(i), aliveStep(i, a) PROVE newestCore(j)'
  <2>1. a.ID \in Node /\ a.Lives \in Nat
    BY <1>7, Zenon DEF aliveStep, alive
  <2>2. /\ nodeMap'[i][a.ID].Lives = a.Lives
        /\ \A k, m \in Node : k # i \/ m # a.ID => nodeMap'[k][m] = nodeMap[k][m]
    BY <1>1, <1>7, AliveEffect
  <2>3. a.ID = j => a.Lives <= own
    <3>1. a.ID = j => a.Lives <= nodeMap[j][j].Lives \/ i = j
      BY <1>1, <1>7, SourceNewest, Zenon DEF NewestInv
    <3> QED BY <1>1, <1>2, <2>1, <2>2, <3>1
  <2>4. \A k \in Node : nodeMap'[k][j].Lives <= own
    <3> TAKE k \in Node
    <3>1. CASE k = i /\ j = a.ID
      BY <2>2, <2>3, <3>1, Zenon
    <3>2. CASE k # i \/ j # a.ID
      <4>1. nodeMap'[k][j] = nodeMap[k][j]
        BY <2>2, <3>2, Zenon
      <4> QED BY <1>3, <4>1, Zenon
    <3> QED BY <3>1, <3>2, Zenon
  <2>5. alives' = alives \cup {a} /\ UNCHANGED <<suspects, deads>>
    BY <1>1, <1>7, AliveEffect, Zenon DEF aliveStep
  <2> QED BY <1>4, <2>3, <2>4, <2>5, Zenon DEF newestCore
<1>8. ASSUME NEW l \in Nat, refuteStep(i, l) PROVE newestCore(j)'
  <2>1. \A k \in Node : nodeMap'[k][j].Lives <= own
    BY <1>1, <1>2, <1>3, <1>8, RefuteEffect, SMTT(30)
  <2>2. \A a \in alives' : a.ID = j => a.Lives <= own
    BY <1>1, <1>2, <1>4, <1>8, RefuteEffect
  <2> QED BY <1>4, <1>8, <2>1, <2>2, Zenon DEF refuteStep, refute, newestCore
<1>9. ASSUME NEW s \in suspectSource(i), confirmStep(i, s) PROVE newestCore(j)'
  <2>1. s.ID = j => s.Lives <= own
    BY <1>1, <1>2, <1>9, SourceNewest, Zenon DEF NewestInv, confirmStep, suspect
  <2> QED BY <1>3, <1>4, <1>9, <2>1, ZenonT(30) DEF confirmStep, newestCore
<1>10. ASSUME NEW s \in suspectSource(i), suspectStep(i, s) PROVE newestCore(j)'
  <2>0. s.ID \in Node /\ s.Lives \in Nat
    BY <1>10, Zenon DEF suspectStep, suspect
  <2>1. s.ID \in Node /\ (s.ID = j => s.Lives <= own)
    <3>1. s.ID = j => s.Lives <= nodeMap[j][j].Lives
      BY <1>1, <1>10, SourceNewest, Zenon DEF NewestInv
    <3> QED BY <1>1, <1>2, <2>0, <3>1, SMTT(30)
  <2>2. \A k \in Node : nodeMap'[k][j].Lives <= own
    BY <1>1, <1>3, <1>10, <2>1, SuspectEffect, SMTT(20)
  <2> QED BY <1>1, <1>4, <1>10, <2>1, <2>2, SuspectEffect, Zenon DEF suspectStep, firstSuspect, newestCore
<1>11. ASSUME NEW d \in deadSource(i), deadStep(i, d) PROVE newestCore(j)'
  <2>0. d.ID \in Node /\ d.Lives \in Nat
    BY <1>11, Zenon DEF deadStep, dead
  <2>1. d.ID \in Node /\ (d.ID = j => d.Lives <= own)
    <3>1. d.ID = j => d.Lives <= nodeMap[j][j].Lives
      BY <1>1, <1>11, SourceNewest, Zenon DEF NewestInv
    <3> QED BY <1>1, <1>2, <2>0, <3>1, SMTT(30)
  <2>2. \A k \in Node : nodeMap'[k][j].Lives <= own
    BY <1>1, <1>3, <1>11, <2>1, DeadEffect
  <2> QED BY <1>1, <1>4, <1>11, <2>1, <2>2, DeadEffect, Zenon DEF deadStep, markDead, newestCore
<1>12. ASSUME NEW expired \in SUBSET Node, reap(i, expired) PROVE newestCore(j)'
  <2>1. \A k \in Node : nodeMap'[k][j].Lives <= own
    <3> TAKE k \in Node
    <3>1. CASE k = i /\ j \in expired
      <4>1. nodeMap'[k][j] = NoEntry
        BY <1>1, <1>12, <3>1, ReapEffect, ZenonT(30)
      <4> QED BY <1>2, <4>1, SMTT(30) DEF NoEntry
    <3>2. CASE ~(k = i /\ j \in expired)
      <4>1. nodeMap'[k][j] = nodeMap[k][j]
        BY <1>1, <1>12, <3>2, ReapEffect, SMTT(30)
      <4> QED BY <1>3, <4>1, Zenon
    <3> QED BY <3>1, <3>2, Zenon
  <2> QED BY <1>1, <1>4, <1>12, <2>1, ReapEffect, Zenon DEF newestCore
<1> QED BY <1>1, <1>5, <1>6, <1>7, <1>8, <1>9, <1>10, <1>11, <1>12, ZenonT(30) DEF coreStep

\* NewestInv holds initially and every step keeps it.
LEMMA NewestInvInductive ==
  /\ Init => NewestInv
  /\ NewestInv /\ [Next]_vars => NewestInv'
<1>1. Init => NewestInv
  <2> SUFFICES ASSUME Init PROVE OwnEntryNewest
    BY LivesInvInductive, Zenon DEF NewestInv
  <2> QED BY DEF Init, OwnEntryNewest, NoEntry
<1>2. ASSUME NewestInv, [Next]_vars PROVE NewestInv'
  <2>1. LivesInv /\ LivesInv' /\ TypeOK /\ TypeOK' /\ OwnEntryNewest
    BY <1>2, LivesInvInductive, Zenon DEF NewestInv, LivesInv, SelfInv
  <2>2. CASE UNCHANGED vars
    BY <2>1, <2>2, Zenon DEF NewestInv, OwnEntryNewest, vars, coreVars, callVars
  <2>3. ASSUME NEW i \in Node, NodeStep(i) PROVE OwnEntryNewest'
    <3> SUFFICES ASSUME NEW j \in Node, ~left'[j]
                 PROVE  /\ newestCore(j)'
                        /\ \A k \in Node :
                             /\ \A p \in probing'[k] : p.ID = j => p.Lives <= nodeMap'[j][j].Lives
                             /\ \A r \in merging'[k] : r.ID = j => r.Lives <= nodeMap'[j][j].Lives
                             /\ \A d \in deadCalls'[k] : d.ID = j => d.Lives <= nodeMap'[j][j].Lives
      BY Zenon DEF OwnEntryNewest, newestCore
    <3>1. /\ callStep /\ ~left[j] /\ newestCore(j)'
          /\ nodeMap'[j][j].Lives >= nodeMap[j][j].Lives
      BY <1>2, <2>1, <2>3, NodeStepCalls, Frame, NewestCoreStep, OwnLivesGrow, Zenon
    <3>2. /\ nodeMap'[j][j].Lives \in Nat /\ nodeMap[j][j].Lives \in Nat
          /\ \A m \in Node : nodeMap[m][j].Lives \in Nat
                             /\ nodeMap[m][j].Lives <= nodeMap'[j][j].Lives
      <4>1. /\ nodeMap'[j][j].Lives \in Nat
            /\ \A m \in Node : nodeMap[m][j].Lives \in Nat
        BY <2>1, CoreType, EntryType DEF TypeOK, nodeState
      <4>2. \A m \in Node : nodeMap[m][j].Lives <= nodeMap[j][j].Lives
        BY <2>1, <3>1, ZenonT(30) DEF OwnEntryNewest
      <4> QED BY <3>1, <4>1, <4>2, SMTT(30)
    <3> DEFINE own == nodeMap'[j][j].Lives
               old == nodeMap[j][j].Lives
    <3>0. own \in Nat /\ old \in Nat /\ own >= old
      BY <3>1, <3>2, Zenon
    <3>3. ASSUME NEW k \in Node, NEW p \in probing'[k], p.ID = j
          PROVE  p.Lives <= nodeMap'[j][j].Lives
      <4>1. CASE p \in probing[k]
        <5>1. p.Lives <= old /\ p.Lives \in Nat
          BY <2>1, <3>1, <3>3, <4>1, CallTypes DEF OwnEntryNewest
        <5> HIDE DEF own, old
        <5>2. p.Lives <= own
          BY <3>0, <5>1
        <5> QED BY <5>2, Zenon DEF own
      <4>2. CASE p \notin probing[k]
        BY <3>1, <3>2, <3>3, <4>2, ZenonT(30) DEF callStep, newProbe
      <4> QED BY <4>1, <4>2, Zenon
    <3>4. ASSUME NEW k \in Node, NEW r \in merging'[k], r.ID = j
          PROVE  r.Lives <= nodeMap'[j][j].Lives
      <4>1. CASE r \in merging[k]
        <5>1. r.Lives <= old /\ r.Lives \in Nat
          BY <2>1, <3>1, <3>4, <4>1, CallTypes DEF OwnEntryNewest, stateToMerge
        <5> HIDE DEF own, old
        <5>2. r.Lives <= own
          BY <3>0, <5>1
        <5> QED BY <5>2, Zenon DEF own
      <4>2. CASE r \notin merging[k]
        BY <3>1, <3>2, <3>4, <4>2, ZenonT(30) DEF callStep, newMerge
      <4> QED BY <4>1, <4>2, Zenon
    <3>5. ASSUME NEW k \in Node, NEW d \in deadCalls'[k], d.ID = j
          PROVE  d.Lives <= nodeMap'[j][j].Lives
      <4>1. CASE d \in deadCalls[k]
        <5>1. d.Lives <= old /\ d.Lives \in Nat
          BY <2>1, <3>1, <3>5, <4>1, CallTypes, SMTT(30) DEF OwnEntryNewest, dead
        <5> HIDE DEF own, old
        <5>2. d.Lives <= own
          BY <3>0, <5>1
        <5> QED BY <5>2, Zenon DEF own
      <4>2. CASE d \notin deadCalls[k]
        BY <3>1, <3>2, <3>5, <4>2, Zenon DEF callStep, newDeadCall
      <4> QED BY <4>1, <4>2, Zenon
    <3> QED BY <3>1, <3>3, <3>4, <3>5, Zenon
  <2> QED BY <1>2, <2>1, <2>2, <2>3, Zenon DEF NewestInv, Next
<1> QED BY <1>1, <1>2, Zenon

\* Until a node calls Leave, nothing anybody says about it carries a newer life than
\* its own entry, so that a refutation with the next life outbids every accusation.
THEOREM OwnEntryIsNewest == Spec => []OwnEntryNewest
BY NewestInvInductive, PTL DEF Spec, NewestInv

\* Everything said about j so far is older than the life its own entry moves on to.
outbidsAll(j) ==
  LET l == nodeMap'[j][j].Lives
  IN  /\ \A i \in Node : nodeMap[i][j].Lives < l
      /\ \A a \in alives : a.ID = j => a.Lives < l
      /\ \A s \in suspects : s.ID = j => s.Lives < l
      /\ \A d \in deads : d.ID = j => d.Lives < l
      /\ \A i \in Node :
           /\ \A p \in probing[i] : p.ID = j => p.Lives < l
           /\ \A r \in merging[i] : r.ID = j => r.Lives < l
           /\ \A d \in deadCalls[i] : d.ID = j => d.Lives < l

\* One refutation is enough: when refute or UpdateTags gives the own entry of a node
\* that has not left another life, that life beats every entry of the node in any
\* map, every message about it that is still under way and every accusation that a
\* goroutine has yet to make, so that no node can ignore the announcement as old.
THEOREM NewLifeOutbidsAll ==
  Spec => [][\A j \in Node : ~left'[j] /\ nodeMap'[j][j].Lives # nodeMap[j][j].Lives
                              => outbidsAll(j)]_vars
<1> DEFINE Outbids == \A j \in Node : ~left'[j] /\ nodeMap'[j][j].Lives # nodeMap[j][j].Lives
                                       => outbidsAll(j)
<1>1. ASSUME NewestInv, NewestInv', Next PROVE Outbids
  <2> SUFFICES ASSUME NEW j \in Node, ~left'[j],
                      nodeMap'[j][j].Lives # nodeMap[j][j].Lives
               PROVE  outbidsAll(j)
    BY Zenon
  <2> DEFINE o == nodeMap[j][j].Lives
             l == nodeMap'[j][j].Lives
  <2>1. TypeOK /\ TypeOK' /\ LivesInv /\ OwnEntryNewest
    BY <1>1, Zenon DEF NewestInv, LivesInv, SelfInv
  <2>2. PICK i \in Node : NodeStep(i)
    BY <1>1, Zenon DEF Next
  <2>3. l >= o /\ ~left[j]
    BY <2>1, <2>2, OwnLivesGrow, NodeStepCore, Frame, Zenon
  <2>4. o \in Nat /\ l \in Nat
    BY <2>1, EntryType, Zenon DEF TypeOK, nodeState
  <2>5. l # o
    OBVIOUS
  <2>6. /\ \A k \in Node : nodeMap[k][j].Lives <= o
        /\ \A a \in alives : a.ID = j => a.Lives <= o
        /\ \A s \in suspects : s.ID = j => s.Lives <= o
        /\ \A d \in deads : d.ID = j => d.Lives <= o
        /\ \A k \in Node :
             /\ \A p \in probing[k] : p.ID = j => p.Lives <= o
             /\ \A r \in merging[k] : r.ID = j => r.Lives <= o
             /\ \A d \in deadCalls[k] : d.ID = j => d.Lives <= o
    BY <2>1, <2>3, Zenon DEF OwnEntryNewest
  <2>7. /\ \A k \in Node : nodeMap[k][j].Lives \in Nat
        /\ \A a \in alives : a.Lives \in Nat
        /\ \A s \in suspects : s.Lives \in Nat
        /\ \A d \in deads : d.Lives \in Nat
        /\ \A k \in Node : /\ \A p \in probing[k] : p.Lives \in Nat
                           /\ \A r \in merging[k] : r.Lives \in Nat
                           /\ \A d \in deadCalls[k] : d.Lives \in Nat
    BY <2>1, EntryType, CallTypes DEF TypeOK, nodeState, alive, suspect, dead, stateToMerge
  <2>8. ASSUME NEW m \in Nat, m <= o PROVE m < l
    <3> HIDE DEF o, l
    <3> QED BY <2>3, <2>4, <2>5, <2>8
  <2> HIDE DEF o
  <2>9. /\ \A k \in Node : nodeMap[k][j].Lives < l
        /\ \A a \in alives : a.ID = j => a.Lives < l
        /\ \A s \in suspects : s.ID = j => s.Lives < l
        /\ \A d \in deads : d.ID = j => d.Lives < l
    BY <2>6, <2>7, <2>8, Zenon
  <2>10. \A k \in Node : /\ \A p \in probing[k] : p.ID = j => p.Lives < l
                         /\ \A r \in merging[k] : r.ID = j => r.Lives < l
                         /\ \A d \in deadCalls[k] : d.ID = j => d.Lives < l
    BY <2>6, <2>7, <2>8, Zenon
  <2> QED BY <2>9, <2>10, Zenon DEF outbidsAll
<1>2. NewestInv /\ NewestInv' /\ [Next]_vars => [Outbids]_vars
  BY <1>1, Zenon
<1> HIDE DEF Outbids
<1>3. Spec => [][Outbids]_vars
  BY NewestInvInductive, <1>2, PTL DEF Spec
<1> QED BY <1>3, Zenon DEF Outbids
=============================================================================
