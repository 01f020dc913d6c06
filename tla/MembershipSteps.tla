--------------------------- MODULE MembershipSteps --------------------------
(***************************************************************************)
(* Type correctness of Membership, what setNode and setSuspicion, through  *)
(* which every handler writes, do to the maps, and the case analysis of    *)
(* Next that the proofs of the invariants rest on: what a step may do to   *)
(* the maps and the messages (coreStep), to the calls in progress          *)
(* (callStep), and the entry that each kind of step writes (the Effect     *)
(* lemmas).                                                                *)
(***************************************************************************)
EXTENDS Membership, TLAPS

-----------------------------------------------------------------------------
(* Type correctness.  The handlers are treated once, for any message.      *)

coreTypeOK ==
  /\ lives \in [Node -> Nat]
  /\ nodeMap \in [Node -> [Node -> nodeState]]
  /\ suspicions \in [Node -> [Node -> suspicion]]
  /\ timers \in [Node -> SUBSET timeoutFn]
  /\ alives \subseteq alive /\ suspects \subseteq suspect /\ deads \subseteq dead

\* setNode writes one entry of one map and leaves the others alone.
LEMMA SetNode ==
  ASSUME coreTypeOK,
         NEW i \in Node, NEW j \in Node, NEW st \in StateType \cup {"none"},
         NEW l \in Nat, NEW tags \in TagValue,
         setNode(i, j, st, l, tags)
  PROVE  /\ nodeMap' \in [Node -> [Node -> nodeState]]
         /\ nodeMap'[i][j].State = st
         /\ nodeMap'[i][j].Lives = l
         /\ nodeMap'[i][j].Tags = tags
         /\ \A k, m \in Node : k # i \/ m # j => nodeMap'[k][m] = nodeMap[k][m]
<1> DEFINE e == [State |-> st, Lives |-> l, Tags |-> tags]
<1>1. e \in nodeState /\ e.State = st /\ e.Lives = l /\ e.Tags = tags
  BY Zenon DEF nodeState
<1>2. nodeMap' = [nodeMap EXCEPT ![i][j] = e]
  BY Zenon DEF setNode
<1> HIDE DEF e
<1> QED BY <1>1, <1>2, Zenon DEF coreTypeOK

\* setSuspicion writes one suspicion and leaves the others alone.
LEMMA SetSuspicion ==
  ASSUME coreTypeOK,
         NEW i \in Node, NEW j \in Node, NEW sc \in suspicion,
         setSuspicion(i, j, sc)
  PROVE  /\ suspicions' \in [Node -> [Node -> suspicion]]
         /\ suspicions'[i][j] = sc
         /\ \A k, m \in Node : k # i \/ m # j => suspicions'[k][m] = suspicions[k][m]
BY Zenon DEF setSuspicion, coreTypeOK

\* An entry without a suspicion is one without confirmations.
LEMMA NoSuspicionType == NoSuspicion \in suspicion /\ NoSuspicion.confirmMap = {}
BY DEF NoSuspicion, suspicion

\* The fields of an entry have their types.
LEMMA EntryType ==
  ASSUME coreTypeOK, NEW i \in Node, NEW j \in Node
  PROVE  /\ nodeMap[i][j].State \in StateType \cup {"none"}
         /\ nodeMap[i][j].Lives \in Nat
         /\ nodeMap[i][j].Tags \in TagValue
BY Zenon DEF coreTypeOK, nodeState

\* aliveNode keeps the types, whatever message it is given.
LEMMA AliveNodeType ==
  ASSUME NEW i \in Node, NEW a \in alive, coreTypeOK, aliveNode(i, a)
  PROVE  coreTypeOK'
<1> USE DEF StateType, alive
<1>1. CASE addNode(i, a)
  BY <1>1, SetNode, Zenon DEF addNode, aliveNode, coreTypeOK
<1>2. CASE renewNode(i, a)
  BY <1>2, SetNode, SetSuspicion, NoSuspicionType, Zenon DEF renewNode, aliveNode, coreTypeOK
<1>3. CASE ignoreAlive(i, a)
  BY <1>3, Zenon DEF ignoreAlive, aliveNode, coreTypeOK
<1> QED BY <1>1, <1>2, <1>3, Zenon DEF aliveNode

\* refute keeps the types, and the life it announces is a number.
LEMMA RefuteType ==
  ASSUME NEW i \in Node, NEW l \in Nat, coreTypeOK, refute(i, l)
  PROVE  coreTypeOK' /\ outbid(i, l) \in Nat
<1>1. outbid(i, l) \in Nat
  BY DEF outbid, coreTypeOK
<1>2. nodeMap' \in [Node -> [Node -> nodeState]]
  BY <1>1, SetNode, EntryType, Zenon DEF refute
<1>3. alives' \subseteq alive
  BY <1>1, EntryType DEF refute, coreTypeOK, alive
<1> QED BY <1>1, <1>2, <1>3, Zenon DEF refute, coreTypeOK

\* Confirm keeps the types.
LEMMA ConfirmType ==
  ASSUME NEW i \in Node, NEW s \in suspect, coreTypeOK, Confirm(i, s)
  PROVE  coreTypeOK'
<1> DEFINE sc == suspicions[i][s.ID]
           new == [confirmCap |-> sc.confirmCap, confirmMap |-> sc.confirmMap \cup {s.From}]
<1>1. CASE UNCHANGED coreVars
  BY <1>1, Zenon DEF coreVars, coreTypeOK
<1>2. CASE setSuspicion(i, s.ID, new) /\ suspects' = suspects \cup {s}
           /\ UNCHANGED <<lives, nodeMap, timers, alives, deads>>
  <2>1. sc \in suspicion /\ s.ID \in Node /\ s.From \in Node
    BY Zenon DEF coreTypeOK, suspect
  <2>2. new \in suspicion
    BY <2>1, Zenon DEF suspicion
  <2> QED BY <1>2, <2>1, <2>2, SetSuspicion, Zenon DEF coreTypeOK
<1> QED BY <1>1, <1>2, Zenon DEF Confirm

\* The first suspicion of a node keeps the types.
LEMMA FirstSuspectType ==
  ASSUME NEW i \in Node, NEW s \in suspect, coreTypeOK, firstSuspect(i, s)
  PROVE  coreTypeOK'
<1> DEFINE new == [confirmCap |-> confirmCap(i), confirmMap |-> {s.From}]
<1>1. s.ID \in Node /\ s.Lives \in Nat /\ s.From \in Node
  BY Zenon DEF suspect
<1>2. nodeMap' \in [Node -> [Node -> nodeState]]
  BY <1>1, SetNode, EntryType, Zenon DEF firstSuspect, StateType
<1>3. new \in suspicion
  BY <1>1, ConstantsAssumption DEF confirmCap, suspicion
<1>4. suspicions' \in [Node -> [Node -> suspicion]]
  BY <1>1, <1>3, SetSuspicion, Zenon DEF firstSuspect
<1>5. timers' \in [Node -> SUBSET timeoutFn]
  BY <1>1 DEF firstSuspect, coreTypeOK, timeoutFn
<1> QED BY <1>2, <1>4, <1>5, Zenon DEF firstSuspect, coreTypeOK

\* suspectNode keeps the types.
LEMMA SuspectNodeType ==
  ASSUME NEW i \in Node, NEW s \in suspect, coreTypeOK, suspectNode(i, s)
  PROVE  coreTypeOK'
<1>1. CASE ignoreSuspect(i, s)
  BY <1>1, Zenon DEF ignoreSuspect, coreVars, coreTypeOK
<1>2. CASE refute(i, s.Lives)
  BY <1>2, RefuteType, Zenon DEF suspect
<1> QED BY <1>1, <1>2, ConfirmType, FirstSuspectType, Zenon DEF suspectNode

\* deadNode keeps the types.
LEMMA DeadNodeType ==
  ASSUME NEW i \in Node, NEW d \in dead, coreTypeOK, deadNode(i, d)
  PROVE  coreTypeOK'
<1>1. CASE ignoreDead(i, d)
  BY <1>1, Zenon DEF ignoreDead, coreVars, coreTypeOK
<1>2. CASE refute(i, d.Lives)
  BY <1>2, RefuteType, Zenon DEF dead
<1>3. CASE markDead(i, d)
  <2> DEFINE st == IF d.Left THEN "left" ELSE "dead"
  <2>1. d.ID \in Node /\ d.Lives \in Nat
    BY Zenon DEF dead
  <2>2. st \in StateType \cup {"none"} /\ nodeMap[i][d.ID].Tags \in TagValue
    BY <2>1, EntryType, Zenon DEF StateType
  <2>3. /\ setNode(i, d.ID, st, d.Lives, nodeMap[i][d.ID].Tags)
        /\ setSuspicion(i, d.ID, NoSuspicion)
    BY <1>3, Zenon DEF markDead
  <2> HIDE DEF st
  <2>4. nodeMap' \in [Node -> [Node -> nodeState]]
    BY <2>1, <2>2, <2>3, SetNode, Zenon
  <2>5. suspicions' \in [Node -> [Node -> suspicion]]
    BY <2>1, <2>3, SetSuspicion, NoSuspicionType, Zenon
  <2> QED BY <1>3, <2>4, <2>5, Zenon DEF markDead, coreTypeOK
<1> QED BY <1>1, <1>2, <1>3, Zenon DEF deadNode

\* A node that aliveNode adds to the map gets a well-typed entry.
LEMMA AddNodeType ==
  ASSUME NEW i \in Node, NEW a \in alive, coreTypeOK, addNode(i, a)
  PROVE  /\ nodeMap' \in [Node -> [Node -> nodeState]]
         /\ suspicions' = suspicions
         /\ alives' \subseteq alive
BY SetNode, Zenon DEF addNode, coreTypeOK, alive, StateType

\* The checks that aliveNode makes before it takes nodeL do not matter for the types.
LEMMA CallAliveNodeType ==
  ASSUME NEW i \in Node, NEW a \in alive, coreTypeOK, callAliveNode(i, a)
  PROVE  coreTypeOK'
<1>1. CASE UNCHANGED coreVars
  BY <1>1, Zenon DEF coreVars, coreTypeOK
<1> QED BY <1>1, AliveNodeType, Zenon DEF callAliveNode

\* An entry of a push/pull state is merged as one of the three kinds of message.
LEMMA MergedMessages ==
  ASSUME NEW i \in Node, NEW r \in stateToMerge
  PROVE  /\ [ID |-> r.ID, Lives |-> r.Lives, Tags |-> r.Tags] \in alive
         /\ [ID |-> r.ID, Lives |-> r.Lives, Left |-> TRUE] \in dead
         /\ [ID |-> r.ID, Lives |-> r.Lives, From |-> i] \in suspect
BY Zenon DEF stateToMerge, alive, dead, suspect

\* The variables have their types before any node is built.
LEMMA InitType == Init => TypeOK
BY ConstantsAssumption
   DEF Init, TypeOK, NoEntry, NoSuspicion, nodeState, StateType, suspicion

\* The types of the maps and messages are part of TypeOK.
LEMMA CoreType == TypeOK => coreTypeOK
BY Zenon DEF TypeOK, coreTypeOK

\* Every operation, handler and timer keeps the types.
LEMMA NextType == TypeOK /\ [Next]_vars => TypeOK'
<1> SUFFICES ASSUME TypeOK, [Next]_vars PROVE TypeOK'
  BY Zenon
<1> USE CoreType
<1>0. CASE UNCHANGED vars
  BY <1>0, Zenon DEF vars, coreVars, callVars, TypeOK
<1>1. ASSUME NEW i \in Node, NodeStep(i) PROVE TypeOK'
  <2>1. CASE Build(i)
    <3> DEFINE a == [ID |-> i, Lives |-> lives[i] + 1, Tags |-> DefaultTags]
    <3>1. a \in alive
      BY ConstantsAssumption DEF alive, TypeOK
    <3>2. CASE addNode(i, a)
      BY <2>1, <3>1, <3>2, AddNodeType DEF Build, TypeOK, callVars
    <3>3. CASE UNCHANGED <<nodeMap, suspicions, alives>>
      BY <2>1, <3>3 DEF Build, TypeOK, callVars
    <3> QED BY <2>1, <3>2, <3>3, Zenon DEF Build
  <2>2. CASE Shutdown(i) \/ UpdateTagsPanic(i)
    BY <2>2, Zenon DEF Shutdown, UpdateTagsPanic, coreVars, callVars, TypeOK
  <2>3. CASE Leave(i)
    <3>1. [ID |-> i, Lives |-> nodeMap[i][i].Lives, Left |-> TRUE] \in dead
      BY EntryType, Zenon DEF dead
    <3> QED BY <2>3, <3>1, Zenon DEF Leave, coreVars, TypeOK
  <2>4. ASSUME NEW tags \in TagValue, UpdateTags(i, tags) PROVE TypeOK'
    BY <2>4 DEF UpdateTags, TypeOK, alive
  <2>5. ASSUME NEW j \in Node, probe(i, j) PROVE TypeOK'
    BY <2>5 DEF probe, TypeOK, nodeState, suspect
  <2>6. CASE probeAcked(i)
    BY <2>6, Zenon DEF probeAcked, coreVars, TypeOK
  <2>7. ASSUME NEW p \in probing[i], probeFailed(i, p) PROVE TypeOK'
    <3>1. [ID |-> p.ID, Lives |-> p.Lives, From |-> i] \in suspect
      BY DEF TypeOK, suspect
    <3> QED BY <2>7, <3>1, SuspectNodeType, Zenon DEF probeFailed, TypeOK, coreTypeOK
  <2>8. ASSUME NEW t \in timers[i], suspicionTimeout(i, t) PROVE TypeOK'
    <3>1. [ID |-> t.ID, Lives |-> nodeMap[i][t.ID].Lives, Left |-> FALSE] \in dead
      BY EntryType DEF dead, TypeOK, timeoutFn
    <3> QED BY <2>8, <3>1, Zenon DEF suspicionTimeout, TypeOK
  <2>9. ASSUME NEW a \in aliveCalls[i], AliveCall(i, a) PROVE TypeOK'
    BY <2>9, AliveNodeType, Zenon DEF AliveCall, TypeOK, coreTypeOK
  <2>10. ASSUME NEW d \in deadCalls[i], DeadCall(i, d) PROVE TypeOK'
    BY <2>10, DeadNodeType, Zenon DEF DeadCall, TypeOK, coreTypeOK
  <2>11. ASSUME NEW a \in alives, handleAlive(i, a) PROVE TypeOK'
    BY <2>11, CallAliveNodeType, Zenon DEF handleAlive, TypeOK, coreTypeOK, callVars
  <2>12. ASSUME NEW s \in suspects, handleSuspect(i, s) PROVE TypeOK'
    BY <2>12, SuspectNodeType, Zenon DEF handleSuspect, TypeOK, coreTypeOK, callVars
  <2>13. ASSUME NEW d \in deads, handleDead(i, d) PROVE TypeOK'
    BY <2>13, DeadNodeType, Zenon DEF handleDead, TypeOK, coreTypeOK, callVars
  <2>14. ASSUME NEW k \in Node, sendLocalState(i, k) PROVE TypeOK'
    <3>1. ASSUME NEW j \in Subject, Listed(i, j)
          PROVE  [ID |-> j, Lives |-> nodeMap[i][j].Lives, Tags |-> nodeMap[i][j].Tags,
                  State |-> nodeMap[i][j].State] \in stateToMerge
      <4>1. j \in Node
        BY ConstantsAssumption, Zenon
      <4> QED BY <3>1, <4>1, EntryType, Zenon DEF Listed, stateToMerge
    <3>2. localState(i) \subseteq stateToMerge
      BY <3>1, Zenon DEF localState
    <3> QED BY <2>14, <3>2, Zenon DEF sendLocalState, TypeOK, coreVars
  <2>15. ASSUME NEW r \in merging[i], mergeState(i, r) PROVE TypeOK'
    <3>1. r \in stateToMerge
      BY Zenon DEF TypeOK
    <3>2. coreTypeOK'
      BY <2>15, <3>1, MergedMessages, CallAliveNodeType, DeadNodeType, SuspectNodeType, Zenon
         DEF mergeState
    <3> QED BY <2>15, <3>2, Zenon DEF mergeState, TypeOK, coreTypeOK
  <2>16. ASSUME NEW expired \in SUBSET Node, reap(i, expired) PROVE TypeOK'
    <3>1. NoEntry \in nodeState
      BY ConstantsAssumption, Zenon DEF NoEntry, nodeState
    <3> QED BY <2>16, <3>1, Zenon DEF reap, TypeOK, callVars
  <2> QED BY <1>1, <2>1, <2>2, <2>3, <2>4, <2>5, <2>6, <2>7, <2>8, <2>9, <2>10, <2>11,
             <2>12, <2>13, <2>14, <2>15, <2>16, Zenon DEF NodeStep
<1> QED BY <1>0, <1>1, Zenon DEF Next

\* Every variable keeps its type.
THEOREM TypeCorrect == Spec => []TypeOK
BY InitType, NextType, PTL DEF Spec

-----------------------------------------------------------------------------
(* Every step does one of a few things to the maps and the messages, with  *)
(* a message that comes from somewhere.  The invariants below are proved   *)
(* from this one case analysis of Next.                                    *)

asAlive(r) == [ID |-> r.ID, Lives |-> r.Lives, Tags |-> r.Tags]
asSuspect(i, r) == [ID |-> r.ID, Lives |-> r.Lives, From |-> i]
asLeft(r) == [ID |-> r.ID, Lives |-> r.Lives, Left |-> TRUE]

aliveSource(i) ==
  alives \cup aliveCalls[i] \cup {asAlive(r) : r \in {x \in merging[i] : x.State = "alive"}}
suspectSource(i) ==
  suspects \cup {asSuspect(i, r) : r \in probing[i] \cup merging[i]}
deadSource(i) ==
  deads \cup deadCalls[i] \cup {asLeft(r) : r \in {x \in merging[i] : x.State = "left"}}

quietStep(i) ==
  /\ UNCHANGED <<nodeMap, suspicions, alives, deads>>
  /\ \A s \in suspects' \ suspects :
       /\ s \in suspect
       /\ s.Lives = nodeMap[i][s.ID].Lives
  /\ suspects \subseteq suspects'
  /\ \A k \in Node : lives'[k] >= lives[k]
  /\ UNCHANGED timers \/ \E t \in timers[i] : suspicionTimeout(i, t)
aliveStep(i, a) ==
  /\ a \in alive
  /\ a.ID \in Allowed[i] /\ status[i] = "up"
  /\ addNode(i, a) \/ renewNode(i, a)
  /\ UNCHANGED <<lives, timers, suspects, deads, left, status>>
refuteStep(i, l) ==
  /\ Listed(i, i) /\ ~DeadOrLeft(i, i) /\ l \in Nat
  /\ refute(i, l)
  /\ UNCHANGED <<left, status>>
confirmStep(i, s) ==
  /\ s \in suspect
  /\ Suspected(i, s.ID)
  /\ setSuspicion(i, s.ID, [confirmCap |-> suspicions[i][s.ID].confirmCap,
                            confirmMap |-> suspicions[i][s.ID].confirmMap \cup {s.From}])
  /\ suspects' = suspects \cup {s}
  /\ UNCHANGED <<lives, nodeMap, timers, alives, deads, left, status>>
suspectStep(i, s) ==
  /\ s \in suspect
  /\ s.ID # i /\ nodeMap[i][s.ID].State = "alive" /\ s.Lives >= nodeMap[i][s.ID].Lives
  /\ firstSuspect(i, s)
  /\ UNCHANGED <<left, status>>
deadStep(i, d) ==
  /\ d \in dead
  /\ Listed(i, d.ID) /\ ~DeadOrLeft(i, d.ID) /\ d.Lives >= nodeMap[i][d.ID].Lives
  /\ d.ID # i \/ left[i]
  /\ markDead(i, d)
  /\ UNCHANGED <<left, status>>

coreStep(i) ==
  \/ quietStep(i)
  \/ Build(i)
  \/ \E a \in aliveSource(i) : aliveStep(i, a)
  \/ \E l \in Nat : refuteStep(i, l)
  \/ \E s \in suspectSource(i) : confirmStep(i, s) \/ suspectStep(i, s)
  \/ \E d \in deadSource(i) : deadStep(i, d)
  \/ \E expired \in SUBSET Node : reap(i, expired)

\* lives counts.
LEMMA LivesType == ASSUME TypeOK PROVE lives \in [Node -> Nat]
BY Zenon DEF TypeOK

\* A step that leaves maps and messages alone is a quiet one.
LEMMA CoreUnchanged ==
  ASSUME TypeOK, NEW i \in Node, UNCHANGED coreVars
  PROVE  quietStep(i)
BY DEF coreVars, quietStep, TypeOK

\* aliveNode adds or renews an entry, or ignores the message.
LEMMA AliveNodeStep ==
  ASSUME TypeOK, NEW i \in Node, NEW a \in alive, a \in aliveSource(i), a.ID \in Allowed[i],
         aliveNode(i, a), status[i] = "up", UNCHANGED <<left, status>>
  PROVE  coreStep(i)
<1>1. CASE addNode(i, a) \/ renewNode(i, a)
  BY <1>1, Zenon DEF aliveNode, aliveStep, coreStep
<1>2. CASE ignoreAlive(i, a)
  BY <1>2, CoreUnchanged, Zenon DEF ignoreAlive, aliveNode, coreVars, coreStep
<1> QED BY <1>1, <1>2, Zenon DEF aliveNode

\* The same with the checks that aliveNode makes before it takes nodeL.
LEMMA CallAliveNodeStep ==
  ASSUME TypeOK, NEW i \in Node, NEW a \in alive, a \in aliveSource(i),
         callAliveNode(i, a), status[i] = "up", UNCHANGED <<left, status>>
  PROVE  coreStep(i)
BY AliveNodeStep, CoreUnchanged, Zenon DEF callAliveNode, coreStep

\* suspectNode suspects, confirms or refutes, or ignores the message.
LEMMA SuspectNodeStep ==
  ASSUME TypeOK, NEW i \in Node, NEW s \in suspect, s \in suspectSource(i),
         suspectNode(i, s), UNCHANGED <<left, status>>
  PROVE  coreStep(i)
<1>1. CASE UNCHANGED coreVars
  BY <1>1, CoreUnchanged, Zenon DEF coreStep
<1>2. CASE Suspected(i, s.ID) /\ Confirm(i, s)
  BY <1>1, <1>2, Zenon DEF Confirm, confirmStep, coreStep
<1>3. CASE Listed(i, s.ID) /\ nodeMap[i][s.ID].State = "alive" /\ s.ID = i /\ refute(i, s.Lives)
  BY <1>3, Zenon DEF refuteStep, coreStep, suspect, DeadOrLeft
<1>4. CASE /\ s.ID # i /\ nodeMap[i][s.ID].State = "alive"
           /\ s.Lives >= nodeMap[i][s.ID].Lives /\ firstSuspect(i, s)
  BY <1>4, Zenon DEF suspectStep, coreStep
<1> QED BY <1>1, <1>2, <1>3, <1>4, Zenon DEF suspectNode, ignoreSuspect

\* deadNode marks an entry dead or refutes, or ignores the message.
LEMMA DeadNodeStep ==
  ASSUME TypeOK, NEW i \in Node, NEW d \in dead, d \in deadSource(i),
         deadNode(i, d), UNCHANGED <<left, status>>
  PROVE  coreStep(i)
<1>1. CASE UNCHANGED coreVars
  BY <1>1, CoreUnchanged, Zenon DEF coreStep
<1>2. CASE Listed(i, d.ID) /\ ~DeadOrLeft(i, d.ID) /\ d.ID = i /\ refute(i, d.Lives)
  BY <1>2, Zenon DEF refuteStep, coreStep, dead
<1>3. CASE /\ Listed(i, d.ID) /\ ~DeadOrLeft(i, d.ID) /\ d.Lives >= nodeMap[i][d.ID].Lives
           /\ d.ID # i \/ left[i]
           /\ markDead(i, d)
  BY <1>3, Zenon DEF deadStep, coreStep
<1> QED BY <1>1, <1>2, <1>3, Zenon DEF deadNode, ignoreDead

\* What a step may add to the calls in progress.
newProbe(k, p) == p.Lives = nodeMap[k][p.ID].Lives
newMerge(r) ==
  \E m \in Node : /\ r.Lives = nodeMap[m][r.ID].Lives /\ r.Tags = nodeMap[m][r.ID].Tags
                  /\ r.State = nodeMap[m][r.ID].State
newAliveCall(k, a) ==
  /\ a.ID = k /\ k \in Allowed[k] /\ status[k] = "up"
  /\ a.Lives = lives[k] + 1 /\ lives'[k] = lives[k] + 1
  /\ UNCHANGED alives
newDeadCall(k, d) ==
  /\ d.Lives = nodeMap[k][d.ID].Lives
  /\ \/ d.Left /\ d.ID = k /\ left'[k]
     \/ ~d.Left /\ nodeMap[k][d.ID].State = "suspect"

callStep ==
  \A k \in Node :
    /\ \A p \in probing'[k] : p \in probing[k] \/ newProbe(k, p)
    /\ \A r \in merging'[k] : r \in merging[k] \/ newMerge(r)
    /\ \A a \in aliveCalls'[k] : a \in aliveCalls[k] \/ newAliveCall(k, a)
    /\ \A a, b \in aliveCalls'[k] : a \in aliveCalls[k] \/ b \in aliveCalls[k] \/ a = b
    /\ \A d \in deadCalls'[k] : d \in deadCalls[k] \/ newDeadCall(k, d)

\* A step that only ends calls.
LEMMA CallsDrained ==
  ASSUME \A k \in Node : /\ probing'[k] \subseteq probing[k]
                         /\ merging'[k] \subseteq merging[k]
                         /\ aliveCalls'[k] \subseteq aliveCalls[k]
                         /\ deadCalls'[k] \subseteq deadCalls[k]
  PROVE  callStep
BY Zenon DEF callStep

\* The values that goroutines have read before they wait for nodeL.
LEMMA CallTypes ==
  ASSUME TypeOK
  PROVE  /\ probing \in [Node -> SUBSET [ID : Node, Lives : Nat]]
         /\ merging \in [Node -> SUBSET stateToMerge]
         /\ aliveCalls \in [Node -> SUBSET alive]
         /\ deadCalls \in [Node -> SUBSET dead]
BY Zenon DEF TypeOK

\* What a step may add to the calls in progress (callStep).
LEMMA NodeStepCalls ==
  ASSUME TypeOK, NEW i \in Node, NodeStep(i)
  PROVE  callStep
<1>1. CASE Build(i) \/ Shutdown(i) \/ UpdateTagsPanic(i)
  BY <1>1, CallsDrained, Zenon DEF Build, Shutdown, UpdateTagsPanic, callVars
<1>2. CASE Leave(i)
  <2> DEFINE d0 == [ID |-> i, Lives |-> nodeMap[i][i].Lives, Left |-> TRUE]
  <2>1. newDeadCall(i, d0)
    BY <1>2, Zenon DEF Leave, newDeadCall, TypeOK
  <2>2. deadCalls' = deadCalls \/ deadCalls' = [deadCalls EXCEPT ![i] = @ \cup {d0}]
    BY <1>2, Zenon DEF Leave
  <2> HIDE DEF d0
  <2>3. \A k \in Node : \A d \in deadCalls'[k] : d \in deadCalls[k] \/ newDeadCall(k, d)
    BY <2>1, <2>2, CallTypes, Zenon
  <2>4. UNCHANGED <<probing, merging, aliveCalls>>
    BY <1>2, Zenon DEF Leave
  <2> QED BY <2>3, <2>4, Zenon DEF callStep
<1>3. ASSUME NEW tags \in TagValue, UpdateTags(i, tags) PROVE callStep
  <2> DEFINE a0 == [ID |-> i, Lives |-> lives[i] + 1, Tags |-> tags]
  <2>1. lives'[i] = lives[i] + 1 /\ status[i] = "up"
    BY <1>3, Zenon DEF UpdateTags, TypeOK
  <2>2. \/ aliveCalls' = aliveCalls
        \/ i \in Allowed[i] /\ aliveCalls' = [aliveCalls EXCEPT ![i] = @ \cup {a0}]
    BY <1>3, Zenon DEF UpdateTags
  <2>3. i \in Allowed[i] => newAliveCall(i, a0)
    BY <1>3, <2>1, Zenon DEF UpdateTags, newAliveCall
  <2> HIDE DEF a0
  <2>4. \A k \in Node : \A a \in aliveCalls'[k] :
          a \in aliveCalls[k] \/ (a = a0 /\ newAliveCall(k, a))
    BY <2>2, <2>3, CallTypes, Zenon
  <2>5. UNCHANGED <<probing, merging, deadCalls>>
    BY <1>3, Zenon DEF UpdateTags
  <2> QED BY <2>4, <2>5, Zenon DEF callStep
<1>4. ASSUME NEW j \in Node, probe(i, j) PROVE callStep
  <2>1. \A k \in Node : \A p \in probing'[k] :
          p \in probing[k] \/ (k = i /\ p = [ID |-> j, Lives |-> nodeMap[i][j].Lives])
    BY <1>4, CallTypes, Zenon DEF probe
  <2>2. UNCHANGED <<merging, aliveCalls, deadCalls>>
    BY <1>4, Zenon DEF probe
  <2>3. \A k \in Node : \A p \in probing'[k] : p \in probing[k] \/ newProbe(k, p)
    BY <2>1 DEF newProbe
  <2> QED BY <2>2, <2>3, Zenon DEF callStep
<1>5. CASE probeAcked(i) \/ \E p \in probing[i] : probeFailed(i, p)
  BY <1>5, CallsDrained, CallTypes, Zenon DEF probeAcked, probeFailed
<1>6. ASSUME NEW t \in timers[i], suspicionTimeout(i, t) PROVE callStep
  <2> DEFINE d0 == [ID |-> t.ID, Lives |-> nodeMap[i][t.ID].Lives, Left |-> FALSE]
  <2>1. \/ deadCalls' = deadCalls
        \/ newDeadCall(i, d0) /\ deadCalls' = [deadCalls EXCEPT ![i] = @ \cup {d0}]
    BY <1>6, Zenon DEF suspicionTimeout, newDeadCall
  <2> HIDE DEF d0
  <2>2. \A k \in Node : \A d \in deadCalls'[k] : d \in deadCalls[k] \/ newDeadCall(k, d)
    BY <2>1, CallTypes, Zenon
  <2>3. UNCHANGED <<probing, merging, aliveCalls>>
    BY <1>6, Zenon DEF suspicionTimeout
  <2> QED BY <2>2, <2>3, Zenon DEF callStep
<1>7. CASE \E a \in aliveCalls[i] : AliveCall(i, a)
  BY <1>7, CallsDrained, CallTypes, Zenon DEF AliveCall
<1>8. CASE \E d \in deadCalls[i] : DeadCall(i, d)
  BY <1>8, CallsDrained, CallTypes, Zenon DEF DeadCall
<1>9. CASE \/ \E a \in alives : handleAlive(i, a)
           \/ \E s \in suspects : handleSuspect(i, s)
           \/ \E d \in deads : handleDead(i, d)
  BY <1>9, CallsDrained, Zenon DEF handleAlive, handleSuspect, handleDead, callVars
<1>10. ASSUME NEW k \in Node, sendLocalState(i, k) PROVE callStep
  <2>1. \A m \in Node : \A r \in merging'[m] : r \in merging[m] \/ r \in localState(i)
    BY <1>10, CallTypes, Zenon DEF sendLocalState
  <2>2. \A r \in localState(i) : newMerge(r)
    BY ConstantsAssumption DEF localState, newMerge
  <2>3. UNCHANGED <<probing, aliveCalls, deadCalls>>
    BY <1>10, Zenon DEF sendLocalState
  <2> QED BY <2>1, <2>2, <2>3, Zenon DEF callStep
<1>11. CASE \E r \in merging[i] : mergeState(i, r)
  BY <1>11, CallsDrained, CallTypes, Zenon DEF mergeState
<1>12. CASE \E expired \in SUBSET Node : reap(i, expired)
  BY <1>12, CallsDrained, Zenon DEF reap, callVars
<1> QED BY <1>1, <1>2, <1>3, <1>4, <1>5, <1>6, <1>7, <1>8, <1>9, <1>10, <1>11, <1>12, Zenon
        DEF NodeStep

\* UpdateTags is the only caller that waits in aliveCalls, for the node itself.
CallsSelf == \A i \in Node : \A a \in aliveCalls[i] : a.ID = i /\ i \in Allowed[i]

\* No step makes another caller wait there.
LEMMA CallsSelfNext ==
  ASSUME TypeOK, CallsSelf, [Next]_vars
  PROVE  CallsSelf'
<1>1. CASE UNCHANGED vars
  BY <1>1, Zenon DEF vars, callVars, CallsSelf
<1>2. CASE Next
  <2>1. callStep
    BY <1>2, NodeStepCalls, Zenon DEF Next
  <2>2. \A k \in Node : \A a \in aliveCalls'[k] : a \in aliveCalls[k] \/ newAliveCall(k, a)
    BY <2>1, Zenon DEF callStep
  <2> QED BY <2>2, Zenon DEF newAliveCall, CallsSelf
<1> QED BY <1>1, <1>2, Zenon

\* Every step has one of the effects of coreStep on maps and messages.
LEMMA NodeStepCore ==
  ASSUME TypeOK, CallsSelf, NEW i \in Node, NodeStep(i)
  PROVE  coreStep(i)
<1>1. CASE Build(i)
  BY <1>1, Zenon DEF coreStep
<1>2. CASE Shutdown(i) \/ UpdateTagsPanic(i) \/ Leave(i) \/ probeAcked(i)
  BY <1>2, CoreUnchanged, Zenon DEF Shutdown, UpdateTagsPanic, Leave, probeAcked, coreVars, coreStep
<1>3. ASSUME NEW tags \in TagValue, UpdateTags(i, tags) PROVE coreStep(i)
  <2>1. \A k \in Node : lives'[k] >= lives[k]
    <3>1. lives \in [Node -> Nat]
      BY LivesType, Zenon
    <3>2. lives' = [lives EXCEPT ![i] = lives[i] + 1]
      BY <1>3, ZenonT(30) DEF UpdateTags
    <3> QED BY <3>1, <3>2, SMTT(30)
  <2> QED BY <1>3, <2>1, Zenon DEF UpdateTags, quietStep, coreStep
<1>4. ASSUME NEW j \in Node, probe(i, j) PROVE coreStep(i)
  <2> DEFINE s0 == [ID |-> j, Lives |-> nodeMap[i][j].Lives, From |-> i]
  <2>1. s0 \in suspect /\ s0.Lives = nodeMap[i][s0.ID].Lives
    BY CoreType, EntryType, Zenon DEF suspect
  <2>2. suspects' = suspects \/ suspects' = suspects \cup {s0}
    BY <1>4, Zenon DEF probe
  <2>3. UNCHANGED <<lives, nodeMap, suspicions, timers, alives, deads>>
    BY <1>4, Zenon DEF probe
  <2> HIDE DEF s0
  <2> QED BY <2>1, <2>2, <2>3, LivesType DEF quietStep, coreStep
<1>5. ASSUME NEW p \in probing[i], probeFailed(i, p) PROVE coreStep(i)
  <2>1. asSuspect(i, p) \in suspect
    BY CallTypes DEF asSuspect, suspect
  <2>2. asSuspect(i, p) \in suspectSource(i)
    BY Zenon DEF suspectSource
  <2>3. suspectNode(i, asSuspect(i, p)) /\ UNCHANGED <<left, status>>
    BY <1>5, Zenon DEF probeFailed, asSuspect
  <2> QED BY <2>1, <2>2, <2>3, SuspectNodeStep, Zenon
<1>6. ASSUME NEW t \in timers[i], suspicionTimeout(i, t) PROVE coreStep(i)
  <2>1. UNCHANGED <<lives, nodeMap, suspicions, alives, suspects, deads>>
    BY <1>6, Zenon DEF suspicionTimeout
  <2> QED BY <1>6, <2>1, LivesType DEF quietStep, coreStep
<1>7. ASSUME NEW a \in aliveCalls[i], AliveCall(i, a) PROVE coreStep(i)
  BY <1>7, AliveNodeStep, Zenon DEF AliveCall, aliveSource, TypeOK, CallsSelf
<1>8. ASSUME NEW d \in deadCalls[i], DeadCall(i, d) PROVE coreStep(i)
  BY <1>8, DeadNodeStep, Zenon DEF DeadCall, deadSource, TypeOK
<1>9. ASSUME NEW a \in alives, handleAlive(i, a) PROVE coreStep(i)
  BY <1>9, CallAliveNodeStep, Zenon DEF handleAlive, aliveSource, TypeOK
<1>10. ASSUME NEW s \in suspects, handleSuspect(i, s) PROVE coreStep(i)
  BY <1>10, SuspectNodeStep, Zenon DEF handleSuspect, suspectSource, TypeOK
<1>11. ASSUME NEW d \in deads, handleDead(i, d) PROVE coreStep(i)
  BY <1>11, DeadNodeStep, Zenon DEF handleDead, deadSource, TypeOK
<1>12. ASSUME NEW k \in Node, sendLocalState(i, k) PROVE coreStep(i)
  BY <1>12, CoreUnchanged, Zenon DEF sendLocalState, coreStep
<1>13. ASSUME NEW r \in merging[i], mergeState(i, r) PROVE coreStep(i)
  <2>1. r \in stateToMerge
    BY Zenon DEF TypeOK
  <2>2. CASE r.State = "alive" /\ callAliveNode(i, asAlive(r))
    BY <1>13, <2>1, <2>2, MergedMessages, CallAliveNodeStep, Zenon DEF mergeState, aliveSource, asAlive
  <2>3. CASE r.State = "left" /\ deadNode(i, asLeft(r))
    BY <1>13, <2>1, <2>3, MergedMessages, DeadNodeStep, Zenon DEF mergeState, deadSource, asLeft
  <2>4. CASE suspectNode(i, asSuspect(i, r))
    BY <1>13, <2>1, <2>4, MergedMessages, SuspectNodeStep, Zenon DEF mergeState, suspectSource, asSuspect
  <2> QED BY <1>13, <2>2, <2>3, <2>4, Zenon DEF mergeState, asAlive, asLeft, asSuspect
<1>14. ASSUME NEW expired \in SUBSET Node, reap(i, expired) PROVE coreStep(i)
  BY <1>14, Zenon DEF coreStep
<1> QED BY <1>1, <1>2, <1>3, <1>4, <1>5, <1>6, <1>7, <1>8, <1>9, <1>10, <1>11, <1>12,
           <1>13, <1>14, Zenon DEF NodeStep

\* left is for good, and only Build makes a node of a new process.
LEMMA Frame ==
  ASSUME TypeOK, NEW i \in Node, NodeStep(i)
  PROVE  \A k \in Node : /\ left[k] => left'[k]
                         /\ status'[k] # "new" => status[k] # "new" \/ (k = i /\ Build(i))
<1> USE DEF TypeOK
<1>1. CASE Build(i) \/ Shutdown(i) \/ UpdateTagsPanic(i) \/ Leave(i)
  BY <1>1, Zenon DEF Build, Shutdown, UpdateTagsPanic, Leave
<1>2. CASE UNCHANGED <<status, left>>
  BY <1>2, Zenon
<1> QED
  BY <1>1, <1>2, Zenon
     DEF NodeStep, UpdateTags, probe, probeAcked, probeFailed, suspicionTimeout, AliveCall,
         DeadCall, handleAlive, handleSuspect, handleDead, sendLocalState, mergeState, reap

\* The entry that a step of each kind writes.
LEMMA BuildEffect ==
  ASSUME TypeOK, NEW i \in Node, Build(i)
  PROVE  /\ lives'[i] = lives[i] + 1
         /\ \A k \in Node : k # i => lives'[k] = lives[k]
         /\ \/ /\ i \in Allowed[i] /\ ~Listed(i, i)
               /\ nodeMap'[i][i].State = "alive" /\ nodeMap'[i][i].Lives = lives[i] + 1
               /\ nodeMap'[i][i].Tags = DefaultTags
               /\ \A k, m \in Node : k # i \/ m # i => nodeMap'[k][m] = nodeMap[k][m]
               /\ alives' = alives \cup {[ID |-> i, Lives |-> lives[i] + 1, Tags |-> DefaultTags]}
            \/ i \notin Allowed[i] /\ UNCHANGED <<nodeMap, alives>>
         /\ UNCHANGED <<suspicions, timers, suspects, deads, left, probing, merging,
                        aliveCalls, deadCalls>>
<1>1. coreTypeOK /\ lives[i] + 1 \in Nat
  BY CoreType DEF TypeOK
<1>2. ASSUME addNode(i, [ID |-> i, Lives |-> lives[i] + 1, Tags |-> DefaultTags])
      PROVE  setNode(i, i, "alive", lives[i] + 1, DefaultTags)
  BY <1>2, Zenon DEF addNode
<1>3. ASSUME setNode(i, i, "alive", lives[i] + 1, DefaultTags)
      PROVE  /\ nodeMap'[i][i].State = "alive" /\ nodeMap'[i][i].Lives = lives[i] + 1
             /\ nodeMap'[i][i].Tags = DefaultTags
             /\ \A k, m \in Node : k # i \/ m # i => nodeMap'[k][m] = nodeMap[k][m]
  <2>1. "alive" \in StateType \cup {"none"} /\ DefaultTags \in TagValue
    BY ConstantsAssumption, Zenon DEF StateType
  <2> QED BY <1>1, <1>3, <2>1, SetNode
<1>4. lives'[i] = lives[i] + 1 /\ \A k \in Node : k # i => lives'[k] = lives[k]
  BY LivesType, Zenon DEF Build
<1>5. CASE i \in Allowed[i]
  BY <1>2, <1>3, <1>4, <1>5, ZenonT(30) DEF Build, addNode, callVars
<1>6. CASE i \notin Allowed[i]
  BY <1>4, <1>6, Zenon DEF Build, callVars
<1> QED BY <1>5, <1>6, Zenon

\* The entry that aliveNode writes: the message's life and tags, newer than before.
LEMMA AliveEffect ==
  ASSUME TypeOK, NEW i \in Node, NEW a, aliveStep(i, a)
  PROVE  /\ nodeMap'[i][a.ID].State = "alive" /\ nodeMap'[i][a.ID].Lives = a.Lives
         /\ nodeMap'[i][a.ID].Tags = a.Tags
         /\ \A k, m \in Node : k # i \/ m # a.ID => nodeMap'[k][m] = nodeMap[k][m]
         /\ Listed(i, a.ID) => a.Lives > nodeMap[i][a.ID].Lives
         /\ alives' = alives \cup {a}
<1>1. coreTypeOK /\ a.ID \in Node /\ a.Lives \in Nat /\ a.Tags \in TagValue
  BY CoreType, Zenon DEF aliveStep, alive
<1>2. setNode(i, a.ID, "alive", a.Lives, a.Tags) /\ "alive" \in StateType \cup {"none"}
  BY Zenon DEF aliveStep, addNode, renewNode, StateType
<1>3. /\ nodeMap'[i][a.ID].State = "alive" /\ nodeMap'[i][a.ID].Lives = a.Lives
      /\ nodeMap'[i][a.ID].Tags = a.Tags
      /\ \A k, m \in Node : k # i \/ m # a.ID => nodeMap'[k][m] = nodeMap[k][m]
  BY <1>1, <1>2, SetNode, SMTT(30)
<1>4. alives' = alives \cup {a} /\ (Listed(i, a.ID) => a.Lives > nodeMap[i][a.ID].Lives)
  BY Zenon DEF aliveStep, addNode, renewNode
<1> QED BY <1>3, <1>4, Zenon

\* refute draws a new life, and writes and announces it with the old tags.
LEMMA RefuteEffect ==
  ASSUME TypeOK, NEW i \in Node, NEW l, refuteStep(i, l)
  PROVE  /\ nodeMap'[i][i].State = nodeMap[i][i].State /\ nodeMap'[i][i].Tags = nodeMap[i][i].Tags
         /\ nodeMap'[i][i].Lives = outbid(i, l)
         /\ outbid(i, l) > lives[i]
         /\ lives'[i] = outbid(i, l)
         /\ \A k \in Node : k # i => lives'[k] = lives[k]
         /\ \A k, m \in Node : k # i \/ m # i => nodeMap'[k][m] = nodeMap[k][m]
         /\ alives' = alives \cup {[ID |-> i, Lives |-> outbid(i, l), Tags |-> nodeMap[i][i].Tags]}
<1>1. outbid(i, l) \in Nat /\ outbid(i, l) > lives[i]
  BY DEF outbid, refuteStep, TypeOK
<1>2. setNode(i, i, nodeMap[i][i].State, outbid(i, l), nodeMap[i][i].Tags)
  BY Zenon DEF refuteStep, refute
<1>3. /\ nodeMap'[i][i].State = nodeMap[i][i].State /\ nodeMap'[i][i].Tags = nodeMap[i][i].Tags
      /\ nodeMap'[i][i].Lives = outbid(i, l)
      /\ \A k, m \in Node : k # i \/ m # i => nodeMap'[k][m] = nodeMap[k][m]
  <2>1. coreTypeOK
    BY CoreType, Zenon
  <2>2. nodeMap[i][i].State \in StateType \cup {"none"} /\ nodeMap[i][i].Tags \in TagValue
    BY <2>1, EntryType, Zenon
  <2> HIDE DEF StateType
  <2> QED BY <1>1, <1>2, <2>1, <2>2, SetNode, SMTT(20)
<1> QED BY <1>1, <1>3, Zenon DEF refuteStep, refute, TypeOK

\* The entry and the suspicion that a first suspicion writes.
LEMMA SuspectEffect ==
  ASSUME TypeOK, NEW i \in Node, NEW s, suspectStep(i, s)
  PROVE  /\ nodeMap'[i][s.ID].State = "suspect" /\ nodeMap'[i][s.ID].Lives = s.Lives
         /\ nodeMap'[i][s.ID].Tags = nodeMap[i][s.ID].Tags
         /\ \A k, m \in Node : k # i \/ m # s.ID => nodeMap'[k][m] = nodeMap[k][m]
         /\ suspicions'[i][s.ID].confirmMap = {s.From}
         /\ \A k, m \in Node : k # i \/ m # s.ID => suspicions'[k][m] = suspicions[k][m]
         /\ suspects' = suspects \cup {s}
<1>1. s \in suspect /\ s.ID \in Node /\ s.Lives \in Nat /\ s.From \in Node /\ firstSuspect(i, s)
  BY Zenon DEF suspectStep, suspect
<1>2. [confirmCap |-> confirmCap(i), confirmMap |-> {s.From}] \in suspicion
  BY <1>1, ConstantsAssumption, SMTT(20) DEF confirmCap, suspicion
<1> DEFINE sc == [confirmCap |-> confirmCap(i), confirmMap |-> {s.From}]
           tags == nodeMap[i][s.ID].Tags
<1>3. /\ setNode(i, s.ID, "suspect", s.Lives, tags) /\ setSuspicion(i, s.ID, sc)
      /\ suspects' = suspects \cup {s}
  BY <1>1, Zenon DEF firstSuspect
<1>4. "suspect" \in StateType \cup {"none"} /\ tags \in TagValue /\ coreTypeOK
  BY <1>1, CoreType, EntryType, Zenon DEF StateType
<1>5. sc \in suspicion /\ sc.confirmMap = {s.From}
  BY <1>2, Zenon
<1> HIDE DEF sc, tags
<1>6. /\ nodeMap'[i][s.ID].State = "suspect" /\ nodeMap'[i][s.ID].Lives = s.Lives
      /\ nodeMap'[i][s.ID].Tags = tags
      /\ \A k, m \in Node : k # i \/ m # s.ID => nodeMap'[k][m] = nodeMap[k][m]
  BY <1>1, <1>3, <1>4, SetNode, SMTT(20)
<1>7. /\ suspicions'[i][s.ID] = sc
      /\ \A k, m \in Node : k # i \/ m # s.ID => suspicions'[k][m] = suspicions[k][m]
  BY <1>1, <1>3, <1>4, <1>5, SetSuspicion, SMTT(20)
<1> QED BY <1>3, <1>5, <1>6, <1>7, Zenon DEF tags

\* The entry that deadNode writes; the suspicion is gone with it.
LEMMA DeadEffect ==
  ASSUME TypeOK, NEW i \in Node, NEW d, deadStep(i, d)
  PROVE  /\ nodeMap'[i][d.ID].State = (IF d.Left THEN "left" ELSE "dead")
         /\ nodeMap'[i][d.ID].Lives = d.Lives
         /\ nodeMap'[i][d.ID].Tags = nodeMap[i][d.ID].Tags
         /\ \A k, m \in Node : k # i \/ m # d.ID => nodeMap'[k][m] = nodeMap[k][m]
         /\ suspicions'[i][d.ID].confirmMap = {}
         /\ \A k, m \in Node : k # i \/ m # d.ID => suspicions'[k][m] = suspicions[k][m]
         /\ deads' = deads \cup {d}
<1> DEFINE st == IF d.Left THEN "left" ELSE "dead"
           tags == nodeMap[i][d.ID].Tags
<1>1. d.ID \in Node /\ d.Lives \in Nat /\ coreTypeOK
  BY CoreType, Zenon DEF deadStep, dead
<1>2. st \in StateType \cup {"none"} /\ tags \in TagValue
  BY <1>1, EntryType, Zenon DEF StateType
<1>3. /\ setNode(i, d.ID, st, d.Lives, tags) /\ setSuspicion(i, d.ID, NoSuspicion)
      /\ deads' = deads \cup {d}
  BY Zenon DEF deadStep, markDead
<1> HIDE DEF st, tags
<1>4. /\ nodeMap'[i][d.ID].State = st /\ nodeMap'[i][d.ID].Lives = d.Lives
      /\ nodeMap'[i][d.ID].Tags = tags
      /\ \A k, m \in Node : k # i \/ m # d.ID => nodeMap'[k][m] = nodeMap[k][m]
  BY <1>1, <1>2, <1>3, SetNode
<1>5. /\ suspicions'[i][d.ID] = NoSuspicion
      /\ \A k, m \in Node : k # i \/ m # d.ID => suspicions'[k][m] = suspicions[k][m]
  <2>1. NoSuspicion \in suspicion /\ setSuspicion(i, d.ID, NoSuspicion)
    BY <1>3, NoSuspicionType, Zenon
  <2> QED BY <1>1, <2>1, SetSuspicion, SMTT(20)
<1> QED BY <1>3, <1>4, <1>5, NoSuspicionType, Zenon DEF st, tags

\* reap forgets dead and left entries and nothing else.
LEMMA ReapEffect ==
  ASSUME TypeOK, NEW i \in Node, NEW expired \in SUBSET Node, reap(i, expired)
  PROVE  /\ \A j \in expired : DeadOrLeft(i, j) /\ nodeMap'[i][j] = NoEntry
         /\ \A k, m \in Node : k # i \/ m \notin expired => nodeMap'[k][m] = nodeMap[k][m]
         /\ UNCHANGED <<left, lives, suspicions, timers, alives, suspects, deads,
                        probing, merging, aliveCalls, deadCalls>>
BY Zenon DEF reap, TypeOK, callVars
=============================================================================
