----------------------------- MODULE Membership -----------------------------
(***************************************************************************)
(* The membership protocol of a cluster of Memberlists: what each node     *)
(* records about every other node (nodeMap), how alive, suspect and dead   *)
(* messages, probes, suspicion timers, push/pulls, Leave, UpdateTags and   *)
(* reaping change it.                                                      *)
(*                                                                         *)
(* The sets alives, suspects and deads hold every message ever broadcast.  *)
(* A handler may take any element at any time and any number of times, so  *)
(* gossip is lossy, duplicating and reordering.  Time is abstract: a timer *)
(* may fire, a probe may fail and a dead entry may expire at any moment.   *)
(* A handler's critical section on nodeL is one step; what a goroutine has *)
(* read before it waits for nodeL (probing, merging, aliveCalls,           *)
(* deadCalls) is state, because it may be stale when the lock is taken.    *)
(***************************************************************************)
EXTENDS Integers, FiniteSets

CONSTANTS
  Node,            \* IDs; Build draws a fresh UniqueID, so a restart is a new Node
  TagValue,        \* possible contents of Node.Tags
  DefaultTags,     \* config.Tags
  Allowed,         \* Allowed[i]: the nodes whose address is in i's CIDRsAllowed
  SuspicionMult,   \* config.SuspicionMult
  Subject,         \* bound: the nodes that are probed, crash, leave, update their tags
                   \* or travel in push/pull states; the others stay alive
  MaxLives,        \* bound on the lives counter of a node
  MaxMerging,      \* bound on the push/pull entries a node has yet to merge
  TimerSlot        \* bound on the timers of a node armed for the same target and Lives

ASSUME ConstantsAssumption ==
  /\ DefaultTags \in TagValue
  /\ Allowed \in [Node -> SUBSET Node]
  /\ SuspicionMult \in Int
  /\ Subject \subseteq Node
  /\ MaxLives \in Nat \ {0}
  /\ MaxMerging \in Nat

VARIABLES
  status,       \* status[i]: "new" before Build, "up", "down" after Shutdown or a panic
  lives,        \* lives[i]: m.lives, the counter behind nextLiveNo
  left,         \* left[i]: m.left
  nodeMap,      \* nodeMap[i][j]: i's nodeState of j; State "none" when j is not in the map
  suspicions,   \* suspicions[i][j]: i's suspicion of j; confirmMap {} when there is none
  timers,       \* timers[i]: the timeoutFn closures of i that have yet to run
  probing,      \* probing[i]: the copy of the nodeState that i's probe works on, if any
  merging,      \* merging[i]: entries of push/pull states sent to i that it has yet to merge
  aliveCalls,   \* aliveCalls[i]: aliveNode calls of UpdateTags that wait for nodeL
  deadCalls,    \* deadCalls[i]: deadNode calls of Leave and timeoutFn that wait for nodeL
  alives, suspects, deads   \* every message broadcast so far

coreVars == <<lives, nodeMap, suspicions, timers, alives, suspects, deads>>
callVars == <<probing, merging, aliveCalls, deadCalls>>
vars == <<status, left, coreVars, callVars>>

StateType == {"alive", "suspect", "dead", "left"}
nodeState == [State : StateType \cup {"none"}, Lives : Nat, Tags : TagValue]
suspicion == [confirmCap : Int, confirmMap : SUBSET Node]
timeoutFn == [ID : Node, Lives : Nat, slot : TimerSlot]
alive == [ID : Node, Lives : Nat, Tags : TagValue]
suspect == [ID : Node, Lives : Nat, From : Node]
dead == [ID : Node, Lives : Nat, Left : BOOLEAN]
stateToMerge == [ID : Node, Lives : Nat, Tags : TagValue, State : StateType]

NoEntry == [State |-> "none", Lives |-> 0, Tags |-> DefaultTags]
NoSuspicion == [confirmCap |-> 0, confirmMap |-> {}]

Listed(i, j) == nodeMap[i][j].State # "none"
DeadOrLeft(i, j) == nodeMap[i][j].State \in {"dead", "left"}
Suspected(i, j) == suspicions[i][j].confirmMap # {}
numNodes(i) == Cardinality({j \in Node : Listed(i, j)})

Init ==
  /\ status = [i \in Node |-> "new"]
  /\ left = [i \in Node |-> FALSE]
  /\ lives = [i \in Node |-> 0]
  /\ nodeMap = [i \in Node |-> [j \in Node |-> NoEntry]]
  /\ suspicions = [i \in Node |-> [j \in Node |-> NoSuspicion]]
  /\ timers = [i \in Node |-> {}]
  /\ probing = [i \in Node |-> {}]
  /\ merging = [i \in Node |-> {}]
  /\ aliveCalls = [i \in Node |-> {}]
  /\ deadCalls = [i \in Node |-> {}]
  /\ alives = {} /\ suspects = {} /\ deads = {}

-----------------------------------------------------------------------------
(* aliveNode, suspectNode and deadNode: the critical sections on nodeL.    *)

setNode(i, j, state, l, tags) ==
  nodeMap' = [nodeMap EXCEPT ![i][j] = [State |-> state, Lives |-> l, Tags |-> tags]]

setSuspicion(i, j, sc) == suspicions' = [suspicions EXCEPT ![i][j] = sc]

addNode(i, a) ==
  /\ ~Listed(i, a.ID)
  /\ setNode(i, a.ID, "alive", a.Lives, a.Tags)
  /\ alives' = alives \cup {a}
  /\ UNCHANGED suspicions

\* Slips of renewNode: the Tags field forgotten, the suspicion kept, >= for >.
renewNodeOldTags(i, a) ==
  /\ Listed(i, a.ID)
  /\ a.Lives > nodeMap[i][a.ID].Lives
  /\ setNode(i, a.ID, "alive", a.Lives, nodeMap[i][a.ID].Tags)
  /\ setSuspicion(i, a.ID, NoSuspicion)
  /\ alives' = alives \cup {a}

renewNodeKeepSuspicion(i, a) ==
  /\ Listed(i, a.ID)
  /\ a.Lives > nodeMap[i][a.ID].Lives
  /\ setNode(i, a.ID, "alive", a.Lives, a.Tags)
  /\ alives' = alives \cup {a}
  /\ UNCHANGED suspicions

renewNodeSameLives(i, a) ==
  /\ Listed(i, a.ID)
  /\ a.Lives >= nodeMap[i][a.ID].Lives
  /\ setNode(i, a.ID, "alive", a.Lives, a.Tags)
  /\ setSuspicion(i, a.ID, NoSuspicion)
  /\ alives' = alives \cup {a}

renewNode(i, a) ==
  /\ Listed(i, a.ID)
  /\ a.Lives > nodeMap[i][a.ID].Lives
  /\ setNode(i, a.ID, "alive", a.Lives, a.Tags)
  /\ setSuspicion(i, a.ID, NoSuspicion)
  /\ alives' = alives \cup {a}

ignoreAlive(i, a) ==
  /\ Listed(i, a.ID)
  /\ a.Lives <= nodeMap[i][a.ID].Lives
  /\ UNCHANGED <<nodeMap, suspicions, alives>>

aliveNode(i, a) ==
  /\ addNode(i, a) \/ renewNode(i, a) \/ ignoreAlive(i, a)
  /\ UNCHANGED <<lives, timers, suspects, deads>>

\* refute calls nextLiveNo until the result exceeds the accusation's Lives.
outbid(i, accused) == IF lives[i] >= accused THEN lives[i] + 1 ELSE accused + 1

\* Slips of refute: the new life not stored in the entry, or not drawn.
refuteUnrecorded(i, accused) ==
  LET l == outbid(i, accused)
  IN  /\ l <= MaxLives
      /\ lives' = [lives EXCEPT ![i] = l]
      /\ alives' = alives \cup {[ID |-> i, Lives |-> l, Tags |-> nodeMap[i][i].Tags]}
      /\ UNCHANGED <<nodeMap, suspicions, timers, suspects, deads>>

refuteUndrawn(i, accused) ==
  /\ accused < MaxLives
  /\ setNode(i, i, nodeMap[i][i].State, accused + 1, nodeMap[i][i].Tags)
  /\ alives' = alives \cup {[ID |-> i, Lives |-> accused + 1, Tags |-> nodeMap[i][i].Tags]}
  /\ UNCHANGED <<lives, suspicions, timers, suspects, deads>>

refute(i, accused) ==
  LET l == outbid(i, accused)
  IN  /\ l <= MaxLives
      /\ lives' = [lives EXCEPT ![i] = l]
      /\ setNode(i, i, nodeMap[i][i].State, l, nodeMap[i][i].Tags)
      /\ alives' = alives \cup {[ID |-> i, Lives |-> l, Tags |-> nodeMap[i][i].Tags]}
      /\ UNCHANGED <<suspicions, timers, suspects, deads>>

ignoreSuspect(i, s) ==
  /\ \/ ~Listed(i, s.ID)
     \/ s.Lives < nodeMap[i][s.ID].Lives
     \/ ~Suspected(i, s.ID) /\ nodeMap[i][s.ID].State # "alive"
  /\ UNCHANGED coreVars

Confirm(i, s) ==
  LET sc == suspicions[i][s.ID]
  IN  IF Cardinality(sc.confirmMap) >= sc.confirmCap \/ s.From \in sc.confirmMap
        THEN UNCHANGED coreVars
        ELSE /\ setSuspicion(i, s.ID, [confirmCap |-> sc.confirmCap,
                                        confirmMap |-> sc.confirmMap \cup {s.From}])
             /\ suspects' = suspects \cup {s}
             /\ UNCHANGED <<lives, nodeMap, timers, alives, deads>>

confirmCap(i) ==
  IF numNodes(i) - 1 < SuspicionMult - 1 THEN 1 ELSE SuspicionMult - 1

\* Slips of firstSuspect: no broadcast, the timer bound to the Lives before the update.
firstSuspectSilent(i, s) ==
  /\ setNode(i, s.ID, "suspect", s.Lives, nodeMap[i][s.ID].Tags)
  /\ setSuspicion(i, s.ID, [confirmCap |-> confirmCap(i), confirmMap |-> {s.From}])
  /\ \E q \in TimerSlot :
       LET t == [ID |-> s.ID, Lives |-> s.Lives, slot |-> q]
       IN  t \notin timers[i] /\ timers' = [timers EXCEPT ![i] = @ \cup {t}]
  /\ UNCHANGED <<lives, alives, suspects, deads>>

firstSuspectStaleTimer(i, s) ==
  /\ suspects' = suspects \cup {s}
  /\ setNode(i, s.ID, "suspect", s.Lives, nodeMap[i][s.ID].Tags)
  /\ setSuspicion(i, s.ID, [confirmCap |-> confirmCap(i), confirmMap |-> {s.From}])
  /\ \E q \in TimerSlot :
       LET t == [ID |-> s.ID, Lives |-> nodeMap[i][s.ID].Lives, slot |-> q]
       IN  t \notin timers[i] /\ timers' = [timers EXCEPT ![i] = @ \cup {t}]
  /\ UNCHANGED <<lives, alives, deads>>

firstSuspect(i, s) ==
  /\ suspects' = suspects \cup {s}
  /\ setNode(i, s.ID, "suspect", s.Lives, nodeMap[i][s.ID].Tags)
  /\ setSuspicion(i, s.ID, [confirmCap |-> confirmCap(i), confirmMap |-> {s.From}])
  /\ \E q \in TimerSlot :
       LET t == [ID |-> s.ID, Lives |-> s.Lives, slot |-> q]
       IN  t \notin timers[i] /\ timers' = [timers EXCEPT ![i] = @ \cup {t}]
  /\ UNCHANGED <<lives, alives, deads>>

suspectNode(i, s) ==
  \/ ignoreSuspect(i, s)
  \/ /\ Listed(i, s.ID) /\ s.Lives >= nodeMap[i][s.ID].Lives
     /\ \/ Suspected(i, s.ID) /\ Confirm(i, s)
        \/ /\ ~Suspected(i, s.ID) /\ nodeMap[i][s.ID].State = "alive"
           /\ \/ s.ID = i /\ refute(i, s.Lives)
              \/ s.ID # i /\ firstSuspect(i, s)

ignoreDead(i, d) ==
  /\ \/ ~Listed(i, d.ID)
     \/ d.Lives < nodeMap[i][d.ID].Lives
     \/ DeadOrLeft(i, d.ID)
  /\ UNCHANGED coreVars

markDead(i, d) ==
  /\ setNode(i, d.ID, IF d.Left THEN "left" ELSE "dead", d.Lives, nodeMap[i][d.ID].Tags)
  /\ setSuspicion(i, d.ID, NoSuspicion)
  /\ deads' = deads \cup {d}
  /\ UNCHANGED <<lives, timers, alives, suspects>>

\* Slips of deadNode: no refutation, <= for < in the test for an old message.
deadNodeUnrefuted(i, d) ==
  \/ ignoreDead(i, d)
  \/ /\ Listed(i, d.ID) /\ ~DeadOrLeft(i, d.ID)
     /\ d.Lives >= nodeMap[i][d.ID].Lives
     /\ markDead(i, d)

deadNodeTooStrict(i, d) ==
  \/ d.Lives <= nodeMap[i][d.ID].Lives /\ UNCHANGED coreVars
  \/ /\ Listed(i, d.ID) /\ ~DeadOrLeft(i, d.ID)
     /\ d.Lives > nodeMap[i][d.ID].Lives
     /\ \/ d.ID = i /\ ~left[i] /\ refute(i, d.Lives)
        \/ (d.ID # i \/ left[i]) /\ markDead(i, d)

deadNode(i, d) ==
  \/ ignoreDead(i, d)
  \/ /\ Listed(i, d.ID) /\ ~DeadOrLeft(i, d.ID)
     /\ d.Lives >= nodeMap[i][d.ID].Lives
     /\ \/ d.ID = i /\ ~left[i] /\ refute(i, d.Lives)
        \/ (d.ID # i \/ left[i]) /\ markDead(i, d)

-----------------------------------------------------------------------------
(* The operations of a node.                                               *)

\* Build: fresh ID, setAlive announces the node with its first life.
Build(i) ==
  /\ status[i] = "new"
  /\ status' = [status EXCEPT ![i] = "up"]
  /\ lives' = [lives EXCEPT ![i] = @ + 1]
  /\ LET a == [ID |-> i, Lives |-> lives[i] + 1, Tags |-> DefaultTags]
     IN  IF i \in Allowed[i]
           THEN addNode(i, a)
           ELSE UNCHANGED <<nodeMap, suspicions, alives>>
  /\ UNCHANGED <<left, timers, suspects, deads, callVars>>

\* Shutdown, or a crash of the process: no handler runs any more.
Shutdown(i) ==
  /\ status[i] = "up" /\ i \in Subject
  /\ status' = [status EXCEPT ![i] = "down"]
  /\ UNCHANGED <<left, coreVars, callVars>>

\* aliveNode with the checks it makes before it takes nodeL.
callAliveNode(i, a) ==
  IF (left[i] /\ a.ID = i) \/ a.ID \notin Allowed[i]
    THEN UNCHANGED coreVars
    ELSE aliveNode(i, a)

AliveCall(i, a) ==
  /\ status[i] = "up"
  /\ aliveCalls' = [aliveCalls EXCEPT ![i] = @ \ {a}]
  /\ aliveNode(i, a)
  /\ UNCHANGED <<status, left, probing, merging, deadCalls>>

DeadCall(i, d) ==
  /\ status[i] = "up"
  /\ deadCalls' = [deadCalls EXCEPT ![i] = @ \ {d}]
  /\ deadNode(i, d)
  /\ UNCHANGED <<status, left, probing, merging, aliveCalls>>

handleAlive(i, a) ==
  /\ status[i] = "up"
  /\ callAliveNode(i, a)
  /\ UNCHANGED <<status, left, callVars>>

handleSuspect(i, s) ==
  /\ status[i] = "up"
  /\ suspectNode(i, s)
  /\ UNCHANGED <<status, left, callVars>>

handleDead(i, d) ==
  /\ status[i] = "up"
  /\ deadNode(i, d)
  /\ UNCHANGED <<status, left, callVars>>

\* probeNode works on a clone of the nodeState that nextProbeNode returns; a
\* suspect target is sent the suspicion together with the ping.
probe(i, j) ==
  /\ status[i] = "up" /\ probing[i] = {}
  /\ j \in Subject /\ j # i /\ Listed(i, j) /\ ~DeadOrLeft(i, j)
  /\ probing' = [probing EXCEPT ![i] = {[ID |-> j, Lives |-> nodeMap[i][j].Lives]}]
  /\ suspects' = IF nodeMap[i][j].State = "suspect"
                   THEN suspects \cup {[ID |-> j, Lives |-> nodeMap[i][j].Lives, From |-> i]}
                   ELSE suspects
  /\ UNCHANGED <<status, left, merging, aliveCalls, deadCalls,
                 lives, nodeMap, suspicions, timers, alives, deads>>

probeAcked(i) ==
  /\ status[i] = "up" /\ probing[i] # {}
  /\ probing' = [probing EXCEPT ![i] = {}]
  /\ UNCHANGED <<status, left, coreVars, merging, aliveCalls, deadCalls>>

probeFailed(i, p) ==
  /\ status[i] = "up"
  /\ probing' = [probing EXCEPT ![i] = {}]
  /\ suspectNode(i, [ID |-> p.ID, Lives |-> p.Lives, From |-> i])
  /\ UNCHANGED <<status, left, merging, aliveCalls, deadCalls>>

\* Slip of suspicionTimeout: the dead message is built like the one of Leave.
suspicionTimeoutAsLeft(i, t) ==
  LET node == nodeMap[i][t.ID]
      proceed == node.State = "suspect" /\ node.Lives = t.Lives
  IN  /\ status[i] = "up"
      /\ timers' = [timers EXCEPT ![i] = @ \ {t}]
      /\ deadCalls' = IF proceed
                        THEN [deadCalls EXCEPT ![i] =
                                @ \cup {[ID |-> t.ID, Lives |-> node.Lives, Left |-> TRUE]}]
                        ELSE deadCalls
      /\ UNCHANGED <<status, left, probing, merging, aliveCalls,
                     lives, nodeMap, suspicions, alives, suspects, deads>>

\* timeoutFn looks under RLock, then calls deadNode, which takes nodeL again.
suspicionTimeout(i, t) ==
  LET node == nodeMap[i][t.ID]
      proceed == node.State = "suspect" /\ node.Lives = t.Lives
  IN  /\ status[i] = "up"
      /\ timers' = [timers EXCEPT ![i] = @ \ {t}]
      /\ deadCalls' = IF proceed
                        THEN [deadCalls EXCEPT ![i] =
                                @ \cup {[ID |-> t.ID, Lives |-> node.Lives, Left |-> FALSE]}]
                        ELSE deadCalls
      /\ UNCHANGED <<status, left, probing, merging, aliveCalls,
                     lives, nodeMap, suspicions, alives, suspects, deads>>

\* Slip of localState: entries that are not in the map are sent.
localStateUnfiltered(i) ==
  {[ID |-> j, Lives |-> nodeMap[i][j].Lives, Tags |-> nodeMap[i][j].Tags,
    State |-> nodeMap[i][j].State] : j \in Subject}

\* A push/pull is one sendLocalState in each direction; either may be missing, since
\* the connection can fail at any point.  The receiver merges entry by entry.
localState(i) ==
  {[ID |-> j, Lives |-> nodeMap[i][j].Lives, Tags |-> nodeMap[i][j].Tags,
    State |-> nodeMap[i][j].State] : j \in {k \in Subject : Listed(i, k)}}

sendLocalState(i, k) ==
  /\ status[i] = "up" /\ status[k] = "up" /\ i # k
  /\ Cardinality(merging[k] \cup localState(i)) <= MaxMerging
  /\ merging' = [merging EXCEPT ![k] = @ \cup localState(i)]
  /\ UNCHANGED <<status, left, coreVars, probing, aliveCalls, deadCalls>>

mergeState(i, r) ==
  /\ status[i] = "up"
  /\ merging' = [merging EXCEPT ![i] = @ \ {r}]
  /\ \/ /\ r.State = "alive"
        /\ callAliveNode(i, [ID |-> r.ID, Lives |-> r.Lives, Tags |-> r.Tags])
     \/ /\ r.State = "left"
        /\ deadNode(i, [ID |-> r.ID, Lives |-> r.Lives, Left |-> TRUE])
     \/ /\ r.State \in {"dead", "suspect"}
        /\ suspectNode(i, [ID |-> r.ID, Lives |-> r.Lives, From |-> i])
  /\ UNCHANGED <<status, left, probing, aliveCalls, deadCalls>>

\* Leave marks the node left, reads its Lives and calls deadNode.
Leave(i) ==
  /\ status[i] = "up" /\ ~left[i] /\ i \in Subject
  /\ left' = [left EXCEPT ![i] = TRUE]
  /\ deadCalls' = IF Listed(i, i)
                    THEN [deadCalls EXCEPT ![i] =
                            @ \cup {[ID |-> i, Lives |-> nodeMap[i][i].Lives, Left |-> TRUE]}]
                    ELSE deadCalls
  /\ UNCHANGED <<status, coreVars, probing, merging, aliveCalls>>

\* UpdateTags draws the next life, then calls aliveNode on itself.
UpdateTags(i, tags) ==
  /\ status[i] = "up" /\ Listed(i, i) /\ i \in Subject
  /\ lives[i] < MaxLives
  /\ lives' = [lives EXCEPT ![i] = @ + 1]
  /\ aliveCalls' = IF left[i] \/ i \notin Allowed[i] THEN aliveCalls
                     ELSE [aliveCalls EXCEPT ![i] =
                             @ \cup {[ID |-> i, Lives |-> lives[i] + 1, Tags |-> tags]}]
  /\ UNCHANGED <<status, left, probing, merging, deadCalls,
                 nodeMap, suspicions, timers, alives, suspects, deads>>

\* A node that is not in its own map (rejected by its CIDRs, or left and reaped)
\* dereferences nil in UpdateTags.
UpdateTagsPanic(i) ==
  /\ status[i] = "up" /\ ~Listed(i, i) /\ i \in Subject
  /\ status' = [status EXCEPT ![i] = "down"]
  /\ UNCHANGED <<left, coreVars, callVars>>

\* reap removes the dead and left entries whose StateChange is old enough.
reap(i, expired) ==
  /\ status[i] = "up"
  /\ expired # {} /\ expired \subseteq {j \in Node : DeadOrLeft(i, j)}
  /\ nodeMap' = [nodeMap EXCEPT ![i] =
                   [j \in Node |-> IF j \in expired THEN NoEntry ELSE nodeMap[i][j]]]
  /\ UNCHANGED <<status, left, callVars,
                 lives, suspicions, timers, alives, suspects, deads>>

-----------------------------------------------------------------------------
NodeStep(i) ==
  \/ Build(i)
  \/ Shutdown(i)
  \/ Leave(i)
  \/ UpdateTagsPanic(i)
  \/ \E tags \in TagValue : UpdateTags(i, tags)
  \/ \E j \in Node : probe(i, j)
  \/ probeAcked(i)
  \/ \E p \in probing[i] : probeFailed(i, p)
  \/ \E t \in timers[i] : suspicionTimeout(i, t)
  \/ \E a \in aliveCalls[i] : AliveCall(i, a)
  \/ \E d \in deadCalls[i] : DeadCall(i, d)
  \/ \E a \in alives : handleAlive(i, a)
  \/ \E s \in suspects : handleSuspect(i, s)
  \/ \E d \in deads : handleDead(i, d)
  \/ \E k \in Node : sendLocalState(i, k)
  \/ \E r \in merging[i] : mergeState(i, r)
  \/ \E expired \in SUBSET Node : reap(i, expired)

Next == \E i \in Node : NodeStep(i)

Spec == Init /\ [][Next]_vars

\* The Go runtime runs every timer that is due and hands nodeL to every waiter.
TimerFairness ==
  \A i, j \in Node :
    /\ WF_vars(\E t \in timers[i] : t.ID = j /\ suspicionTimeout(i, t))
    /\ WF_vars(\E d \in deadCalls[i] : d.ID = j /\ DeadCall(i, d))

FairSpec == Spec /\ TimerFairness

-----------------------------------------------------------------------------
TypeOK ==
  /\ status \in [Node -> {"new", "up", "down"}]
  /\ lives \in [Node -> Nat]
  /\ left \in [Node -> BOOLEAN]
  /\ nodeMap \in [Node -> [Node -> nodeState]]
  /\ suspicions \in [Node -> [Node -> suspicion]]
  /\ timers \in [Node -> SUBSET timeoutFn]
  /\ probing \in [Node -> SUBSET [ID : Node, Lives : Nat]]
  /\ merging \in [Node -> SUBSET stateToMerge]
  /\ aliveCalls \in [Node -> SUBSET alive]
  /\ deadCalls \in [Node -> SUBSET dead]
  /\ alives \subseteq alive /\ suspects \subseteq suspect /\ deads \subseteq dead

\* No entry, message or pending call names a life that its subject has not drawn
\* from nextLiveNo: lives are never invented or raised by anyone but their owner.
LivesDrawn ==
  /\ \A i, j \in Node : nodeMap[i][j].Lives <= lives[j]
  /\ \A a \in alives : a.Lives <= lives[a.ID]
  /\ \A s \in suspects : s.Lives <= lives[s.ID]
  /\ \A d \in deads : d.Lives <= lives[d.ID]
  /\ \A i \in Node :
       /\ \A p \in probing[i] : p.Lives <= lives[p.ID]
       /\ \A r \in merging[i] : r.Lives <= lives[r.ID]
       /\ \A a \in aliveCalls[i] : a.ID = i /\ a.Lives <= lives[i]
       /\ \A d \in deadCalls[i] : d.Lives <= lives[d.ID]

\* Until it leaves, a node's own entry carries the newest life anybody has heard
\* of: whatever refute is handed is no newer, so one refutation outbids it all,
\* even while UpdateTags holds a life that it has not announced yet.
OwnEntryNewest ==
  \A j \in Node : ~left[j] =>
    /\ \A i \in Node : nodeMap[i][j].Lives <= nodeMap[j][j].Lives
    /\ \A a \in alives : a.ID = j => a.Lives <= nodeMap[j][j].Lives
    /\ \A s \in suspects : s.ID = j => s.Lives <= nodeMap[j][j].Lives
    /\ \A d \in deads : d.ID = j => d.Lives <= nodeMap[j][j].Lives
    /\ \A i \in Node :
         /\ \A p \in probing[i] : p.ID = j => p.Lives <= nodeMap[j][j].Lives
         /\ \A r \in merging[i] : r.ID = j => r.Lives <= nodeMap[j][j].Lives
         /\ \A d \in deadCalls[i] : d.ID = j => d.Lives <= nodeMap[j][j].Lives

\* A node that is running and has not called Leave is alive in its own map, whatever
\* suspect and dead messages, stale timers and merged states reach it.
SelfAlive ==
  \A i \in Node :
    status[i] # "new" /\ ~left[i] /\ i \in Allowed[i] => nodeMap[i][i].State = "alive"

\* The suspicions map and the State fields agree: suspectNode, aliveNode and deadNode
\* never leave a suspicion behind for an entry that is not suspect, or a suspect
\* entry without one (it could never be confirmed).
SuspicionMatchesState ==
  \A i, j \in Node : Suspected(i, j) <=> nodeMap[i][j].State = "suspect"

\* Every suspect entry has a timer, or a timer's deadNode call, that will declare
\* it dead: timers are never stopped and their guard State/Lives still matches.
SuspectHasTimer ==
  \A i, j \in Node : nodeMap[i][j].State = "suspect" =>
    \/ \E t \in timers[i] : t.ID = j /\ t.Lives = nodeMap[i][j].Lives
    \/ [ID |-> j, Lives |-> nodeMap[i][j].Lives, Left |-> FALSE] \in deadCalls[i]

\* Nobody is declared dead out of the blue: a dead message or entry that is not a
\* Leave is preceded by a suspicion of that very life, broadcast so that the
\* accused could refute it.
DeathNeedsSuspicion ==
  /\ \A d \in deads : ~d.Left => \E s \in suspects : s.ID = d.ID /\ s.Lives = d.Lives
  /\ \A i, j \in Node : nodeMap[i][j].State = "dead" =>
       \E s \in suspects : s.ID = j /\ s.Lives = nodeMap[i][j].Lives

\* StateLeft is reported only of a node that has called Leave.
LeftNeedsLeave ==
  /\ \A d \in deads : d.Left => left[d.ID]
  /\ \A i, j \in Node : nodeMap[i][j].State = "left" => left[j]

\* Two nodes that see a third alive with the same Lives see the same tags: a life
\* is announced with one value of the tags only, although UpdateTags and refute
\* draw lives concurrently.
AliveTagsAgree ==
  \A i, k, j \in Node :
    /\ nodeMap[i][j].State = "alive" /\ nodeMap[k][j].State = "alive"
    /\ nodeMap[i][j].Lives = nodeMap[k][j].Lives
    => nodeMap[i][j].Tags = nodeMap[k][j].Tags

\* The nodeMaps of the cluster keep the promises of MembershipTable.
Table == INSTANCE MembershipTable
TableImplemented == Table!Spec

\* A suspicion does not last forever: its timer fires and the entry becomes dead
\* unless an alive message renews it first.
SuspicionResolved ==
  \A i, j \in Node :
    nodeMap[i][j].State = "suspect" ~> (nodeMap[i][j].State # "suspect" \/ status[i] = "down")

\* What memberlist_test.go expects of Leave: once its deadNode call is done, the
\* node no longer sees itself alive.
LeaveTakesEffect ==
  \A i \in Node :
    left[i] /\ (\A d \in deadCalls[i] : d.ID # i) => nodeMap[i][i].State # "alive"

=============================================================================
