----------------------------- MODULE NodeEvents -----------------------------
(***************************************************************************)
(* What a node tells others and its application about one other node, and  *)
(* when: suspectNode and deadNode broadcast while they hold nodeL, and     *)
(* deadNode also sends its event there; aliveNode broadcasts and sends its *)
(* events after it has released nodeL, so the steps of two goroutines may  *)
(* come between.  The application reads eventCh and may call Members,      *)
(* which takes nodeL, before it reads on; it may also stop reading.        *)
(*                                                                         *)
(* Messages about the node may be of any life and arrive in any order.     *)
(* The broadcast queue keeps one message per node; GetMessages takes it    *)
(* out when it has been sent often enough.  StateDead and StateLeft are    *)
(* one here: nothing below tells them apart.  A message that a function    *)
(* ignores changes nothing and is no step.                                 *)
(***************************************************************************)
EXTENDS Integers, Sequences, FiniteSets

CONSTANTS
  Thread,          \* the goroutines that handle messages, push/pulls and timers
  TagValue,        \* possible contents of Node.Tags
  ChSize,          \* capacity of eventCh
  MaxLives         \* bound on the lives in messages

ASSUME EventsAssumption ==
  /\ ChSize \in Nat \ {0} /\ MaxLives \in Nat
  /\ IsFiniteSet(Thread) /\ TagValue # {}

VARIABLES
  entry,           \* the nodeState, State "none" when the node is not in nodeMap
  nodeL,           \* "free", or "held" by a deadNode that sends its event
  calls,           \* calls[g]: what goroutine g has yet to do in aliveNode or deadNode
  queued,          \* the message about the node in mbroadcasts
  eventCh,
  application,     \* "reading" eventCh, or in "Members"
  tally            \* history: join minus leave events that were received or given up

vars == <<entry, nodeL, calls, queued, eventCh, application, tally>>

Lives == 1..MaxLives
NotQueued == [type |-> "none", Lives |-> 0]
Returned == [next |-> <<>>, Lives |-> 0]

DeadOrLeft == entry.State = "dead"

Init ==
  /\ entry = [State |-> "none", Lives |-> 0, Tags |-> CHOOSE t \in TagValue : TRUE]
  /\ nodeL = "free"
  /\ calls = [g \in Thread |-> Returned]
  /\ queued = NotQueued
  /\ eventCh = <<>>
  /\ application = "reading"
  /\ tally = 0

-----------------------------------------------------------------------------
\* g takes nodeL.
locks(g) == nodeL = "free" /\ calls[g] = Returned

\* What is left to be done after the critical section, in this order.
defers(g, l, next) == calls' = [calls EXCEPT ![g] = [next |-> next, Lives |-> l]]

addNode(g, l, tags) ==
  /\ locks(g) /\ entry.State = "none"
  /\ entry' = [State |-> "alive", Lives |-> l, Tags |-> tags]
  /\ defers(g, l, <<"broadcast", "join">>)
  /\ UNCHANGED <<nodeL, queued, eventCh, application, tally>>

\* What aliveNode does about a node that it knew.
reports(joins, updates) ==
  CASE joins /\ updates   -> <<"broadcast", "join", "update">>
    [] joins /\ ~updates  -> <<"broadcast", "join">>
    [] ~joins /\ updates  -> <<"broadcast", "update">>
    [] ~joins /\ ~updates -> <<"broadcast">>

\* Slip of renewNode: a node that comes back is no new node.
renewNodeNoJoin(g, l, tags) ==
  /\ locks(g) /\ entry.State # "none" /\ l > entry.Lives
  /\ entry' = [State |-> "alive", Lives |-> l, Tags |-> tags]
  /\ defers(g, l, reports(FALSE, tags # entry.Tags))
  /\ UNCHANGED <<nodeL, queued, eventCh, application, tally>>

\* Slip of renewNode: only what the application hears of is broadcast.
renewNodeQuiet(g, l, tags) ==
  /\ locks(g) /\ entry.State # "none" /\ l > entry.Lives
  /\ entry' = [State |-> "alive", Lives |-> l, Tags |-> tags]
  /\ IF DeadOrLeft THEN defers(g, l, <<"broadcast", "join">>) ELSE UNCHANGED calls
  /\ UNCHANGED <<nodeL, queued, eventCh, application, tally>>

renewNode(g, l, tags) ==
  /\ locks(g) /\ entry.State # "none" /\ l > entry.Lives
  /\ entry' = [State |-> "alive", Lives |-> l, Tags |-> tags]
  /\ defers(g, l, reports(DeadOrLeft, tags # entry.Tags))
  /\ UNCHANGED <<nodeL, queued, eventCh, application, tally>>

\* m.broadcast, under nodeL.
broadcasts(type, l) == queued' = [type |-> type, Lives |-> l]

firstSuspect(g, l) ==
  /\ locks(g) /\ entry.State = "alive" /\ l >= entry.Lives
  /\ broadcasts("suspect", l)
  /\ entry' = [State |-> "suspect", Lives |-> l, Tags |-> entry.Tags]
  /\ UNCHANGED <<nodeL, calls, eventCh, application, tally>>

\* There is a suspicion timer, and sc.Confirm returns true.
confirm(g, l) ==
  /\ locks(g) /\ entry.State = "suspect" /\ l >= entry.Lives
  /\ broadcasts("suspect", l)
  /\ UNCHANGED <<entry, nodeL, calls, eventCh, application, tally>>

\* nodeL stays locked until the event is sent.
deadNode(g, l) ==
  /\ locks(g) /\ entry.State \in {"alive", "suspect"} /\ l >= entry.Lives
  /\ broadcasts("dead", l)
  /\ entry' = [State |-> "dead", Lives |-> l, Tags |-> entry.Tags]
  /\ nodeL' = "held"
  /\ defers(g, l, <<"leave">>)
  /\ UNCHANGED <<eventCh, application, tally>>

reap ==
  /\ nodeL = "free" /\ DeadOrLeft
  /\ entry' = [State |-> "none", Lives |-> 0, Tags |-> entry.Tags]
  /\ UNCHANGED <<nodeL, calls, queued, eventCh, application, tally>>

\* g has done the first of the things it had to do.
proceeds(g) ==
  LET rest == Tail(calls[g].next)
  IN  calls' = [calls EXCEPT ![g] = IF rest = <<>> THEN Returned ELSE [next |-> rest, Lives |-> calls[g].Lives]]

toDo(g) == IF calls[g] = Returned THEN "nothing" ELSE Head(calls[g].next)

aliveBroadcast(g) ==
  /\ toDo(g) = "broadcast"
  /\ broadcasts("alive", calls[g].Lives)
  /\ proceeds(g)
  /\ UNCHANGED <<entry, nodeL, eventCh, application, tally>>

worth(event) == CASE event = "join" -> 1 [] event = "leave" -> -1 [] OTHER -> 0

\* EventManager.send; deadNode then returns and releases nodeL.
send(g) ==
  /\ toDo(g) \in {"join", "update", "leave"} /\ Len(eventCh) < ChSize
  /\ eventCh' = Append(eventCh, toDo(g))
  /\ nodeL' = IF toDo(g) = "leave" THEN "free" ELSE nodeL
  /\ proceeds(g)
  /\ UNCHANGED <<entry, queued, application, tally>>

\* Slip of sendTimeout: the event is tried again for ever.
sendRetries(g) ==
  /\ toDo(g) \in {"join", "update", "leave"} /\ Len(eventCh) = ChSize
  /\ UNCHANGED vars

\* The select's other case: nobody has read for eventMng.timeout.
sendTimeout(g) ==
  /\ toDo(g) \in {"join", "update", "leave"} /\ Len(eventCh) = ChSize
  /\ tally' = tally + worth(toDo(g))
  /\ nodeL' = IF toDo(g) = "leave" THEN "free" ELSE nodeL
  /\ proceeds(g)
  /\ UNCHANGED <<entry, queued, eventCh, application>>

\* GetMessages sends the message for the last time.
transmitted ==
  /\ queued # NotQueued
  /\ queued' = NotQueued
  /\ UNCHANGED <<entry, nodeL, calls, eventCh, application, tally>>

\* The application takes an event and goes on reading, or looks the node up first.
receiveEvent(then) ==
  /\ application = "reading" /\ eventCh # <<>>
  /\ eventCh' = Tail(eventCh)
  /\ tally' = tally + worth(Head(eventCh))
  /\ application' = then
  /\ UNCHANGED <<entry, nodeL, calls, queued>>

Members ==
  /\ application = "Members" /\ nodeL = "free"
  /\ application' = "reading"
  /\ UNCHANGED <<entry, nodeL, calls, queued, eventCh, tally>>

Next ==
  \/ \E g \in Thread, l \in Lives :
       \/ \E tags \in TagValue : addNode(g, l, tags) \/ renewNode(g, l, tags)
       \/ firstSuspect(g, l) \/ confirm(g, l) \/ deadNode(g, l)
  \/ \E g \in Thread : aliveBroadcast(g) \/ send(g) \/ sendTimeout(g)
  \/ reap \/ transmitted
  \/ \E then \in {"reading", "Members"} : receiveEvent(then)
  \/ Members

Spec == Init /\ [][Next]_vars

\* A goroutine goes on with its call, and the timeout of send expires.  A reader
\* that waits for an RWMutex gets it when the writer that holds it unlocks,
\* before the next writer: it is not overtaken for ever.  The application need
\* not read.
Fairness ==
  /\ \A g \in Thread : WF_vars(aliveBroadcast(g) \/ send(g) \/ sendTimeout(g))
  /\ SF_vars(Members)

FairSpec == Spec /\ Fairness

-----------------------------------------------------------------------------
\* The calls that have yet to send an event (no call sends one twice), and the
\* events in the channel.
sends(call, event) == \E k \in 1..Len(call.next) : call.next[k] = event
pending(event) == Cardinality({g \in Thread : sends(calls[g], event)})
inCh(event) == Cardinality({k \in 1..Len(eventCh) : eventCh[k] = event})

\* Whatever order calls and events come in, and whatever is given up: the joins
\* sent, to be sent or given up are one more than the leaves while the node is
\* alive or suspect, and as many otherwise.  aliveNode and deadNode report every
\* arrival and every departure once, also of a node that was reaped in between.
EventsAccounted ==
  tally + inCh("join") + pending("join") - inCh("leave") - pending("leave")
    = IF entry.State \in {"alive", "suspect"} THEN 1 ELSE 0

\* A suspect or dead message waits to be gossiped only as long as it is what this
\* node itself holds, or the alive message that replaces it is about to be
\* queued: although aliveNode queues its message after it has released nodeL, no
\* outdated accusation stays in the queue.
QueuedIsNewest ==
  queued.type \in {"suspect", "dead"} =>
    \/ entry.State = "none"
    \/ queued.type = entry.State /\ queued.Lives >= entry.Lives
    \/ \E g \in Thread : toDo(g) = "broadcast" /\ calls[g].Lives = entry.Lives

\* An application that calls Members between two events gets its answer, although
\* deadNode holds nodeL while it waits for that same application to read eventCh.
MembersReturns == application = "Members" ~> application = "reading"
=============================================================================
