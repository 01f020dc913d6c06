--------------------------- MODULE NodeStateProofs --------------------------
(***************************************************************************)
(* Proofs about what a member keeps per node: the events and broadcasts of *)
(* NodeEvents, for any number of goroutines, lives and tags and any size   *)
(* of eventCh; and the suspicion timer of Suspicion, for every number of   *)
(* nodes, every ConfirmCap and every antitone sequence of timeouts.  The   *)
(* two specifications share no variable, and no proof uses both.           *)
(***************************************************************************)
EXTENDS NodeEvents, Suspicion, FiniteSetTheorems, TLAPS

Event == {"join", "update", "leave"}

Agenda == {<<>>, <<"broadcast">>, <<"broadcast", "join">>, <<"broadcast", "update">>,
           <<"broadcast", "join", "update">>, <<"join">>, <<"update">>,
           <<"join", "update">>, <<"leave">>}
Call == [next : Agenda, Lives : Nat]

TypeOK ==
  /\ entry \in [State : {"none", "alive", "suspect", "dead"}, Lives : Nat, Tags : TagValue]
  /\ nodeL \in {"free", "held"}
  /\ calls \in [Thread -> Call]
  /\ \A g \in Thread : calls[g].next = <<>> => calls[g] = Returned
  /\ queued \in [type : {"none", "alive", "suspect", "dead"}, Lives : Nat]
  /\ eventCh \in Seq(Event)
  /\ tally \in Int

one(condition) == IF condition THEN 1 ELSE 0

-----------------------------------------------------------------------------
\* Two subsets of a finite set that differ at most in g differ in size by what
\* g contributes.
LEMMA CountUpdate ==
  ASSUME NEW S, IsFiniteSet(S), NEW A \in SUBSET S, NEW B \in SUBSET S, NEW g \in S,
         \A h \in S \ {g} : h \in A <=> h \in B
  PROVE  /\ Cardinality(A) \in Nat /\ Cardinality(B) \in Nat
         /\ Cardinality(B) = Cardinality(A) - one(g \in A) + one(g \in B)
<1>1. IsFiniteSet(A) /\ IsFiniteSet(B)
  BY FS_Subset, Zenon
<1>2. Cardinality(A) \in Nat /\ Cardinality(B) \in Nat
  BY <1>1, FS_CardinalityType, Zenon
<1>3. CASE g \in A /\ g \in B
  <2>1. A = B
    BY <1>3
  <2> QED
    BY <2>1, <1>2, <1>3 DEF one
<1>4. CASE g \notin A /\ g \notin B
  <2>1. A = B
    BY <1>4
  <2> QED
    BY <2>1, <1>2, <1>4 DEF one
<1>5. CASE g \in A /\ g \notin B
  <2>1. A = B \cup {g}
    BY <1>5, Zenon
  <2> QED
    BY <2>1, <1>1, <1>2, <1>5, FS_AddElement DEF one
<1>6. CASE g \notin A /\ g \in B
  <2>1. B = A \cup {g}
    BY <1>6, Zenon
  <2> QED
    BY <2>1, <1>1, <1>2, <1>6, FS_AddElement DEF one
<1> QED
  BY <1>2, <1>3, <1>4, <1>5, <1>6, Zenon

occurs(s, event) == Cardinality({k \in 1..Len(s) : s[k] = event})

\* An event that is sent is one more of its kind in the channel.
LEMMA OccursAppend ==
  ASSUME NEW s \in Seq(Event), NEW e \in Event, NEW event
  PROVE  /\ occurs(s, event) \in Nat
         /\ occurs(Append(s, e), event) = occurs(s, event) + one(e = event)
<1> DEFINE A == {k \in 1..Len(s) : s[k] = event}
           t == Append(s, e)
           B == {k \in 1..Len(t) : t[k] = event}
           n == Len(s) + 1
<1>1. Len(s) \in Nat /\ Len(t) = n /\ t[n] = e /\ \A k \in 1..Len(s) : t[k] = s[k]
  OBVIOUS
<1>2. IsFiniteSet(1..n)
  BY <1>1, FS_Interval
<1>3. A \in SUBSET (1..n) /\ B \in SUBSET (1..n) /\ n \in 1..n
  BY <1>1
<1>4. \A h \in (1..n) \ {n} : h \in A <=> h \in B
  BY <1>1
<1>5. n \notin A /\ (n \in B <=> e = event)
  BY <1>1
<1> HIDE DEF A, B, n
<1>6. Cardinality(A) \in Nat /\ Cardinality(B) = Cardinality(A) - one(n \in A) + one(n \in B)
  BY <1>2, <1>3, <1>4, CountUpdate, ZenonT(30)
<1>7. Cardinality(B) = Cardinality(A) + one(e = event)
  BY <1>5, <1>6 DEF one
<1> QED
  BY <1>6, <1>7, Zenon DEF occurs, A, B

\* An event that is received is one less of its kind in the channel.
LEMMA OccursTail ==
  ASSUME NEW s \in Seq(Event), s # <<>>, NEW event
  PROVE  /\ occurs(s, event) \in Nat /\ occurs(Tail(s), event) \in Nat
         /\ occurs(s, event) = occurs(Tail(s), event) + one(Head(s) = event)
<1> DEFINE t == Tail(s)
           A == {k \in 1..Len(t) : t[k] = event}
           B == {k \in 1..Len(s) : s[k] = event}
           C == {k \in 2..Len(s) : s[k] = event}
           f == [k \in A |-> k + 1]
<1>1. Len(s) \in Nat /\ Len(s) > 0 /\ Len(t) = Len(s) - 1 /\ \A k \in 1..Len(t) : t[k] = s[k + 1]
  OBVIOUS
<1>2. IsFiniteSet(A)
  <2>1. IsFiniteSet(1..Len(t)) /\ A \in SUBSET (1..Len(t))
    BY <1>1, FS_Interval
  <2> QED
    BY <2>1, FS_Subset, Zenon
<1>3. f \in Bijection(A, C)
  <2>1. \A k \in A : k + 1 \in C
    BY <1>1
  <2>2. \A k, j \in A : k + 1 = j + 1 => k = j
    BY <1>1
  <2>3. \A k \in C : k - 1 \in A /\ f[k - 1] = k
    BY <1>1
  <2> QED
    BY <2>1, <2>2, <2>3, Zenon DEF Bijection, Injection, Surjection, IsInjective
<1> HIDE DEF A, C, f
<1>4. Cardinality(A) = Cardinality(C)
  BY <1>2, <1>3, FS_Bijection, Zenon DEF ExistsBijection
<1> USE DEF A, C
<1>5. IsFiniteSet(1..Len(s))
  BY <1>1, FS_Interval
<1>a. /\ C \in SUBSET (1..Len(s)) /\ B \in SUBSET (1..Len(s))
      /\ 1 \in 1..Len(s) /\ 1 \notin C
      /\ \A h \in (1..Len(s)) \ {1} : h \in C <=> h \in B
  BY <1>1
<1>b. 1 \in B <=> Head(s) = event
  BY <1>1
<1> HIDE DEF A, B, C
<1>6. Cardinality(C) \in Nat /\ Cardinality(B) = Cardinality(C) - one(1 \in C) + one(1 \in B)
  BY <1>5, <1>a, CountUpdate, ZenonT(30)
<1>7. Cardinality(B) = Cardinality(A) + one(Head(s) = event)
  BY <1>4, <1>a, <1>b, <1>6 DEF one
<1>8. one(Head(s) = event) \in Nat
  BY Zenon DEF one
<1>9. occurs(s, event) = Cardinality(B)
  BY Zenon DEF occurs, B
<1>c. occurs(t, event) = Cardinality(A)
  <2> HIDE DEF t
  <2> QED
    BY Zenon DEF occurs, A
<1> HIDE DEF A, C
<1> QED
  BY <1>4, <1>6, <1>7, <1>8, <1>9, <1>c

has(next, event) == \E k \in 1..Len(next) : next[k] = event

\* What a call has to do, in terms of what it has to do first.
LEMMA AgendaTail ==
  ASSUME NEW next \in Agenda, next # <<>>
  PROVE  /\ Tail(next) \in Agenda
         /\ Head(next) \in Event \cup {"broadcast"}
         /\ \A event : has(next, event) <=> event = Head(next) \/ has(Tail(next), event)
         /\ ~ has(Tail(next), Head(next))
<1>1. CASE next = <<"broadcast">>
  BY <1>1 DEF Agenda, Event, has
<1>2. CASE next = <<"broadcast", "join">>
  BY <1>2 DEF Agenda, Event, has
<1>3. CASE next = <<"broadcast", "update">>
  BY <1>3 DEF Agenda, Event, has
<1>4. CASE next = <<"broadcast", "join", "update">>
  BY <1>4 DEF Agenda, Event, has
<1>5. CASE next = <<"join">>
  BY <1>5 DEF Agenda, Event, has
<1>6. CASE next = <<"update">>
  BY <1>6 DEF Agenda, Event, has
<1>7. CASE next = <<"join", "update">>
  BY <1>7 DEF Agenda, Event, has
<1>8. CASE next = <<"leave">>
  BY <1>8 DEF Agenda, Event, has
<1> QED
  BY <1>1, <1>2, <1>3, <1>4, <1>5, <1>6, <1>7, <1>8, Zenon DEF Agenda

\* What renewNode and the other critical sections leave to be done.
LEMMA Agendas ==
  ASSUME NEW joins \in BOOLEAN, NEW updates \in BOOLEAN
  PROVE  /\ reports(joins, updates) \in Agenda
         /\ Head(reports(joins, updates)) = "broadcast"
         /\ has(reports(joins, updates), "join") <=> joins
         /\ ~ has(reports(joins, updates), "leave")
         /\ reports(joins, updates) # <<>>
<1>1. CASE joins /\ updates
  BY <1>1 DEF Agenda, reports, has
<1>2. CASE joins /\ ~updates
  BY <1>2 DEF Agenda, reports, has
<1>3. CASE ~joins /\ updates
  BY <1>3 DEF Agenda, reports, has
<1>4. CASE ~joins /\ ~updates
  BY <1>4 DEF Agenda, reports, has
<1> QED
  BY <1>1, <1>2, <1>3, <1>4, Zenon

\* What addNode and deadNode leave to do after the entry has changed.
LEMMA OtherAgendas ==
  /\ <<"broadcast", "join">> = reports(TRUE, FALSE)
  /\ <<>> \in Agenda /\ <<"leave">> \in Agenda /\ Head(<<"leave">>) = "leave"
  /\ <<"leave">> # <<>>
  /\ ~ has(<<>>, "join") /\ ~ has(<<>>, "leave")
  /\ ~ has(<<"leave">>, "join") /\ has(<<"leave">>, "leave")
BY DEF Agenda, reports, has

-----------------------------------------------------------------------------
\* How many calls have an event to send, when one of the calls changes.
LEMMA PendingUpdate ==
  ASSUME calls \in [Thread -> Call], NEW g \in Thread, NEW c \in Call,
         calls' = [calls EXCEPT ![g] = c], NEW event
  PROVE  /\ pending(event) \in Nat
         /\ pending(event)' = pending(event) - one(has(calls[g].next, event))
                                             + one(has(c.next, event))
<1> DEFINE A == {h \in Thread : sends(calls[h], event)}
           B == {h \in Thread : sends(calls'[h], event)}
<1>1. A \in SUBSET Thread /\ B \in SUBSET Thread
  BY Zenon
<1>2. calls'[g] = c /\ \A h \in Thread \ {g} : calls'[h] = calls[h]
  BY Zenon
<1>3. \A h \in Thread \ {g} : h \in A <=> h \in B
  BY <1>2, Zenon
<1>4. (g \in A <=> has(calls[g].next, event)) /\ (g \in B <=> has(c.next, event))
  BY <1>2, Zenon DEF sends, has
<1>5. pending(event) = Cardinality(A)
  BY Zenon DEF pending
<1>6. pending(event)' = Cardinality(B)
  BY Zenon DEF pending, sends
<1> HIDE DEF A, B
<1>7. Cardinality(A) \in Nat /\ Cardinality(B) = Cardinality(A) - one(g \in A) + one(g \in B)
  BY <1>1, <1>3, CountUpdate, EventsAssumption
<1> QED
  BY <1>4, <1>5, <1>6, <1>7, Zenon DEF one

\* A goroutine that has changed the entry has its broadcast and events yet to do;
\* the other goroutines go on as before.
LEMMA Defers ==
  ASSUME TypeOK, NEW g \in Thread, calls[g] = Returned, NEW l \in Nat,
         NEW next \in Agenda, next # <<>>, defers(g, l, next)
  PROVE  /\ calls' \in [Thread -> Call]
         /\ \A h \in Thread : calls'[h].next = <<>> => calls'[h] = Returned
         /\ calls'[g] = [next |-> next, Lives |-> l]
         /\ pending("join")' = pending("join") + one(has(next, "join"))
         /\ pending("leave")' = pending("leave") + one(has(next, "leave"))
<1> DEFINE c == [next |-> next, Lives |-> l]
<1>1. c \in Call /\ calls \in [Thread -> Call] /\ calls' = [calls EXCEPT ![g] = c]
  BY Zenon DEF Call, TypeOK, defers
<1>2. /\ calls' \in [Thread -> Call]
      /\ \A h \in Thread : calls'[h].next = <<>> => calls'[h] = Returned
      /\ calls'[g] = c
  BY <1>1, Zenon DEF TypeOK
<1>3. c.next = next /\ calls[g].next = <<>>
  BY DEF Returned
<1> HIDE DEF c
<1>4. \A event \in {"join", "leave"} :
        /\ pending(event) \in Nat
        /\ pending(event)' = pending(event) - one(has(<<>>, event)) + one(has(next, event))
  BY <1>1, <1>3, PendingUpdate, Zenon
<1>5. \A event \in {"join", "leave"} :
        pending(event) \in Nat /\ pending(event)' = pending(event) + one(has(next, event))
  BY <1>4, OtherAgendas DEF one
<1> QED
  BY <1>2, <1>5, Zenon DEF c

\* A goroutine that has sent its broadcast or event goes on with the next.
LEMMA Proceeds ==
  ASSUME TypeOK, NEW g \in Thread, calls[g] # Returned, proceeds(g)
  PROVE  /\ calls' \in [Thread -> Call]
         /\ \A h \in Thread : calls'[h].next = <<>> => calls'[h] = Returned
         /\ toDo(g) \in Event \cup {"broadcast"}
         /\ \A h \in Thread \ {g} : calls'[h] = calls[h]
         /\ pending("join")' = pending("join") - one(toDo(g) = "join")
         /\ pending("leave")' = pending("leave") - one(toDo(g) = "leave")
<1> DEFINE next == calls[g].next
           rest == Tail(next)
           c == IF rest = <<>> THEN Returned ELSE [next |-> rest, Lives |-> calls[g].Lives]
<1>1. /\ calls \in [Thread -> Call] /\ next \in Agenda /\ next # <<>> /\ calls[g].Lives \in Nat
      /\ toDo(g) = Head(next)
  BY Zenon DEF TypeOK, Call, toDo
<1>2. /\ rest \in Agenda /\ Head(next) \in Event \cup {"broadcast"}
      /\ \A event : has(next, event) <=> event = Head(next) \/ has(rest, event)
      /\ ~ has(rest, Head(next))
  BY <1>1, AgendaTail, Zenon
<1>3. calls' = [calls EXCEPT ![g] = c]
  BY Zenon DEF proceeds
<1>4. c \in Call /\ c.next = rest /\ (c.next = <<>> => c = Returned)
  BY <1>1, <1>2, OtherAgendas, Zenon DEF Returned, Call
<1> HIDE DEF c, next, rest
<1>5. /\ calls' \in [Thread -> Call]
      /\ \A h \in Thread : calls'[h].next = <<>> => calls'[h] = Returned
      /\ \A h \in Thread \ {g} : calls'[h] = calls[h]
  BY <1>1, <1>3, <1>4, Zenon DEF TypeOK
<1>6. \A event \in {"join", "leave"} :
        /\ pending(event) \in Nat
        /\ pending(event)' = pending(event) - one(has(next, event)) + one(has(rest, event))
  BY <1>1, <1>3, <1>4, PendingUpdate, Zenon DEF next
<1>7. \A event \in {"join", "leave"} :
        pending(event) \in Nat /\ pending(event)' = pending(event) - one(toDo(g) = event)
  BY <1>1, <1>2, <1>6 DEF one
<1> QED
  BY <1>1, <1>2, <1>5, <1>7, Zenon

-----------------------------------------------------------------------------
\* The critical sections of the three functions: what calls[g] is and what it
\* becomes.
LEMMA Sections ==
  ASSUME TypeOK, NEW g \in Thread, NEW l \in Lives, NEW tags \in TagValue
  PROVE  /\ addNode(g, l, tags) =>
              /\ calls[g] = Returned /\ defers(g, l, reports(TRUE, FALSE))
              /\ UNCHANGED <<nodeL, queued, eventCh, tally>>
              /\ entry.State = "none" /\ entry'.State = "alive" /\ entry'.Lives = l
         /\ renewNode(g, l, tags) =>
              /\ calls[g] = Returned
              /\ defers(g, l, reports(entry.State = "dead", tags # entry.Tags))
              /\ UNCHANGED <<nodeL, queued, eventCh, tally>>
              /\ entry.State # "none" /\ entry'.State = "alive" /\ entry'.Lives = l
         /\ l \in Nat
<1>1. l \in Nat
  BY EventsAssumption DEF Lives
<1>2. addNode(g, l, tags) =>
        /\ calls[g] = Returned /\ defers(g, l, reports(TRUE, FALSE))
        /\ UNCHANGED <<nodeL, queued, eventCh, tally>>
        /\ entry.State = "none" /\ entry'.State = "alive" /\ entry'.Lives = l
  <2>1. addNode(g, l, tags) => defers(g, l, reports(TRUE, FALSE))
    BY OtherAgendas, Zenon DEF addNode
  <2>2. addNode(g, l, tags) =>
          /\ calls[g] = Returned /\ UNCHANGED <<nodeL, queued, eventCh, tally>>
          /\ entry.State = "none" /\ entry'.State = "alive" /\ entry'.Lives = l
    BY DEF addNode, locks
  <2> QED
    BY <2>1, <2>2, Zenon
<1>3. renewNode(g, l, tags) =>
        /\ calls[g] = Returned
        /\ defers(g, l, reports(entry.State = "dead", tags # entry.Tags))
        /\ UNCHANGED <<nodeL, queued, eventCh, tally>>
        /\ entry.State # "none" /\ entry'.State = "alive" /\ entry'.Lives = l
  <2>1. renewNode(g, l, tags) => defers(g, l, reports(entry.State = "dead", tags # entry.Tags))
    BY Zenon DEF renewNode, DeadOrLeft
  <2>2. renewNode(g, l, tags) =>
          /\ calls[g] = Returned /\ UNCHANGED <<nodeL, queued, eventCh, tally>>
          /\ entry.State # "none" /\ entry'.State = "alive" /\ entry'.Lives = l
    BY DEF renewNode, locks
  <2> QED
    BY <2>1, <2>2, Zenon
<1> QED
  BY <1>1, <1>2, <1>3, Zenon

\* Every step keeps the types.
LEMMA TypeStep == TypeOK /\ [Next]_vars => TypeOK'
<1> SUFFICES ASSUME TypeOK, [Next]_vars PROVE TypeOK'
  BY Zenon
<1> USE DEF TypeOK
<1>1. ASSUME NEW g \in Thread, NEW l \in Lives, NEW tags \in TagValue, addNode(g, l, tags)
      PROVE  TypeOK'
  <2>1. /\ calls' \in [Thread -> Call]
        /\ \A h \in Thread : calls'[h].next = <<>> => calls'[h] = Returned
    BY <1>1, Sections, Agendas, Defers, Zenon
  <2> QED
    BY <1>1, <2>1, EventsAssumption DEF addNode, Lives
<1>2. ASSUME NEW g \in Thread, NEW l \in Lives, NEW tags \in TagValue, renewNode(g, l, tags)
      PROVE  TypeOK'
  <2>1. /\ calls' \in [Thread -> Call]
        /\ \A h \in Thread : calls'[h].next = <<>> => calls'[h] = Returned
    BY <1>2, Sections, Agendas, Defers, Zenon
  <2> QED
    BY <1>2, <2>1, EventsAssumption DEF renewNode, Lives
<1>3. ASSUME NEW g \in Thread, NEW l \in Lives, firstSuspect(g, l) \/ confirm(g, l) PROVE TypeOK'
  BY <1>3, EventsAssumption DEF firstSuspect, confirm, broadcasts, Lives
<1>4. ASSUME NEW g \in Thread, NEW l \in Lives, deadNode(g, l) PROVE TypeOK'
  <2>1. calls[g] = Returned /\ l \in Nat /\ defers(g, l, <<"leave">>)
    BY <1>4, EventsAssumption DEF deadNode, locks, Lives
  <2>2. /\ calls' \in [Thread -> Call]
        /\ \A h \in Thread : calls'[h].next = <<>> => calls'[h] = Returned
    BY <2>1, OtherAgendas, Defers, Zenon
  <2> QED
    BY <1>4, <2>1, <2>2, Zenon DEF deadNode, broadcasts
<1>5. ASSUME NEW g \in Thread, aliveBroadcast(g) \/ send(g) \/ sendTimeout(g) PROVE TypeOK'
  <2>1. calls[g] # Returned /\ proceeds(g)
    BY <1>5, Zenon DEF aliveBroadcast, send, sendTimeout, toDo
  <2>2. /\ calls' \in [Thread -> Call]
        /\ \A h \in Thread : calls'[h].next = <<>> => calls'[h] = Returned
    BY <2>1, Proceeds, Zenon
  <2>3. CASE aliveBroadcast(g)
    BY <2>2, <2>3, Zenon DEF aliveBroadcast, broadcasts, Call
  <2>4. CASE send(g)
    BY <2>2, <2>4 DEF send, Event
  <2>5. CASE sendTimeout(g)
    BY <2>2, <2>5 DEF sendTimeout, worth
  <2> QED
    BY <1>5, <2>3, <2>4, <2>5, Zenon
<1>6. CASE reap \/ transmitted \/ Members
  BY <1>6 DEF reap, transmitted, Members, NotQueued
<1>7. ASSUME NEW then \in {"reading", "Members"}, receiveEvent(then) PROVE TypeOK'
  BY <1>7 DEF receiveEvent, worth
<1>8. CASE UNCHANGED vars
  BY <1>8, Zenon DEF vars
<1> QED
  BY <1>1, <1>2, <1>3, <1>4, <1>5, <1>6, <1>7, <1>8, Zenon DEF Next

-----------------------------------------------------------------------------
active == entry.State \in {"alive", "suspect"}
counted == tally + occurs(eventCh, "join") + pending("join")
                 - occurs(eventCh, "leave") - pending("leave")

\* EventsAccounted in terms of the operators the lemmas are about.
LEMMA Counted == EventsAccounted <=> counted = one(active)
BY Zenon DEF EventsAccounted, counted, one, active, inCh, occurs

\* Every step of aliveNode, deadNode, reap and the application accounts for the
\* events that it owes, sends, gives up or receives.
LEMMA AccountedStep == TypeOK /\ EventsAccounted /\ [Next]_vars => EventsAccounted'
<1> SUFFICES ASSUME TypeOK, EventsAccounted, [Next]_vars PROVE EventsAccounted'
  BY Zenon
<1>a. EventsAccounted' <=> counted' = one(active')
  BY Zenon DEF EventsAccounted, counted, one, active, inCh, occurs
<1> DEFINE j == occurs(eventCh, "join")
           v == occurs(eventCh, "leave")
           goal == counted' = one(active')
<1>b. counted = one(active)
  BY Counted, Zenon
<1>c. j \in Nat /\ v \in Nat /\ tally \in Int /\ eventCh \in Seq(Event)
  BY OccursAppend, Zenon DEF TypeOK, Event
<1>d. pending("join") \in Nat /\ pending("leave") \in Nat
  <2>1. \A event : IsFiniteSet({h \in Thread : sends(calls[h], event)})
    BY EventsAssumption, FS_Subset, Zenon
  <2> QED
    BY <2>1, FS_CardinalityType, Zenon DEF pending
<1>1. ASSUME NEW g \in Thread, NEW l \in Lives, NEW tags \in TagValue, addNode(g, l, tags)
      PROVE  goal
  <2> DEFINE new == reports(TRUE, FALSE)
  <2>1. /\ calls[g] = Returned /\ defers(g, l, new) /\ l \in Nat
        /\ entry.State = "none" /\ entry'.State = "alive" /\ UNCHANGED <<eventCh, tally>>
    BY <1>1, Sections, Zenon
  <2>2. new \in Agenda /\ new # <<>> /\ one(has(new, "leave")) = 0 /\ one(has(new, "join")) = 1
    BY Agendas, Zenon DEF one
  <2> HIDE DEF new
  <2>3. /\ pending("join")' = pending("join") + one(has(new, "join"))
        /\ pending("leave")' = pending("leave") + one(has(new, "leave"))
    BY <2>1, <2>2, Defers, Zenon
  <2>4. active' /\ ~active
    BY <2>1, Zenon DEF active
  <2>5. counted' = counted + 1
    BY <1>c, <1>d, <2>1, <2>2, <2>3 DEF counted
  <2> QED
    BY <1>b, <2>4, <2>5 DEF one
<1>2. ASSUME NEW g \in Thread, NEW l \in Lives, NEW tags \in TagValue, renewNode(g, l, tags)
      PROVE  goal
  <2> DEFINE new == reports(entry.State = "dead", tags # entry.Tags)
  <2>1. /\ calls[g] = Returned /\ defers(g, l, new) /\ UNCHANGED <<eventCh, tally>>
        /\ entry.State # "none" /\ entry'.State = "alive" /\ l \in Nat
    BY <1>2, Sections, Zenon
  <2>2. /\ new \in Agenda /\ new # <<>> /\ one(has(new, "leave")) = 0
        /\ one(has(new, "join")) = IF entry.State = "dead" THEN 1 ELSE 0
    BY Agendas, Zenon DEF one
  <2> HIDE DEF new
  <2>3. /\ pending("join")' = pending("join") + one(has(new, "join"))
        /\ pending("leave")' = pending("leave") + one(has(new, "leave"))
    BY <2>1, <2>2, Defers, Zenon
  <2>4. active' /\ (active <=> entry.State # "dead")
    BY <2>1, Zenon DEF TypeOK, active
  <2>5. counted' = counted + one(has(new, "join"))
    BY <1>c, <1>d, <2>1, <2>2, <2>3 DEF counted
  <2> QED
    BY <1>b, <2>2, <2>4, <2>5 DEF one
<1>3. ASSUME NEW g \in Thread, NEW l \in Lives, firstSuspect(g, l) \/ confirm(g, l) PROVE goal
  <2>1. /\ UNCHANGED <<eventCh, calls, tally>> /\ (active <=> active')
    BY <1>3 DEF firstSuspect, confirm, active
  <2> QED
    BY <1>b, <2>1, Zenon DEF counted, one, pending
<1>4. ASSUME NEW g \in Thread, NEW l \in Lives, deadNode(g, l) PROVE goal
  <2>1. /\ calls[g] = Returned /\ l \in Nat /\ defers(g, l, <<"leave">>)
        /\ UNCHANGED <<eventCh, tally>> /\ active /\ ~active'
    BY <1>4, EventsAssumption DEF deadNode, locks, Lives, active
  <2>2. /\ pending("join")' = pending("join") + one(has(<<"leave">>, "join"))
        /\ pending("leave")' = pending("leave") + one(has(<<"leave">>, "leave"))
    BY <2>1, OtherAgendas, Defers, Zenon
  <2>3. one(has(<<"leave">>, "join")) = 0 /\ one(has(<<"leave">>, "leave")) = 1
    BY OtherAgendas, Zenon DEF one
  <2> QED
    BY <1>b, <1>c, <1>d, <2>1, <2>2, <2>3, SMTT(30) DEF counted, one
<1>5. ASSUME NEW g \in Thread, aliveBroadcast(g) \/ send(g) \/ sendTimeout(g) PROVE goal
  <2> DEFINE e == toDo(g)
  <2>1. calls[g] # Returned /\ proceeds(g) /\ (active' <=> active)
    BY <1>5, Zenon DEF aliveBroadcast, send, sendTimeout, toDo, active
  <2>2. /\ pending("join")' = pending("join") - one(e = "join")
        /\ pending("leave")' = pending("leave") - one(e = "leave")
    BY <2>1, Proceeds, Zenon
  <2>3. CASE aliveBroadcast(g)
    <3>1. e = "broadcast" /\ UNCHANGED <<eventCh, tally>>
      BY <2>3, Zenon DEF aliveBroadcast
    <3> QED
      BY <1>b, <1>c, <1>d, <2>1, <2>2, <3>1 DEF counted, one
  <2>4. CASE send(g)
    <3>1. e \in Event /\ eventCh' = Append(eventCh, e) /\ UNCHANGED tally
      BY <2>4, Zenon DEF send, Event
    <3> HIDE DEF e
    <3> DEFINE a == one(e = "join")
               b == one(e = "leave")
               j1 == occurs(eventCh', "join")
               v1 == occurs(eventCh', "leave")
    <3>2. j1 = j + a /\ v1 = v + b
      BY <1>c, <3>1, OccursAppend
    <3>3. a \in Nat /\ b \in Nat
      BY Zenon DEF one
    <3>4. counted' = tally' + j1 + pending("join")' - v1 - pending("leave")'
      BY Zenon DEF counted
    <3>5. counted = tally + j + pending("join") - v - pending("leave")
      BY Zenon DEF counted
    <3>6. pending("join")' = pending("join") - a /\ pending("leave")' = pending("leave") - b
      BY <2>2, Zenon
    <3> HIDE DEF j, v, a, b, j1, v1, counted
    <3>7. counted' = counted
      <4>1. tally' = tally /\ tally \in Int /\ j \in Nat /\ v \in Nat
        BY <1>c, <3>1, Zenon
      <4> QED
        BY <1>d, <3>2, <3>3, <3>4, <3>5, <3>6, <4>1, SMTT(60)
    <3> QED
      BY <1>b, <2>1, <3>7, Zenon DEF one
  <2>5. CASE sendTimeout(g)
    <3>1. UNCHANGED eventCh /\ tally' = tally + worth(e)
      BY <2>5, Zenon DEF sendTimeout
    <3> HIDE DEF e
    <3>2. tally' = tally + one(e = "join") - one(e = "leave")
      BY <1>c, <3>1 DEF worth, one
    <3> HIDE DEF e
    <3> QED
      BY <1>b, <1>c, <1>d, <2>1, <2>2, <3>1, <3>2, SMTT(30) DEF counted, one
  <2> QED
    BY <1>5, <2>3, <2>4, <2>5, Zenon
<1>6. ASSUME reap \/ transmitted \/ Members \/ UNCHANGED vars PROVE goal
  <2>1. /\ UNCHANGED <<eventCh, calls, tally>> /\ (active <=> active')
    BY <1>6 DEF reap, transmitted, Members, vars, active, DeadOrLeft
  <2> QED
    BY <1>b, <2>1, Zenon DEF counted, one, pending
<1>7. ASSUME NEW then \in {"reading", "Members"}, receiveEvent(then) PROVE goal
  <2> DEFINE e == Head(eventCh)
             j1 == occurs(Tail(eventCh), "join")
             v1 == occurs(Tail(eventCh), "leave")
             a == one(e = "join")
             b == one(e = "leave")
  <2>1. /\ eventCh # <<>> /\ eventCh' = Tail(eventCh) /\ tally' = tally + worth(e)
        /\ UNCHANGED <<calls, entry>>
    BY <1>7, Zenon DEF receiveEvent
  <2>2. tally' = tally + a - b
    <3> HIDE DEF e
    <3> QED
      BY <1>c, <2>1 DEF worth, one
  <2>3. j1 \in Nat /\ v1 \in Nat /\ j = j1 + a /\ v = v1 + b
    BY <1>c, <2>1, OccursTail
  <2>4. pending("join")' = pending("join") /\ pending("leave")' = pending("leave")
    BY <2>1, Zenon DEF pending
  <2>5. (active' <=> active) /\ a \in Nat /\ b \in Nat
    BY <2>1, Zenon DEF active, one
  <2>a. occurs(eventCh', "join") = j1 /\ occurs(eventCh', "leave") = v1
    BY <2>1, Zenon
  <2> HIDE DEF e, j1, v1, a, b
  <2>6. counted' = counted
    <3>1. counted' = tally' + j1 + pending("join")' - v1 - pending("leave")'
      BY <2>a, Zenon DEF counted
    <3>2. counted = tally + j + pending("join") - v - pending("leave")
      BY Zenon DEF counted
    <3> HIDE DEF j, v, counted
    <3> QED
      BY <1>c, <1>d, <2>2, <2>3, <2>4, <2>5, <3>1, <3>2
  <2> QED
    BY <1>b, <2>5, <2>6, Zenon DEF one
<1> QED
  BY <1>a, <1>1, <1>2, <1>3, <1>4, <1>5, <1>6, <1>7, Zenon DEF Next

-----------------------------------------------------------------------------
\* Every step leaves in the broadcast queue nothing older than the entry.
LEMMA QueuedStep == TypeOK /\ QueuedIsNewest /\ [Next]_vars => QueuedIsNewest'
<1> SUFFICES ASSUME TypeOK, QueuedIsNewest, [Next]_vars PROVE QueuedIsNewest'
  BY Zenon
<1>1. ASSUME NEW g \in Thread, NEW l \in Lives, NEW tags \in TagValue,
             addNode(g, l, tags) \/ renewNode(g, l, tags)
      PROVE  QueuedIsNewest'
  <2>1. \E next \in Agenda : /\ calls[g] = Returned /\ l \in Nat /\ defers(g, l, next)
                             /\ next # <<>> /\ Head(next) = "broadcast" /\ entry'.Lives = l
    <3>1. CASE addNode(g, l, tags)
      BY <3>1, Sections, Agendas, Zenon
    <3>2. CASE renewNode(g, l, tags)
      BY <3>2, Sections, Agendas, Zenon
    <3> QED
      BY <1>1, <3>1, <3>2, Zenon
  <2>2. PICK next \in Agenda : /\ calls[g] = Returned /\ l \in Nat /\ defers(g, l, next)
                             /\ next # <<>> /\ Head(next) = "broadcast" /\ entry'.Lives = l
    BY <2>1, Zenon
  <2>3. calls'[g] = [next |-> next, Lives |-> l]
    BY <2>2, Defers, Zenon
  <2>4. toDo(g)' = "broadcast" /\ calls'[g].Lives = entry'.Lives
    BY <2>2, <2>3 DEF toDo, Returned
  <2> QED
    BY <2>4, Zenon DEF QueuedIsNewest
<1>2. ASSUME NEW g \in Thread, NEW l \in Lives, firstSuspect(g, l) \/ confirm(g, l) \/ deadNode(g, l)
      PROVE  QueuedIsNewest'
  BY <1>2, EventsAssumption DEF firstSuspect, confirm, deadNode, broadcasts, QueuedIsNewest, Lives
<1>3. ASSUME NEW g \in Thread, aliveBroadcast(g) PROVE QueuedIsNewest'
  BY <1>3, Zenon DEF aliveBroadcast, broadcasts, QueuedIsNewest
<1>4. ASSUME NEW g \in Thread, send(g) \/ sendTimeout(g) PROVE QueuedIsNewest'
  <2>1. /\ calls[g] # Returned /\ proceeds(g) /\ toDo(g) # "broadcast"
        /\ UNCHANGED <<entry, queued>>
    BY <1>4, Zenon DEF send, sendTimeout, toDo
  <2>2. \A h \in Thread \ {g} : calls'[h] = calls[h]
    BY <2>1, Proceeds, Zenon
  <2>3. \A h \in Thread : toDo(h) = "broadcast" =>
          toDo(h)' = "broadcast" /\ calls'[h].Lives = calls[h].Lives
    BY <2>1, <2>2, Zenon DEF toDo
  <2> QED
    BY <2>1, <2>3, Zenon DEF QueuedIsNewest
<1>5. CASE reap
  BY <1>5, Zenon DEF reap, QueuedIsNewest
<1>6. CASE transmitted
  BY <1>6, Zenon DEF transmitted, QueuedIsNewest, NotQueued
<1>7. CASE Members \/ UNCHANGED vars \/ \E then \in {"reading", "Members"} : receiveEvent(then)
  BY <1>7, Zenon DEF Members, vars, receiveEvent, QueuedIsNewest, toDo
<1> QED
  BY <1>1, <1>2, <1>3, <1>4, <1>5, <1>6, <1>7, Zenon DEF Next

-----------------------------------------------------------------------------
\* The invariants hold before the first call.
LEMMA InitHolds == Init => TypeOK /\ EventsAccounted /\ QueuedIsNewest
<1> SUFFICES ASSUME Init PROVE TypeOK /\ EventsAccounted /\ QueuedIsNewest
  BY Zenon
<1>1. TypeOK
  BY EventsAssumption, OtherAgendas DEF Init, TypeOK, Call, Returned, NotQueued
<1>2. QueuedIsNewest
  BY Zenon DEF Init, NotQueued, QueuedIsNewest
<1>3. EventsAccounted
  <2>1. \A event \in {"join", "leave"} : {g \in Thread : sends(calls[g], event)} = {}
    BY DEF Init, Returned, sends
  <2>2. \A event \in {"join", "leave"} : pending(event) = 0
    BY <2>1, FS_EmptySet, Zenon DEF pending
  <2>3. \A event : {k \in 1..Len(eventCh) : eventCh[k] = event} = {}
    BY DEF Init
  <2>4. \A event : inCh(event) = 0
    BY <2>3, FS_EmptySet, Zenon DEF inCh
  <2> QED
    BY <2>2, <2>4 DEF EventsAccounted, Init
<1> QED
  BY <1>1, <1>2, <1>3, Zenon

\* Whatever order calls and events come in, and whatever is given up because the
\* application does not read: aliveNode and deadNode report every arrival and
\* every departure once.  For any number of goroutines and any size of eventCh.
THEOREM EveryEventAccounted == Spec => []EventsAccounted
<1>1. TypeOK /\ EventsAccounted /\ [Next]_vars => TypeOK' /\ EventsAccounted'
  BY TypeStep, AccountedStep, Zenon
<1> QED
  BY <1>1, InitHolds, PTL DEF Spec

\* No suspect or dead message that aliveNode has refuted stays in the broadcast
\* queue, although aliveNode queues its own message after it has released nodeL.
THEOREM QueueHoldsNewest == Spec => []QueuedIsNewest
<1>1. TypeOK /\ QueuedIsNewest /\ [Next]_vars => TypeOK' /\ QueuedIsNewest'
  BY TypeStep, QueuedStep, Zenon
<1> QED
  BY <1>1, InitHolds, PTL DEF Spec

-----------------------------------------------------------------------------
\* Time stands still once the timer is gone, and does not overtake it before.
NowBound == now <= MaxTimeout + Slack

SuspicionInv == SuspicionTypeOK /\ StartedOnce /\ DeadlineMatchesConfirms /\ StartedInTime /\ NowBound

\* What remainingTime computes lies between the two timeouts.
LEMMA TimeoutBounds ==
  ASSUME NEW k \in Nat, k >= 1
  PROVE  timeoutAfter(k) \in MinTimeout..MaxTimeout
<1>1. CASE k >= ConfirmCap
  BY <1>1, SuspicionAssumption DEF timeoutAfter
<1>2. CASE k < ConfirmCap
  <2>1. k \in 1..(ConfirmCap - 1) /\ 1 \in 1..(ConfirmCap - 1) /\ ConfirmCap > 1
    BY <1>2, SuspicionAssumption
  <2>2. Interpolated[k] \in Nat /\ Interpolated[k] >= MinTimeout /\ Interpolated[k] <= Interpolated[1]
    BY <2>1, SuspicionAssumption, Zenon
  <2>3. timeoutAfter(k) = Interpolated[k]
    BY <1>2, SuspicionAssumption DEF timeoutAfter
  <2> QED BY <2>1, <2>2, <2>3, SuspicionAssumption
<1> QED BY <1>1, <1>2, SuspicionAssumption

\* One more confirmation never makes the timeout longer.
LEMMA TimeoutsShrink ==
  ASSUME NEW k \in Nat, k >= 1
  PROVE  timeoutAfter(k + 1) <= timeoutAfter(k) /\ timeoutAfter(k) \in Int
<1>1. CASE k + 1 >= ConfirmCap
  <2>1. timeoutAfter(k + 1) = MinTimeout
    BY <1>1, Zenon DEF timeoutAfter
  <2> QED BY <2>1, TimeoutBounds, SuspicionAssumption
<1>2. CASE k + 1 < ConfirmCap
  <2>1. k \in 1..(ConfirmCap - 1) /\ k + 1 \in 1..(ConfirmCap - 1)
    BY <1>2, SuspicionAssumption
  <2>2. timeoutAfter(k) = Interpolated[k] /\ timeoutAfter(k + 1) = Interpolated[k + 1]
    BY <1>2, SuspicionAssumption DEF timeoutAfter
  <2>3. Interpolated[k + 1] <= Interpolated[k] /\ Interpolated[k] \in Nat
    BY <2>1, SuspicionAssumption
  <2> QED BY <2>2, <2>3
<1> QED BY <1>1, <1>2, SuspicionAssumption

\* A nonempty finite set of confirmations has at least one member.
LEMMA ConfirmsCounted ==
  ASSUME NEW S, IsFiniteSet(S), S # {}
  PROVE  Cardinality(S) \in Nat /\ Cardinality(S) >= 1
<1>1. Cardinality(S) \in Nat
  BY FS_CardinalityType, Zenon
<1>2. Cardinality(S) # 0
  BY FS_EmptySet, Zenon
<1> QED BY <1>1, <1>2

\* A new timer is set for the one confirmation that started the suspicion.
LEMMA InitInvariant == SuspicionInit => SuspicionInv
<1> SUFFICES ASSUME SuspicionInit PROVE SuspicionInv
  BY Zenon
<1>1. PICK from \in From : confirmMap = {from}
  BY Zenon DEF SuspicionInit
<1>2. IsFiniteSet(confirmMap) /\ Cardinality(confirmMap) = 1
  BY <1>1, FS_Singleton, Zenon
<1>3. initialTimeout = timeoutAfter(1) /\ initialTimeout \in Nat
  <2>1. CASE ConfirmCap <= 1
    BY <2>1, SuspicionAssumption, Zenon DEF initialTimeout, timeoutAfter
  <2>2. CASE ConfirmCap > 1
    BY <2>2, SuspicionAssumption, Zenon DEF initialTimeout, timeoutAfter
  <2> QED BY <2>1, <2>2, SuspicionAssumption
<1>4. deadline = timeoutAfter(Cardinality(confirmMap)) /\ deadline # Stopped
  BY <1>2, <1>3 DEF SuspicionInit, Stopped
<1>5. SuspicionTypeOK
  BY <1>1, <1>2, <1>3, Zenon DEF SuspicionInit, SuspicionTypeOK
<1> QED
  BY <1>4, <1>5, SuspicionAssumption
     DEF SuspicionInit, SuspicionInv, StartedOnce, DeadlineMatchesConfirms, StartedInTime, NowBound

\* A step that starts timeoutFn from a set timer keeps the invariant.
LEMMA StartKeeps ==
  ASSUME SuspicionInv, start, deadline # Stopped,
         now' = now, fired' = fired,
         confirmMap' \subseteq From, IsFiniteSet(confirmMap'), confirmMap' # {},
         timeoutAfter(Cardinality(confirmMap')) <= now
  PROVE  SuspicionInv'
<1>1. Cardinality(confirmMap') \in Nat /\ Cardinality(confirmMap') >= 1
  BY ConfirmsCounted, Zenon
<1>2. timeoutAfter(Cardinality(confirmMap')) \in MinTimeout..MaxTimeout
  BY <1>1, TimeoutBounds, Zenon
<1>3. SuspicionTypeOK'
  BY <1>1 DEF SuspicionInv, SuspicionTypeOK, start, Stopped
<1>4. StartedOnce'
  BY DEF SuspicionInv, SuspicionTypeOK, StartedOnce, start, Stopped
<1>5. NowBound' /\ DeadlineMatchesConfirms'
  BY Zenon DEF SuspicionInv, NowBound, DeadlineMatchesConfirms, start
<1>6. StartedInTime'
  <2>1. firedAt' = now /\ firedWith' = Cardinality(confirmMap')
    BY Zenon DEF start
  <2>2. now \in timeoutAfter(Cardinality(confirmMap'))..(MaxTimeout + Slack)
    BY <1>2, SuspicionAssumption DEF SuspicionInv, SuspicionTypeOK, NowBound
  <2>3. timeoutAfter(firedWith)' = timeoutAfter(Cardinality(confirmMap'))
    BY <2>1, Zenon DEF timeoutAfter
  <2> QED BY <2>1, <2>2, <2>3, Zenon DEF StartedInTime
<1> QED BY <1>3, <1>4, <1>5, <1>6, Zenon DEF SuspicionInv

\* A confirmation resets the timer, or starts timeoutFn when the new timeout has
\* already passed, or comes after the timer has gone.
LEMMA ConfirmKeeps ==
  ASSUME SuspicionInv, NEW from \in From, Confirm(from)
  PROVE  SuspicionInv'
<1> DEFINE k == Cardinality(confirmMap')
<1>1. confirmMap' \subseteq From /\ IsFiniteSet(confirmMap') /\ confirmMap' # {}
  BY FS_AddElement, Zenon DEF SuspicionInv, SuspicionTypeOK, Confirm
<1>2. k \in Nat /\ k >= 1
  BY <1>1, ConfirmsCounted, Zenon
<1>3. timeoutAfter(k) \in MinTimeout..MaxTimeout
  BY <1>2, TimeoutBounds, Zenon
<1>4. now' = now /\ fired' = fired /\ restart(timeoutAfter(k))
  BY Zenon DEF Confirm
<1> HIDE DEF k
<1>5. CASE noTimer
  <2>1. StartedInTime'
    BY <1>5, Zenon DEF SuspicionInv, StartedInTime, noTimer, timeoutAfter
  <2>2. SuspicionTypeOK' /\ StartedOnce' /\ NowBound'
    BY <1>1, <1>4, <1>5, Zenon DEF SuspicionInv, SuspicionTypeOK, StartedOnce, NowBound, noTimer
  <2> QED BY <1>5, <2>1, <2>2, Zenon DEF SuspicionInv, noTimer, DeadlineMatchesConfirms
<1>6. CASE deadline # Stopped /\ timeoutAfter(k) > now /\ setTimer(timeoutAfter(k))
  <2>1. deadline' = timeoutAfter(k) /\ deadline' \in Nat /\ deadline' # Stopped
    BY <1>3, <1>6, SuspicionAssumption DEF setTimer, Stopped
  <2>2. SuspicionTypeOK' /\ StartedOnce' /\ NowBound'
    BY <1>1, <1>4, <1>6, <2>1, Zenon DEF SuspicionInv, SuspicionTypeOK, StartedOnce, NowBound, setTimer
  <2>3. DeadlineMatchesConfirms'
    BY <2>1, Zenon DEF DeadlineMatchesConfirms, k, timeoutAfter
  <2> QED BY <2>1, <2>2, <2>3, Zenon DEF SuspicionInv, StartedInTime
<1>7. CASE deadline # Stopped /\ timeoutAfter(k) <= now /\ start
  BY <1>1, <1>4, <1>7, StartKeeps, Zenon DEF k
<1> QED BY <1>4, <1>5, <1>6, <1>7, Zenon DEF restart

\* The expiry of the timer starts timeoutFn.
LEMMA ExpireKeeps ==
  ASSUME SuspicionInv, expire
  PROVE  SuspicionInv'
<1>1. deadline # Stopped /\ now >= deadline /\ start /\ now' = now /\ fired' = fired
        /\ confirmMap' = confirmMap
  BY Zenon DEF expire
<1>2. timeoutAfter(Cardinality(confirmMap')) <= now
  BY <1>1, Zenon DEF SuspicionInv, DeadlineMatchesConfirms
<1> QED BY <1>1, <1>2, StartKeeps, Zenon DEF SuspicionInv, SuspicionTypeOK

\* The goroutine of timeoutFn changes only the count of its calls.
LEMMA TimeoutFnKeeps ==
  ASSUME SuspicionInv, timeoutFn
  PROVE  SuspicionInv'
<1>1. SuspicionTypeOK' /\ StartedOnce' /\ NowBound'
  BY DEF SuspicionInv, SuspicionTypeOK, StartedOnce, NowBound, timeoutFn
<1>2. StartedInTime' /\ DeadlineMatchesConfirms'
  BY Zenon DEF SuspicionInv, StartedInTime, DeadlineMatchesConfirms, timeoutFn, timeoutAfter
<1> QED BY <1>1, <1>2, Zenon DEF SuspicionInv

\* Time passes no further than the timer allows.
LEMMA TickKeeps ==
  ASSUME SuspicionInv, tick
  PROVE  SuspicionInv'
<1>1. Cardinality(confirmMap) \in Nat /\ Cardinality(confirmMap) >= 1
  BY ConfirmsCounted, Zenon DEF SuspicionInv, SuspicionTypeOK
<1>2. deadline \in MinTimeout..MaxTimeout
  BY <1>1, TimeoutBounds, Zenon DEF SuspicionInv, DeadlineMatchesConfirms, tick
<1>3. NowBound'
  BY <1>2, SuspicionAssumption DEF SuspicionInv, SuspicionTypeOK, NowBound, tick
<1>4. SuspicionTypeOK' /\ StartedOnce'
  BY DEF SuspicionInv, SuspicionTypeOK, StartedOnce, tick
<1>5. StartedInTime' /\ DeadlineMatchesConfirms'
  BY Zenon DEF SuspicionInv, StartedInTime, DeadlineMatchesConfirms, tick, timeoutAfter
<1> QED BY <1>3, <1>4, <1>5, Zenon DEF SuspicionInv

\* A step of the rest of the program changes nothing of the timer.
LEMMA StutterKeeps ==
  ASSUME SuspicionInv, UNCHANGED suspicionVars
  PROVE  SuspicionInv'
BY Zenon DEF SuspicionInv, suspicionVars, SuspicionTypeOK, StartedOnce, DeadlineMatchesConfirms, StartedInTime, NowBound, timeoutAfter

\* The inductive invariant of the suspicion timer.
THEOREM SuspicionInvariant == SuspicionSpec => []SuspicionInv
<1>1. SuspicionInv /\ [SuspicionNext]_suspicionVars => SuspicionInv'
  BY ConfirmKeeps, ExpireKeeps, TimeoutFnKeeps, TickKeeps, StutterKeeps, Zenon DEF SuspicionNext
<1> QED BY InitInvariant, <1>1, PTL DEF SuspicionSpec

\* timeoutFn is started exactly once per suspicion, however Confirm, Stop, Reset
\* and the expiry of the timer interleave.
THEOREM TimeoutStartedOnce == SuspicionSpec => []StartedOnce
<1>1. SuspicionInv => StartedOnce
  BY Zenon DEF SuspicionInv
<1> QED BY SuspicionInvariant, <1>1, PTL

\* The timer is always set for the confirmations received so far, whatever was
\* confirmed while it ran.
THEOREM DeadlineFollowsConfirms == SuspicionSpec => []DeadlineMatchesConfirms
<1>1. SuspicionInv => DeadlineMatchesConfirms
  BY Zenon DEF SuspicionInv
<1> QED BY SuspicionInvariant, <1>1, PTL

\* timeoutFn is never started before the timeout that the confirmations received
\* by then call for, nor more than Slack ticks after the longest one.
THEOREM TimeoutInTime == SuspicionSpec => []StartedInTime
<1>1. SuspicionInv => StartedInTime
  BY Zenon DEF SuspicionInv
<1> QED BY SuspicionInvariant, <1>1, PTL

\* A confirmation only ever brings the end of a suspicion closer: Confirm never
\* postpones the timer, and once timeoutFn has been started no confirmation sets it
\* again.
THEOREM TimeoutOnlyComesCloser ==
  SuspicionSpec => [][deadline' # Stopped => deadline # Stopped /\ deadline' <= deadline]_suspicionVars
<1> DEFINE Closer == deadline' # Stopped => deadline # Stopped /\ deadline' <= deadline
<1>1. ASSUME SuspicionInv, NEW from \in From, Confirm(from) PROVE Closer
  <2> DEFINE k == Cardinality(confirmMap)
  <2>1. k \in Nat /\ k >= 1 /\ k < ConfirmCap /\ Cardinality(confirmMap') = k + 1
    BY <1>1, ConfirmsCounted, FS_AddElement, SuspicionAssumption
       DEF SuspicionInv, SuspicionTypeOK, Confirm, ignoreConfirm
  <2>2. deadline # Stopped => deadline = timeoutAfter(k)
    BY <1>1, Zenon DEF SuspicionInv, DeadlineMatchesConfirms
  <2>3. deadline' # Stopped =>
          deadline # Stopped /\ (deadline' = timeoutAfter(k + 1) \/ deadline' = deadline)
    BY <1>1, <2>1, Zenon DEF Confirm, restart, noTimer, setTimer, start
  <2> HIDE DEF k
  <2>4. timeoutAfter(k + 1) <= timeoutAfter(k) /\ timeoutAfter(k) \in Int
    BY <2>1, TimeoutsShrink, Zenon
  <2> QED BY <2>2, <2>3, <2>4
<1>2. ASSUME SuspicionInv, [SuspicionNext]_suspicionVars PROVE [Closer]_suspicionVars
  <2>1. deadline \in Int
    BY <1>2 DEF SuspicionInv, SuspicionTypeOK, Stopped
  <2>2. CASE expire
    BY <2>2, Zenon DEF expire, start
  <2>3. CASE timeoutFn \/ tick
    BY <2>1, <2>3 DEF timeoutFn, tick
  <2> QED BY <1>1, <1>2, <2>2, <2>3, Zenon DEF SuspicionNext
<1> QED BY SuspicionInvariant, <1>2, PTL DEF SuspicionSpec
=============================================================================
