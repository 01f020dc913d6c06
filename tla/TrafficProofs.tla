---------------------------- MODULE TrafficProofs ---------------------------
(***************************************************************************)
(* Proofs about the messages of a node, out and in: what the broadcast     *)
(* queue of TransmitCapQueue promises, for any number of names, messages   *)
(* and transmissions and any sizes of messages and packets; and what       *)
(* happens to every packet that arrives and what is left after Shutdown in *)
(* Transport, for any number of messages, any depth of the queues and any  *)
(* number of tries.                                                        *)
(***************************************************************************)
EXTENDS TransmitCapQueue, Transport, FiniteSetTheorems, TLAPS

-----------------------------------------------------------------------------
(* The broadcast queue.                                                    *)

AnyName == Name \cup {NoName}
Item == [name : AnyName, id : Nat, transmits : Nat, size : Nat, msg : Nat]
Caller == {"none", "calling", "select", "notified", "timeout"}
Entry == [name : AnyName, sent : Nat, caller : Caller]

QueueTypeOK ==
  /\ queue \in SUBSET Item
  /\ exists \in [Name -> Nat \cup {NoId}]
  /\ idSeq \in Nat
  /\ log \in Seq(Entry)

\* An item and its log entry agree.
ItemsLogged ==
  \A i \in queue : /\ i.msg \in 1..Len(log)
                   /\ log[i.msg].name = i.name /\ log[i.msg].sent = i.transmits

\* No two items are about the same message.
MessagesUnique == \A i, j \in queue : i.msg = j.msg => i = j

\* An item that has been sent is below some limit.
BelowLimit ==
  \A i \in queue : i.transmits = 0 \/ \E n \in NumNodes : i.transmits < transmitLimit(n)

QueueInv ==
  /\ QueueTypeOK /\ ItemsLogged /\ MessagesUnique /\ BelowLimit
  /\ ExistsMatchesQueue /\ NoBroadcastLost /\ NotifiedMeansGone

-----------------------------------------------------------------------------
\* The limit is a number, whatever the size of the cluster.
LEMMA LimitType == ASSUME NEW n \in NumNodes PROVE transmitLimit(n) \in Nat
<1> DEFINE D == {k \in 0..n : \A j \in 0..k : 10^j < n + 1}
<1>1. n \in Nat /\ TransmitScale \in Nat
  BY QueueAssumption, Zenon
<1>2. IsFiniteSet(0..n) /\ D \in SUBSET (0..n)
  BY <1>1, FS_Interval
<1>3. IsFiniteSet(D)
  BY <1>2, FS_Subset, Zenon
<1> HIDE DEF D
<1>4. Cardinality(D) \in Nat
  BY <1>3, FS_CardinalityType, Zenon
<1>5. transmitLimit(n) = TransmitScale * Cardinality(D)
  BY Zenon DEF transmitLimit, D
<1> QED
  BY <1>1, <1>4, <1>5

\* A function on 1..Len(s) is a sequence as long as s.
LEMMA SameLength ==
  ASSUME NEW s \in Seq(Entry), NEW t \in [1..Len(s) -> Entry]
  PROVE  t \in Seq(Entry) /\ Len(t) = Len(s)
OBVIOUS

\* FinishAll changes callers only, and those only from select to notified.
LEMMA FinishAllEffect ==
  ASSUME NEW msgs, NEW l \in Seq(Entry)
  PROVE  /\ FinishAll(msgs, l) \in Seq(Entry) /\ Len(FinishAll(msgs, l)) = Len(l)
         /\ \A m \in 1..Len(l) :
              /\ FinishAll(msgs, l)[m].name = l[m].name
              /\ FinishAll(msgs, l)[m].sent = l[m].sent
              /\ m \notin msgs => FinishAll(msgs, l)[m] = l[m]
<1> DEFINE f == FinishAll(msgs, l)
<1>1. DOMAIN l = 1..Len(l)
  OBVIOUS
<1>2. \A m \in 1..Len(l) : /\ l[m] \in Entry
                           /\ f[m] = IF m \in msgs /\ l[m].caller = "select"
                                       THEN callerIs(l[m], "notified") ELSE l[m]
  BY <1>1 DEF FinishAll
<1>3. \A m \in 1..Len(l) : f[m] \in Entry /\ f[m].name = l[m].name /\ f[m].sent = l[m].sent
  <2> HIDE DEF f
  <2> TAKE m \in 1..Len(l)
  <2>1. /\ l[m] \in Entry /\ callerIs(l[m], "notified") \in Entry
        /\ callerIs(l[m], "notified").name = l[m].name /\ callerIs(l[m], "notified").sent = l[m].sent
    BY <1>2, Zenon DEF callerIs, Entry, Caller
  <2> QED
    BY <1>2, <2>1, Zenon
<1>4. f \in [1..Len(l) -> Entry]
  BY <1>1, <1>3, Zenon DEF FinishAll
<1>5. f \in Seq(Entry) /\ Len(f) = Len(l)
  BY <1>4, SameLength, Zenon
<1> QED
  BY <1>2, <1>3, <1>5, Zenon

-----------------------------------------------------------------------------
\* QueueMsg takes out the item of the same name, and adds its own.
LEMMA QueueMsgStep ==
  ASSUME QueueInv, NEW name \in AnyName, NEW size \in Size, NEW notify \in BOOLEAN,
         QueueMsg(name, size, notify)
  PROVE  QueueInv'
<1> DEFINE item == [name |-> name, id |-> idSeq, transmits |-> 0, size |-> size, msg |-> Len(log) + 1]
           gone == {i \in queue : name \in Name /\ i.id = exists[name]}
           kept == {i \in queue : name \notin Name \/ i.id # exists[name]}
           old == {i.msg : i \in gone}
           fin == FinishAll(old, log)
           entry == [name |-> name, sent |-> 0, caller |-> IF notify THEN "calling" ELSE "none"]
<1>1. /\ queue' = kept \cup {item}
      /\ exists' = [n \in Name |-> IF n = name THEN idSeq ELSE exists[n]]
      /\ idSeq' = idSeq + 1
      /\ log' = Append(fin, entry)
  BY Zenon DEF QueueMsg, Push
<1>2. QueueTypeOK /\ item \in Item /\ entry \in Entry /\ queue \in SUBSET Item /\ log \in Seq(Entry)
  BY QueueAssumption DEF QueueInv, QueueTypeOK, Item, Entry, Caller
<1>3. /\ fin \in Seq(Entry) /\ Len(fin) = Len(log)
      /\ \A m \in 1..Len(log) : /\ fin[m].name = log[m].name /\ fin[m].sent = log[m].sent
                                /\ m \notin old => fin[m] = log[m]
  BY <1>2, FinishAllEffect
<1> HIDE DEF fin, entry
<1>4. /\ log' \in Seq(Entry) /\ Len(log) \in Nat /\ Len(log') = Len(log) + 1
      /\ log'[Len(log) + 1] = entry
      /\ \A m \in 1..Len(log) : log'[m] = fin[m]
  BY <1>1, <1>2, <1>3
<1>a. kept \subseteq queue
  BY Zenon
<1>5. \A i \in kept : /\ i.name \in Name => i.name # name
                     /\ i.msg \in 1..Len(log) /\ log'[i.msg] = log[i.msg]
  <2> TAKE i \in kept
  <2>1. i \in queue /\ i \in Item /\ i.msg \in 1..Len(log)
    BY <1>2, Zenon DEF QueueInv, ItemsLogged
  <2>2. i.msg \notin old
    BY <2>1, Zenon DEF QueueInv, MessagesUnique
  <2>3. i.name \in Name => i.name # name
    BY <2>1, Zenon DEF QueueInv, ExistsMatchesQueue
  <2> QED
    BY <1>3, <1>4, <2>1, <2>2, <2>3, Zenon
<1>6. entry.name = name /\ entry.sent = 0 /\ entry.caller # "notified"
  BY Zenon DEF entry
<1>7. /\ item.name = name /\ item.id = idSeq /\ item.transmits = 0 /\ item.msg = Len(log) + 1
      /\ log'[item.msg] = entry /\ item.msg \in 1..Len(log')
  BY <1>4
<1>8. \A i \in queue : i \notin kept =>
        name \in Name /\ i.name = name /\ i.msg \in 1..Len(log) /\ log[i.msg].name = name
  <2> SUFFICES ASSUME NEW i \in queue, name \in Name, i.id = exists[name]
               PROVE  i.name = name /\ i.msg \in 1..Len(log) /\ log[i.msg].name = name
    BY Zenon
  <2>1. i \in Item /\ exists[name] # NoId
    BY <1>2 DEF Item, NoId
  <2>2. i.name = name
    BY <2>1 DEF QueueInv, ExistsMatchesQueue
  <2> QED
    BY <2>2, Zenon DEF QueueInv, ItemsLogged
<1> HIDE DEF item, kept, old, gone
<1>9. QueueTypeOK'
  <2>1. queue' \in SUBSET Item
    BY <1>1, <1>2, <1>a, Zenon
  <2>2. idSeq' \in Nat /\ exists' \in [Name -> Nat \cup {NoId}]
    BY <1>1, <1>2 DEF QueueTypeOK
  <2> QED
    BY <1>4, <2>1, <2>2, Zenon DEF QueueTypeOK
<1>10. ItemsLogged' /\ NotifiedMeansGone'
  <2>1. \A i \in kept : /\ i.msg \in 1..Len(log') /\ log'[i.msg].name = i.name
                        /\ log'[i.msg].sent = i.transmits /\ log'[i.msg].caller # "notified"
    BY <1>4, <1>5, <1>a DEF QueueInv, ItemsLogged, NotifiedMeansGone
  <2> QED
    BY <1>1, <1>6, <1>7, <2>1, Zenon DEF ItemsLogged, NotifiedMeansGone
<1>11. MessagesUnique' /\ BelowLimit'
  BY <1>1, <1>4, <1>5, <1>7, <1>a DEF QueueInv, MessagesUnique, BelowLimit
<1>12. ExistsMatchesQueue'
  <2>1. \A i \in kept : i.id \in Nat /\ i.id < idSeq
    BY <1>2, <1>a, Zenon DEF QueueInv, ExistsMatchesQueue, Item
  <2>2. \A i, j \in queue' : i.id = j.id => i = j
    BY <1>1, <1>2, <1>a, <1>7, <2>1 DEF QueueInv, ExistsMatchesQueue, QueueTypeOK
  <2>3. \A i \in queue' : i.id < idSeq' /\ (i.name \in Name => exists'[i.name] = i.id)
    BY <1>1, <1>2, <1>a, <1>5, <1>7, <2>1 DEF QueueInv, ExistsMatchesQueue, QueueTypeOK
  <2>4. \A n \in Name : exists'[n] # NoId => \E i \in queue' : i.name = n /\ i.id = exists'[n]
    <3> SUFFICES ASSUME NEW n \in Name, exists'[n] # NoId
                 PROVE  \E i \in queue' : i.name = n /\ i.id = exists'[n]
      BY Zenon
    <3>1. CASE n = name
      BY <1>1, <1>7, <3>1, Zenon
    <3>2. CASE n # name
      <4>1. PICK i \in queue : i.name = n /\ i.id = exists[n]
        BY <1>1, <3>2, Zenon DEF QueueInv, ExistsMatchesQueue
      <4>2. i \in kept
        BY <1>8, <3>2, <4>1, Zenon
      <4> QED
        BY <1>1, <3>2, <4>1, <4>2, Zenon
    <3> QED
      BY <3>1, <3>2, Zenon
  <2> QED
    BY <2>2, <2>3, <2>4, Zenon DEF ExistsMatchesQueue
<1>13. NoBroadcastLost'
  <2> DEFINE good(m) ==
        /\ \E n \in NumNodes : log'[m].sent <= atLeastOne(transmitLimit(n))
        /\ \/ \E i \in queue' : i.msg = m /\ i.transmits = log'[m].sent
           \/ \E n \in NumNodes : log'[m].sent >= atLeastOne(transmitLimit(n))
           \/ \E k \in DOMAIN log' : k > m /\ log'[k].name = log'[m].name /\ log'[m].name \in Name
  <2>1. DOMAIN log = 1..Len(log) /\ DOMAIN log' = 1..(Len(log) + 1)
    BY <1>2, <1>4
  <2>2. good(Len(log) + 1)
    <3>1. PICK n \in NumNodes : TRUE
      BY QueueAssumption, ZenonT(30)
    <3>2. log'[Len(log) + 1].sent <= atLeastOne(transmitLimit(n))
      BY <1>4, <1>6, LimitType DEF atLeastOne
    <3> QED
      BY <1>1, <1>4, <1>6, <1>7, <3>2, Zenon
  <2>3. ASSUME NEW m \in 1..Len(log) PROVE good(m)
    <3>1. /\ log'[m].name = log[m].name /\ log'[m].sent = log[m].sent
          /\ \A k \in 1..Len(log) : log'[k].name = log[k].name
      BY <1>3, <1>4, Zenon
    <3>2. /\ \E n \in NumNodes : log[m].sent <= atLeastOne(transmitLimit(n))
          /\ \/ \E i \in queue : i.msg = m /\ i.transmits = log[m].sent
             \/ \E n \in NumNodes : log[m].sent >= atLeastOne(transmitLimit(n))
             \/ \E k \in 1..Len(log) : k > m /\ log[k].name = log[m].name /\ log[m].name \in Name
      BY <2>1, Zenon DEF QueueInv, NoBroadcastLost
    <3>3. CASE \E i \in kept : i.msg = m /\ i.transmits = log[m].sent
      BY <1>1, <3>1, <3>2, <3>3, Zenon
    <3>4. CASE \E i \in queue \ kept : i.msg = m
      <4>1. log'[m].name = name /\ name \in Name /\ log'[Len(log) + 1].name = name
        BY <1>4, <1>6, <1>8, <3>1, <3>4, Zenon
      <4> QED
        BY <1>4, <2>1, <3>1, <3>2, <4>1
    <3>5. CASE \E n \in NumNodes : log[m].sent >= atLeastOne(transmitLimit(n))
      BY <3>1, <3>2, <3>5, Zenon
    <3>6. CASE \E k \in 1..Len(log) : k > m /\ log[k].name = log[m].name /\ log[m].name \in Name
      BY <1>4, <2>1, <3>1, <3>2, <3>6
    <3> QED
      BY <3>2, <3>3, <3>4, <3>5, <3>6, Zenon
  <2> HIDE DEF good
  <2>4. \A m \in DOMAIN log' : good(m)
    BY <1>4, <2>1, <2>2, <2>3
  <2> QED
    BY <2>4, Zenon DEF NoBroadcastLost, good
<1> QED
  BY <1>9, <1>10, <1>11, <1>12, <1>13, Zenon DEF QueueInv

-----------------------------------------------------------------------------
\* GetMessages counts the transmission of every item in the packet, in the item
\* and in the log, and drops the finished ones.
LEMMA SendStep ==
  ASSUME QueueInv, NEW n \in NumNodes, NEW picked \in SUBSET queue, send(picked, n)
  PROVE  QueueInv'
<1> DEFINE limit == transmitLimit(n)
           done == {i \in picked : finished(i, limit)}
           again == picked \ done
           sent == [m \in DOMAIN log |-> IF \E i \in picked : i.msg = m
                                            THEN sentOnce(log[m]) ELSE log[m]]
           msgs == {i.msg : i \in done}
<1>1. /\ queue' = (queue \ picked) \cup {transmitted(i) : i \in again}
      /\ exists' = [k \in Name |-> IF k \in {i.name : i \in done} THEN NoId ELSE exists[k]]
      /\ idSeq' = nextIdSeq(queue')
      /\ log' = FinishAll(msgs, sent)
  BY Zenon DEF send
<1>2. /\ QueueTypeOK /\ queue \in SUBSET Item /\ log \in Seq(Entry) /\ limit \in Nat
      /\ DOMAIN log = 1..Len(log)
  BY LimitType DEF QueueInv, QueueTypeOK
<1>3. /\ sent \in Seq(Entry) /\ Len(sent) = Len(log)
      /\ \A m \in 1..Len(log) :
           /\ sent[m].name = log[m].name /\ sent[m].caller = log[m].caller
           /\ sent[m].sent = IF \E i \in picked : i.msg = m THEN log[m].sent + 1 ELSE log[m].sent
  <2>1. \A m \in 1..Len(log) : /\ sentOnce(log[m]) \in Entry /\ log[m] \in Entry
                               /\ sentOnce(log[m]).name = log[m].name
                               /\ sentOnce(log[m]).caller = log[m].caller
                               /\ sentOnce(log[m]).sent = log[m].sent + 1
    <3> TAKE m \in 1..Len(log)
    <3>1. log[m] \in Entry
      BY <1>2
    <3> QED
      BY <3>1 DEF sentOnce, Entry
  <2>2. \A m \in 1..Len(log) :
          sent[m] = IF \E i \in picked : i.msg = m THEN sentOnce(log[m]) ELSE log[m]
    BY <1>2, Zenon
  <2>3. sent \in [1..Len(log) -> Entry]
    BY <1>2, <2>1, Zenon
  <2> HIDE DEF sent
  <2>4. sent \in Seq(Entry) /\ Len(sent) = Len(log)
    BY <1>2, <2>3, SameLength, Zenon
  <2> QED
    BY <2>1, <2>2, <2>4, Zenon
<1> HIDE DEF sent
<1>4. /\ log' \in Seq(Entry) /\ Len(log') = Len(log) /\ DOMAIN log' = 1..Len(log)
      /\ \A m \in 1..Len(log) :
           /\ log'[m].name = log[m].name
           /\ log'[m].sent = IF \E i \in picked : i.msg = m THEN log[m].sent + 1 ELSE log[m].sent
           /\ m \notin msgs => log'[m].caller = log[m].caller
  <2>1. /\ log' \in Seq(Entry) /\ Len(log') = Len(sent)
        /\ \A m \in 1..Len(sent) : /\ log'[m].name = sent[m].name /\ log'[m].sent = sent[m].sent
                                   /\ m \notin msgs => log'[m] = sent[m]
    BY <1>1, <1>3, FinishAllEffect
  <2> QED
    BY <1>3, <2>1
\* An item that stays, as it was or transmitted once more.
<1>5. \A i \in queue' : \E o \in queue \ done :
        /\ i.name = o.name /\ i.id = o.id /\ i.msg = o.msg /\ i \in Item
        /\ o \notin picked => i = o
        /\ o \in picked => i = transmitted(o) /\ i.transmits = o.transmits + 1 /\ i.transmits < limit
  <2> SUFFICES ASSUME NEW i \in queue'
               PROVE  \E o \in queue \ done :
                        /\ i.name = o.name /\ i.id = o.id /\ i.msg = o.msg /\ i \in Item
                        /\ o \notin picked => i = o
                        /\ o \in picked => i = transmitted(o) /\ i.transmits = o.transmits + 1
                                             /\ i.transmits < limit
    BY Zenon
  <2>1. CASE i \in queue \ picked
    BY <1>2, <2>1, Zenon
  <2>2. CASE i \in {transmitted(o) : o \in again}
    <3>1. PICK o \in again : i = transmitted(o)
      BY <2>2, Zenon
    <3>2. o \in queue \ done /\ o \in picked /\ ~ finished(o, limit) /\ o \in Item
      BY <1>2, <3>1, Zenon
    <3>3. /\ i.name = o.name /\ i.id = o.id /\ i.msg = o.msg /\ i.transmits = o.transmits + 1
          /\ i \in Item
      BY <3>1, <3>2 DEF transmitted, Item
    <3>4. i.transmits < limit
      BY <1>2, <3>2, <3>3 DEF finished, Item
    <3> QED
      BY <3>1, <3>2, <3>3, <3>4, Zenon
  <2> QED
    BY <1>1, <2>1, <2>2, Zenon
<1>6. \A o \in queue \ done : \E i \in queue' : i.name = o.name /\ i.id = o.id /\ i.msg = o.msg
  <2> SUFFICES ASSUME NEW o \in queue \ done
               PROVE  \E i \in queue' : i.name = o.name /\ i.id = o.id /\ i.msg = o.msg
    BY Zenon
  <2>1. CASE o \notin picked
    BY <1>1, <2>1, Zenon
  <2>2. CASE o \in picked
    <3>1. transmitted(o) \in queue'
      BY <1>1, <2>2, Zenon
    <3> QED
      BY <3>1, Zenon DEF transmitted
  <2> QED
    BY <2>1, <2>2, Zenon
<1>7. \A i \in queue : /\ i \in Item /\ i.msg \in 1..Len(log) /\ log[i.msg].name = i.name
                      /\ log[i.msg].sent = i.transmits
                      /\ ((\E j \in picked : j.msg = i.msg) <=> i \in picked)
                      /\ (i.msg \in msgs <=> i \in done)
  <2> TAKE i \in queue
  <2>1. /\ i \in Item /\ i.msg \in 1..Len(log) /\ log[i.msg].name = i.name
        /\ log[i.msg].sent = i.transmits
    BY <1>2, Zenon DEF QueueInv, ItemsLogged
  <2>2. \A j \in queue : j.msg = i.msg => j = i
    BY Zenon DEF QueueInv, MessagesUnique
  <2>3. (\E j \in picked : j.msg = i.msg) <=> i \in picked
    BY <2>2, Zenon
  <2>4. i.msg \in msgs <=> i \in done
    BY <2>2, Zenon
  <2> HIDE DEF done, msgs
  <2> QED
    BY <2>1, <2>3, <2>4, Zenon
<1>8. \A i \in done : i \in picked /\ i \in queue /\ i.transmits + 1 >= limit
  BY Zenon DEF finished
<1> HIDE DEF done, again, msgs, limit
<1>9. QueueTypeOK'
  <2>1. queue' \in SUBSET Item /\ idSeq' \in Nat
    BY <1>1, <1>2, <1>5, Zenon DEF nextIdSeq, QueueTypeOK
  <2>2. exists' \in [Name -> Nat \cup {NoId}]
    BY <1>1, <1>2, Zenon DEF QueueTypeOK
  <2> QED
    BY <1>4, <2>1, <2>2, Zenon DEF QueueTypeOK
<1>10. ItemsLogged' /\ NotifiedMeansGone' /\ MessagesUnique' /\ BelowLimit'
  <2>1. ASSUME NEW i \in queue'
        PROVE  /\ i.msg \in 1..Len(log') /\ log'[i.msg].name = i.name
               /\ log'[i.msg].sent = i.transmits /\ log'[i.msg].caller # "notified"
               /\ i.transmits = 0 \/ \E k \in NumNodes : i.transmits < transmitLimit(k)
    <3>1. PICK o \in queue \ done :
            /\ i.name = o.name /\ i.id = o.id /\ i.msg = o.msg /\ i \in Item
            /\ o \notin picked => i = o
            /\ o \in picked => i = transmitted(o) /\ i.transmits = o.transmits + 1 /\ i.transmits < limit
      BY <1>5, Zenon
    <3>2. i.msg \in 1..Len(log') /\ log'[i.msg].name = i.name /\ log'[i.msg].sent = i.transmits
      BY <1>4, <1>7, <3>1
    <3>3. log'[i.msg].caller # "notified"
      BY <1>4, <1>7, <3>1 DEF QueueInv, NotifiedMeansGone
    <3>4. i.transmits = 0 \/ \E k \in NumNodes : i.transmits < transmitLimit(k)
      <4>1. CASE o \in picked
        BY <3>1, <4>1, Zenon DEF limit
      <4>2. CASE o \notin picked
        BY <3>1, <4>2, Zenon DEF QueueInv, BelowLimit
      <4> QED
        BY <4>1, <4>2, Zenon
    <3> QED
      BY <3>2, <3>3, <3>4, Zenon
  <2>2. ASSUME NEW i \in queue', NEW j \in queue', i.msg = j.msg PROVE i = j
    <3>1. PICK o \in queue \ done :
            /\ i.msg = o.msg
            /\ (o \notin picked => i = o) /\ (o \in picked => i = transmitted(o))
      BY <1>5, Zenon
    <3>2. PICK p \in queue \ done :
            /\ j.msg = p.msg
            /\ (p \notin picked => j = p) /\ (p \in picked => j = transmitted(p))
      BY <1>5, Zenon
    <3>3. o = p
      BY <2>2, <3>1, <3>2, Zenon DEF QueueInv, MessagesUnique
    <3> QED
      BY <3>1, <3>2, <3>3, Zenon
  <2> QED
    BY <2>1, <2>2, Zenon DEF ItemsLogged, NotifiedMeansGone, MessagesUnique, BelowLimit
<1>11. ExistsMatchesQueue'
  <2>1. ASSUME NEW i \in queue', NEW j \in queue', i.id = j.id PROVE i = j
    <3>1. PICK o \in queue \ done :
            /\ i.id = o.id
            /\ (o \notin picked => i = o) /\ (o \in picked => i = transmitted(o))
      BY <1>5, Zenon
    <3>2. PICK p \in queue \ done :
            /\ j.id = p.id
            /\ (p \notin picked => j = p) /\ (p \in picked => j = transmitted(p))
      BY <1>5, Zenon
    <3>3. o = p
      <4>1. \A a, b \in queue : a.id = b.id => a = b
        BY Zenon DEF QueueInv, ExistsMatchesQueue
      <4> QED
        BY <2>1, <3>1, <3>2, <4>1, ZenonT(30)
    <3> QED
      BY <3>1, <3>2, <3>3, Zenon
  <2>2. ASSUME NEW i \in queue' PROVE i.id < idSeq' /\ (i.name \in Name => exists'[i.name] = i.id)
    <3>1. PICK o \in queue \ done : i.name = o.name /\ i.id = o.id
      BY <1>5, Zenon
    <3>2. o.id < idSeq /\ (o.name \in Name => exists[o.name] = o.id)
      BY Zenon DEF QueueInv, ExistsMatchesQueue
    <3>3. i.id < idSeq'
      BY <1>1, <3>1, <3>2, Zenon DEF nextIdSeq
    <3>4. o.name \in Name => o.name \notin {d.name : d \in done}
      <4> SUFFICES ASSUME o.name \in Name, NEW d \in done, d.name = o.name PROVE FALSE
        BY Zenon
      <4>1. d \in queue /\ d.id = o.id
        BY <1>8, <3>2, Zenon DEF QueueInv, ExistsMatchesQueue
      <4>2. d = o
        BY <4>1, Zenon DEF QueueInv, ExistsMatchesQueue
      <4> QED
        BY <4>2, Zenon
    <3> QED
      BY <1>1, <3>1, <3>2, <3>3, <3>4, Zenon
  <2>3. ASSUME NEW k \in Name, exists'[k] # NoId
        PROVE  \E i \in queue' : i.name = k /\ i.id = exists'[k]
    <3>1. k \notin {d.name : d \in done} /\ exists'[k] = exists[k]
      BY <1>1, <2>3, Zenon
    <3>2. PICK o \in queue : o.name = k /\ o.id = exists[k]
      BY <2>3, <3>1, Zenon DEF QueueInv, ExistsMatchesQueue
    <3> QED
      BY <1>6, <3>1, <3>2, Zenon
  <2> QED
    BY <2>1, <2>2, <2>3, Zenon DEF ExistsMatchesQueue
<1>12. NoBroadcastLost'
  <2> SUFFICES ASSUME NEW m \in 1..Len(log)
               PROVE  /\ \E k \in NumNodes : log'[m].sent <= atLeastOne(transmitLimit(k))
                      /\ \/ \E i \in queue' : i.msg = m /\ i.transmits = log'[m].sent
                         \/ \E k \in NumNodes : log'[m].sent >= atLeastOne(transmitLimit(k))
                         \/ \E k \in 1..Len(log) : /\ k > m /\ log'[k].name = log'[m].name
                                                   /\ log'[m].name \in Name
    BY <1>4, Zenon DEF NoBroadcastLost
  <2>1. CASE \E o \in picked : o.msg = m
    <3>1. PICK o \in picked : o.msg = m
      BY <2>1, Zenon
    <3>2. o \in queue /\ o.transmits \in Nat /\ log'[m].sent = o.transmits + 1
      BY <1>4, <1>7, <3>1, ZenonT(30) DEF Item
    <3>3. \E k \in NumNodes : log'[m].sent <= atLeastOne(transmitLimit(k))
      <4>1. CASE o.transmits = 0
        BY <1>2, <3>2, <4>1 DEF atLeastOne, limit
      <4>2. CASE o.transmits # 0
        <5>1. PICK k \in NumNodes : o.transmits < transmitLimit(k)
          BY <3>2, <4>2, Zenon DEF QueueInv, BelowLimit
        <5> QED
          BY <3>2, <5>1, LimitType DEF atLeastOne
      <4> QED
        BY <4>1, <4>2, Zenon
    <3>4. CASE o \in done
      BY <1>2, <1>8, <3>2, <3>3, <3>4, SMTT(30) DEF atLeastOne, limit
    <3>5. CASE o \notin done
      <4>1. transmitted(o) \in queue'
        BY <1>1, <3>1, <3>5, Zenon DEF again
      <4> QED
        BY <3>1, <3>2, <3>3, <4>1, Zenon DEF transmitted
    <3> QED
      BY <3>4, <3>5, Zenon
  <2>2. CASE ~ \E o \in picked : o.msg = m
    <3>1. log'[m].sent = log[m].sent /\ \A k \in 1..Len(log) : log'[k].name = log[k].name
      BY <1>4, <2>2, Zenon
    <3>2. \A i \in queue : i.msg = m => i \in queue'
      BY <1>1, <2>2, Zenon
    <3> QED
      BY <1>2, <3>1, <3>2, Zenon DEF QueueInv, NoBroadcastLost
  <2> QED
    BY <2>1, <2>2, Zenon
<1> QED
  BY <1>9, <1>10, <1>11, <1>12, Zenon DEF QueueInv

-----------------------------------------------------------------------------
\* A caller that starts or stops waiting changes nothing but its own entry.
LEMMA WaitStep ==
  ASSUME QueueInv, NEW m \in DOMAIN log, waitForBroadcast(m) \/ waitTimeout(m)
  PROVE  QueueInv'
<1>1. PICK caller \in {"select", "timeout"} :
        /\ log' = [log EXCEPT ![m] = callerIs(log[m], caller)]
        /\ UNCHANGED <<queue, exists, idSeq>>
  BY Zenon DEF waitForBroadcast, waitTimeout
<1>2. log \in Seq(Entry) /\ DOMAIN log = 1..Len(log) /\ log[m] \in Entry
  BY DEF QueueInv, QueueTypeOK
<1> DEFINE e == callerIs(log[m], caller)
<1>3. e \in Entry /\ e.name = log[m].name /\ e.sent = log[m].sent /\ e.caller = caller
  BY <1>2, Zenon DEF callerIs, Entry, Caller
<1> HIDE DEF e
<1>4. log' = [log EXCEPT ![m] = e]
  BY <1>1, Zenon DEF e
<1>5. /\ log' \in Seq(Entry) /\ Len(log') = Len(log) /\ DOMAIN log' = 1..Len(log)
      /\ \A k \in 1..Len(log) : log'[k] = IF k = m THEN e ELSE log[k]
  <2>1. log' \in [1..Len(log) -> Entry]
    BY <1>2, <1>3, <1>4
  <2>2. log' \in Seq(Entry) /\ Len(log') = Len(log)
    BY <1>2, <2>1, SameLength, Zenon
  <2> QED
    BY <1>2, <1>4, <2>2, Zenon
<1>6. \A k \in 1..Len(log) : /\ log'[k].name = log[k].name /\ log'[k].sent = log[k].sent
                             /\ log'[k].caller = "notified" => log[k].caller = "notified"
  BY <1>3, <1>5, Zenon
<1>7. QueueTypeOK'
  BY <1>1, <1>5, Zenon DEF QueueInv, QueueTypeOK
<1>8. ItemsLogged' /\ NotifiedMeansGone'
  BY <1>1, <1>5, <1>6 DEF QueueInv, ItemsLogged, NotifiedMeansGone
<1>9. MessagesUnique' /\ BelowLimit' /\ ExistsMatchesQueue'
  BY <1>1, Zenon DEF QueueInv, MessagesUnique, BelowLimit, ExistsMatchesQueue
<1>10. NoBroadcastLost'
  <2> SUFFICES ASSUME NEW k \in 1..Len(log)
               PROVE  /\ \E n \in NumNodes : log'[k].sent <= atLeastOne(transmitLimit(n))
                      /\ \/ \E i \in queue' : i.msg = k /\ i.transmits = log'[k].sent
                         \/ \E n \in NumNodes : log'[k].sent >= atLeastOne(transmitLimit(n))
                         \/ \E j \in 1..Len(log) : /\ j > k /\ log'[j].name = log'[k].name
                                                   /\ log'[k].name \in Name
    BY <1>5, Zenon DEF NoBroadcastLost
  <2> QED
    BY <1>1, <1>2, <1>6 DEF QueueInv, NoBroadcastLost
<1> QED
  BY <1>7, <1>8, <1>9, <1>10, Zenon DEF QueueInv

-----------------------------------------------------------------------------
\* QueueInit establishes the invariant, and every operation keeps it.
LEMMA QueueInvariant == QueueSpec => []QueueInv
<1>1. QueueInit => QueueInv
  <2>1. QueueInit => QueueTypeOK
    BY DEF QueueInit, QueueTypeOK, NoId
  <2> QED
    BY <2>1 DEF QueueInit, QueueInv, ItemsLogged, MessagesUnique, BelowLimit, ExistsMatchesQueue,
                NoBroadcastLost, NotifiedMeansGone
<1>2. QueueInv /\ [QueueNext]_queueVars => QueueInv'
  <2> SUFFICES ASSUME QueueInv, [QueueNext]_queueVars PROVE QueueInv'
    BY Zenon
  <2>1. ASSUME NEW name \in AnyName, NEW size \in Size, NEW notify \in BOOLEAN,
               QueueMsg(name, size, notify)
        PROVE  QueueInv'
    BY <2>1, QueueMsgStep, Zenon
  <2>2. ASSUME NEW size \in Room, NEW n \in NumNodes, GetMessages(size, n) PROVE QueueInv'
    BY <2>2, SendStep, Zenon DEF GetMessages
  <2>3. ASSUME NEW m \in DOMAIN log, waitForBroadcast(m) \/ waitTimeout(m) PROVE QueueInv'
    BY <2>3, WaitStep, Zenon
  <2>4. CASE UNCHANGED queueVars
    BY <2>4 DEF queueVars, QueueInv, QueueTypeOK, ItemsLogged, MessagesUnique, BelowLimit,
                ExistsMatchesQueue, NoBroadcastLost, NotifiedMeansGone
  <2> QED
    BY <2>1, <2>2, <2>3, <2>4, Zenon DEF QueueNext, AnyName
<1> QED
  BY <1>1, <1>2, PTL DEF QueueSpec

\* The map exists and the heap agree and no id is handed out twice, although
\* GetMessages resets idSeq: Push removes the message it means to replace.
THEOREM ExistsAlwaysMatches == QueueSpec => []ExistsMatchesQueue
<1>1. QueueInv => ExistsMatchesQueue
  BY Zenon DEF QueueInv
<1> QED
  BY <1>1, QueueInvariant, PTL

\* No message leaves the queue before transmitLimit transmissions unless a newer
\* one about the same node replaces it, and none is sent more often than that,
\* however the size of the cluster changes between two calls of GetMessages.
THEOREM NoBroadcastEverLost == QueueSpec => []NoBroadcastLost
<1>1. QueueInv => NoBroadcastLost
  BY Zenon DEF QueueInv
<1> QED
  BY <1>1, QueueInvariant, PTL

\* Leave and UpdateTags are told that their message is out only when it is no
\* longer in the queue.
THEOREM NotifiedOnlyWhenGone == QueueSpec => []NotifiedMeansGone
<1>1. QueueInv => NotifiedMeansGone
  BY Zenon DEF QueueInv
<1> QED
  BY <1>1, QueueInvariant, PTL

-----------------------------------------------------------------------------
(* The inbound messages, the sockets.                                      *)

\* Where each goroutine holds a message.
busy == [g \in Goroutine |-> IF g = "listener" THEN "send" ELSE IF g = "receiver" THEN "lock" ELSE "handle"]
Place == {"read", "send", "select", "lock", "notify", "drain", "handle", "leave", "stopped"}

TypeOK ==
  /\ arriving \subseteq Message /\ handled \subseteq Message /\ dropped \subseteq Message
  /\ at \in [Goroutine -> Place]
  /\ held \in [Goroutine -> Message \cup {NoMsg}]
  /\ highPriorQueue \in Seq(Message) /\ lowPriorQueue \in Seq(Message)
  /\ shutdown \in {"no", "transport", "closed"}

\* A goroutine holds a message exactly where it has one to pass on.
HoldsWhereBusy == \A g \in Goroutine : held[g] # NoMsg <=> at[g] = busy[g]

\* A message on the network has not been dealt with.
ArrivingIsNew == arriving \cap (handled \cup dropped) = {}

InboundInv == TypeOK /\ HoldsWhereBusy /\ ArrivingIsNew /\ Accounted

-----------------------------------------------------------------------------
one(condition) == IF condition THEN 1 ELSE 0
is(x, msg) == IF x = msg THEN 1 ELSE 0

\* Two subsets of a finite set that differ at most in g differ in size by what
\* g contributes.
LEMMA CountUpdate ==
  ASSUME NEW S, IsFiniteSet(S), NEW A \in SUBSET S, NEW B \in SUBSET S, NEW g \in S,
         \A h \in S \ {g} : h \in A <=> h \in B
  PROVE  /\ Cardinality(A) \in Nat /\ Cardinality(B) \in Nat
         /\ Cardinality(B) = Cardinality(A) - one(g \in A) + one(g \in B)
<1>1. IsFiniteSet(A) /\ IsFiniteSet(B)
  BY FS_Subset, Zenon
<1>2. Cardinality(A) \in Nat /\ Cardinality(B) \in Nat
  BY <1>1, FS_CardinalityType, Zenon
<1>3. CASE g \in A <=> g \in B
  <2>1. A = B
    BY <1>3
  <2> QED
    BY <2>1, <1>2, <1>3 DEF one
<1>4. CASE g \in A /\ g \notin B
  <2>1. A = B \cup {g}
    BY <1>4, Zenon
  <2> QED
    BY <2>1, <1>1, <1>2, <1>4, FS_AddElement DEF one
<1>5. CASE g \notin A /\ g \in B
  <2>1. B = A \cup {g}
    BY <1>5, Zenon
  <2> QED
    BY <2>1, <1>1, <1>2, <1>5, FS_AddElement DEF one
<1> QED
  BY <1>2, <1>3, <1>4, <1>5, Zenon

queued(s, msg) == Cardinality({k \in 1..Len(s) : s[k] = msg})
inHands(hands, msg) == Cardinality({g \in Goroutine : hands[g] = msg})

\* A message that is queued is in the queue once more.
LEMMA QueuedAppend ==
  ASSUME NEW s \in Seq(Message), NEW new \in Message, NEW msg
  PROVE  /\ queued(s, msg) \in Nat
         /\ queued(Append(s, new), msg) = queued(s, msg) + is(new, msg)
<1> DEFINE A == {k \in 1..Len(s) : s[k] = msg}
           t == Append(s, new)
           B == {k \in 1..Len(t) : t[k] = msg}
           n == Len(s) + 1
<1>1. Len(s) \in Nat /\ Len(t) = n /\ t[n] = new /\ \A k \in 1..Len(s) : t[k] = s[k]
  OBVIOUS
<1>2. IsFiniteSet(1..n)
  BY <1>1, FS_Interval
<1>3. A \in SUBSET (1..n) /\ B \in SUBSET (1..n) /\ n \in 1..n
  BY <1>1
<1>4. \A h \in (1..n) \ {n} : h \in A <=> h \in B
  BY <1>1
<1>5. n \notin A /\ (n \in B <=> new = msg)
  BY <1>1
<1> HIDE DEF A, B, n
<1>6. Cardinality(A) \in Nat /\ Cardinality(B) = Cardinality(A) - one(n \in A) + one(n \in B)
  BY <1>2, <1>3, <1>4, CountUpdate, ZenonT(30)
<1>7. Cardinality(B) = Cardinality(A) + is(new, msg)
  BY <1>5, <1>6 DEF one, is
<1> QED
  BY <1>6, <1>7, Zenon DEF queued, A, B

\* A message that getNextMsg takes out is in the queue once less.
LEMMA QueuedRemove ==
  ASSUME NEW s \in Seq(Message), s # <<>>, NEW msg
  PROVE  /\ allButLast(s) \in Seq(Message) /\ lastOf(s) \in Message
         /\ queued(s, msg) \in Nat /\ queued(allButLast(s), msg) \in Nat
         /\ queued(allButLast(s), msg) = queued(s, msg) - is(lastOf(s), msg)
<1> DEFINE A == {k \in 1..Len(s) : s[k] = msg}
           t == allButLast(s)
           B == {k \in 1..Len(t) : t[k] = msg}
           n == Len(s)
<1>1. n \in Nat /\ n > 0 /\ lastOf(s) = s[n] /\ s[n] \in Message
  BY DEF lastOf
<1>2. t \in Seq(Message) /\ Len(t) = n - 1 /\ \A k \in 1..(n - 1) : t[k] = s[k]
  BY <1>1 DEF allButLast
<1> HIDE DEF t
<1>3. IsFiniteSet(1..n)
  BY <1>1, FS_Interval
<1>4. A \in SUBSET (1..n) /\ B \in SUBSET (1..n) /\ n \in 1..n
  BY <1>1, <1>2
<1>5. \A h \in (1..n) \ {n} : h \in A <=> h \in B
  BY <1>1, <1>2
<1>6. n \notin B /\ (n \in A <=> lastOf(s) = msg)
  BY <1>1, <1>2
<1>a. queued(s, msg) = Cardinality(A) /\ queued(t, msg) = Cardinality(B)
  BY Zenon DEF queued
<1> HIDE DEF A, B, n
<1>7. /\ Cardinality(A) \in Nat /\ Cardinality(B) \in Nat
      /\ Cardinality(B) = Cardinality(A) - one(n \in A) + one(n \in B)
  BY <1>3, <1>4, <1>5, CountUpdate, ZenonT(30)
<1>8. Cardinality(B) = Cardinality(A) - is(lastOf(s), msg)
  BY <1>6, <1>7 DEF one, is
<1> QED
  BY <1>1, <1>2, <1>7, <1>8, <1>a, Zenon DEF t

\* A message is in the hands of the goroutines that hold it.
LEMMA HandsSum ==
  ASSUME NEW hands, NEW msg
  PROVE  inHands(hands, msg) = is(hands["listener"], msg) + is(hands["receiver"], msg)
                                                         + is(hands["handler"], msg)
<1> DEFINE L == IF hands["listener"] = msg THEN {"listener"} ELSE {}
           R == IF hands["receiver"] = msg THEN L \cup {"receiver"} ELSE L
           H == IF hands["handler"] = msg THEN R \cup {"handler"} ELSE R
<1>1. IsFiniteSet(L) /\ Cardinality(L) = is(hands["listener"], msg)
  BY FS_Singleton, FS_EmptySet, Zenon DEF is
<1>2. "receiver" \notin L /\ "handler" \notin R
  BY Zenon
<1>3. H = {g \in Goroutine : hands[g] = msg}
  BY Zenon DEF Goroutine
<1> HIDE DEF L
<1>4. IsFiniteSet(R) /\ Cardinality(R) = is(hands["listener"], msg) + is(hands["receiver"], msg)
  BY <1>1, <1>2, FS_AddElement DEF is
<1> HIDE DEF R
<1>5. Cardinality(H) = is(hands["listener"], msg) + is(hands["receiver"], msg) + is(hands["handler"], msg)
  <2>1. /\ is(hands["listener"], msg) \in Nat /\ is(hands["receiver"], msg) \in Nat
        /\ is(hands["handler"], msg) = IF hands["handler"] = msg THEN 1 ELSE 0
    BY Zenon DEF is
  <2>2. Cardinality(R \cup {"handler"}) = Cardinality(R) + 1
    BY <1>2, <1>4, FS_AddElement, Zenon
  <2> QED
    BY <1>4, <2>1, <2>2
<1> HIDE DEF H
<1> QED
  BY <1>3, <1>5, Zenon DEF inHands

-----------------------------------------------------------------------------
\* Every step of a goroutine keeps the types and leaves it with a message
\* exactly where it has one to pass on.
LEMMA PlacesStep ==
  ASSUME TypeOK, HoldsWhereBusy, [Next]_vars
  PROVE  TypeOK' /\ HoldsWhereBusy'
<1> USE DEF TypeOK, HoldsWhereBusy, busy, Place, Goroutine
<1>a. NoMsg \notin Message
  BY MessageAssumption, Zenon
<1>1. ASSUME NEW msg \in Message, udpListen(msg) PROVE TypeOK' /\ HoldsWhereBusy'
  BY <1>1, <1>a, Zenon DEF udpListen, goes, queues
<1>2. CASE udpListenStop \/ receivePacketStop \/ backToSelect \/ handlerStop
  BY <1>2 DEF udpListenStop, receivePacketStop, backToSelect, handlerStop, goes, queues
<1>3. CASE receivePacket
  BY <1>3, Zenon DEF receivePacket, queues
<1>4. CASE pushLongRunMsg
  <2>1. held["receiver"] \in Message
    BY <1>4, Zenon DEF pushLongRunMsg
  <2>2. highPriorQueue' \in Seq(Message) /\ lowPriorQueue' \in Seq(Message)
    <3>1. /\ Append(highPriorQueue, held["receiver"]) \in Seq(Message)
          /\ Append(lowPriorQueue, held["receiver"]) \in Seq(Message)
      BY <2>1
    <3> QED
      BY <1>4, <3>1, Zenon DEF pushLongRunMsg
  <2> QED
    BY <1>4, <2>2, Zenon DEF pushLongRunMsg, goes
<1>5. CASE dropLongRunMsg
  BY <1>5, Zenon DEF dropLongRunMsg, goes, queues
<1>6. CASE notifyHandler
  BY <1>6, Zenon DEF notifyHandler, queues
<1>7. CASE getNextMsg
  <2>1. highPriorQueue # <<>> =>
          allButLast(highPriorQueue) \in Seq(Message) /\ lastOf(highPriorQueue) \in Message
    BY QueuedRemove, Zenon
  <2>2. lowPriorQueue # <<>> =>
          allButLast(lowPriorQueue) \in Seq(Message) /\ lastOf(lowPriorQueue) \in Message
    BY QueuedRemove, Zenon
  <2> QED
    BY <1>7, <1>a, <2>1, <2>2 DEF getNextMsg, goes, queues
<1>8. ASSUME NEW msgs \in SUBSET Message, handle(msgs) PROVE TypeOK' /\ HoldsWhereBusy'
  BY <1>8, Zenon DEF handle, goes, queues
<1>9. CASE Shutdown \/ closeShutdownCh
  BY <1>9, Zenon DEF Shutdown, closeShutdownCh, queues
<1>10. CASE UNCHANGED vars
  BY <1>10, Zenon DEF vars
<1> QED
  BY <1>1, <1>2, <1>3, <1>4, <1>5, <1>6, <1>7, <1>8, <1>9, <1>10, MessageAssumption, Zenon
     DEF Next, Receiver, Handler, handleMember, handleUser

done == arriving \cup handled \cup dropped

\* How often a message occurs, place by place.
LEMMA Occurrences ==
  ASSUME TypeOK, NEW msg
  PROVE  /\ occurrences(msg) = is(held["listener"], msg) + is(held["receiver"], msg)
                                + is(held["handler"], msg)
                                + queued(highPriorQueue, msg) + queued(lowPriorQueue, msg)
         /\ occurrences(msg)' = is(held'["listener"], msg) + is(held'["receiver"], msg)
                                + is(held'["handler"], msg)
                                + queued(highPriorQueue', msg) + queued(lowPriorQueue', msg)
         /\ queued(highPriorQueue, msg) \in Nat /\ queued(lowPriorQueue, msg) \in Nat
<1>1. occurrences(msg) = inHands(held, msg) + queued(highPriorQueue, msg) + queued(lowPriorQueue, msg)
  BY Zenon DEF occurrences, inHands, queued
<1>2. occurrences(msg)' = inHands(held', msg) + queued(highPriorQueue', msg) + queued(lowPriorQueue', msg)
  BY Zenon DEF occurrences, inHands, queued
<1>3. /\ inHands(held, msg) = is(held["listener"], msg) + is(held["receiver"], msg) + is(held["handler"], msg)
      /\ inHands(held', msg) = is(held'["listener"], msg) + is(held'["receiver"], msg) + is(held'["handler"], msg)
  BY HandsSum, Zenon
<1>4. \A s \in Seq(Message) : queued(s, msg) \in Nat
  <2> TAKE s \in Seq(Message)
  <2>1. IsFiniteSet(1..Len(s)) /\ {k \in 1..Len(s) : s[k] = msg} \in SUBSET (1..Len(s))
    BY FS_Interval
  <2>2. IsFiniteSet({k \in 1..Len(s) : s[k] = msg})
    BY <2>1, FS_Subset, Zenon
  <2> QED
    BY <2>2, FS_CardinalityType, Zenon DEF queued
<1>5. queued(highPriorQueue, msg) \in Nat /\ queued(lowPriorQueue, msg) \in Nat
  BY <1>4, Zenon DEF TypeOK
<1> QED
  BY <1>1, <1>2, <1>3, <1>5, Zenon

\* Every step leaves a message in one place.
LEMMA AccountedStep ==
  ASSUME InboundInv, [Next]_vars
  PROVE  ArrivingIsNew' /\ Accounted'
<1> DEFINE hi(msg) == queued(highPriorQueue, msg)
           lo(msg) == queued(lowPriorQueue, msg)
           l == held["listener"]
           r == held["receiver"]
           h == held["handler"]
<1>a. TypeOK /\ HoldsWhereBusy /\ ArrivingIsNew /\ NoMsg \notin Message
  BY MessageAssumption, Zenon DEF InboundInv
<1>b. ASSUME NEW msg \in Message
      PROVE  /\ is(l, msg) + is(r, msg) + is(h, msg) + hi(msg) + lo(msg) = IF msg \in done THEN 0 ELSE 1
             /\ occurrences(msg)' = is(held'["listener"], msg) + is(held'["receiver"], msg)
                                    + is(held'["handler"], msg)
                                    + queued(highPriorQueue', msg) + queued(lowPriorQueue', msg)
             /\ hi(msg) \in Nat /\ lo(msg) \in Nat
  BY <1>a, <1>b, Occurrences, Zenon DEF InboundInv, Accounted, done
<1>c. /\ "listener" \in Goroutine /\ "receiver" \in Goroutine /\ "handler" \in Goroutine
      /\ held \in [Goroutine -> Message \cup {NoMsg}]
      /\ (l # NoMsg <=> at["listener"] = "send") /\ (r # NoMsg <=> at["receiver"] = "lock")
      /\ (h # NoMsg <=> at["handler"] = "handle")
      /\ l \in Message \cup {NoMsg} /\ r \in Message \cup {NoMsg} /\ h \in Message \cup {NoMsg}
  BY <1>a, Zenon DEF HoldsWhereBusy, busy, TypeOK, Goroutine
<1> HIDE DEF hi, lo
\* A step after which no message has moved.
<1>d. ASSUME \A msg \in Message : is(held'["listener"], msg) + is(held'["receiver"], msg) + is(held'["handler"], msg)
                                  = is(l, msg) + is(r, msg) + is(h, msg),
             UNCHANGED <<arriving, queues, handled, dropped>>
      PROVE  ArrivingIsNew' /\ Accounted'
  <2>1. ASSUME NEW msg \in Message
        PROVE  occurrences(msg)' = IF msg \in (arriving \cup handled \cup dropped)' THEN 0 ELSE 1
    BY <1>b, <1>d, <2>1, Zenon DEF done, queues, hi, lo
  <2> QED
    BY <1>a, <1>d, <2>1, Zenon DEF ArrivingIsNew, Accounted
<1>1. ASSUME NEW new \in Message, udpListen(new) PROVE ArrivingIsNew' /\ Accounted'
  <2>1. /\ new \in arriving /\ arriving' = arriving \ {new} /\ UNCHANGED <<highPriorQueue, lowPriorQueue, handled, dropped>>
        /\ l = NoMsg /\ held'["listener"] = new /\ held'["receiver"] = r /\ held'["handler"] = h
    BY <1>1, <1>c, Zenon DEF udpListen, goes, queues
  <2>2. ASSUME NEW msg \in Message
        PROVE  occurrences(msg)' = IF msg \in (arriving \cup handled \cup dropped)' THEN 0 ELSE 1
    <3>1. msg = new => msg \in done /\ msg \notin done'
      BY <1>a, <2>1, Zenon DEF done, ArrivingIsNew
    <3>2. msg # new => (msg \in done <=> msg \in done')
      BY <2>1, Zenon DEF done
    <3>3. is(l, msg) = 0 /\ is(new, msg) = IF msg = new THEN 1 ELSE 0
      BY <1>a, <2>1, Zenon DEF is
    <3>4. is(r, msg) \in Nat /\ is(h, msg) \in Nat
      BY Zenon DEF is
    <3> QED
      BY <1>b, <2>1, <3>1, <3>2, <3>3, <3>4 DEF done, hi, lo
  <2> QED
    BY <1>a, <2>1, <2>2, Zenon DEF ArrivingIsNew, Accounted
<1>2. CASE udpListenStop
  <2>1. l = NoMsg /\ held'["listener"] = NoMsg /\ held'["receiver"] = r /\ held'["handler"] = h
    BY <1>2, <1>c, Zenon DEF udpListenStop, goes
  <2> QED
    BY <1>2, <1>d, <2>1, Zenon DEF udpListenStop
<1>3. CASE receivePacket
  <2>1. r = NoMsg /\ held'["listener"] = NoMsg /\ held'["receiver"] = l /\ held'["handler"] = h
    BY <1>3, <1>c, Zenon DEF receivePacket
  <2>2. \A msg \in Message : is(held'["listener"], msg) + is(held'["receiver"], msg) + is(held'["handler"], msg)
                             = is(l, msg) + is(r, msg) + is(h, msg)
    BY <2>1 DEF is
  <2> QED
    BY <1>3, <1>d, <2>2, Zenon DEF receivePacket
<1>4. CASE receivePacketStop
  <2>1. r = NoMsg /\ held'["listener"] = l /\ held'["receiver"] = NoMsg /\ held'["handler"] = h
    BY <1>4, <1>c, Zenon DEF receivePacketStop, goes
  <2> QED
    BY <1>4, <1>d, <2>1, Zenon DEF receivePacketStop
<1>5. CASE notifyHandler
  BY <1>5, <1>d, Zenon DEF notifyHandler
<1>6. CASE backToSelect
  <2>1. h = NoMsg /\ held'["listener"] = l /\ held'["receiver"] = r /\ held'["handler"] = NoMsg
    BY <1>6, <1>c, Zenon DEF backToSelect, goes
  <2> QED
    BY <1>6, <1>d, <2>1, Zenon DEF backToSelect
<1>7. CASE handlerStop
  <2>1. h = NoMsg /\ held'["listener"] = l /\ held'["receiver"] = r /\ held'["handler"] = NoMsg
    BY <1>7, <1>c, Zenon DEF handlerStop, goes
  <2> QED
    BY <1>7, <1>d, <2>1, Zenon DEF handlerStop
<1>8. CASE Shutdown \/ closeShutdownCh \/ UNCHANGED vars
  BY <1>8, <1>d, Zenon DEF Shutdown, closeShutdownCh, vars, queues
<1>9. CASE pushLongRunMsg
  <2>1. /\ r \in Message /\ held'["listener"] = l /\ held'["receiver"] = NoMsg /\ held'["handler"] = h
        /\ UNCHANGED <<arriving, handled, dropped>>
        /\ \/ highPriorQueue' = Append(highPriorQueue, r) /\ lowPriorQueue' = lowPriorQueue
           \/ lowPriorQueue' = Append(lowPriorQueue, r) /\ highPriorQueue' = highPriorQueue
    BY <1>9, <1>c, Zenon DEF pushLongRunMsg, goes
  <2>2. ASSUME NEW msg \in Message
        PROVE  occurrences(msg)' = IF msg \in (arriving \cup handled \cup dropped)' THEN 0 ELSE 1
    <3>1. /\ queued(Append(highPriorQueue, r), msg) = hi(msg) + is(r, msg)
          /\ queued(Append(lowPriorQueue, r), msg) = lo(msg) + is(r, msg)
      BY <1>a, <2>1, QueuedAppend, Zenon DEF TypeOK, hi, lo
    <3>2. is(NoMsg, msg) = 0 /\ is(l, msg) \in Nat /\ is(r, msg) \in Nat /\ is(h, msg) \in Nat
      BY <1>a, Zenon DEF is
    <3>3. CASE highPriorQueue' = Append(highPriorQueue, r) /\ lowPriorQueue' = lowPriorQueue
      <4>1. queued(highPriorQueue', msg) = hi(msg) + is(r, msg) /\ queued(lowPriorQueue', msg) = lo(msg)
        BY <3>1, <3>3, Zenon DEF lo
      <4> QED
        BY <1>b, <2>1, <3>2, <4>1, SMTT(30) DEF done
    <3>4. CASE lowPriorQueue' = Append(lowPriorQueue, r) /\ highPriorQueue' = highPriorQueue
      <4>1. queued(highPriorQueue', msg) = hi(msg) /\ queued(lowPriorQueue', msg) = lo(msg) + is(r, msg)
        BY <3>1, <3>4, Zenon DEF hi
      <4> QED
        BY <1>b, <2>1, <3>2, <4>1, SMTT(30) DEF done
    <3> QED
      BY <2>1, <3>3, <3>4, Zenon
  <2> QED
    BY <1>a, <2>1, <2>2, Zenon DEF ArrivingIsNew, Accounted
<1>10. CASE dropLongRunMsg
  <2>1. /\ r \in Message /\ held'["listener"] = l /\ held'["receiver"] = NoMsg /\ held'["handler"] = h
        /\ UNCHANGED <<arriving, handled, highPriorQueue, lowPriorQueue>> /\ dropped' = dropped \cup {r}
    BY <1>10, <1>c, Zenon DEF dropLongRunMsg, goes, queues
  <2>2. r \notin done
    <3>1. is(r, r) = 1 /\ is(l, r) \in Nat /\ is(h, r) \in Nat
      BY Zenon DEF is
    <3> QED
      BY <1>b, <2>1, <3>1
  <2>3. ASSUME NEW msg \in Message
        PROVE  occurrences(msg)' = IF msg \in (arriving \cup handled \cup dropped)' THEN 0 ELSE 1
    <3>1. is(NoMsg, msg) = 0 /\ is(l, msg) \in Nat /\ is(h, msg) \in Nat /\ is(r, msg) = IF msg = r THEN 1 ELSE 0
      BY <1>a, Zenon DEF is
    <3>2. (msg \in done' <=> msg \in done \/ msg = r)
      BY <2>1, Zenon DEF done
    <3> QED
      BY <1>b, <2>1, <2>2, <3>1, <3>2 DEF done, hi, lo
  <2> QED
    BY <1>a, <2>1, <2>2, <2>3, Zenon DEF ArrivingIsNew, Accounted, done
<1>11. ASSUME NEW msgs \in SUBSET Message, handle(msgs) PROVE ArrivingIsNew' /\ Accounted'
  <2>1. /\ h \in Message /\ held'["listener"] = l /\ held'["receiver"] = r /\ held'["handler"] = NoMsg
        /\ UNCHANGED <<arriving, dropped, highPriorQueue, lowPriorQueue>> /\ handled' = handled \cup {h}
    BY <1>11, <1>c, Zenon DEF handle, goes, queues
  <2>2. h \notin done
    <3>1. is(h, h) = 1 /\ is(l, h) \in Nat /\ is(r, h) \in Nat
      BY Zenon DEF is
    <3> QED
      BY <1>b, <2>1, <3>1
  <2>3. ASSUME NEW msg \in Message
        PROVE  occurrences(msg)' = IF msg \in (arriving \cup handled \cup dropped)' THEN 0 ELSE 1
    <3>1. is(NoMsg, msg) = 0 /\ is(l, msg) \in Nat /\ is(r, msg) \in Nat /\ is(h, msg) = IF msg = h THEN 1 ELSE 0
      BY <1>a, Zenon DEF is
    <3>2. (msg \in done' <=> msg \in done \/ msg = h)
      BY <2>1, Zenon DEF done
    <3> QED
      BY <1>b, <2>1, <2>2, <3>1, <3>2 DEF done, hi, lo
  <2> QED
    BY <1>a, <2>1, <2>2, <2>3 DEF ArrivingIsNew, Accounted, done
<1>12. CASE getNextMsg
  <2>1. /\ h = NoMsg /\ held'["listener"] = l /\ held'["receiver"] = r /\ UNCHANGED <<arriving, handled, dropped>>
        /\ \/ /\ highPriorQueue # <<>> /\ held'["handler"] = lastOf(highPriorQueue)
              /\ highPriorQueue' = allButLast(highPriorQueue) /\ lowPriorQueue' = lowPriorQueue
           \/ /\ lowPriorQueue # <<>> /\ held'["handler"] = lastOf(lowPriorQueue)
              /\ lowPriorQueue' = allButLast(lowPriorQueue) /\ highPriorQueue' = highPriorQueue
           \/ held'["handler"] = NoMsg /\ UNCHANGED <<highPriorQueue, lowPriorQueue>>
    BY <1>12, <1>c, Zenon DEF getNextMsg, goes, queues
  <2>2. ASSUME NEW msg \in Message
        PROVE  occurrences(msg)' = IF msg \in (arriving \cup handled \cup dropped)' THEN 0 ELSE 1
    <3>1. is(l, msg) \in Nat /\ is(r, msg) \in Nat /\ is(NoMsg, msg) = 0 /\ is(held'["handler"], msg) \in Nat
      BY <1>a, Zenon DEF is
    <3>2. CASE highPriorQueue # <<>> /\ held'["handler"] = lastOf(highPriorQueue)
               /\ highPriorQueue' = allButLast(highPriorQueue) /\ lowPriorQueue' = lowPriorQueue
      <4>1. queued(highPriorQueue', msg) \in Nat /\ queued(highPriorQueue', msg) = hi(msg) - is(held'["handler"], msg)
        BY <1>a, <3>2, QueuedRemove, Zenon DEF TypeOK, hi
      <4>2. queued(lowPriorQueue', msg) = lo(msg)
        BY <3>2, Zenon DEF lo
      <4> QED
        BY <1>b, <2>1, <3>1, <4>1, <4>2, SMTT(30) DEF done
    <3>3. CASE lowPriorQueue # <<>> /\ held'["handler"] = lastOf(lowPriorQueue)
               /\ lowPriorQueue' = allButLast(lowPriorQueue) /\ highPriorQueue' = highPriorQueue
      <4>1. queued(lowPriorQueue', msg) \in Nat /\ queued(lowPriorQueue', msg) = lo(msg) - is(held'["handler"], msg)
        BY <1>a, <3>3, QueuedRemove, Zenon DEF TypeOK, lo
      <4>2. queued(highPriorQueue', msg) = hi(msg)
        BY <3>3, Zenon DEF hi
      <4> QED
        BY <1>b, <2>1, <3>1, <4>1, <4>2, SMTT(30) DEF done
    <3>4. CASE held'["handler"] = NoMsg /\ UNCHANGED <<highPriorQueue, lowPriorQueue>>
      BY <1>b, <2>1, <3>1, <3>4, Zenon DEF done, hi, lo
    <3> QED
      BY <2>1, <3>2, <3>3, <3>4, Zenon
  <2> QED
    BY <1>a, <2>1, <2>2, Zenon DEF ArrivingIsNew, Accounted
<1> QED
  BY <1>1, <1>2, <1>3, <1>4, <1>5, <1>6, <1>7, <1>8, <1>9, <1>10, <1>11, <1>12, MessageAssumption, Zenon
     DEF Next, Receiver, Handler, handleMember, handleUser

\* The invariant holds initially, and every step of Inbound preserves it.
LEMMA InboundInit == Init => InboundInv
<1> SUFFICES ASSUME Init PROVE InboundInv
  BY Zenon
<1>1. TypeOK
  BY DEF Init, TypeOK, Place, Goroutine
<1>2. HoldsWhereBusy /\ ArrivingIsNew
  BY Zenon DEF Init, HoldsWhereBusy, busy, ArrivingIsNew, Goroutine
<1>3. ASSUME NEW msg \in Message
      PROVE  occurrences(msg) = IF msg \in arriving \cup handled \cup dropped THEN 0 ELSE 1
  <2>1. is(held["listener"], msg) = 0 /\ is(held["receiver"], msg) = 0 /\ is(held["handler"], msg) = 0
    BY MessageAssumption, Zenon DEF Init, is, Goroutine
  <2>2. highPriorQueue = <<>> /\ lowPriorQueue = <<>> /\ msg \in arriving
    BY Zenon DEF Init
  <2>3. \A s : s = <<>> => queued(s, msg) = 0
    <3> SUFFICES ASSUME NEW s, s = <<>> PROVE queued(s, msg) = 0
      BY Zenon
    <3>1. {k \in 1..Len(s) : s[k] = msg} = {}
      OBVIOUS
    <3> QED
      BY <3>1, FS_EmptySet, Zenon DEF queued
  <2>4. occurrences(msg) = is(held["listener"], msg) + is(held["receiver"], msg) + is(held["handler"], msg)
                           + queued(highPriorQueue, msg) + queued(lowPriorQueue, msg)
    BY <1>1, Occurrences, Zenon
  <2>5. queued(highPriorQueue, msg) = 0 /\ queued(lowPriorQueue, msg) = 0
    BY <2>2, <2>3, Zenon
  <2> QED
    BY <2>1, <2>2, <2>4, <2>5
<1> QED
  BY <1>1, <1>2, <1>3, Zenon DEF InboundInv, Accounted

\* The invariant is inductive.
LEMMA InboundStep == InboundInv /\ [Next]_vars => InboundInv'
  BY PlacesStep, AccountedStep, Zenon DEF InboundInv

-----------------------------------------------------------------------------
\* A node from Build to Shutdown runs the goroutines of Inbound: what Build, the
\* sockets and the TCP goroutines do between their steps leaves them alone.
THEOREM TransportRunsInbound == TransportSpec => Spec
<1>1. TransportInit => Init
  BY Zenon DEF TransportInit
<1>2. [TransportNext]_transportVars => [Next]_vars
  <2> SUFFICES ASSUME [TransportNext]_transportVars PROVE [Next]_vars
    BY Zenon
  <2> USE DEF Next, vars
  <2>1. CASE Build
    BY <2>1, Zenon DEF Build, listenTCP, listenUDP, setUDPSocketBuf, cleanup, startOk, startFails
  <2>2. CASE collect \/ callShutdown \/ shutdownWaits
    BY <2>2, Zenon DEF collect, callShutdown, shutdownWaits
  <2>3. CASE packetListener \/ packetReceiver \/ messageHandler \/ userReads
    BY <2>3, Zenon DEF packetListener, packetReceiver, messageHandler, userReads
  <2>4. CASE tcpListen \/ receiveTcpConn \/ receiveTcpConnStop
    BY <2>4, Zenon DEF tcpListen, receiveTcpConn, receiveTcpConnStop
  <2>5. CASE UNCHANGED transportVars
    BY <2>5, Zenon DEF transportVars
  <2> QED
    BY <2>1, <2>2, <2>3, <2>4, <2>5, Zenon DEF TransportNext
<1> QED
  BY <1>1, <1>2, PTL DEF TransportSpec, Spec

\* Accounted holds in every behaviour of a node, whatever the depth of the queues:
\* queueing and draining concurrently, with Shutdown at any time, neither loses
\* nor repeats a packet.
THEOREM EveryPacketAccounted == TransportSpec => []Accounted
<1>1. InboundInv => Accounted
  BY Zenon DEF InboundInv
<1> QED
  BY <1>1, InboundInit, InboundStep, TransportRunsInbound, PTL DEF Spec

-----------------------------------------------------------------------------
Starting == {"tcp", "udp", "resize", "cleanup"}

\* What Build and Shutdown have opened and closed, at each of their steps.  A UDP
\* socket is in udpConns only after the last call of Start that can fail, no
\* socket stays open once Shutdown is under way, and shutdownCh is closed only
\* after both listeners have ended for good.
SocketsInv ==
  /\ at \in [Goroutine -> Place] /\ shutdown \in {"no", "transport", "closed"}
  /\ build \in Starting \cup {"listening", "running", "failing", "failed"}
  /\ build \in Starting => udpConn # "open"
  /\ build \in Starting \cup {"listening"} => shutdown = "no"
  /\ build = "failing" => shutdown # "no"
  /\ shutdown # "no" => ~tcpLn /\ udpConn # "open"
  /\ build = "failed" => ~tcpLn /\ udpConn # "open"
  /\ shutdown = "closed" => tcpListener = "stopped" /\ at["listener"] = "stopped"

\* SocketsInv is inductive; that the goroutines of Inbound are somewhere in their
\* code is taken from its own invariant.
LEMMA SocketsStep ==
  ASSUME InboundInv, InboundInv', SocketsInv, [TransportNext]_transportVars
  PROVE  SocketsInv'
<1>a. /\ at' \in [Goroutine -> Place] /\ shutdown' \in {"no", "transport", "closed"}
      /\ at \in [Goroutine -> Place]
  BY Zenon DEF InboundInv, TypeOK
<1> USE DEF SocketsInv, Starting
<1>1. CASE Build
  BY <1>1, <1>a, Zenon DEF Build, listenTCP, listenUDP, setUDPSocketBuf, cleanup, startOk, startFails,
                    Shutdown, closeSockets, vars, sockets, tcp
<1>2. CASE collect
  BY <1>2, <1>a, Zenon DEF collect, vars, tcp
<1>3. CASE callShutdown
  BY <1>3, <1>a, Zenon DEF callShutdown, Shutdown, closeSockets, tcp
<1>4. CASE shutdownWaits
  BY <1>4, <1>a, Zenon DEF shutdownWaits, closeShutdownCh, sockets, tcp
<1>5. CASE packetListener
  <2>1. at["listener"] = "read" /\ UNCHANGED shutdown /\ UNCHANGED <<build, tcpLn, udpConn, tcpListener>>
    BY <1>5, Zenon DEF packetListener, udpListen, udpListenStop, sockets, tcp
  <2> QED
    BY <2>1, <1>a, Zenon
<1>6. CASE packetReceiver
  <2>1. UNCHANGED <<shutdown, build, tcpLn, udpConn, tcpListener>>
    BY <1>6, Zenon DEF packetReceiver, Receiver, receivePacket, receivePacketStop, pushLongRunMsg,
                dropLongRunMsg, notifyHandler, sockets, tcp
  <2>2. at["listener"] = "stopped" => at'["listener"] = "stopped"
    BY <1>6, <1>a, Zenon DEF packetReceiver, Receiver, receivePacket, receivePacketStop, pushLongRunMsg,
                dropLongRunMsg, notifyHandler, goes, Goroutine
  <2> QED
    BY <2>1, <2>2, <1>a, Zenon
<1>7. CASE messageHandler \/ userReads
  <2>1. UNCHANGED <<shutdown, build, tcpLn, udpConn, tcpListener>>
    BY <1>7, Zenon DEF messageHandler, userReads, Handler, getNextMsg, backToSelect, handleMember, handleUser,
                handle, handlerStop, sockets, tcp
  <2>2. at["listener"] = "stopped" => at'["listener"] = "stopped"
    BY <1>7, <1>a, Zenon DEF messageHandler, userReads, Handler, getNextMsg, backToSelect, handleMember, handleUser,
                handle, handlerStop, goes, Goroutine
  <2> QED
    BY <2>1, <2>2, <1>a, Zenon
<1>8. CASE tcpListen \/ receiveTcpConn \/ receiveTcpConnStop
  BY <1>8, <1>a DEF tcpListen, receiveTcpConn, receiveTcpConnStop, vars, sockets
<1>9. CASE UNCHANGED transportVars
  BY <1>9, <1>a, Zenon DEF transportVars, vars, sockets, tcp
<1> QED
  BY <1>1, <1>2, <1>3, <1>4, <1>5, <1>6, <1>7, <1>8, <1>9, Zenon DEF TransportNext

\* NothingLeftOpen holds in every behaviour of a node, however often Start is
\* tried and at whichever of its calls a try fails.
THEOREM NothingStaysOpen == TransportSpec => []NothingLeftOpen
<1>1. TransportInit => SocketsInv
  BY Zenon DEF TransportInit, Init, SocketsInv, Starting, Goroutine, Place
<1>2. SocketsInv => NothingLeftOpen
  BY Zenon DEF SocketsInv, NothingLeftOpen
<1>3. TransportSpec => []InboundInv
  BY InboundInit, InboundStep, TransportRunsInbound, PTL DEF Spec
<1>4. InboundInv /\ InboundInv' /\ SocketsInv /\ [TransportNext]_transportVars => SocketsInv'
  BY SocketsStep, Zenon
<1> QED
  BY <1>1, <1>2, <1>3, <1>4, PTL DEF TransportSpec
=============================================================================
