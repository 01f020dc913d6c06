-------------------------- MODULE TransmitCapQueue --------------------------
(***************************************************************************)
(* The broadcast queue: QueueMsg replaces the queued message of the same   *)
(* name, GetMessages fills a packet with the messages transmitted least    *)
(* often and drops a message after transmitLimit transmissions, Finish     *)
(* tells the caller of Leave or UpdateTags that its message is gone.       *)
(*                                                                         *)
(* log records, for every message ever queued, how often it was sent and   *)
(* what its caller is doing; an item refers to its message by its place in *)
(* log.  Every operation holds q.l from start to end.                      *)
(***************************************************************************)
EXTENDS Integers, Sequences, FiniteSetsExt

CONSTANTS
  Name,             \* node IDs that broadcasts are about
  NoName,           \* the empty name, which invalidates nothing
  Awaited,          \* the names whose messages a caller may wait for: the own ID
  Size,             \* encoded sizes of messages
  Room,             \* sizes that GetMessages is called with
  Overhead,         \* lenMsgOverhead
  MinSize,          \* 20, the size below which GetMessages stops looking
  NumNodes,         \* values that q.NumNodes() may return
  TransmitScale,
  MaxMessages       \* bound on the number of messages queued

ASSUME QueueAssumption ==
  /\ Size \subseteq Nat \ {0} /\ Room \subseteq Nat /\ NumNodes \subseteq Nat
  /\ Overhead \in Nat /\ MinSize \in Nat
  /\ TransmitScale \in Nat /\ MaxMessages \in Nat
  /\ NoName \notin Name /\ Awaited \subseteq Name
  /\ NumNodes # {}

VARIABLES
  queue,            \* the items in the heap
  exists,           \* exists[name]: the id of the item of that name, or NoId
  idSeq,
  log

queueVars == <<queue, exists, idSeq, log>>

NoId == -1

QueueInit ==
  /\ queue = {}
  /\ exists = [n \in Name |-> NoId]
  /\ idSeq = 0
  /\ log = <<>>

-----------------------------------------------------------------------------
\* The item that the heap pops first.
Less(i, j) ==
  \/ i.transmits < j.transmits
  \/ i.transmits = j.transmits /\ i.size > j.size
  \/ i.transmits = j.transmits /\ i.size = j.size /\ i.id > j.id

\* scale * ceil(log10(n + 1))
transmitLimit(n) == TransmitScale * Cardinality({k \in 0..n : \A j \in 0..k : 10^j < n + 1})

\* A log entry whose caller goes on, and one that is sent once more.
callerIs(entry, caller) == [name |-> entry.name, sent |-> entry.sent, caller |-> caller]
sentOnce(entry) == [name |-> entry.name, sent |-> entry.sent + 1, caller |-> entry.caller]

\* Slip of FinishAll: the callers share one channel.
FinishAllShared(msgs, l) ==
  [m \in DOMAIN l |-> IF msgs # {} /\ l[m].caller = "select"
                        THEN callerIs(l[m], "notified") ELSE l[m]]

\* Finish: the send succeeds only if the caller already waits in its select.
FinishAll(msgs, l) ==
  [m \in DOMAIN l |-> IF m \in msgs /\ l[m].caller = "select"
                        THEN callerIs(l[m], "notified") ELSE l[m]]

\* Slip of Push: the old item stays in the heap.
PushKeepOld(item) ==
  /\ queue' = queue \cup {item}
  /\ exists' = [n \in Name |-> IF n = item.name THEN item.id ELSE exists[n]]

Push(item) ==
  /\ queue' = {i \in queue : item.name \notin Name \/ i.id # exists[item.name]} \cup {item}
  /\ exists' = [n \in Name |-> IF n = item.name THEN item.id ELSE exists[n]]

QueueMsg(name, size, notify) ==
  LET item == [name |-> name, id |-> idSeq, transmits |-> 0, size |-> size, msg |-> Len(log) + 1]
      old == {i.msg : i \in {i \in queue : name \in Name /\ i.id = exists[name]}}
  IN  /\ Len(log) < MaxMessages
      /\ Push(item)
      /\ idSeq' = idSeq + 1
      /\ log' = Append(FinishAll(old, log),
                       [name |-> name, sent |-> 0, caller |-> IF notify THEN "calling" ELSE "none"])

\* What the items of the packet that the heap pops before item take up.
bytesUsed(packet, item) ==
  MapThenSumSet(LAMBDA i : i.size + Overhead, {i \in packet : Less(i, item)})

\* Slip of fills: an item that does not fit ends the search.
fillsFirstFit(packet, size) ==
  \A item \in queue :
    item \in packet <=> /\ bytesUsed(packet, item) + item.size + Overhead <= size
                       /\ \A i \in queue : Less(i, item) => i \in packet

\* The items are popped in heap order as long as MinSize bytes are left; one that
\* does not fit is put aside and the search goes on.
fills(packet, size) ==
  \A item \in queue :
    item \in packet <=> /\ bytesUsed(packet, item) + MinSize + Overhead <= size
                       /\ bytesUsed(packet, item) + item.size + Overhead <= size

\* Slip of finished: the limit is compared with the count before this transmission.
finishedLate(item, limit) == item.transmits >= limit

finished(item, limit) == item.transmits + 1 >= limit

nextIdSeq(left) == IF left = {} THEN 0 ELSE idSeq

transmitted(i) ==
  [name |-> i.name, id |-> i.id, transmits |-> i.transmits + 1, size |-> i.size, msg |-> i.msg]

\* What becomes of the items in a packet: sent once more, or finished.
send(picked, n) ==
  LET done == {i \in picked : finished(i, transmitLimit(n))}
      sent == [m \in DOMAIN log |-> IF \E i \in picked : i.msg = m
                                      THEN sentOnce(log[m]) ELSE log[m]]
  IN  /\ queue' = (queue \ picked) \cup {transmitted(i) : i \in picked \ done}
      /\ exists' = [k \in Name |-> IF k \in {i.name : i \in done} THEN NoId ELSE exists[k]]
      /\ idSeq' = nextIdSeq(queue')
      /\ log' = FinishAll({i.msg : i \in done}, sent)

GetMessages(size, n) ==
  /\ size > Overhead /\ queue # {}
  /\ \E picked \in SUBSET queue : fills(picked, size) /\ send(picked, n)

\* Leave and UpdateTags, after QueueMsg: wait for the notification or the timeout.
waitForBroadcast(m) ==
  /\ log[m].caller = "calling"
  /\ log' = [log EXCEPT ![m] = callerIs(log[m], "select")]
  /\ UNCHANGED <<queue, exists, idSeq>>

waitTimeout(m) ==
  /\ log[m].caller = "select"
  /\ log' = [log EXCEPT ![m] = callerIs(log[m], "timeout")]
  /\ UNCHANGED <<queue, exists, idSeq>>

-----------------------------------------------------------------------------
QueueNext ==
  \/ \E name \in Name \cup {NoName}, size \in Size, notify \in BOOLEAN :
       (notify => name \in Awaited) /\ QueueMsg(name, size, notify)
  \/ \E size \in Room, n \in NumNodes : GetMessages(size, n)
  \/ \E m \in DOMAIN log : waitForBroadcast(m) \/ waitTimeout(m)

QueueSpec == QueueInit /\ [][QueueNext]_queueVars

\* gossip runs on a ticker, with the same packet size each time.
QueueFairness ==
  WF_queueVars(\E size \in Room, n \in NumNodes :
                 (\A r \in Room : r <= size) /\ GetMessages(size, n))

QueueFairSpec == QueueSpec /\ QueueFairness

-----------------------------------------------------------------------------
\* exists points at the one item of each name, ids are unique among the items
\* and below idSeq: the counter that GetMessages resets never hands out an id
\* twice, so that Remove(old.ID()) takes out the message it is meant for.
ExistsMatchesQueue ==
  /\ \A i, j \in queue : i.id = j.id => i = j
  /\ \A i \in queue : i.id < idSeq /\ (i.name \in Name => exists[i.name] = i.id)
  /\ \A n \in Name : exists[n] # NoId => \E i \in queue : i.name = n /\ i.id = exists[n]

atLeastOne(n) == IF n = 0 THEN 1 ELSE n

\* No broadcast is lost: a message leaves the queue only after transmitLimit
\* transmissions, for a size that the cluster had, or because a newer message
\* of the same name has replaced it; and none is sent more often than the limit.
NoBroadcastLost ==
  \A m \in DOMAIN log :
    /\ \E n \in NumNodes : log[m].sent <= atLeastOne(transmitLimit(n))
    /\ \/ \E i \in queue : i.msg = m /\ i.transmits = log[m].sent
       \/ \E n \in NumNodes : log[m].sent >= atLeastOne(transmitLimit(n))
       \/ \E k \in DOMAIN log : k > m /\ log[k].name = log[m].name /\ log[m].name \in Name

\* A caller is notified only when its message is no longer in the queue.
NotifiedMeansGone ==
  \A i \in queue : log[i.msg].caller # "notified"

\* Once nothing new is queued, every message that fits into a gossip packet is sent
\* until it is finished or replaced: messages too large for any packet stay ahead of
\* it in the heap for ever, but do not keep it out.  While new messages go on
\* arriving they may: Less prefers what was transmitted less often.
BroadcastGoesOut ==
  <>[][Len(log') = Len(log)]_log
    => \A m \in 1..MaxMessages :
         (\E i \in queue : i.msg = m /\ \E r \in Room : i.size + Overhead <= r)
           ~> ~(\E i \in queue : i.msg = m)
=============================================================================
