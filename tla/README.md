# A TLA+ model of mlist

mlist is a gossip-based membership library: every node keeps a map of the
cluster (`nodeMap`), probes the others, spreads alive, suspect and dead messages
with UDP packets, exchanges whole states over TCP (push/pull), and forgets nodes
that have been dead for long enough. Line numbers refer to the files under `src/`.

## The parts and how they interact

| Part | State | Operations | What makes it hard |
|---|---|---|---|
| Membership state (`state.go`) | `nodeMap`, `suspicions`, `lives`, `left` under `nodeL` | `aliveNode`, `suspectNode`, `refute`, `deadNode`, `timeoutFn` | late, repeated and reordered messages; values read before `nodeL` is taken; timers that are never stopped |
| API (`memberlist.go`) | `left`, `shutdown` | `Build`, `Join`, `Leave`, `UpdateTags`, `Shutdown` | runs concurrently with everything else; waits for broadcasts with a timeout |
| Maintenance (`maintenance.go`) | `nodes`, `probeIdx` | `probe`, `gossip`, `reap`, `pushPull` on tickers | works on copies of entries |
| Ping (`ping.go`) | `seqNo`, `ackHandlers`, `indirectAckHandlers` | `Ping`, `IndirectPing`, `TcpPing`, ack handlers | unbuffered channels, deletion timers, late acks |
| Health (`awareness.go`) | `score` | `Punish` | clamp, sign of the argument |
| Suspicion timer (`suspicion.go`) | `confirmMap`, `timer` | `newSuspicion`, `Confirm` | `Stop`/`Reset` against a firing timer |
| Broadcast queue (`broadcast.go`) | heap, `exists`, `idSeq` | `QueueMsg`, `GetMessages`, `Finish` | replaced messages, transmit limit, notification |
| Inbound messages (`net_handlers.go`) | two queues, `mng.l` | `receivePacket`, `queueLongRunMsg`, `runLongRunMsgHandler` | full queue, lost wake-up, `Shutdown` |
| Push/pull (`pushpull.go`, `net_handlers.go`) | `numPushPull` | `handlePushPull`, `mergeState` | limit of concurrent exchanges, failures half way |
| Transport (`net_transport.go`) | listeners, `wg` | `Start`, `Shutdown`, `udpListen`, `tcpListen` | blocked senders at `Shutdown`, sockets left over by a failed try |
| Node events (`node_events.go`) | `eventCh` | `NotifyJoin`, `NotifyLeave`, `NotifyUpdate` | sent after `nodeL` is released, or while it is held |
| Keyring, encryption (`keyring.go`, `encrypt.go`) | `keys`, `primaryKey` | `AddKey`, `UseKey`, `RemoveKey` | rotation on many nodes while they talk |
| Codecs (`util.go`, `net_transport.go`) | | compound messages, `packUdp`, `packTcp` | one byte for a count, two for a length |

Packets go from the transport through Inbound to the handlers of the membership
state; these put messages into the broadcast queue, from which gossip and pings
take them; a failed probe ends in `suspectNode`, which creates a suspicion timer,
whose `timeoutFn` ends in `deadNode`.

## Modules

**Membership** is the core. `nodeMap[i][j]` is what node `i` records of `j`; each
critical section on `nodeL` is one action, and what a goroutine has read before it
waits for the lock is state: `probing` (the copy `probeNode` works on), `merging`
(push/pull entries on their way), `aliveCalls` (an `UpdateTags` between
`nextLiveNo` and `aliveNode`), `deadCalls` (a `Leave` or `timeoutFn` before
`deadNode`). Messages stay in the sets `alives`, `suspects` and `deads` for ever, so
a handler may see any of them at any time, again, or never. Timers, probe results
and expiry are free choices. Abstractions:

- `Leave` marks the node left and reads its Lives in one step. A step of another
  goroutine between the two can be moved before or after both, except for a
  renewal by an `aliveNode` call that passed its `hasLeft` test already, and that is
  `aliveCalls`.
- `Confirm`'s stopping and restarting of the timer all amount to "the timer has
  yet to fire" here; Suspicion has the detail.
- The suspicion that a ping carries to a suspect target joins the broadcasts.
- A message whose sender's address is not allowed is a lost message.
- Events are in NodeEvents; the health penalty of `refute` is left out.
- `Build` draws a fresh ID, so a restarted process is a new member of `Node`.

**MembershipTable** is the abstract specification of the maps: lives grow, an
entry comes back to life only with a newer life, a dead or left entry never
becomes suspect, only dead or left entries are forgotten, and a step changes one
node's map. Membership implements it with the identity on `nodeMap`
(`TableImplemented`).

**NodeEvents** follows one node through the parts of `aliveNode` and `deadNode` that
Membership leaves out: `aliveNode` broadcasts and sends its events after it has
released `nodeL`, `deadNode` does both while it holds it. `calls[g]` is what
goroutine `g` has yet to do, `queued` the one message about the node that the queue
keeps, `tally` a history of joins minus leaves. The application may call `Members`
between two events, and may stop reading.

**ProbeList** has `m.nodes` with `probeIdx`: the walk of `nextProbeNode`, the swap of
`aliveNode`, and `reap` with `swapExpiredToEnd` and the shuffle. `owed`, a history,
holds who was active when the round began and has not been probed in it.
**ProbeRounds** is what this promises, without list or index; ProbeList implements
it with `members`, `active` and `expired` read off the list and the states.

**Probe** has one prober, its target and the peers it asks: calls, handlers,
deletion timers, packets, the TCP ping and health; loss is a packet that is never
delivered, a repetition one that stays on its way after it was delivered, a
`GetAdvertiseAddr` error is a send error, and `TcpPing` has no sequence number.
Sequence numbers are a `uint32` that wraps around (`ping.go:38`); behaviours end at
`MaxSeqNo`, before a number is used again, so that a packet which outlives 2^32 pings
is not considered. `repeats`, a history, counts the indirect pings and answers that
were delivered again during the probe. That the target stops is a step of the
environment. **Suspicion** has one
suspicion timer over a clock in ticks; `Interpolated` stands for the logarithm of
`remainingTime`, of which only monotonicity and the first value are assumed.
**TransmitCapQueue** has the broadcast queue and the callers of `Leave` and
`UpdateTags` that wait for `notifyCh`; a history `log` counts transmissions.

**Inbound** has the three goroutines between the UDP socket and the handlers, the
two queues, the mutex and `Shutdown`. **Transport** extends it to the whole life of a
node: `Build` with the calls of `Start` that may fail, the tries of
`ZeroBindPortTransport`, the TCP listener and receiver, a `start` that fails, and
`Shutdown` waiting for both listeners. A UDP socket whose buffer could not be
resized is `"lost"`: open, in no list, and keeping its port until it is collected.

**Wire** composes what two nodes send each other. **PushPullServer** is the
accepting side of push/pull with its counter of width `Word`; every step of a server
goroutine in Wire is a step there, and the client's end, its failures and the
content of the connection are added. **Keyring** has the keyring's operations and
the packing and unpacking of packets and streams, as far as the key decides whether
the other end can read them. **Compound** has compound messages as sequences of
bytes of `ByteValues` values (256 in the code), with a count that wraps at
`ByteValues` and a length that wraps at its square. The administrator who rotates
keys is the environment: before a node is told to use or to remove a key they look
at the other nodes; what the node itself is not ready for its keyring must refuse.

Operators named for a slip of the definition that follows them
(`refuteUnrecorded`, `restartAlways`, ...) are plausible mistakes in that definition;
substituting one makes TLC report the property it is meant for. No specification
uses them.

## Runs

Each MC module instantiates a specification; the `.cfg` files give the bounds.

| Configuration | Checks | Instance |
|---|---|---|
| MCMembership | `TypeOK`, `LivesDrawn`, `OwnEntryNewest`, `AliveTagsAgree`, `DeathNeedsSuspicion`, `LeftNeedsLeave` | 2 nodes, 2 tag values, 3 lives, push/pull (while no more than 2 lives are drawn), reaping, leaving (before any suspicion) |
| MCMembershipConfirm | `SuspicionMatchesState`, `SuspectHasTimer` | 3 nodes, two symmetric observers of the third; no crash, leave, update or reap |
| MCMembershipLive | `SelfAlive`, `SuspicionResolved`, `TableImplemented` | 2 nodes, 2 lives, crash, leave, update, reap, one timer per life; no push/pull |
| MCMembershipLeave | `LeaveTakesEffect` is violated | as above, with two timers for one life |
| MCNodeEvents | `EventsAccounted`, `QueuedIsNewest`, `MembersReturns` | 2 goroutines, 3 lives, 2 tag values, a channel of 1 |
| MCProbeList | `ListMatchesMap`, `RoundsImplemented`, `EveryoneProbed` | 3 peers and the node itself, which may leave and expire too |
| MCProbe | `AliveIsFresh`, `NacksAccounted`, `ProbeEnds` | 2 probes, 1 peer, any packet repeated, an indirect one once; the first probe with every error until then, the second one restricted (see below) |
| MCSuspicion | `StartedOnce`, `DeadlineMatchesConfirms`, `StartedInTime`, `TimeoutFnRuns` | 5 nodes, `confirmCap` 4 |
| MCTransmitCapQueue | `ExistsMatchesQueue`, `NoBroadcastLost`, `NotifiedMeansGone`, `BroadcastGoesOut` | 3 messages, 2 names or none, packets with room for one or two of the small messages and for none of the large ones, 2 transmit limits |
| MCWire | `CounterExact`, `ExchangesBounded`, `RotationReadable`, `BatchIntact`, `PullImpliesPush`, `RequestEnds` | 2 nodes, 3 connections (2 while there are keys), limit 2, 2 keys or no encryption, bytes of 3 values: up to 3 messages where 2 fit the count |
| MCTransport | `Accounted`, `NothingLeftOpen`, `WokenDrains`, `BuildReturnsUnlessBusy`, `ShutdownReturnsUnlessFull`, `GoroutinesEnd` | 2 tries, 5 messages, depth 2: the low priority queue can overflow |
| MCInbound, MCInboundFullShutdown.cfg | `ShutdownReturns` is violated | depth 1 |

Why the bounds are enough: the races of Membership need one accused node, one
accuser and two lives (the accused one and the refuting one); tags need a third
life so that an update and a refutation can both be pending. Confirmations need a
third node, since `confirmCap` is 1 for two. `Subject` restricts who
is probed, leaves or updates to one node, since entries of different subjects do
not influence each other except through `numNodes`. A round of probes needs three
peers for one to be passed over between two others. Two goroutines are enough for
one `aliveNode` to be overtaken; three lives let a node die, come back and be
accused again. Bytes of three values reach the limits of count and length with the
messages that a run can enumerate: a batch that fills a packet, one that overflows
into a second, and a message of more bytes than the low byte of a length can hold.
`MaxTries` is 2 since every try after the first is alike. Deadlock checking is off
where every behaviour ends because a bound is used up or the node has stopped.

Three runs leave states out. MCMembership lets a node leave only before any suspicion;
what its properties say of the other order is proved. MCWire has packets or
connections under way, not both at once, as they share nothing but the keyrings, and
uses the third connection, which is there to exceed the limit, without keys. MCProbe
is unrestricted in the first probe until an indirect packet is repeated. From then on,
and in the second probe, no send fails, no deletion timer fires, `TcpPing` does not
return, and packets and runs at a time are bounded. The second probe follows a failed
one of which up to one packet is left, an ack, a nack, a ping or an indirect ping, and
the runs that have not ended; it may have two packets of its own besides, so that the
leftover one meets the second probe's calls while they wait for their answers. The
second probe's own packets are not repeated. The two safety properties are proved
without any of these restrictions.

### What the violated properties show

- **LeaveTakesEffect**: an `UpdateTags` that is past the `hasLeft` test makes
  `Leave`'s dead message too old; the node stays alive in its own map.
- **ShutdownReturns** with a full queue: `queueLongRunMsg` returns with `mng.l`
  locked (`net_handlers.go:271`). `ShutdownReturnsUnlessFull` is what remains true.

### What the models show without a property

- A message queued between the handler's last `getNextMsg` and its select notifies
  nobody and waits for the next message (`net_handlers.go:278`).
- A broadcast may go out before `Leave` or `UpdateTags` reaches its select; the
  notification is lost and the call reports a timeout (`memberlist.go:294`).
- An ack that arrives before `Ping` has reached its select is dropped together with
  its handler, and the ping times out (`ping.go:80`).
- The deletion timer of an ack handler can run before the handler is inserted,
  which then stays in the map (`ping.go:61`).
- A repeated nack is counted twice by `invokeIndirectAckHandler` (`ping.go:141`), and a
  repeated indirect ping is answered twice. Either makes `missedNacks` negative, and
  the failed probe then improves the health score (`maintenance.go:185`).
  `NacksAccounted` says that nothing else does.
- `config.go:34` calls `MaxPushPulls` the maximum of concurrent exchanges, and
  `ExchangesBounded` shows that it is never exceeded. It is not reached either: the
  counter includes the request itself and is compared with `>=`
  (`net_handlers.go:447`), so one exchange fewer is served, and with `MaxPushPulls = 1`
  none.
- A steady stream of new broadcasts keeps older ones back: `Less` prefers what was
  transmitted less often (`broadcast.go:25`). `BroadcastGoesOut` is about a queue to
  which nothing new is added; then messages too large for any packet stay in the heap
  and keep nobody else out.
- Since `aliveNode` broadcasts and notifies after it has released `nodeL`, its alive
  message may replace the newer dead message of the same node in the queue, and its
  join event may follow the leave event (`state.go:118`). `QueuedIsNewest` is the
  direction that does hold: an outdated accusation never stays queued.
- A `reap` shuffles the list even when nothing has expired and keeps `probeIdx`, so
  it cuts the round short, and a node may be passed over or probed twice;
  `EveryoneProbed` is about a list that is no longer rearranged, and ProbeRounds ends
  the round at a `Forget`.
- `Build` hangs when `start` fails after a listener has accepted something: nobody
  takes it, and `Shutdown` waits for the listener (`memberlist.go:164`).
  `BuildReturnsUnlessBusy` excepts this case and no other.
- A UDP socket whose buffer cannot be resized stays open (`net_transport.go:107`).
- `sendMsgPiggyback` does not split its messages, nor compare their number with what
  the count byte can tell (`net_transport.go:358`): with one message more than 255 the
  count wraps around and the messages are lost. The run reaches this case;
  `BatchIntact` is about gossip, which splits, and about pings below the limit. Member
  broadcasts are long enough that fewer fit into `UDPBufferSize`, broadcasts of the
  application of a byte or two would not be.

### Fairness

Weak fairness of what the Go runtime runs by itself: timers that are due, waiters
for a mutex, goroutines that can go on. NodeEvents has strong fairness for `Members`:
a reader that waits for an `RWMutex` gets it when the writer unlocks, before the next
writer; the timeout of `send` is what frees `nodeL`, and the application need not
read. ProbeList assumes the ticker of `probe`, not that of `reap`. Transport and
Inbound assume that the application
reads `usrMsgCh`; TransmitCapQueue that gossip goes on with the same packet size
(it runs on a ticker); Wire that the server's reads and writes end, which the deadline
`TcpTimeout` ensures. Nothing is assumed of the network, and no node has to do
anything that a user must ask for. In Probe the deletion timers have no fairness: a
call ends by its own timeout.

## Proofs

TLAPS checks the following for every value of the constants that satisfies the
assumptions in the modules (`ConstantsAssumption` and so on).

| Module | Theorem | Statement |
|---|---|---|
| MembershipSteps | `TypeCorrect` | `Spec => []TypeOK` |
| MembershipLives | `SelfStaysAlive`, `LivesAreDrawn`, `OwnEntryIsNewest` | `[]SelfAlive`, `[]LivesDrawn`, `[]OwnEntryNewest` |
| MembershipLives | `NewLifeOutbidsAll` | when the own entry of a node that has not left moves on to another life, that life beats every entry, message and pending accusation about it |
| MembershipPromises | `SuspicionsMatchStates`, `DeathsAreSuspected`, `LeftNodesCalledLeave` | `[]SuspicionMatchesState`, `[]DeathNeedsSuspicion`, `[]LeftNeedsLeave` |
| MembershipPromises | `SuspectsHaveTimers`, `AliveTagsAlwaysAgree` | `[]SuspectHasTimer`, `[]AliveTagsAgree` |
| MembershipPromises | `MembershipImplementsTable` | `Spec => TableImplemented` |
| MembershipPromises | `EntriesOnlyMoveOn` | an entry that stays in the map only moves on: to a newer life, or from alive over suspect to dead or left |
| NodeStateProofs | `EveryEventAccounted`, `QueueHoldsNewest` | `[]EventsAccounted`, `[]QueuedIsNewest` of NodeEvents |
| NodeStateProofs | `TimeoutStartedOnce`, `DeadlineFollowsConfirms`, `TimeoutInTime` | `[]StartedOnce`, `[]DeadlineMatchesConfirms`, `[]StartedInTime` of Suspicion |
| NodeStateProofs | `TimeoutOnlyComesCloser` | a step never puts off a pending timeout, and never sets a timer again that has been stopped |
| ProbeProofs | `ProbeAliveIsFresh` | `Spec => []AliveIsFresh` |
| ProbeProofs | `ProbeNacksAccounted` | `Spec => []NacksAccounted` |
| ProbeListProofs | `ListStaysInStep` | `Spec => []ListMatchesMap` |
| ProbeListProofs | `ProbingGoesInRounds` | `Spec => RoundsImplemented`: ProbeList implements ProbeRounds |
| TrafficProofs | `ExistsAlwaysMatches`, `NoBroadcastEverLost`, `NotifiedOnlyWhenGone` | `[]ExistsMatchesQueue`, `[]NoBroadcastLost`, `[]NotifiedMeansGone` |
| TrafficProofs | `TransportRunsInbound` | `TransportSpec => Spec`: the UDP side of Transport is Inbound |
| TrafficProofs | `EveryPacketAccounted`, `NothingStaysOpen` | `TransportSpec => []Accounted`, `TransportSpec => []NothingLeftOpen` |
| WireProofs | `PushPullsCounted`, `ExchangesStayBounded` | `Spec => []CounterExact`, `Spec => []ExchangesBounded` of PushPullServer |
| WireProofs | `WireImplementsServer` | `WireSpec => ServerImplemented`: the server's side of Wire is PushPullServer |
| WireProofs | `WireServesBounded` | `WireSpec => [](CounterExact /\ ExchangesBounded)` |
| WireProofs | `KeysCanBeRotated`, `PullsArePushes` | `WireSpec => []RotationReadable`, `WireSpec => []PullImpliesPush` |
| WireProofs | `BatchesStayIntact` | `WireSpec => []BatchIntact` |

### Membership

MembershipSteps reduces a step of Membership to one of a few effects on the maps
(an alive message applied, a refutation, a confirmation, a first suspicion, a
death, a reaping, or none), each with a message from a known source; the
invariants are proved from that case analysis. `SelfAlive` needs that the calls
waiting in `aliveCalls` are the node's own (`CallsSelf`): they are past the tests
that `aliveNode` makes before it takes `nodeL`. `LivesDrawn` is inductive once the
types are known. `OwnEntryNewest` needs both of these: a life that `UpdateTags`
has drawn and not announced is newer than the own entry, and must be the owner's.
`NewLifeOutbidsAll` is its consequence for a step: the own life never goes back
(`OwnLivesGrow`), so one refutation is enough against all that was said before.
`SuspicionMatchesState` needs that a node never suspects itself.
`DeathNeedsSuspicion` and `LeftNeedsLeave` follow from one invariant (`Caused`),
which also speaks of suspect entries, of the `deadNode` calls in progress and of
the states being merged, since each of these can turn into a death later; the
causes themselves, `left` and the broadcast suspicions, never go away.
`SuspectHasTimer` holds because a timer only goes away by running, then its guard
matches and it calls `deadNode`, and that call cannot be ignored while the entry
is still suspect with the same life. `AliveTagsAgree` compares two maps, which no
step relates directly; `TagsInv` goes through the messages instead. Whoever sees a
node alive has it from an alive message with that life and these tags, and so has
a state being merged (`AliveAnnounced`); and among all alive messages, sent or
still waiting in an `UpdateTags`, a life has one value of the tags (`TagsOfLife`),
because `Build`, `UpdateTags` and `refute` announce lives that nobody has named
before (`LivesDrawn`) and everything else repeats a message. The refinement goes
through the effects one by one: an alive message is `Appear` or `Renew`, a
refutation is `Renew` (the own entry is alive, and its life is drawn, so that the
new one is newer), a suspicion is `Accuse`, a death `Die`, a reaping `Forget`, and
the rest leaves the maps alone. `EntriesOnlyMoveOn` is read off the table: each of
its steps that keeps an entry moves it on in the order of lives and, within a life,
of states. So no message that comes late, twice or out of order takes an entry back
to an earlier value.

### NodeEvents and Suspicion

`EventsAccounted` is inductive with the types alone, but it is a sum over the
goroutines: joins minus leaves, those received, in the channel, given up, and
still to be sent by any call, is 1 while the node is active and 0 otherwise. The
proof follows each summand through a step: a call's agenda changes for one
goroutine only (`CountUpdate`), and the channel gains or loses one event. The
types carry which agendas occur: no call sends the same event twice.
`QueuedIsNewest` is inductive with the types: what `suspectNode` and `deadNode`
queue is what they have written under the same lock, and an `aliveNode` that has
overtaken it replaces it when it broadcasts. In Suspicion the inductive invariant
is the conjunction of the three properties, the types, and a bound on the clock
(`NowBound`): the timer is stopped exactly when `timeoutFn` has been started. From
it, `TimeoutOnlyComesCloser` follows for the three steps that touch the timer.
`Confirm` sets it again only while it has not fired, and to the timeout of one more
confirmation, which is no later because the timeouts do not grow.

### Probe

`FreshInv` follows an answer back to its question. The prober's calls and packets
never use one sequence number for a ping and an indirect ping (`SeqsApart`), and
whatever could make the current probe succeed (an ack or indirect ack on its way
with one of its numbers, a relaying peer whose ping was answered, a call that
returned, a TCP ping) exists only if the target has answered since the probe began
(`WitnessIsFresh`). `NacksAccounted` needs `NackInv` on top, an account kept for the
number of the current indirect ping: every nack that is counted, on its way, or still
to come (from a run of `Ping` at a peer, or from an indirect ping that has not been
delivered) belongs to one peer that was asked, or to one repetition (`nacksFit`).
Runs are told apart by their numbers (`UniqueRuns`), so that each step moves one item
of this account from one place to the next: a delivery turns an indirect ping into a
run, a reply turns the run into an answer, and an answer that arrives becomes a count.
Only a packet that stays on its way after it was delivered adds an item, and `repeats`
counts just these.

### ProbeList

The loops of this component are functions on numbers, and what they compute is shown
by induction. The library's induction theorems need an operator as a parameter; the
well-foundedness of the natural numbers does not, and gives the induction in the
form of sets (`LeastNumber`, `LoopInduction`): a set of numbers that holds 0, and
with each number of a range the next one, holds the whole range. `LoopRuns` shows
with it that the function `swapExpiredToEnd` is defined by satisfies its equation,
`ExpiredAtEnd` that its turns keep the loop's invariant (`Looked`): the list is a
rearrangement, the nodes before `i` are to be kept, those from `expiredIdx` on have
expired. `IInv` adds to `ListMatchesMap` that no node is in the list twice and that
whoever is owed a probe in this round is active and lies ahead of `probeIdx`. This
is why nobody is passed over: the swap of `aliveNode` moves a node only to the end of
the list. It is also why a round that `reap` has shuffled owes nothing. The mapping
to ProbeRounds then goes step by step. `PeerAssumption` says that the peers are
finitely many: the length of the list is compared with a cardinality.

### TransmitCapQueue

`QueueInv` adds to the three properties that an item and its log entry agree
(`ItemsLogged`), that no two items carry the same message (`MessagesUnique`), and
that an item that has been sent is below the limit for some size of the cluster
(`BelowLimit`): the last is what bounds its transmissions when it is picked again
and the cluster has changed size in between. `exists` and the heap agree because
`Push` removes the item that the id in `exists` points to, and `idSeq` is reset
only when the heap is empty.

### Inbound and Transport

`Accounted` needs that a goroutine holds a message exactly at the places where it
has one to pass on (`HoldsWhereBusy`), and that a message on the network has not
been dealt with (`ArrivingIsNew`). Each step then moves one message from one
summand to another. `TransportRunsInbound` takes this over to the whole life of a
node. `SocketsInv` says at each step of `Build` and `Shutdown` what is open: a UDP
socket is in `udpConns` only after the last call of `Start` that can fail, which
is why the deferred `Shutdown` closes everything that can be closed.

### Wire

In WireProofs, `CounterExact` is inductive with the types; the limit follows
because a goroutine enters an exchange only while the counter, itself included, is
below the limit. `WireImplementsServer` takes this over to Wire. `KeysInv` says
that either nobody encrypts, or every node's primary key is in every keyring:
`UseKey` and `RemoveKey` keep their own node's part of it by what they refuse, the
other nodes' part is what the administrator looks at. `PullInv` adds to
`PullImpliesPush` that a state is only ever on its way to the client when the
server has merged or is about to, which `sendLocalState` before `mergeState`
ensures.

`BatchIntact` compares what the receiver would take out of the packets under way with
what was sent. The first half of WireProofs shows, by the same induction as for
ProbeList, that `written` joins sequences one after the other (`WrittenJoins`), that a
sequence cut into parts and joined again is itself (`CutJoins`), and that a length below
`ByteValues` squared survives its two bytes (`LengthSurvives`). From these,
`CompoundIntact` follows the offsets of `unpackCompoundMsg` through the header and the
messages of a packet of at most `maxMsgs` messages, and `SplitIntact` does the same
for all packets of `splitToCompoundMsgs`. In Wire, `BatchInv` is `BatchIntact` without
its hypothesis that the receiver still has the key, so that no change of keys
touches it. `WireAssumption` does not bound the messages of a round of gossip or of a
ping.

### Only model-checked

Every safety invariant and every refinement that a passing run checks is also
proved. What is left to TLC is liveness (`SuspicionResolved`, `MembersReturns`,
`ProbeEnds`, `TimeoutFnRuns`, `BroadcastGoesOut`, `EveryoneProbed`, `RequestEnds`,
`WokenDrains`, `BuildReturnsUnlessBusy`, `ShutdownReturnsUnlessFull`,
`GoroutinesEnd`): fairness and ENABLED are out of the prover's reach.

## Not modelled

- Compression and the CRC, which the receiver undoes exactly; the label, which all
  nodes share; AES-GCM itself, nonces and the layout of what is encrypted.
- Encoding and decoding of single messages with msgpack.
- Address helpers: `hasPublicIface`, CIDR tests (a set of allowed pairs in
  Membership), the resolution of host names and the splitting of addresses in `Join`.
- `pickRandomNodes` is a free choice; tickers and timeouts have no clock outside
  Suspicion, so `ScaleTimeout` and the values of the configuration do not appear.
- Shared byte buffers (`copyBytes` returns its argument).
- An event channel without a buffer (`ChSize` is at least 1).
- `Resize` of the queue, which nothing calls; broadcasts and state of the
  application.
- Accessors, the setters of the builder, logging, usage counters and `testaddr`.
