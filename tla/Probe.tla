------------------------------- MODULE Probe --------------------------------
(***************************************************************************)
(* One node probes another: probeNode calls Ping, and when that fails asks *)
(* peers to ping (IndirectPing) and dials the target (TcpPing).  Pings,    *)
(* acks and indirect acks travel in UDP packets that may be late, lost     *)
(* (never delivered) or delivered again and again; pingManager maps        *)
(* sequence numbers to the goroutines that wait.  They are taken from a    *)
(* uint32 that wraps around; the model ends before one is used again.      *)
(*                                                                         *)
(* A call is one run of Ping or IndirectPing.  Its channel is unbuffered,  *)
(* so what is sent to it before the goroutine reaches its select is lost.  *)
(* Timeouts may expire at any time, in any order.                          *)
(***************************************************************************)
EXTENDS Integers, FiniteSets

CONSTANTS
  Prober, Peer,     \* the probing node; the nodes it may ask
  Max,              \* AwarenessMaxMultiplier
  MaxProbes,        \* bound on the number of probes
  MaxRepeats,       \* bound on the indirect pings and answers to them that are
                    \* delivered again during a probe
  MaxSeqNo          \* bound on the sequence numbers, below 2^32

ASSUME ProbeAssumption ==
  /\ Max \in Nat \ {0}
  /\ MaxProbes \in Nat /\ MaxRepeats \in Nat /\ MaxSeqNo \in Nat
  /\ IsFiniteSet(Peer) /\ Prober \notin Peer

Pinger == {Prober} \cup Peer
None == 0

VARIABLES
  targetUp,         \* whether the target answers
  seqNo,            \* seqNo[n]: the last sequence number of n's pingManager
  calls,            \* the runs of Ping and IndirectPing; reply is the sequence number
                    \* of the indirect ping that a peer's Ping serves
  handlers,         \* the <<n, seq>> in n's ackHandlers or indirectAckHandlers
  timers,           \* the <<n, seq>> whose deletion timer has not fired
  net,              \* packets on their way
  probe,            \* the current, or else the last, run of probeNode; answered tells
                    \* whether the target has answered a ping of this probe
  probes,           \* how many were started
  repeats,          \* history: the indirect pings and answers to them that were
                    \* delivered again since the current probe was started
  health

vars == <<targetUp, seqNo, calls, handlers, timers, net, probe, probes, repeats, health>>

Init ==
  /\ targetUp = TRUE
  /\ seqNo = [n \in Pinger |-> 0]
  /\ calls = {} /\ handlers = {} /\ timers = {} /\ net = {}
  /\ probe = [pc |-> "idle", ping |-> None, ind |-> None, tcp |-> "none",
              missed |-> 0, answered |-> FALSE, verdict |-> "none"]
  /\ probes = 0 /\ repeats = 0
  /\ health = 0

-----------------------------------------------------------------------------
Punish(delta) ==
  health' = IF health + delta < 0 THEN 0
            ELSE IF health + delta > Max - 1 THEN Max - 1 ELSE health + delta

\* Slip of nextSeqNo: the same number is used again.
nextSeqNoStuck(n) == 1

nextSeqNo(n) == seqNo[n] + 1

\* The same run later on.
later(c, pc, asked, nacks) ==
  [by |-> c.by, seq |-> c.seq, kind |-> c.kind, reply |-> c.reply, pc |-> pc, asked |-> asked, nacks |-> nacks]

becomes(c, pc) == calls' = (calls \ {c}) \cup {later(c, pc, c.asked, c.nacks)}

\* Ping and IndirectPing up to the first half of setAckHandler: the timer runs
\* before the handler is in the map.
newCall(n, kind, asked, reply, others) ==
  LET seq == nextSeqNo(n)
  IN  /\ seq <= MaxSeqNo
      /\ seqNo' = [seqNo EXCEPT ![n] = seq]
      /\ calls' = others \cup {[by |-> n, seq |-> seq, kind |-> kind, reply |-> reply,
                                pc |-> "new", asked |-> asked, nacks |-> 0]}
      /\ timers' = timers \cup {<<n, seq>>}

packetsOf(c, to) ==
  IF c.kind = "direct" THEN {[type |-> "ping", node |-> c.by, seq |-> c.seq]}
                       ELSE {[type |-> "indirectPing", node |-> k, seq |-> c.seq] : k \in to}

\* The handler enters the map, then the packets are sent; an error on the way
\* ends the call, with the handler in the map.
sendCall(c) ==
  /\ c.pc = "new"
  /\ handlers' = handlers \cup {<<c.by, c.seq>>}
  /\ \/ net' = net \cup packetsOf(c, c.asked) /\ becomes(c, "sent")
     \/ /\ \E to \in SUBSET c.asked :
             /\ c.kind = "indirect" => to # c.asked
             /\ net' = IF c.kind = "direct" THEN net ELSE net \cup packetsOf(c, to)
        /\ calls' = (calls \ {c}) \cup {later(c, "fail", {}, 0)}
  /\ UNCHANGED <<targetUp, seqNo, timers, probe, probes, repeats, health>>

selectCall(c) ==
  /\ c.pc = "sent"
  /\ becomes(c, "select")
  /\ UNCHANGED <<targetUp, seqNo, handlers, timers, net, probe, probes, repeats, health>>

callTimeout(c) ==
  /\ c.pc = "select"
  /\ becomes(c, "fail")
  /\ UNCHANGED <<targetUp, seqNo, handlers, timers, net, probe, probes, repeats, health>>

handlerTimeout(h) ==
  /\ h \in timers
  /\ timers' = timers \ {h} /\ handlers' = handlers \ {h}
  /\ UNCHANGED <<targetUp, seqNo, calls, net, probe, probes, repeats, health>>

-----------------------------------------------------------------------------
\* Packet m is delivered, and stays under way if it is to be delivered again.
receive(m, again, sent) == net' = (IF again THEN net ELSE net \ {m}) \cup sent

\* A ping or an ack more does not make more runs or counts: only the others are counted.
repeat(again) ==
  /\ again => repeats < MaxRepeats
  /\ repeats' = IF again THEN repeats + 1 ELSE repeats

\* Whether the ping <<n, seq>> was sent for the probe under way.
ofThisProbe(n, seq) ==
  \/ n = Prober /\ seq = probe.ping
  \/ \E c \in calls : c.by = n /\ c.seq = seq /\ n \in Peer /\ c.reply = probe.ind /\ probe.ind # None

\* At the target.
handlePing(m, again) ==
  /\ m.type = "ping" /\ targetUp
  /\ receive(m, again, {[type |-> "ack", node |-> m.node, seq |-> m.seq]})
  /\ probe' = [probe EXCEPT !.answered = @ \/ ofThisProbe(m.node, m.seq)]
  /\ UNCHANGED <<targetUp, seqNo, calls, handlers, timers, probes, repeats, health>>

wake(c) == IF c.pc = "select" THEN later(c, "ok", c.asked, c.nacks) ELSE c

invokeAckHandler(n, seq) ==
  /\ calls' = {IF c.by = n /\ c.seq = seq /\ <<n, seq>> \in handlers THEN wake(c) ELSE c : c \in calls}
  /\ handlers' = handlers \ {<<n, seq>>}
  /\ timers' = IF <<n, seq>> \in handlers THEN timers \ {<<n, seq>>} ELSE timers

handleAck(m, again) ==
  /\ m.type = "ack"
  /\ receive(m, again, {})
  /\ invokeAckHandler(m.node, m.seq)
  /\ UNCHANGED <<targetUp, seqNo, probe, probes, repeats, health>>

\* At a peer: Ping runs in a goroutine of its own, which then replies.
handleIndirectPing(m, again) ==
  /\ m.type = "indirectPing"
  /\ receive(m, again, {}) /\ repeat(again)
  /\ newCall(m.node, "direct", {}, m.seq, calls)
  /\ UNCHANGED <<targetUp, handlers, probe, probes, health>>

\* run tells the answers of two runs apart that serve the same indirect ping.
answer(c) == [type |-> "indirectAck", node |-> c.by, seq |-> c.reply, run |-> c.seq, success |-> c.pc = "ok"]

\* Slip of indirectReply: the goroutine goes on replying.
indirectReplyAgain(c) ==
  /\ c.by \in Peer /\ c.pc \in {"ok", "fail"}
  /\ net' = net \cup {answer(c)}
  /\ UNCHANGED <<targetUp, seqNo, calls, handlers, timers, probe, probes, repeats, health>>

indirectReply(c) ==
  /\ c.by \in Peer /\ c.pc \in {"ok", "fail"}
  /\ calls' = calls \ {c}
  /\ net' = net \cup {answer(c)}
  /\ UNCHANGED <<targetUp, seqNo, handlers, timers, probe, probes, repeats, health>>

addNack(c) == IF c.pc \in {"sent", "select"} THEN later(c, c.pc, c.asked, c.nacks + 1) ELSE c

\* A nack is counted only while the handler is there, and leaves it there.
invokeIndirectAckHandler(seq, success) ==
  IF success THEN invokeAckHandler(Prober, seq)
  ELSE /\ calls' = {IF c.by = Prober /\ c.seq = seq /\ <<Prober, seq>> \in handlers
                      THEN addNack(c) ELSE c : c \in calls}
       /\ UNCHANGED <<handlers, timers>>

handleIndirectAck(m, again) ==
  /\ m.type = "indirectAck"
  /\ receive(m, again, {}) /\ repeat(again)
  /\ invokeIndirectAckHandler(m.seq, m.success)
  /\ UNCHANGED <<targetUp, seqNo, probe, probes, health>>

-----------------------------------------------------------------------------
callOf(seq) == {c \in calls : c.by = Prober /\ c.seq = seq}

finishedCalls == {c \in calls : c.by = Prober /\ c.pc \in {"ok", "fail"}}

startProbe ==
  /\ probe.pc = "idle" /\ probes < MaxProbes
  /\ newCall(Prober, "direct", {}, None, calls \ finishedCalls)
  /\ probe' = [pc |-> "ping", ping |-> nextSeqNo(Prober), ind |-> None, tcp |-> "none",
               missed |-> 0, answered |-> FALSE, verdict |-> "none"]
  /\ probes' = probes + 1 /\ repeats' = 0
  /\ UNCHANGED <<targetUp, handlers, net, health>>

succeed ==
  /\ probe' = [probe EXCEPT !.pc = "idle", !.verdict = "alive"]
  /\ Punish(-1)

pingAcked(c) ==
  /\ probe.pc = "ping" /\ c \in callOf(probe.ping) /\ c.pc = "ok"
  /\ calls' = calls \ {c}
  /\ succeed
  /\ UNCHANGED <<targetUp, seqNo, handlers, timers, net, probes, repeats>>

\* IndirectPing, which ends at once if no peer is picked, and TcpPing start.
pingFailed(c, asked) ==
  /\ probe.pc = "ping" /\ c \in callOf(probe.ping) /\ c.pc = "fail"
  /\ IF asked = {}
       THEN calls' = calls \ {c} /\ UNCHANGED <<seqNo, timers>>
       ELSE newCall(Prober, "indirect", asked, None, calls \ {c})
  /\ probe' = [probe EXCEPT !.pc = "wait", !.tcp = "dial",
                            !.ind = IF asked = {} THEN None ELSE nextSeqNo(Prober)]
  /\ UNCHANGED <<targetUp, handlers, net, probes, repeats, health>>

\* The target answers a ping on the connection that it came in on.
handlePingTcp == targetUp

\* TcpPing: the target answers on the connection, or dialling, sending or
\* reading fails.
TcpPing(ok) ==
  /\ probe.tcp = "dial"
  /\ ok => handlePingTcp
  /\ probe' = [probe EXCEPT !.tcp = IF ok THEN "ok" ELSE "fail", !.answered = @ \/ ok]
  /\ UNCHANGED <<targetUp, seqNo, calls, handlers, timers, net, probes, repeats, health>>

\* The loop WAIT of probeNode: a failure is noted, a success ends it.
indirectResult(c) ==
  /\ probe.pc = "wait" /\ c \in callOf(probe.ind) /\ c.pc \in {"ok", "fail"}
  /\ calls' = calls \ {c}
  /\ \/ c.pc = "ok" /\ succeed
     \/ /\ c.pc = "fail"
        /\ probe' = [probe EXCEPT !.missed = Cardinality(c.asked) - c.nacks]
        /\ UNCHANGED health
  /\ UNCHANGED <<targetUp, seqNo, handlers, timers, net, probes, repeats>>

tcpResult ==
  /\ probe.pc = "wait" /\ probe.tcp = "ok"
  /\ succeed
  /\ UNCHANGED <<targetUp, seqNo, calls, handlers, timers, net, probes, repeats>>

\* Slip of waitTimeout: it is looked at only once TcpPing has answered.
waitTimeoutBlocked ==
  /\ probe.pc = "wait" /\ probe.tcp # "dial"
  /\ probe' = [probe EXCEPT !.pc = "idle", !.verdict = "failed"]
  /\ Punish(probe.missed)
  /\ UNCHANGED <<targetUp, seqNo, calls, handlers, timers, net, probes, repeats>>

\* probeNode then calls suspectNode (module Membership).
waitTimeout ==
  /\ probe.pc = "wait"
  /\ probe' = [probe EXCEPT !.pc = "idle", !.verdict = "failed"]
  /\ Punish(probe.missed)
  /\ UNCHANGED <<targetUp, seqNo, calls, handlers, timers, net, probes, repeats>>

targetStop ==
  /\ targetUp
  /\ targetUp' = FALSE
  /\ UNCHANGED <<seqNo, calls, handlers, timers, net, probe, probes, repeats, health>>

-----------------------------------------------------------------------------
Next ==
  \/ \E c \in calls : sendCall(c) \/ selectCall(c) \/ callTimeout(c) \/ indirectReply(c)
                      \/ pingAcked(c) \/ indirectResult(c)
                      \/ \E asked \in SUBSET Peer : pingFailed(c, asked)
  \/ \E h \in timers : handlerTimeout(h)
  \/ \E m \in net, again \in BOOLEAN :
       \/ handlePing(m, again) \/ handleAck(m, again)
       \/ handleIndirectPing(m, again) \/ handleIndirectAck(m, again)
  \/ startProbe \/ tcpResult \/ waitTimeout \/ targetStop
  \/ \E ok \in BOOLEAN : TcpPing(ok)

Spec == Init /\ [][Next]_vars

\* Goroutines run and timers fire; nothing is assumed of the network.
Fairness ==
  /\ WF_vars(\E c \in calls : sendCall(c))
  /\ WF_vars(\E c \in calls : selectCall(c))
  /\ WF_vars(\E c \in calls : callTimeout(c))
  /\ WF_vars(\E c \in calls : pingAcked(c) \/ \E asked \in SUBSET Peer : pingFailed(c, asked))
  /\ WF_vars(waitTimeout)

FairSpec == Spec /\ Fairness

-----------------------------------------------------------------------------
\* probeNode finds a node alive only if it has answered a ping sent during this
\* very probe, directly, through a peer or over TCP: a late ack of an earlier
\* probe, which pingManager may still receive, never counts.
AliveIsFresh ==
  probe.verdict = "alive" => probe.answered

\* A failed probe counts at most one nack of each peer that it has asked, and one
\* more for each indirect ping or answer that the network delivers again: answers
\* to an earlier probe do not count.  invokeIndirectAckHandler does not tell whose
\* nack it counts, so with repeated packets missedNacks may be negative, and Punish
\* then improves health after a failure; without them it never does.
NacksAccounted ==
  probe.missed + repeats >= 0

\* Every probe ends with a verdict, whatever the network does.
ProbeEnds ==
  probe.pc # "idle" ~> probe.pc = "idle"
=============================================================================
