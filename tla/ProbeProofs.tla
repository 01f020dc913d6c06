---------------------------- MODULE ProbeProofs -----------------------------
(***************************************************************************)
(* Proofs about probes of one node, for every set of peers, every number   *)
(* of probes and whatever the network loses, delays or repeats.            *)
(***************************************************************************)
EXTENDS Probe, FiniteSetTheorems, TLAPS

Indirect == {"indirectPing", "indirectAck"}
ProbeRun ==
  [pc : {"idle", "ping", "wait"}, ping : Nat, ind : Nat, tcp : {"none", "dial", "ok", "fail"},
   missed : Int, answered : BOOLEAN, verdict : {"none", "alive", "failed"}]

\* Sequence numbers are handed out in order, and a call of IndirectPing is the prober's.
CallOK(c) ==
  /\ c.by \in Pinger /\ c.seq \in 1..seqNo[c.by] /\ c.reply \in 0..seqNo[Prober]
  /\ c.kind \in {"direct", "indirect"} /\ c.pc \in {"new", "sent", "select", "ok", "fail"}
  /\ c.asked \subseteq Peer /\ c.nacks \in Nat
  /\ c.by \in Peer => c.kind = "direct" /\ c.reply # None
  /\ c.by = Prober => c.reply = None

PacketOK(m) ==
  /\ m.type \in {"ping", "ack"} \cup Indirect
  /\ m.type \in {"ping", "ack"} => m.node \in Pinger /\ m.seq \in 1..seqNo[m.node]
  /\ m.type \in Indirect => m.node \in Peer /\ m.seq \in 1..seqNo[Prober]

ProbeTypeOK ==
  /\ seqNo \in [Pinger -> Nat]
  /\ probe \in ProbeRun /\ probe.ping <= seqNo[Prober] /\ probe.ind <= seqNo[Prober]
  /\ \A c \in calls : CallOK(c)
  /\ \A m \in net : PacketOK(m)

\* A sequence number is used for a ping or for an indirect ping, never for both.
SeqsApart ==
  /\ probe.ind # None => probe.ind # probe.ping
  /\ \A c \in calls : /\ c.kind = "direct" /\ c.by = Prober => c.seq # probe.ind
                      /\ c.kind = "indirect" => c.seq # probe.ping
                      /\ c.by \in Peer => c.reply # probe.ping
  /\ \A m \in net : /\ m.type \in {"ping", "ack"} /\ m.node = Prober => m.seq # probe.ind
                    /\ m.type \in Indirect => m.seq # probe.ping

\* A run of Ping or IndirectPing that serves the probe under way.
serves(c) == \/ c.by = Prober /\ c.seq \in {probe.ping, probe.ind}
             \/ c.by \in Peer /\ c.reply = probe.ind

\* Whatever bears witness to the target has followed an answer of the target.
WitnessIsFresh ==
  /\ \A m \in net : /\ m.type = "ack" /\ ofThisProbe(m.node, m.seq) => probe.answered
                    /\ m.type = "indirectAck" /\ m.success /\ m.seq = probe.ind => probe.answered
  /\ \A c \in calls : c.pc = "ok" /\ serves(c) => probe.answered
  /\ probe.tcp = "ok" => probe.answered
  /\ AliveIsFresh

FreshInv == ProbeTypeOK /\ SeqsApart /\ WitnessIsFresh

-----------------------------------------------------------------------------
sameRun(d, c) == d.by = c.by /\ d.seq = c.seq /\ d.kind = c.kind /\ d.reply = c.reply

\* An ack or an indirect ack that wakes the goroutine of c.
wakes(m, c) ==
  \/ m.type = "ack" /\ m.node = c.by /\ m.seq = c.seq
  \/ m.type = "indirectAck" /\ m.success /\ c.by = Prober /\ m.seq = c.seq

goesOn(d, c) == /\ sameRun(d, c) /\ d.asked \subseteq Peer /\ d.nacks \in Nat
                /\ d.pc \in {"new", "sent", "select", "ok", "fail"}
                /\ d.pc = "ok" => c.pc = "ok" \/ \E m \in net : wakes(m, c)

begins(d) == /\ d.by \in Pinger /\ d.seq = seqNo[d.by] + 1 /\ seqNo'[d.by] = d.seq /\ d.pc = "new"
             /\ d.kind \in {"direct", "indirect"} /\ d.asked \subseteq Peer /\ d.nacks = 0
             /\ \/ /\ d.by = Prober /\ d.reply = None
                   /\ d.kind = "direct" => probe'.ping = d.seq /\ probe'.ind = None
                   /\ d.kind = "indirect" => probe'.ind = d.seq
                \/ /\ d.by \in Peer /\ d.kind = "direct" /\ UNCHANGED probe
                   /\ \E m \in net : m.type = "indirectPing" /\ d.reply = m.seq

\* What a step does to the runs of Ping and IndirectPing: each one of them goes on,
\* or begins with a fresh sequence number.
LEMMA CallsStep ==
  ASSUME FreshInv, [Next]_vars
  PROVE  \A d \in calls' : begins(d) \/ \E c \in calls : goesOn(d, c)
<1>a. /\ \A c \in calls : CallOK(c) /\ goesOn(c, c)
      /\ seqNo \in [Pinger -> Nat] /\ probe \in ProbeRun /\ \A m \in net : PacketOK(m)
      /\ Prober \in Pinger
  BY Zenon DEF FreshInv, ProbeTypeOK, CallOK, goesOn, sameRun, Pinger
<1>b. ASSUME NEW c \in calls, NEW pc \in {"sent", "select", "fail"}, becomes(c, pc)
      PROVE  \A d \in calls' : \E e \in calls : goesOn(d, e)
  BY <1>a, <1>b DEF becomes, later, CallOK, goesOn, sameRun
<1>c. ASSUME calls' \subseteq calls PROVE \A d \in calls' : \E e \in calls : goesOn(d, e)
  BY <1>a, <1>c, Zenon
<1>1. ASSUME NEW c \in calls, sendCall(c) PROVE \A d \in calls' : \E e \in calls : goesOn(d, e)
  <2>1. CASE becomes(c, "sent")
    BY <1>b, <2>1, Zenon
  <2>2. CASE calls' = (calls \ {c}) \cup {later(c, "fail", {}, 0)}
    BY <1>a, <2>2 DEF later, CallOK, goesOn, sameRun
  <2> QED
    BY <1>1, <2>1, <2>2, Zenon DEF sendCall
<1>2. ASSUME NEW c \in calls, selectCall(c) \/ callTimeout(c)
      PROVE \A d \in calls' : \E e \in calls : goesOn(d, e)
  BY <1>2, <1>b, Zenon DEF selectCall, callTimeout
<1>3. ASSUME NEW c \in calls, indirectReply(c) \/ pingAcked(c) \/ indirectResult(c)
      PROVE \A d \in calls' : \E e \in calls : goesOn(d, e)
  BY <1>3, <1>c, Zenon DEF indirectReply, pingAcked, indirectResult
<1>4. ASSUME NEW c \in calls, NEW asked \in SUBSET Peer, pingFailed(c, asked)
      PROVE  \A d \in calls' : begins(d) \/ \E e \in calls : goesOn(d, e)
  <2>1. CASE asked = {}
    BY <1>4, <1>c, <2>1, Zenon DEF pingFailed
  <2>2. CASE asked # {}
    <3> DEFINE new == [by |-> Prober, seq |-> seqNo[Prober] + 1, kind |-> "indirect", reply |-> None,
                       pc |-> "new", asked |-> asked, nacks |-> 0]
    <3>1. calls' = (calls \ {c}) \cup {new} /\ seqNo' = [seqNo EXCEPT ![Prober] = seqNo[Prober] + 1]
      BY <1>4, <2>2, Zenon DEF pingFailed, newCall, nextSeqNo
    <3>2. probe'.ind = seqNo[Prober] + 1
      BY <1>4, <1>a, <2>2, Zenon DEF pingFailed, nextSeqNo, ProbeRun
    <3>3. begins(new)
      BY <1>a, <3>1, <3>2, Zenon DEF begins
    <3> QED
      BY <1>a, <3>1, <3>3, Zenon
  <2> QED
    BY <2>1, <2>2, Zenon
<1>5. CASE startProbe
  <2> DEFINE new == [by |-> Prober, seq |-> seqNo[Prober] + 1, kind |-> "direct", reply |-> None,
                     pc |-> "new", asked |-> {}, nacks |-> 0]
  <2>1. calls' = (calls \ finishedCalls) \cup {new} /\ seqNo' = [seqNo EXCEPT ![Prober] = seqNo[Prober] + 1]
    BY <1>5, Zenon DEF startProbe, newCall, nextSeqNo
  <2>2. probe'.ping = seqNo[Prober] + 1 /\ probe'.ind = None
    BY <1>5, Zenon DEF startProbe, nextSeqNo
  <2>3. begins(new)
    BY <1>a, <2>1, <2>2, Zenon DEF begins
  <2> QED
    BY <1>a, <2>1, <2>3, Zenon
<1>6. ASSUME NEW m \in net, NEW again \in BOOLEAN, handleIndirectPing(m, again)
      PROVE  \A d \in calls' : begins(d) \/ \E e \in calls : goesOn(d, e)
  <2> DEFINE n == m.node
             new == [by |-> n, seq |-> seqNo[n] + 1, kind |-> "direct", reply |-> m.seq,
                     pc |-> "new", asked |-> {}, nacks |-> 0]
  <2>1. calls' = calls \cup {new} /\ seqNo' = [seqNo EXCEPT ![n] = seqNo[n] + 1] /\ UNCHANGED probe
        /\ m.type = "indirectPing"
    BY <1>6, Zenon DEF handleIndirectPing, newCall, nextSeqNo
  <2>2. n \in Peer /\ n \in Pinger
    BY <1>a, <2>1, Zenon DEF PacketOK, Indirect, Pinger
  <2>3. begins(new)
    BY <1>a, <2>1, <2>2, Zenon DEF begins
  <2> QED
    BY <1>a, <2>1, <2>3, Zenon
<1>7. ASSUME NEW n, NEW seq, invokeAckHandler(n, seq),
             \A c \in calls : c.by = n /\ c.seq = seq => \E m \in net : wakes(m, c)
      PROVE  \A d \in calls' : \E e \in calls : goesOn(d, e)
  <2> SUFFICES ASSUME NEW d \in calls' PROVE \E e \in calls : goesOn(d, e)
    BY Zenon
  <2>1. PICK c \in calls : d = IF c.by = n /\ c.seq = seq /\ <<n, seq>> \in handlers THEN wake(c) ELSE c
    BY <1>7, Zenon DEF invokeAckHandler
  <2>2. CASE d = c
    BY <1>a, <2>2, Zenon
  <2>3. CASE d # c
    <3>1. c.by = n /\ c.seq = seq /\ d = later(c, "ok", c.asked, c.nacks)
      BY <2>1, <2>3, Zenon DEF wake
    <3>2. goesOn(d, c)
      BY <1>a, <1>7, <3>1, Zenon DEF later, goesOn, sameRun, CallOK
    <3> QED
      BY <3>2, Zenon
  <2> QED
    BY <2>2, <2>3, Zenon
<1>8. ASSUME NEW m \in net, NEW again \in BOOLEAN, handleAck(m, again)
      PROVE  \A d \in calls' : \E e \in calls : goesOn(d, e)
  BY <1>7, <1>8 DEF handleAck, wakes
<1>9. ASSUME NEW m \in net, NEW again \in BOOLEAN, handleIndirectAck(m, again)
      PROVE  \A d \in calls' : \E e \in calls : goesOn(d, e)
  <2>1. CASE m.success
    <3>1. invokeAckHandler(Prober, m.seq) /\ m.type = "indirectAck"
      BY <1>9, <2>1, Zenon DEF handleIndirectAck, invokeIndirectAckHandler
    <3> QED
      BY <1>7, <2>1, <3>1 DEF wakes
  <2>2. CASE ~m.success
    <3> SUFFICES ASSUME NEW d \in calls' PROVE \E e \in calls : goesOn(d, e)
      BY Zenon
    <3>1. PICK c \in calls : d = c \/ d = addNack(c)
      BY <1>9, <2>2, Zenon DEF handleIndirectAck, invokeIndirectAckHandler
    <3>2. d = c \/ d = later(c, c.pc, c.asked, c.nacks + 1)
      BY <3>1, Zenon DEF addNack
    <3>3. goesOn(d, c)
      BY <1>a, <3>2 DEF later, goesOn, sameRun, CallOK
    <3> QED
      BY <3>3, Zenon
  <2> QED
    BY <2>1, <2>2, Zenon
<1>10. CASE calls' = calls
  BY <1>10, <1>c, Zenon
<1>11. ASSUME NEW h \in timers, handlerTimeout(h) PROVE calls' = calls
  BY <1>11, Zenon DEF handlerTimeout
<1>12. ASSUME NEW m \in net, NEW again \in BOOLEAN, handlePing(m, again) PROVE calls' = calls
  BY <1>12, Zenon DEF handlePing
<1>13. ASSUME tcpResult \/ waitTimeout \/ targetStop \/ (\E ok \in BOOLEAN : TcpPing(ok)) \/ UNCHANGED vars
       PROVE calls' = calls
  BY <1>13, Zenon DEF tcpResult, waitTimeout, targetStop, TcpPing, vars
<1> QED
  BY <1>1, <1>2, <1>3, <1>4, <1>5, <1>6, <1>8, <1>9, <1>10, <1>11, <1>12, <1>13, Zenon DEF Next

\* A packet that a step sends.
sent(m) ==
  \/ m.type = "ping" /\ \E c \in calls : c.kind = "direct" /\ m.node = c.by /\ m.seq = c.seq
  \/ m.type = "indirectPing" /\ \E c \in calls : c.kind = "indirect" /\ m.node \in c.asked /\ m.seq = c.seq
  \/ /\ m.type = "ack" /\ \E p \in net : p.type = "ping" /\ p.node = m.node /\ p.seq = m.seq
     /\ ofThisProbe(m.node, m.seq) => probe'.answered
     /\ calls' = calls /\ probe'.ping = probe.ping /\ probe'.ind = probe.ind
  \/ /\ m.type = "indirectAck"
     /\ \E c \in calls : c.by \in Peer /\ m.node = c.by /\ m.seq = c.reply /\ (m.success => c.pc = "ok")

\* Every packet was on its way before, or is one that the step sends.
LEMMA NetStep ==
  ASSUME FreshInv, [Next]_vars
  PROVE  \A m \in net' : m \in net \/ sent(m)
<1>a. (\A c \in calls : CallOK(c)) /\ probe \in ProbeRun
  BY Zenon DEF FreshInv, ProbeTypeOK
<1>b. ASSUME net' \subseteq net PROVE \A m \in net' : m \in net \/ sent(m)
  BY <1>b, Zenon
<1>1. ASSUME NEW c \in calls, sendCall(c) PROVE \A m \in net' : m \in net \/ sent(m)
  <2>1. PICK to \in SUBSET c.asked : net' = net \/ net' = net \cup packetsOf(c, to)
    BY <1>1, Zenon DEF sendCall
  <2> SUFFICES ASSUME NEW m \in packetsOf(c, to) PROVE sent(m)
    BY <2>1, Zenon
  <2>2. CASE c.kind = "direct"
    BY <2>2 DEF packetsOf, sent
  <2>3. CASE c.kind # "direct"
    <3>1. c.kind = "indirect" /\ \E k \in to : m = [type |-> "indirectPing", node |-> k, seq |-> c.seq]
      BY <1>a, <2>3, Zenon DEF packetsOf, CallOK
    <3> QED
      BY <3>1 DEF sent
  <2> QED
    BY <2>2, <2>3, Zenon
<1>2. ASSUME NEW c \in calls, indirectReply(c) PROVE \A m \in net' : m \in net \/ sent(m)
  <2> DEFINE ack == answer(c)
  <2>1. net' = net \cup {ack} /\ c.by \in Peer
    BY <1>2, Zenon DEF indirectReply
  <2>2. ack.type = "indirectAck" /\ ack.node = c.by /\ ack.seq = c.reply /\ (ack.success => c.pc = "ok")
    BY Zenon DEF answer
  <2> HIDE DEF ack
  <2>3. sent(ack)
    BY <2>1, <2>2, Zenon DEF sent
  <2> QED
    BY <2>1, <2>3, Zenon
<1>3. ASSUME NEW p \in net, NEW again \in BOOLEAN, handlePing(p, again)
      PROVE  \A m \in net' : m \in net \/ sent(m)
  <2> DEFINE ack == [type |-> "ack", node |-> p.node, seq |-> p.seq]
  <2>1. net' \subseteq net \cup {ack} /\ p.type = "ping" /\ calls' = calls
    BY <1>3, Zenon DEF handlePing, receive
  <2>2. /\ probe'.ping = probe.ping /\ probe'.ind = probe.ind
        /\ ofThisProbe(p.node, p.seq) => probe'.answered
    BY <1>3, <1>a, Zenon DEF handlePing, ProbeRun
  <2>3. sent(ack)
    BY <2>1, <2>2, Zenon DEF sent
  <2> QED
    BY <2>1, <2>3, Zenon
<1>4. ASSUME NEW m \in net, NEW again \in BOOLEAN,
             handleAck(m, again) \/ handleIndirectPing(m, again) \/ handleIndirectAck(m, again)
      PROVE  net' \subseteq net
  BY <1>4, Zenon DEF handleAck, handleIndirectPing, handleIndirectAck, receive
<1>5. ASSUME NEW c \in calls, \/ selectCall(c) \/ callTimeout(c) \/ pingAcked(c) \/ indirectResult(c)
                              \/ \E asked \in SUBSET Peer : pingFailed(c, asked)
      PROVE net' \subseteq net
  BY <1>5, ZenonT(30) DEF selectCall, callTimeout, pingAcked, indirectResult, pingFailed
<1>6. ASSUME \/ \E h \in timers : handlerTimeout(h)
             \/ startProbe \/ tcpResult \/ waitTimeout \/ targetStop
             \/ \E ok \in BOOLEAN : TcpPing(ok)
             \/ UNCHANGED vars
      PROVE net' \subseteq net
  BY <1>6, Zenon DEF handlerTimeout, startProbe, tcpResult, waitTimeout, targetStop, TcpPing, vars
<1> QED
  BY <1>b, <1>1, <1>2, <1>3, <1>4, <1>5, <1>6, Zenon DEF Next

sameProbe ==
  /\ probe'.ping = probe.ping /\ probe'.ind = probe.ind
  /\ probe.answered => probe'.answered
  /\ probe'.tcp = "ok" => probe.tcp = "ok" \/ probe'.answered
  /\ probe'.verdict = "alive" => probe.verdict = "alive" \/ probe'.answered
newProbe ==
  /\ probe'.ping = seqNo[Prober] + 1 /\ probe'.ind = None /\ seqNo'[Prober] = seqNo[Prober] + 1
  /\ probe'.tcp = "none" /\ probe'.verdict = "none"
newIndirect ==
  /\ probe'.ping = probe.ping /\ probe'.ind \in {None, seqNo[Prober] + 1} /\ probe'.ind <= seqNo'[Prober]
  /\ probe'.answered = probe.answered /\ probe'.tcp = "dial" /\ probe'.verdict = probe.verdict

\* A step goes on with the probe, begins one, or begins the indirect part of it;
\* sequence numbers only grow.
LEMMA ProbeStep ==
  ASSUME FreshInv, [Next]_vars
  PROVE  /\ probe' \in ProbeRun /\ (sameProbe \/ newProbe \/ newIndirect)
         /\ seqNo' \in [Pinger -> Nat] /\ \A n \in Pinger : seqNo'[n] >= seqNo[n]
<1>a. /\ \A c \in calls : CallOK(c) /\ (c.pc = "ok" /\ serves(c) => probe.answered)
      /\ probe \in ProbeRun /\ Prober \in Pinger /\ seqNo \in [Pinger -> Nat]
      /\ probe.tcp = "ok" => probe.answered
      /\ \A m \in net : PacketOK(m)
  BY Zenon DEF FreshInv, ProbeTypeOK, WitnessIsFresh, Pinger
<1> DEFINE Goal == /\ probe' \in ProbeRun /\ (sameProbe \/ newProbe \/ newIndirect)
                   /\ seqNo' \in [Pinger -> Nat] /\ \A n \in Pinger : seqNo'[n] >= seqNo[n]
<1>b. ASSUME UNCHANGED <<probe, seqNo>> PROVE Goal
  BY <1>a, <1>b DEF sameProbe
<1>c. ASSUME NEW n \in Pinger, seqNo' = [seqNo EXCEPT ![n] = seqNo[n] + 1]
      PROVE  seqNo' \in [Pinger -> Nat] /\ \A k \in Pinger : seqNo'[k] >= seqNo[k]
  BY <1>a, <1>c
<1>d. ASSUME succeed, probe.answered, UNCHANGED seqNo PROVE Goal
  <2>1. probe' = [probe EXCEPT !.pc = "idle", !.verdict = "alive"]
    BY <1>d, Zenon DEF succeed
  <2>2. probe' \in ProbeRun /\ probe'.answered = probe.answered /\ probe'.tcp = probe.tcp
        /\ probe'.ping = probe.ping /\ probe'.ind = probe.ind
    BY <1>a, <2>1, Zenon DEF ProbeRun
  <2>3. sameProbe
    BY <1>d, <2>2, Zenon DEF sameProbe
  <2> QED
    BY <1>a, <1>d, <2>2, <2>3
<1>1. ASSUME NEW m \in net, NEW again \in BOOLEAN, handlePing(m, again) PROVE Goal
  <2> DEFINE b == probe.answered \/ ofThisProbe(m.node, m.seq)
  <2>1. probe' = [probe EXCEPT !.answered = b] /\ b \in BOOLEAN /\ seqNo' = seqNo
    BY <1>1, <1>a, Zenon DEF handlePing, ProbeRun, ofThisProbe
  <2>2. probe.answered => b
    BY Zenon
  <2> HIDE DEF b
  <2>3. probe' \in ProbeRun /\ sameProbe
    BY <1>a, <2>1, <2>2, Zenon DEF ProbeRun, sameProbe
  <2> QED
    BY <1>a, <2>1, <2>3
<1>2. ASSUME NEW m \in net, NEW again \in BOOLEAN, handleIndirectPing(m, again) PROVE Goal
  <2>1. seqNo' = [seqNo EXCEPT ![m.node] = seqNo[m.node] + 1] /\ UNCHANGED probe /\ m.node \in Pinger
    BY <1>2, <1>a, Zenon DEF handleIndirectPing, newCall, nextSeqNo, PacketOK, Indirect, Pinger
  <2> QED
    BY <1>a, <1>c, <2>1, Zenon DEF sameProbe
<1>3. ASSUME NEW m \in net, NEW again \in BOOLEAN, handleAck(m, again) \/ handleIndirectAck(m, again)
      PROVE  UNCHANGED <<probe, seqNo>>
  BY <1>3, Zenon DEF handleAck, handleIndirectAck
<1>4. ASSUME startProbe PROVE Goal
  <2>1. seqNo' = [seqNo EXCEPT ![Prober] = seqNo[Prober] + 1]
    BY <1>4, Zenon DEF startProbe, newCall, nextSeqNo
  <2>2. probe' \in ProbeRun /\ newProbe
    BY <1>4, <1>a, <2>1 DEF startProbe, nextSeqNo, ProbeRun, newProbe, None
  <2> QED
    BY <1>a, <1>c, <2>1, <2>2, Zenon
<1>5. ASSUME NEW c \in calls, NEW asked \in SUBSET Peer, pingFailed(c, asked) PROVE Goal
  <2>1. /\ asked = {} => UNCHANGED seqNo
        /\ asked # {} => seqNo' = [seqNo EXCEPT ![Prober] = seqNo[Prober] + 1]
    BY <1>5, Zenon DEF pingFailed, newCall, nextSeqNo
  <2>2. seqNo' \in [Pinger -> Nat] /\ \A k \in Pinger : seqNo'[k] >= seqNo[k]
    BY <1>a, <1>c, <2>1
  <2> DEFINE i == IF asked = {} THEN None ELSE seqNo[Prober] + 1
  <2>3. probe' = [probe EXCEPT !.pc = "wait", !.tcp = "dial", !.ind = i]
    BY <1>5, Zenon DEF pingFailed, nextSeqNo
  <2>4. i \in Nat /\ i <= seqNo'[Prober] /\ i \in {None, seqNo[Prober] + 1}
    BY <1>a, <2>1 DEF None
  <2> HIDE DEF i
  <2>5. probe' \in ProbeRun /\ newIndirect
    BY <1>a, <2>3, <2>4, Zenon DEF ProbeRun, newIndirect
  <2> QED
    BY <2>2, <2>5, Zenon
<1>6. ASSUME NEW c \in calls, pingAcked(c) PROVE Goal
  <2>1. c.by = Prober /\ c.seq = probe.ping /\ c.pc = "ok" /\ succeed /\ UNCHANGED seqNo
    BY <1>6, Zenon DEF pingAcked, callOf
  <2> QED
    BY <1>a, <1>d, <2>1, Zenon DEF serves
<1>7. ASSUME NEW c \in calls, indirectResult(c) PROVE Goal
  <2>1. c.by = Prober /\ c.seq = probe.ind /\ UNCHANGED seqNo
    BY <1>7, Zenon DEF indirectResult, callOf
  <2>2. CASE c.pc = "ok" /\ succeed
    BY <1>a, <1>d, <2>1, <2>2, Zenon DEF serves
  <2>3. CASE probe' = [probe EXCEPT !.missed = Cardinality(c.asked) - c.nacks]
    <3>1. Cardinality(c.asked) - c.nacks \in Int
      BY <1>a, FS_Subset, FS_CardinalityType, ProbeAssumption DEF CallOK
    <3>2. probe' \in ProbeRun /\ sameProbe
      BY <1>a, <2>3, <3>1, Zenon DEF ProbeRun, sameProbe
    <3> QED
      BY <1>a, <2>1, <3>2
  <2> QED
    BY <1>7, <2>2, <2>3, Zenon DEF indirectResult
<1>8. ASSUME tcpResult PROVE Goal
  BY <1>8, <1>a, <1>d, Zenon DEF tcpResult
<1>9. ASSUME waitTimeout PROVE Goal
  <2>1. probe' = [probe EXCEPT !.pc = "idle", !.verdict = "failed"] /\ seqNo' = seqNo
    BY <1>9, Zenon DEF waitTimeout
  <2>2. probe' \in ProbeRun /\ sameProbe
    BY <1>a, <2>1, Zenon DEF ProbeRun, sameProbe
  <2> QED
    BY <1>a, <2>1, <2>2
<1>10. ASSUME NEW ok \in BOOLEAN, TcpPing(ok) PROVE Goal
  <2> DEFINE b == probe.answered \/ ok
             r == IF ok THEN "ok" ELSE "fail"
  <2>1. probe' = [probe EXCEPT !.tcp = r, !.answered = b] /\ seqNo' = seqNo
    BY <1>10, Zenon DEF TcpPing
  <2>2. b \in BOOLEAN /\ (probe.answered => b) /\ r \in {"ok", "fail"} /\ (r = "ok" => b)
    BY <1>a, Zenon DEF ProbeRun
  <2> HIDE DEF b, r
  <2>3. probe' \in ProbeRun /\ sameProbe
    BY <1>a, <2>1, <2>2, Zenon DEF ProbeRun, sameProbe
  <2> QED
    BY <1>a, <2>1, <2>3
<1>11. ASSUME NEW c \in calls, sendCall(c) \/ selectCall(c) \/ callTimeout(c) \/ indirectReply(c)
       PROVE UNCHANGED <<probe, seqNo>>
  BY <1>11, Zenon DEF sendCall, selectCall, callTimeout, indirectReply
<1>12. ASSUME (\E h \in timers : handlerTimeout(h)) \/ targetStop \/ UNCHANGED vars
       PROVE UNCHANGED <<probe, seqNo>>
  BY <1>12, Zenon DEF handlerTimeout, targetStop, vars
<1> HIDE DEF Goal
<1>13. Goal
  BY <1>b, <1>1, <1>2, <1>3, <1>4, <1>5, <1>6, <1>7, <1>8, <1>9, <1>10, <1>11, <1>12, Zenon DEF Next
<1> QED
  BY <1>13, Zenon DEF Goal

\* Types and sequence numbers after a step.
LEMMA ProbeTypeStep ==
  ASSUME FreshInv, [Next]_vars
  PROVE  ProbeTypeOK'
<1>a. /\ \A c \in calls : CallOK(c)
      /\ \A m \in net : PacketOK(m)
      /\ seqNo \in [Pinger -> Nat] /\ probe.ping <= seqNo[Prober] /\ probe.ind <= seqNo[Prober]
      /\ Prober \in Pinger /\ Peer \subseteq Pinger /\ Prober \notin Peer /\ probe \in ProbeRun
  BY ProbeAssumption, Zenon DEF FreshInv, ProbeTypeOK, Pinger
<1>b. /\ probe' \in ProbeRun /\ (sameProbe \/ newProbe \/ newIndirect)
      /\ seqNo' \in [Pinger -> Nat] /\ \A n \in Pinger : seqNo'[n] >= seqNo[n]
  BY ProbeStep, Zenon
<1>1. ASSUME NEW d \in calls' PROVE CallOK(d)'
  <2>1. CASE \E c \in calls : goesOn(d, c)
    <3>1. PICK c \in calls : goesOn(d, c)
      BY <2>1, Zenon
    <3>2. CallOK(c) /\ seqNo[c.by] \in Nat /\ seqNo'[c.by] \in Nat /\ seqNo'[c.by] >= seqNo[c.by]
          /\ seqNo[Prober] \in Nat /\ seqNo'[Prober] \in Nat /\ seqNo'[Prober] >= seqNo[Prober]
      BY <1>a, <1>b, Zenon DEF CallOK
    <3> QED
      BY <3>1, <3>2 DEF CallOK, goesOn, sameRun
  <2>2. CASE begins(d)
    <3>1. /\ d.by \in Pinger /\ d.seq = seqNo[d.by] + 1 /\ seqNo'[d.by] = d.seq /\ seqNo[d.by] \in Nat
          /\ seqNo[Prober] \in Nat /\ seqNo'[Prober] \in Nat /\ seqNo'[Prober] >= seqNo[Prober]
      BY <1>a, <1>b, <2>2, Zenon DEF begins
    <3>2. CASE d.by = Prober /\ d.reply = None
      BY <1>a, <2>2, <3>1, <3>2 DEF CallOK, begins, None
    <3>3. CASE d.by \in Peer /\ d.kind = "direct" /\ \E m \in net : m.type = "indirectPing" /\ d.reply = m.seq
      <4>1. d.reply \in 1..seqNo[Prober]
        BY <1>a, <3>3, Zenon DEF PacketOK, Indirect
      <4> QED
        BY <1>a, <2>2, <3>1, <3>3, <4>1 DEF CallOK, begins, None
    <3> QED
      BY <2>2, <3>2, <3>3, Zenon DEF begins
  <2> QED
    BY CallsStep, <2>1, <2>2, Zenon
<1>2. ASSUME NEW m \in net' PROVE PacketOK(m)'
  <2>1. CASE m \in net
    <3>1. PacketOK(m) /\ seqNo[Prober] \in Nat /\ seqNo'[Prober] \in Nat /\ seqNo'[Prober] >= seqNo[Prober]
      BY <1>a, <1>b, <2>1, Zenon
    <3>2. m.node \in Pinger => seqNo[m.node] \in Nat /\ seqNo'[m.node] \in Nat /\ seqNo'[m.node] >= seqNo[m.node]
      BY <1>a, <1>b, Zenon
    <3> QED
      BY <3>1, <3>2 DEF PacketOK
  <2>2. CASE sent(m)
    <3>1. \/ m.type \in {"ping", "ack"} /\ m.node \in Pinger /\ m.seq \in 1..seqNo[m.node]
          \/ m.type \in Indirect /\ m.node \in Peer /\ m.seq \in 1..seqNo[Prober]
      BY <1>a, <2>2 DEF sent, PacketOK, CallOK, Indirect, Pinger, None
    <3>2. seqNo[Prober] \in Nat /\ seqNo'[Prober] \in Nat /\ seqNo'[Prober] >= seqNo[Prober]
      BY <1>a, <1>b, Zenon
    <3>3. m.node \in Pinger => seqNo[m.node] \in Nat /\ seqNo'[m.node] \in Nat /\ seqNo'[m.node] >= seqNo[m.node]
      BY <1>a, <1>b, Zenon
    <3> QED
      BY <1>a, <3>1, <3>2, <3>3 DEF PacketOK, Indirect
  <2> QED
    BY NetStep, <2>1, <2>2, Zenon
<1>3. probe'.ping <= seqNo'[Prober] /\ probe'.ind <= seqNo'[Prober]
  <2>1. /\ seqNo[Prober] \in Nat /\ seqNo'[Prober] \in Nat /\ seqNo'[Prober] >= seqNo[Prober]
        /\ probe.ping \in Nat /\ probe.ind \in Nat
    BY <1>a, <1>b, Zenon DEF ProbeRun
  <2> QED
    BY <1>a, <1>b, <2>1 DEF sameProbe, newProbe, newIndirect, None
<1> QED
  BY <1>b, <1>1, <1>2, <1>3, Zenon DEF ProbeTypeOK

\* Sequence numbers stay apart.
LEMMA SeqsApartStep ==
  ASSUME FreshInv, [Next]_vars
  PROVE  SeqsApart'
<1>a. /\ \A c \in calls : CallOK(c)
      /\ \A m \in net : PacketOK(m)
      /\ seqNo[Prober] \in Nat /\ probe.ping \in Nat /\ probe.ind \in Nat
      /\ probe.ping <= seqNo[Prober] /\ probe.ind <= seqNo[Prober]
      /\ Prober \notin Peer
      /\ SeqsApart
  BY ProbeAssumption, Zenon DEF FreshInv, ProbeTypeOK, Pinger, ProbeRun
<1>b. sameProbe \/ newProbe \/ newIndirect
  BY ProbeStep, Zenon
\* What was in use keeps away from what the probe uses now.
<1>1. /\ probe'.ping \in {probe.ping, seqNo[Prober] + 1} /\ probe'.ind \in {probe.ind, None, seqNo[Prober] + 1}
      /\ probe'.ind # None => probe'.ind # probe'.ping
  BY <1>a, <1>b DEF sameProbe, newProbe, newIndirect, SeqsApart, None
<1>2. ASSUME NEW d \in calls'
      PROVE  /\ d.kind = "direct" /\ d.by = Prober => d.seq # probe'.ind
             /\ d.kind = "indirect" => d.seq # probe'.ping
             /\ d.by \in Peer => d.reply # probe'.ping
  <2>1. ASSUME NEW c \in calls, goesOn(d, c)
        PROVE  /\ d.kind = "direct" /\ d.by = Prober => d.seq # probe'.ind
               /\ d.kind = "indirect" => d.seq # probe'.ping
               /\ d.by \in Peer => d.reply # probe'.ping
    BY <1>a, <1>1, <2>1 DEF goesOn, sameRun, CallOK, SeqsApart, None, Pinger
  <2>2. CASE begins(d)
    <3>1. CASE d.by = Prober
      BY <1>a, <1>b, <1>1, <2>2, <3>1 DEF begins, None, sameProbe, newProbe, newIndirect
    <3>2. CASE d.by \in Peer
      BY <1>a, <1>1, <2>2, <3>2, Zenon DEF begins, PacketOK, Indirect, SeqsApart
    <3> QED
      BY <2>2, <3>1, <3>2, Zenon DEF begins
  <2> QED
    BY CallsStep, <2>1, <2>2, Zenon
<1>3. ASSUME NEW m \in net'
      PROVE  /\ m.type \in {"ping", "ack"} /\ m.node = Prober => m.seq # probe'.ind
             /\ m.type \in Indirect => m.seq # probe'.ping
  <2>1. ASSUME PacketOK(m),
               m.type \in {"ping", "ack"} /\ m.node = Prober => m.seq # probe.ind,
               m.type \in Indirect => m.seq # probe.ping
        PROVE  /\ m.type \in {"ping", "ack"} /\ m.node = Prober => m.seq # probe'.ind
               /\ m.type \in Indirect => m.seq # probe'.ping
    BY <1>a, <1>1, <2>1 DEF PacketOK, None
  <2>2. CASE m \in net
    BY <1>a, <2>1, <2>2, Zenon DEF SeqsApart
  <2>3. CASE sent(m)
    <3>1. PacketOK(m)
      BY <1>a, <2>3 DEF sent, PacketOK, CallOK, Indirect, Pinger, None
    <3>2. /\ m.type \in {"ping", "ack"} /\ m.node = Prober => m.seq # probe.ind
          /\ m.type \in Indirect => m.seq # probe.ping
      BY <1>a, <2>3, Zenon DEF sent, CallOK, SeqsApart, Indirect, Pinger
    <3> QED
      BY <2>1, <3>1, <3>2, Zenon
  <2> QED
    BY NetStep, <2>2, <2>3, Zenon
<1> QED
  BY <1>1, <1>2, <1>3, Zenon DEF SeqsApart

\* What bears witness after a step has followed an answer, too.
LEMMA WitnessStep ==
  ASSUME FreshInv, [Next]_vars
  PROVE  WitnessIsFresh'
<1>a. /\ \A c \in calls : CallOK(c)
      /\ \A m \in net : PacketOK(m)
      /\ seqNo \in [Pinger -> Nat] /\ probe \in ProbeRun /\ probe' \in ProbeRun
      /\ probe.ping <= seqNo[Prober] /\ probe.ind <= seqNo[Prober]
      /\ Prober \notin Peer /\ Prober \in Pinger
      /\ SeqsApart /\ WitnessIsFresh
  BY ProbeAssumption, ProbeStep, Zenon DEF FreshInv, ProbeTypeOK, Pinger
<1>b. sameProbe \/ newProbe \/ newIndirect
  BY ProbeStep, Zenon
<1>c. /\ seqNo[Prober] \in Nat /\ probe.ping \in Nat /\ probe.ind \in Nat /\ probe'.ping \in Nat /\ probe'.ind \in Nat
      /\ probe.answered => probe'.answered \/ newProbe
      /\ probe'.ping \in {probe.ping, seqNo[Prober] + 1} /\ probe'.ind \in {probe.ind, None, seqNo[Prober] + 1}
      /\ newProbe => probe'.ping = seqNo[Prober] + 1 /\ probe'.ind = None
  BY <1>a, <1>b, Zenon DEF sameProbe, newProbe, newIndirect, ProbeRun
<1>1. ASSUME NEW c \in calls, NEW d, goesOn(d, c), serves(d)' PROVE serves(c) /\ ~newProbe
  BY <1>a, <1>c, <1>1 DEF serves, goesOn, sameRun, CallOK, None
<1>2. ASSUME NEW n, NEW seq, \E m \in net : m.type = "ack" /\ m.node = n /\ m.seq = seq, ofThisProbe(n, seq)'
      PROVE  ofThisProbe(n, seq) /\ ~newProbe
  <2>1. n \in Pinger /\ seq \in 1..seqNo[n] /\ seqNo[n] \in Nat
    BY <1>a, <1>2, Zenon DEF PacketOK, Indirect
  <2>2. CASE n = Prober /\ seq = probe'.ping
    BY <1>c, <2>1, <2>2 DEF ofThisProbe
  <2>3. ASSUME NEW d \in calls', d.by = n, d.seq = seq, n \in Peer, d.reply = probe'.ind, probe'.ind # None
        PROVE  ofThisProbe(n, seq) /\ ~newProbe
    <3>1. ~begins(d)
      BY <2>1, <2>3 DEF begins
    <3>2. PICK c \in calls : goesOn(d, c)
      BY CallsStep, <2>3, <3>1, Zenon
    <3>3. c.by = n /\ c.seq = seq /\ c.reply = probe'.ind /\ c.reply \in 0..seqNo[Prober]
      BY <1>a, <2>3, <3>2, Zenon DEF goesOn, sameRun, CallOK
    <3> QED
      BY <1>c, <2>3, <3>3 DEF ofThisProbe
  <2> QED
    BY <1>2, <2>2, <2>3, Zenon DEF ofThisProbe
<1>3. ASSUME NEW m \in net', m.type = "ack", ofThisProbe(m.node, m.seq)' PROVE probe'.answered
  <2>1. CASE m \in net
    BY <1>a, <1>c, <1>2, <1>3, <2>1, Zenon DEF WitnessIsFresh
  <2>2. CASE sent(m)
    BY <1>3, <2>2, Zenon DEF sent, ofThisProbe
  <2> QED
    BY NetStep, <2>1, <2>2, Zenon
<1>4. ASSUME NEW m \in net', m.type = "indirectAck", m.success, m.seq = probe'.ind PROVE probe'.answered
  <2>1. CASE m \in net
    <3>1. m.seq \in 1..seqNo[Prober]
      BY <1>a, <1>4, <2>1, Zenon DEF PacketOK, Indirect
    <3>2. m.seq = probe.ind /\ ~newProbe
      BY <1>c, <1>4, <3>1 DEF None
    <3> QED
      BY <1>a, <1>c, <1>4, <2>1, <3>2, Zenon DEF WitnessIsFresh
  <2>2. CASE sent(m)
    <3>1. PICK c \in calls : c.by \in Peer /\ m.seq = c.reply /\ c.pc = "ok"
      BY <1>4, <2>2, Zenon DEF sent
    <3>2. c.reply \in 0..seqNo[Prober] /\ c.reply # None
      BY <1>a, <3>1, Zenon DEF CallOK
    <3>3. c.reply = probe.ind /\ ~newProbe
      BY <1>c, <1>4, <3>1, <3>2 DEF None
    <3> QED
      BY <1>a, <1>c, <3>1, <3>3, Zenon DEF WitnessIsFresh, serves
  <2> QED
    BY NetStep, <2>1, <2>2, Zenon
<1>5. ASSUME NEW d \in calls', d.pc = "ok", serves(d)' PROVE probe'.answered
  <2>1. PICK c \in calls : goesOn(d, c)
    BY CallsStep, <1>5, Zenon DEF begins
  <2>2. serves(c) /\ ~newProbe
    BY <1>1, <1>5, <2>1, Zenon
  <2>3. CASE c.pc = "ok"
    BY <1>a, <1>c, <2>2, <2>3, Zenon DEF WitnessIsFresh
  <2>4. ASSUME NEW m \in net, wakes(m, c) PROVE probe'.answered
    <3>1. CASE m.type = "ack" /\ m.node = c.by /\ m.seq = c.seq
      <4>1. c.by = Prober => c.seq # probe.ind
        BY <1>a, <3>1, Zenon DEF SeqsApart
      <4>2. ofThisProbe(m.node, m.seq)
        BY <1>a, <2>2, <3>1, <4>1, Zenon DEF serves, ofThisProbe, CallOK
      <4> QED
        BY <1>a, <1>c, <2>2, <3>1, <4>2, Zenon DEF WitnessIsFresh
    <3>2. CASE m.type = "indirectAck" /\ m.success /\ c.by = Prober /\ m.seq = c.seq
      <4>1. m.seq # probe.ping
        BY <1>a, <3>2, Zenon DEF SeqsApart, Indirect
      <4>2. m.seq = probe.ind
        BY <1>a, <2>2, <3>2, <4>1, Zenon DEF serves
      <4> QED
        BY <1>a, <1>c, <2>2, <3>2, <4>2, Zenon DEF WitnessIsFresh
    <3> QED
      BY <2>4, <3>1, <3>2, Zenon DEF wakes
  <2> QED
    BY <1>5, <2>1, <2>3, <2>4, Zenon DEF goesOn
<1>6. (probe'.tcp = "ok" => probe'.answered) /\ (probe'.verdict = "alive" => probe'.answered)
  BY <1>a, <1>b, Zenon DEF sameProbe, newProbe, newIndirect, WitnessIsFresh, AliveIsFresh
<1> QED
  BY <1>3, <1>4, <1>5, <1>6, Zenon DEF WitnessIsFresh, AliveIsFresh

\* The invariant holds initially and is inductive.
LEMMA FreshInductive ==
  /\ Init => FreshInv
  /\ FreshInv /\ [Next]_vars => FreshInv'
<1>1. ASSUME Init PROVE FreshInv
  <2>1. ProbeTypeOK /\ SeqsApart
    BY <1>1 DEF Init, ProbeTypeOK, SeqsApart, ProbeRun, Pinger, None
  <2>2. WitnessIsFresh
    BY <1>1, Zenon DEF Init, WitnessIsFresh, AliveIsFresh
  <2> QED
    BY <2>1, <2>2, Zenon DEF FreshInv
<1>2. ASSUME FreshInv, [Next]_vars PROVE FreshInv'
  BY <1>2, ProbeTypeStep, SeqsApartStep, WitnessStep, Zenon DEF FreshInv
<1> QED
  BY <1>1, <1>2, Zenon

\* A probe never takes a late ack of an earlier probe for an answer, for any
\* number of peers and probes, whatever packets are lost, late or delivered twice.
THEOREM ProbeAliveIsFresh == Spec => []AliveIsFresh
<1>1. FreshInv => AliveIsFresh
  BY Zenon DEF FreshInv, WitnessIsFresh
<1> QED
  BY FreshInductive, <1>1, PTL DEF Spec

-----------------------------------------------------------------------------
\* What is still owed to the indirect ping of number s: the packets that carry it
\* or an answer to it, and the runs of Ping that serve it.
packetsFor(s) == {m \in net : m.type \in Indirect /\ m.seq = s}
servingRuns(s) == {c \in calls : c.by \in Peer /\ c.reply = s}
runsFor(s) == {<<c.by, c.seq>> : c \in servingRuns(s)}
owed(s) == Cardinality(packetsFor(s)) + Cardinality(runsFor(s))

\* There is one run of Ping or IndirectPing for a sequence number.
UniqueRuns == \A c, d \in calls : c.by = d.by /\ c.seq = d.seq => c = d

\* The nacks counted and those that may still come are at most the peers asked,
\* and the packets that were repeated.
nacksFit(c, s) ==
  /\ c.pc = "new" => packetsFor(s) = {} /\ runsFor(s) = {} /\ c.nacks = 0
  /\ c.pc \in {"sent", "select"} => owed(s) + c.nacks <= Cardinality(c.asked) + repeats
  /\ c.nacks <= Cardinality(c.asked) + repeats

Accounted(s) ==
  /\ IsFiniteSet(packetsFor(s)) /\ IsFiniteSet(runsFor(s))
  /\ \A c \in callOf(s) : nacksFit(c, s)

NackInv == FreshInv /\ UniqueRuns /\ repeats \in Nat /\ Accounted(probe.ind) /\ NacksAccounted

\* The elements of a finite set that loses, keeps or gains one.
LEMMA CountKept ==
  ASSUME NEW A, IsFiniteSet(A), NEW B, B \subseteq A
  PROVE  IsFiniteSet(B) /\ Cardinality(A) \in Nat /\ Cardinality(B) \in Nat /\ Cardinality(B) <= Cardinality(A)
<1>1. B \in SUBSET A
  BY Zenon
<1> QED
  BY <1>1, FS_Subset, FS_CardinalityType, Zenon

LEMMA CountLess ==
  ASSUME NEW A, IsFiniteSet(A), NEW x \in A, NEW B, B \subseteq A \ {x}
  PROVE  /\ IsFiniteSet(B) /\ Cardinality(A) \in Nat /\ Cardinality(B) \in Nat
         /\ Cardinality(B) + 1 <= Cardinality(A)
<1> DEFINE C == A \ {x}
<1>1. IsFiniteSet(C) /\ Cardinality(C) = Cardinality(A) - 1 /\ Cardinality(A) \in Nat
  BY FS_RemoveElement, FS_CardinalityType, Zenon
<1>2. B \subseteq C
  BY Zenon
<1> HIDE DEF C
<1>3. IsFiniteSet(B) /\ Cardinality(B) \in Nat /\ Cardinality(B) <= Cardinality(C)
  BY <1>1, <1>2, CountKept, Zenon
<1> QED
  BY <1>1, <1>3

LEMMA CountMore ==
  ASSUME NEW A, IsFiniteSet(A), NEW x, NEW B, B \subseteq A \cup {x}
  PROVE  /\ IsFiniteSet(B) /\ Cardinality(A) \in Nat /\ Cardinality(B) \in Nat
         /\ Cardinality(B) <= Cardinality(A) + 1
<1> DEFINE C == A \cup {x}
<1>1. /\ IsFiniteSet(C) /\ Cardinality(A) \in Nat
      /\ Cardinality(C) = IF x \in A THEN Cardinality(A) ELSE Cardinality(A) + 1
  BY FS_AddElement, FS_CardinalityType, Zenon
<1>2. B \subseteq C
  BY Zenon
<1> HIDE DEF C
<1>3. IsFiniteSet(B) /\ Cardinality(B) \in Nat /\ Cardinality(B) <= Cardinality(C) /\ Cardinality(C) \in Nat
  BY <1>1, <1>2, CountKept, Zenon
<1> QED
  BY <1>1, <1>3

\* A run that goes on without counting a nack.
continues(d, c) ==
  /\ sameRun(d, c)
  /\ \/ /\ d.asked = c.asked /\ d.nacks = c.nacks
        /\ d.pc = "new" => c.pc = "new"
        /\ d.pc \in {"sent", "select"} => c.pc \in {"new", "sent", "select"}
     \/ d.asked = {} /\ d.nacks = 0 /\ d.pc = "fail"

\* A run that counts one.
counts(d, c) ==
  /\ sameRun(d, c) /\ d.asked = c.asked /\ d.nacks = c.nacks + 1 /\ d.pc = c.pc
  /\ c.pc \in {"sent", "select"}

\* A nack is counted when an answer is no longer owed or a packet was repeated,
\* and something more is owed only if a packet was repeated.
LEMMA FitsKept ==
  ASSUME NEW s, Accounted(s), \A c \in calls : CallOK(c), repeats \in Nat, repeats' \in Nat, repeats' >= repeats,
         IsFiniteSet(packetsFor(s)'), IsFiniteSet(runsFor(s)'),
         packetsFor(s) = {} /\ runsFor(s) = {} => packetsFor(s)' = {} /\ runsFor(s)' = {},
         owed(s)' + repeats <= owed(s) + repeats',
         \A d \in callOf(s)' : \E c \in callOf(s) :
           continues(d, c) \/ (counts(d, c) /\ owed(s)' + repeats + 1 <= owed(s) + repeats')
  PROVE  Accounted(s)'
<1> SUFFICES ASSUME NEW d \in callOf(s)' PROVE nacksFit(d, s)'
  BY Zenon DEF Accounted
<1>1. PICK c \in callOf(s) : continues(d, c) \/ (counts(d, c) /\ owed(s)' + repeats + 1 <= owed(s) + repeats')
  BY Zenon
<1>2. nacksFit(c, s) /\ CallOK(c) /\ c.nacks \in Nat /\ c.asked \subseteq Peer
  BY Zenon DEF Accounted, callOf, CallOK
<1>3. Cardinality(c.asked) \in Nat /\ Cardinality({}) = 0
  BY <1>2, CountKept, FS_EmptySet, ProbeAssumption, Zenon
<1>4. owed(s) \in Nat /\ owed(s)' \in Nat
  <2>1. /\ Cardinality(packetsFor(s)) \in Nat /\ Cardinality(runsFor(s)) \in Nat
        /\ Cardinality(packetsFor(s)') \in Nat /\ Cardinality(runsFor(s)') \in Nat
    BY FS_CardinalityType, Zenon DEF Accounted
  <2> QED
    BY <2>1 DEF owed
<1>5. packetsFor(s)' = {} /\ runsFor(s)' = {} => owed(s)' = 0
  BY <1>3 DEF owed
<1> DEFINE n == Cardinality(c.asked)
           o == owed(s)
           p == owed(s)'
<1>6. CASE d.asked = {} /\ d.nacks = 0 /\ d.pc = "fail"
  BY <1>3, <1>6 DEF nacksFit
<1>7. CASE /\ d.asked = c.asked /\ d.nacks = c.nacks
           /\ d.pc = "new" => c.pc = "new"
           /\ d.pc \in {"sent", "select"} => c.pc \in {"new", "sent", "select"}
  <2>1. d.pc = "new" => packetsFor(s)' = {} /\ runsFor(s)' = {} /\ d.nacks = 0
    BY <1>2, <1>7, Zenon DEF nacksFit
  <2>2. c.nacks <= n + repeats'
    BY <1>2, <1>3 DEF nacksFit
  <2>3. CASE c.pc = "new"
    <3>1. p = 0
      BY <1>2, <1>5, <2>3, Zenon DEF nacksFit
    <3>2. p + c.nacks <= n + repeats'
      BY <1>2, <2>2, <3>1
    <3> QED
      BY <1>7, <2>1, <2>2, <3>2, Zenon DEF nacksFit
  <2>4. CASE c.pc \in {"sent", "select"}
    <3>1. o + c.nacks <= n + repeats
      BY <1>2, <2>4, Zenon DEF nacksFit
    <3>2. p + c.nacks <= n + repeats'
      BY <1>2, <1>3, <1>4, <3>1
    <3> QED
      BY <1>7, <2>1, <2>2, <3>2, Zenon DEF nacksFit
  <2>5. CASE c.pc \notin {"new", "sent", "select"}
    BY <1>7, <2>1, <2>2, <2>5, Zenon DEF nacksFit
  <2> QED
    BY <2>3, <2>4, <2>5, Zenon
<1>8. CASE counts(d, c) /\ p + repeats + 1 <= o + repeats'
  <2>1. o + c.nacks <= n + repeats /\ d.nacks = c.nacks + 1 /\ d.asked = c.asked /\ d.pc # "new"
    BY <1>2, <1>8, Zenon DEF nacksFit, counts
  <2>2. p + d.nacks <= n + repeats' /\ d.nacks <= n + repeats'
    BY <1>2, <1>3, <1>4, <1>8, <2>1
  <2> QED
    BY <2>1, <2>2, Zenon DEF nacksFit
<1> QED
  BY <1>1, <1>6, <1>7, <1>8, Zenon DEF continues

\* Runs that go on, each at most once, and one that begins stay unique; no peer
\* starts to serve an indirect ping unless the new run does.
LEMMA RunsKept ==
  ASSUME FreshInv, UniqueRuns, NEW s, NEW S \in SUBSET calls, NEW F, \A c \in S : sameRun(F[c], c),
         NEW new, new = {} \/ \E d : new = {d} /\ begins(d),
         calls' \subseteq {F[c] : c \in S} \cup new
  PROVE  /\ UniqueRuns'
         /\ (\A d \in new : d.by = Prober) => runsFor(s)' \subseteq runsFor(s)
         /\ \A d \in callOf(s)' : d \in new \/ \E c \in S : d = F[c] /\ c \in callOf(s)
<1>a. /\ \A c \in calls : CallOK(c) /\ seqNo[c.by] \in Nat
      /\ Prober \notin Peer
  BY ProbeAssumption, Zenon DEF FreshInv, ProbeTypeOK, CallOK
<1>1. ASSUME NEW x \in calls', NEW y \in calls', x.by = y.by, x.seq = y.seq PROVE x = y
  <2>1. CASE x \in new /\ y \in new
    BY <2>1
  <2>2. ASSUME NEW c \in S, NEW d \in S, x = F[c], y = F[d] PROVE x = y
    <3>1. c.by = d.by /\ c.seq = d.seq
      BY <1>1, <2>2, Zenon DEF sameRun
    <3>2. c = d
      BY <3>1, Zenon DEF UniqueRuns
    <3> QED
      BY <2>2, <3>2, Zenon
  <2>3. ASSUME NEW c \in S, NEW z \in new, F[c].by = z.by, F[c].seq = z.seq PROVE FALSE
    <3>1. c.by = z.by /\ c.seq = z.seq /\ c.seq \in 1..seqNo[c.by] /\ seqNo[c.by] \in Nat
      BY <1>a, <2>3, Zenon DEF sameRun, CallOK
    <3>2. z.seq = seqNo[z.by] + 1
      BY Zenon DEF begins
    <3> QED
      BY <3>1, <3>2
  <2> QED
    BY <1>1, <2>1, <2>2, <2>3, Zenon
<1>2. ASSUME \A d \in new : d.by = Prober, NEW x \in runsFor(s)' PROVE x \in runsFor(s)
  <2>1. PICK d \in calls' : d.by \in Peer /\ d.reply = s /\ x = <<d.by, d.seq>>
    BY <1>2, Zenon DEF runsFor, servingRuns
  <2>2. PICK c \in S : d = F[c]
    BY <1>a, <1>2, <2>1, Zenon
  <2>3. c \in servingRuns(s) /\ x = <<c.by, c.seq>>
    BY <2>1, <2>2, Zenon DEF sameRun, servingRuns
  <2> QED
    BY <2>3, Zenon DEF runsFor
<1>3. ASSUME NEW d \in callOf(s)', d \notin new PROVE \E c \in S : d = F[c] /\ c \in callOf(s)
  <2>1. d \in calls' /\ d.by = Prober /\ d.seq = s
    BY <1>3, Zenon DEF callOf
  <2>2. PICK c \in S : d = F[c]
    BY <1>3, <2>1, Zenon
  <2> QED
    BY <2>1, <2>2, Zenon DEF callOf, sameRun
<1> QED
  BY <1>1, <1>2, <1>3, Zenon DEF UniqueRuns

\* Nothing is owed to an indirect ping that was not sent.
LEMMA NewAccounted ==
  ASSUME NackInv, NEW s, s = None \/ s = seqNo[Prober] + 1, net' = net, repeats' \in Nat,
         NEW S \in SUBSET calls, NEW new, new = {} \/ \E d : new = {d} /\ begins(d) /\ d.by = Prober,
         calls' = S \cup new
  PROVE  UniqueRuns' /\ Accounted(s)'
<1>a. /\ \A c \in calls : CallOK(c)
      /\ \A m \in net : PacketOK(m)
      /\ FreshInv /\ UniqueRuns /\ Prober \notin Peer /\ seqNo[Prober] \in Nat
  BY ProbeAssumption, Zenon DEF NackInv, FreshInv, ProbeTypeOK, Pinger
<1>b. s \notin 1..seqNo[Prober]
  BY <1>a DEF None
<1> DEFINE id == [c \in calls |-> c]
<1>1. UniqueRuns' /\ runsFor(s)' \subseteq runsFor(s) /\ \A d \in callOf(s)' : d \in new \/ d \in callOf(s)
  <2>1. (\A c \in S : sameRun(id[c], c) /\ id[c] = c) /\ calls' \subseteq {id[c] : c \in S} \cup new
    BY Zenon DEF sameRun
  <2>2. (new = {} \/ \E d : new = {d} /\ begins(d)) /\ \A d \in new : d.by = Prober
    BY Zenon
  <2> HIDE DEF id
  <2>3. /\ UniqueRuns'
        /\ (\A d \in new : d.by = Prober) => runsFor(s)' \subseteq runsFor(s)
        /\ \A d \in callOf(s)' : d \in new \/ \E c \in S : d = id[c] /\ c \in callOf(s)
    BY <1>a, <2>1, <2>2, RunsKept, Zenon
  <2> QED
    BY ONLY <2>1, <2>2, <2>3, Zenon
<1>2. packetsFor(s)' = {} /\ runsFor(s) = {} /\ callOf(s) = {}
  <2>1. ASSUME NEW m \in net, m.type \in Indirect PROVE m.seq # s
    BY <1>a, <1>b, <2>1, Zenon DEF PacketOK
  <2>2. ASSUME NEW c \in calls, c.by \in Peer PROVE c.reply # s
    BY <1>a, <1>b, <2>2 DEF CallOK, None
  <2>3. ASSUME NEW c \in calls, c.by = Prober PROVE c.seq # s
    BY <1>a, <1>b, <2>3, Zenon DEF CallOK
  <2> QED
    BY <2>1, <2>2, <2>3, Zenon DEF packetsFor, runsFor, servingRuns, callOf
<1>3. packetsFor(s)' = {} /\ runsFor(s)' = {}
  BY <1>1, <1>2, Zenon
<1>4. ASSUME NEW d \in new PROVE nacksFit(d, s)'
  <2>1. d.pc = "new" /\ d.nacks = 0 /\ d.asked \subseteq Peer
    BY Zenon DEF begins
  <2>2. Cardinality(d.asked) \in Nat
    BY <2>1, CountKept, ProbeAssumption, Zenon
  <2> QED
    BY <1>3, <2>1, <2>2 DEF nacksFit
<1>5. IsFiniteSet(packetsFor(s)') /\ IsFiniteSet(runsFor(s)')
  BY <1>3, FS_EmptySet, Zenon
<1> QED
  BY <1>1, <1>2, <1>4, <1>5, Zenon DEF Accounted

\* A step that sends no indirect ping and no answer and starts no run of a peer.
LEMMA QuietAccounted ==
  ASSUME NackInv, NEW s, s = probe.ind, repeats' \in Nat, repeats' >= repeats,
         packetsFor(s)' \subseteq packetsFor(s),
         NEW S \in SUBSET calls, NEW F, \A c \in S : continues(F[c], c),
         calls' = {F[c] : c \in S}
  PROVE  UniqueRuns' /\ Accounted(s)'
<1>a. /\ \A c \in calls : CallOK(c)
      /\ FreshInv /\ UniqueRuns /\ Accounted(s) /\ repeats \in Nat
  BY Zenon DEF NackInv, FreshInv, ProbeTypeOK
<1>1. /\ UniqueRuns' /\ runsFor(s)' \subseteq runsFor(s)
      /\ \A d \in callOf(s)' : \E c \in S : d = F[c] /\ c \in callOf(s)
  <2>1. S \in SUBSET calls /\ \A c \in S : sameRun(F[c], c)
    BY Zenon DEF continues
  <2> DEFINE new == {}
  <2>2. /\ new = {} \/ \E d : new = {d} /\ begins(d)
        /\ calls' \subseteq {F[c] : c \in S} \cup new
    BY Zenon
  <2>3. \A d : d \notin new
    BY Zenon
  <2> HIDE DEF new
  <2>4. /\ UniqueRuns'
        /\ (\A d \in new : d.by = Prober) => runsFor(s)' \subseteq runsFor(s)
        /\ \A d \in callOf(s)' : d \in new \/ \E c \in S : d = F[c] /\ c \in callOf(s)
    BY ONLY <1>a, <2>1, <2>2, RunsKept, Zenon
  <2> QED
    BY ONLY <2>3, <2>4, Zenon
<1>2. \A d \in callOf(s)' : \E c \in callOf(s) : continues(d, c)
  BY <1>1, Zenon
<1>3. /\ IsFiniteSet(packetsFor(s)') /\ Cardinality(packetsFor(s)') <= Cardinality(packetsFor(s))
      /\ Cardinality(packetsFor(s)') \in Nat /\ Cardinality(packetsFor(s)) \in Nat
  BY <1>a, CountKept, Zenon DEF Accounted
<1>4. /\ IsFiniteSet(runsFor(s)') /\ Cardinality(runsFor(s)') <= Cardinality(runsFor(s))
      /\ Cardinality(runsFor(s)') \in Nat /\ Cardinality(runsFor(s)) \in Nat
  BY <1>a, <1>1, CountKept, Zenon DEF Accounted
<1>5. owed(s)' + repeats <= owed(s) + repeats'
  BY <1>a, <1>3, <1>4 DEF owed
<1>6. packetsFor(s) = {} /\ runsFor(s) = {} => packetsFor(s)' = {} /\ runsFor(s)' = {}
  BY <1>1, Zenon
<1> QED
  BY <1>a, <1>1, <1>2, <1>3, <1>4, <1>5, <1>6, FitsKept, Zenon

\* A run that goes on, or ends.
LEMMA QuietRun ==
  ASSUME NackInv, NEW s, s = probe.ind, repeats' = repeats, packetsFor(s)' \subseteq packetsFor(s)
  PROVE  /\ calls' \subseteq calls => UniqueRuns' /\ Accounted(s)'
         /\ \A c \in calls : \A d : continues(d, c) /\ calls' = (calls \ {c}) \cup {d} => UniqueRuns' /\ Accounted(s)'
<1>a. (\A c \in calls : continues(c, c)) /\ repeats \in Nat /\ repeats' \in Nat
  BY Zenon DEF continues, sameRun, NackInv
<1>b. repeats' >= repeats
  BY <1>a
<1>1. ASSUME calls' \subseteq calls PROVE UniqueRuns' /\ Accounted(s)'
  <2> DEFINE S == calls'
             id == [c \in calls |-> c]
  <2>1. S \in SUBSET calls /\ (\A c \in S : continues(id[c], c)) /\ calls' = {id[c] : c \in S}
    BY <1>1, <1>a, Zenon
  <2> HIDE DEF S, id
  <2> QED
    BY <1>a, <1>b, <2>1, QuietAccounted, Zenon
<1>2. ASSUME NEW c \in calls, NEW d, continues(d, c), calls' = (calls \ {c}) \cup {d} PROVE UniqueRuns' /\ Accounted(s)'
  <2> DEFINE F == [x \in calls |-> IF x = c THEN d ELSE x]
  <2>1. calls \in SUBSET calls /\ calls' = {F[x] : x \in calls}
    BY <1>2, Zenon
  <2>2. \A x \in calls : continues(F[x], x)
    BY <1>2, <1>a, Zenon
  <2> HIDE DEF F
  <2> QED
    BY <1>a, <1>b, <2>1, <2>2, QuietAccounted, Zenon
<1> QED
  BY <1>1, <1>2, Zenon

\* A peer that gets an indirect ping owes the answer, instead of the packet unless
\* that is delivered again.
LEMMA AnswerOwed ==
  ASSUME NackInv, NEW s, s = probe.ind, NEW m \in net, m.type \in Indirect, NEW again \in BOOLEAN,
         net' = IF again THEN net ELSE net \ {m}, repeats' = IF again THEN repeats + 1 ELSE repeats,
         NEW new, calls' = calls \cup {new}, begins(new), new.by = m.node, new.reply = m.seq
  PROVE  UniqueRuns' /\ Accounted(s)'
<1>a. /\ \A c \in calls : CallOK(c)
      /\ FreshInv /\ UniqueRuns /\ Accounted(s) /\ repeats \in Nat
      /\ Prober \notin Peer /\ m.node \in Peer /\ IsFiniteSet(packetsFor(s)) /\ IsFiniteSet(runsFor(s))
  BY ProbeAssumption, Zenon DEF NackInv, FreshInv, ProbeTypeOK, PacketOK, Accounted
<1>b. repeats' \in Nat /\ repeats' >= repeats
  BY <1>a
<1>1. UniqueRuns'
  <2> DEFINE id == [c \in calls |-> c]
             X == {new}
  <2>1. /\ calls \in SUBSET calls /\ \A c \in calls : sameRun(id[c], c)
        /\ X = {} \/ \E d : X = {d} /\ begins(d)
        /\ calls' \subseteq {id[c] : c \in calls} \cup X
    BY Zenon DEF sameRun
  <2> HIDE DEF id, X
  <2> QED
    BY ONLY <1>a, <2>1, RunsKept, Zenon
<1>2. ASSUME NEW d \in callOf(s)' PROVE d \in callOf(s) /\ continues(d, d)
  BY <1>a, <1>2, Zenon DEF callOf, continues, sameRun
<1>3. CASE m.seq = s
  <2>1. m \in packetsFor(s) /\ packetsFor(s)' \subseteq IF again THEN packetsFor(s) ELSE packetsFor(s) \ {m}
    BY <1>3, Zenon DEF packetsFor
  <2>2. runsFor(s)' \subseteq runsFor(s) \cup {<<new.by, new.seq>>}
    BY Zenon DEF runsFor, servingRuns
  <2>3. /\ IsFiniteSet(runsFor(s)') /\ Cardinality(runsFor(s)) \in Nat /\ Cardinality(runsFor(s)') \in Nat
        /\ Cardinality(runsFor(s)') <= Cardinality(runsFor(s)) + 1
    BY <1>a, <2>2, CountMore, Zenon
  <2>4. packetsFor(s) # {}
    BY <2>1, Zenon
  <2>5. /\ IsFiniteSet(packetsFor(s)') /\ Cardinality(packetsFor(s)) \in Nat /\ Cardinality(packetsFor(s)') \in Nat
        /\ Cardinality(packetsFor(s)') + (IF again THEN 0 ELSE 1) <= Cardinality(packetsFor(s))
    <3>1. CASE again
      <4>1. /\ IsFiniteSet(packetsFor(s)') /\ Cardinality(packetsFor(s)) \in Nat /\ Cardinality(packetsFor(s)') \in Nat
            /\ Cardinality(packetsFor(s)') <= Cardinality(packetsFor(s))
        BY <1>a, <2>1, <3>1, CountKept, Zenon
      <4> QED
        BY <3>1, <4>1
    <3>2. CASE ~again
      <4>1. /\ IsFiniteSet(packetsFor(s)') /\ Cardinality(packetsFor(s)) \in Nat /\ Cardinality(packetsFor(s)') \in Nat
            /\ Cardinality(packetsFor(s)') + 1 <= Cardinality(packetsFor(s))
        BY <1>a, <2>1, <3>2, CountLess, Zenon
      <4> QED
        BY <3>2, <4>1
    <3> QED
      BY <3>1, <3>2, Zenon
  <2>6. owed(s)' + repeats <= owed(s) + repeats'
    BY <1>a, <2>3, <2>5 DEF owed
  <2> QED
    BY <1>a, <1>b, <1>1, <1>2, <2>3, <2>4, <2>5, <2>6, FitsKept, Zenon
<1>4. CASE m.seq # s
  <2>1. packetsFor(s)' \subseteq packetsFor(s) /\ runsFor(s)' \subseteq runsFor(s)
    BY <1>4, Zenon DEF packetsFor, runsFor, servingRuns
  <2>2. /\ IsFiniteSet(packetsFor(s)') /\ Cardinality(packetsFor(s)') <= Cardinality(packetsFor(s))
        /\ Cardinality(packetsFor(s)') \in Nat /\ Cardinality(packetsFor(s)) \in Nat
    BY <1>a, <2>1, CountKept, Zenon
  <2>3. /\ IsFiniteSet(runsFor(s)') /\ Cardinality(runsFor(s)') <= Cardinality(runsFor(s))
        /\ Cardinality(runsFor(s)') \in Nat /\ Cardinality(runsFor(s)) \in Nat
    BY <1>a, <2>1, CountKept, Zenon
  <2>4. owed(s)' + repeats <= owed(s) + repeats'
    BY <1>a, <1>b, <2>2, <2>3 DEF owed
  <2>5. packetsFor(s) = {} /\ runsFor(s) = {} => packetsFor(s)' = {} /\ runsFor(s)' = {}
    BY <2>1, Zenon
  <2> QED
    BY <1>a, <1>b, <1>1, <1>2, <2>2, <2>3, <2>4, <2>5, FitsKept, Zenon
<1> QED
  BY <1>3, <1>4, Zenon

\* A peer that answers has its answer on the way instead of the run that served
\* the indirect ping.
LEMMA AnswerSent ==
  ASSUME NackInv, NEW s, s = probe.ind, repeats' = repeats, NEW c \in calls, c.by \in Peer, calls' = calls \ {c},
         NEW m, m.seq = c.reply, net' = net \cup {m}
  PROVE  UniqueRuns' /\ Accounted(s)'
<1>a. /\ \A x \in calls : CallOK(x)
      /\ UniqueRuns /\ Accounted(s) /\ repeats \in Nat
      /\ Prober \notin Peer /\ IsFiniteSet(packetsFor(s)) /\ IsFiniteSet(runsFor(s))
  BY ProbeAssumption, Zenon DEF NackInv, FreshInv, ProbeTypeOK, Accounted
<1>b. repeats' \in Nat /\ repeats' >= repeats
  BY <1>a
<1>1. UniqueRuns'
  BY <1>a, Zenon DEF UniqueRuns
<1>2. ASSUME NEW d \in callOf(s)' PROVE d \in callOf(s) /\ continues(d, d)
  BY <1>2, Zenon DEF callOf, continues, sameRun
<1>3. CASE c.reply = s
  <2> DEFINE r == <<c.by, c.seq>>
  <2>1. packetsFor(s)' \subseteq packetsFor(s) \cup {m}
    BY Zenon DEF packetsFor
  <2>2. r \in runsFor(s) /\ runsFor(s)' \subseteq runsFor(s) \ {r}
    <3>1. r \in runsFor(s)
      BY <1>3, Zenon DEF runsFor, servingRuns
    <3>2. ASSUME NEW x \in runsFor(s)' PROVE x \in runsFor(s) /\ x # r
      <4>1. PICK d \in calls \ {c} : d.by \in Peer /\ d.reply = s /\ x = <<d.by, d.seq>>
        BY <3>2, Zenon DEF runsFor, servingRuns
      <4>2. d.by # c.by \/ d.seq # c.seq
        BY <1>a, <4>1, Zenon DEF UniqueRuns
      <4>3. x \in runsFor(s)
        BY <4>1, Zenon DEF runsFor, servingRuns
      <4> QED
        BY <4>1, <4>2, <4>3
    <3> QED
      BY <3>1, <3>2, Zenon
  <2> HIDE DEF r
  <2>3. /\ IsFiniteSet(packetsFor(s)') /\ Cardinality(packetsFor(s)) \in Nat /\ Cardinality(packetsFor(s)') \in Nat
        /\ Cardinality(packetsFor(s)') <= Cardinality(packetsFor(s)) + 1
    BY <1>a, <2>1, CountMore, Zenon
  <2>4. /\ IsFiniteSet(runsFor(s)') /\ Cardinality(runsFor(s)) \in Nat /\ Cardinality(runsFor(s)') \in Nat
        /\ Cardinality(runsFor(s)') + 1 <= Cardinality(runsFor(s))
    BY <1>a, <2>2, CountLess, Zenon
  <2>5. owed(s)' + repeats <= owed(s) + repeats' /\ runsFor(s) # {}
    BY <1>a, <2>2, <2>3, <2>4 DEF owed
  <2> QED
    BY <1>a, <1>b, <1>1, <1>2, <2>3, <2>4, <2>5, FitsKept, Zenon
<1>4. CASE c.reply # s
  <2>1. packetsFor(s)' \subseteq packetsFor(s) /\ calls' \subseteq calls
    BY <1>4, Zenon DEF packetsFor
  <2> QED
    BY <2>1, QuietRun, Zenon
<1> QED
  BY <1>3, <1>4, Zenon

\* At most one packet is sent to each peer.
LEMMA SentCount ==
  ASSUME NEW A, IsFiniteSet(A), NEW n, NEW T, T = {[type |-> "indirectPing", node |-> k, seq |-> n] : k \in A}
  PROVE  IsFiniteSet(T) /\ Cardinality(T) \in Nat /\ Cardinality(T) <= Cardinality(A)
<1> DEFINE f == [k \in A |-> [type |-> "indirectPing", node |-> k, seq |-> n]]
<1>1. f \in Surjection(A, T)
  BY Zenon DEF Surjection
<1> HIDE DEF f
<1> QED
  BY <1>1, FS_Surjection, FS_CardinalityType, Zenon

\* IndirectPing sends: as much is owed as peers are asked.
LEMMA IndirectSent ==
  ASSUME NackInv, NEW s, s = probe.ind, repeats' = repeats,
         NEW c \in calls, c.kind = "indirect", c.pc = "new", NEW to \in SUBSET c.asked,
         net' = net \cup packetsOf(c, to), NEW d, calls' = (calls \ {c}) \cup {d}, sameRun(d, c),
         \/ to = c.asked /\ d.asked = c.asked /\ d.nacks = c.nacks /\ d.pc = "sent"
         \/ d.asked = {} /\ d.nacks = 0 /\ d.pc = "fail"
  PROVE  UniqueRuns' /\ Accounted(s)'
<1>a. /\ UniqueRuns /\ Accounted(s) /\ repeats \in Nat /\ CallOK(c)
      /\ Prober \notin Peer /\ c.by = Prober /\ to \subseteq Peer
      /\ packetsOf(c, to) = {[type |-> "indirectPing", node |-> k, seq |-> c.seq] : k \in to}
  BY ProbeAssumption, Zenon DEF NackInv, FreshInv, ProbeTypeOK, CallOK, Pinger, packetsOf
<1>1. CASE c.seq # s
  <2>1. packetsFor(s)' \subseteq packetsFor(s)
    <3>1. \A m \in packetsOf(c, to) : m.seq # s
      BY <1>a, <1>1
    <3> QED
      BY <3>1, Zenon DEF packetsFor
  <2>2. continues(d, c)
    BY Zenon DEF continues
  <2> QED
    BY <2>1, <2>2, QuietRun, Zenon
<1>2. CASE c.seq = s
  <2>1. packetsFor(s) = {} /\ runsFor(s) = {} /\ c.nacks = 0
    BY <1>a, <1>2, Zenon DEF Accounted, nacksFit, callOf
  <2>2. UniqueRuns' /\ callOf(s)' \subseteq {d}
    <3>1. ASSUME NEW x \in calls, x # c, x.by = d.by PROVE x.seq # d.seq
      BY <1>a, <3>1, Zenon DEF UniqueRuns, sameRun
    <3>2. UniqueRuns'
      BY <1>a, <3>1, Zenon DEF UniqueRuns
    <3>3. d.by = Prober /\ d.seq = s
      BY <1>a, <1>2, Zenon DEF sameRun
    <3> QED
      BY <3>1, <3>2, <3>3, Zenon DEF callOf
  <2>3. runsFor(s)' = {}
    <3>1. servingRuns(s) = {}
      BY <2>1, Zenon DEF runsFor
    <3>2. servingRuns(s)' = {}
      BY <1>a, <3>1, Zenon DEF servingRuns, sameRun
    <3> QED
      BY <3>2, Zenon DEF runsFor
  <2> DEFINE T == packetsOf(c, to)
  <2>4. packetsFor(s)' \subseteq T
    BY <2>1, Zenon DEF packetsFor
  <2>5. IsFiniteSet(to) /\ Cardinality(to) \in Nat /\ Cardinality({}) = 0 /\ IsFiniteSet({})
    BY <1>a, CountKept, FS_EmptySet, ProbeAssumption, Zenon
  <2>6. IsFiniteSet(T) /\ Cardinality(T) \in Nat /\ Cardinality(T) <= Cardinality(to)
    BY <1>a, <2>5, SentCount, Zenon
  <2> HIDE DEF T
  <2>7. /\ IsFiniteSet(packetsFor(s)') /\ Cardinality(packetsFor(s)') \in Nat
        /\ Cardinality(packetsFor(s)') <= Cardinality(T)
    BY <2>4, <2>6, CountKept, Zenon
  <2>8. owed(s)' <= Cardinality(to) /\ owed(s)' \in Nat
    BY <2>3, <2>5, <2>6, <2>7 DEF owed
  <2>9. nacksFit(d, s)'
    <3>1. CASE to = c.asked /\ d.asked = c.asked /\ d.nacks = c.nacks /\ d.pc = "sent"
      BY <1>a, <2>1, <2>5, <2>8, <3>1 DEF nacksFit
    <3>2. CASE d.asked = {} /\ d.nacks = 0 /\ d.pc = "fail"
      BY <1>a, <2>5, <3>2 DEF nacksFit
    <3> QED
      BY <3>1, <3>2, Zenon
  <2> QED
    BY <2>2, <2>3, <2>5, <2>7, <2>9, Zenon DEF Accounted
<1> QED
  BY <1>1, <1>2, Zenon

\* An answer arrives: it is no longer owed unless it is to be delivered again, and a
\* nack is counted for it if the run still counts.
LEMMA AnswerArrives ==
  ASSUME NackInv, NEW s, s = probe.ind, NEW m \in net, m.type = "indirectAck", NEW again \in BOOLEAN,
         net' = IF again THEN net ELSE net \ {m}, repeats' = IF again THEN repeats + 1 ELSE repeats,
         NEW F, calls' = {F[c] : c \in calls},
         \A c \in calls : continues(F[c], c) \/ (counts(F[c], c) /\ c.seq = m.seq)
  PROVE  UniqueRuns' /\ Accounted(s)'
<1>a. /\ \A c \in calls : CallOK(c)
      /\ FreshInv /\ UniqueRuns /\ Accounted(s) /\ repeats \in Nat
      /\ IsFiniteSet(packetsFor(s)) /\ IsFiniteSet(runsFor(s))
  BY Zenon DEF NackInv, FreshInv, ProbeTypeOK, Accounted
<1>b. repeats' \in Nat /\ repeats' >= repeats
  BY <1>a
<1>1. /\ UniqueRuns' /\ runsFor(s)' \subseteq runsFor(s)
      /\ \A d \in callOf(s)' : \E c \in calls : d = F[c] /\ c \in callOf(s)
  <2>1. calls \in SUBSET calls /\ \A c \in calls : sameRun(F[c], c)
    BY Zenon DEF continues, counts
  <2> DEFINE new == {}
  <2>2. /\ new = {} \/ \E d : new = {d} /\ begins(d)
        /\ calls' \subseteq {F[c] : c \in calls} \cup new
    BY Zenon
  <2>3. \A d : d \notin new
    BY Zenon
  <2> HIDE DEF new
  <2>4. /\ UniqueRuns'
        /\ (\A d \in new : d.by = Prober) => runsFor(s)' \subseteq runsFor(s)
        /\ \A d \in callOf(s)' : d \in new \/ \E c \in calls : d = F[c] /\ c \in callOf(s)
    BY ONLY <1>a, <2>1, <2>2, RunsKept, Zenon
  <2> QED
    BY ONLY <2>3, <2>4, Zenon
<1>2. CASE m.seq # s
  <2>1. \A c \in callOf(s) : continues(F[c], c)
    BY <1>2, Zenon DEF callOf
  <2>2. \A d \in callOf(s)' : \E c \in callOf(s) : continues(d, c)
    BY <1>1, <2>1, Zenon
  <2>3. packetsFor(s)' \subseteq packetsFor(s)
    BY Zenon DEF packetsFor
  <2>4. /\ IsFiniteSet(packetsFor(s)') /\ Cardinality(packetsFor(s)') <= Cardinality(packetsFor(s))
        /\ Cardinality(packetsFor(s)') \in Nat /\ Cardinality(packetsFor(s)) \in Nat
    BY <1>a, <2>3, CountKept, Zenon
  <2>5. /\ IsFiniteSet(runsFor(s)') /\ Cardinality(runsFor(s)') <= Cardinality(runsFor(s))
        /\ Cardinality(runsFor(s)') \in Nat /\ Cardinality(runsFor(s)) \in Nat
    BY <1>a, <1>1, CountKept, Zenon
  <2>6. owed(s)' + repeats <= owed(s) + repeats'
    BY <1>a, <1>b, <2>4, <2>5 DEF owed
  <2>7. packetsFor(s) = {} /\ runsFor(s) = {} => packetsFor(s)' = {} /\ runsFor(s)' = {}
    BY <1>1, <2>3, Zenon
  <2> QED
    BY <1>a, <1>b, <1>1, <2>2, <2>4, <2>5, <2>6, <2>7, FitsKept, Zenon
<1>3. CASE m.seq = s
  <2>1. m \in packetsFor(s) /\ packetsFor(s)' \subseteq IF again THEN packetsFor(s) ELSE packetsFor(s) \ {m}
    BY <1>3, Zenon DEF packetsFor, Indirect
  <2>2. /\ IsFiniteSet(runsFor(s)') /\ Cardinality(runsFor(s)') <= Cardinality(runsFor(s))
        /\ Cardinality(runsFor(s)') \in Nat /\ Cardinality(runsFor(s)) \in Nat
    BY <1>a, <1>1, CountKept, Zenon
  <2>3. /\ IsFiniteSet(packetsFor(s)') /\ Cardinality(packetsFor(s)) \in Nat /\ Cardinality(packetsFor(s)') \in Nat
        /\ Cardinality(packetsFor(s)') + (IF again THEN 0 ELSE 1) <= Cardinality(packetsFor(s))
    <3>1. CASE again
      <4>1. /\ IsFiniteSet(packetsFor(s)') /\ Cardinality(packetsFor(s)) \in Nat /\ Cardinality(packetsFor(s)') \in Nat
            /\ Cardinality(packetsFor(s)') <= Cardinality(packetsFor(s))
        BY <1>a, <2>1, <3>1, CountKept, Zenon
      <4> QED
        BY <3>1, <4>1
    <3>2. CASE ~again
      <4>1. /\ IsFiniteSet(packetsFor(s)') /\ Cardinality(packetsFor(s)) \in Nat /\ Cardinality(packetsFor(s)') \in Nat
            /\ Cardinality(packetsFor(s)') + 1 <= Cardinality(packetsFor(s))
        BY <1>a, <2>1, <3>2, CountLess, Zenon
      <4> QED
        BY <3>2, <4>1
    <3> QED
      BY <3>1, <3>2, Zenon
  <2>4. owed(s)' + repeats + 1 <= owed(s) + repeats' /\ owed(s)' + repeats <= owed(s) + repeats'
    BY <1>a, <2>2, <2>3 DEF owed
  <2>5. packetsFor(s) # {}
    BY <2>1, Zenon
  <2>6. \A d \in callOf(s)' : \E c \in callOf(s) : continues(d, c) \/ counts(d, c)
    BY <1>1, Zenon
  <2> QED
    BY <1>a, <1>b, <1>1, <2>2, <2>3, <2>4, <2>5, <2>6, FitsKept, Zenon
<1> QED
  BY <1>2, <1>3, Zenon

\* Every step leaves the nacks of the current probe accounted for.
LEMMA NackStep ==
  ASSUME NackInv, [Next]_vars
  PROVE  UniqueRuns' /\ repeats' \in Nat /\ Accounted(probe.ind)'
<1>a. /\ \A c \in calls : CallOK(c)
      /\ \A m \in net : PacketOK(m)
      /\ seqNo \in [Pinger -> Nat] /\ Prober \in Pinger /\ Prober \notin Peer /\ Peer \subseteq Pinger
      /\ probe \in ProbeRun /\ repeats \in Nat
      /\ \A c \in calls : c.kind = "direct" /\ c.by = Prober => c.seq # probe.ind
  BY ProbeAssumption, Zenon DEF NackInv, FreshInv, ProbeTypeOK, SeqsApart, Pinger
<1>s. PICK s : s = probe.ind
  BY Zenon
<1> DEFINE Goal == UniqueRuns' /\ repeats' \in Nat /\ Accounted(probe.ind)'
<1>b. ASSUME UniqueRuns', Accounted(s)', repeats' \in Nat, probe'.ind = probe.ind PROVE Goal
  <2>1. probe'.ind = s
    BY <1>b, <1>s, Zenon
  <2> QED
    BY <1>b, <2>1, Zenon DEF Accounted, nacksFit, packetsFor, runsFor, servingRuns, callOf, owed
<1>c. ASSUME NEW t, t = probe'.ind, UniqueRuns', Accounted(t)', repeats' \in Nat PROVE Goal
  BY <1>c, Zenon DEF Accounted, nacksFit, packetsFor, runsFor, servingRuns, callOf, owed
<1>d. ASSUME packetsFor(s)' \subseteq packetsFor(s), repeats' = repeats, probe'.ind = probe.ind,
             calls' \subseteq calls
      PROVE  Goal
  BY <1>a, <1>b, <1>d, <1>s, QuietRun, Zenon
<1>e. ASSUME packetsFor(s)' \subseteq packetsFor(s), repeats' = repeats, probe'.ind = probe.ind,
             NEW c \in calls, NEW d, continues(d, c), calls' = (calls \ {c}) \cup {d}
      PROVE  Goal
  BY <1>a, <1>b, <1>e, <1>s, QuietRun, Zenon
<1>f. net' = net => packetsFor(s)' \subseteq packetsFor(s)
  BY Zenon DEF packetsFor
<1> HIDE DEF Goal
<1>1. ASSUME NEW c \in calls, sendCall(c) PROVE Goal
  <2>1. c.pc = "new" /\ repeats' = repeats /\ probe' = probe
    BY <1>1, Zenon DEF sendCall
  <2> DEFINE ok == later(c, "sent", c.asked, c.nacks)
             bad == later(c, "fail", {}, 0)
  <2>2. /\ sameRun(ok, c) /\ ok.asked = c.asked /\ ok.nacks = c.nacks /\ ok.pc = "sent" /\ continues(ok, c)
        /\ sameRun(bad, c) /\ bad.asked = {} /\ bad.nacks = 0 /\ bad.pc = "fail" /\ continues(bad, c)
    BY <2>1, ZenonT(30) DEF later, sameRun, continues
  <2>3. \/ net' = net \cup packetsOf(c, c.asked) /\ calls' = (calls \ {c}) \cup {ok}
        \/ \E to \in SUBSET c.asked :
             /\ net' = IF c.kind = "direct" THEN net ELSE net \cup packetsOf(c, to)
             /\ calls' = (calls \ {c}) \cup {bad}
    BY <1>1, Zenon DEF sendCall, becomes
  <2> HIDE DEF ok, bad
  <2>4. CASE c.kind = "direct"
    <3>1. packetsFor(s)' \subseteq packetsFor(s)
      <4>1. \A m \in packetsOf(c, c.asked) : m.type = "ping"
        BY <2>4 DEF packetsOf
      <4> QED
        BY <2>3, <2>4, <4>1, Zenon DEF packetsFor, Indirect
    <3> QED
      BY <1>e, <2>1, <2>2, <2>3, <3>1, Zenon
  <2>5. CASE c.kind = "indirect"
    <3>1. ASSUME net' = net \cup packetsOf(c, c.asked), calls' = (calls \ {c}) \cup {ok}
          PROVE  UniqueRuns' /\ Accounted(s)'
      <4>1. c.asked \in SUBSET c.asked
        BY Zenon
      <4> QED
        BY <1>s, <2>1, <2>2, <2>5, <3>1, <4>1, IndirectSent, Zenon
    <3>2. ASSUME NEW to \in SUBSET c.asked, net' = net \cup packetsOf(c, to), calls' = (calls \ {c}) \cup {bad}
          PROVE  UniqueRuns' /\ Accounted(s)'
      BY <1>s, <2>1, <2>2, <2>5, <3>2, IndirectSent, Zenon
    <3>3. UniqueRuns' /\ Accounted(s)'
      BY <2>3, <2>5, <3>1, <3>2, Zenon
    <3> QED
      BY <1>a, <1>b, <2>1, <3>3, Zenon
  <2> QED
    BY <1>a, <2>4, <2>5, Zenon DEF CallOK
<1>2. ASSUME NEW c \in calls, selectCall(c) \/ callTimeout(c) PROVE Goal
  <2>1. PICK pc \in {"select", "fail"} : /\ becomes(c, pc) /\ (pc = "select" => c.pc = "sent")
                                         /\ net' = net /\ repeats' = repeats /\ probe' = probe
    BY <1>2, Zenon DEF selectCall, callTimeout
  <2> DEFINE d == later(c, pc, c.asked, c.nacks)
  <2>2. continues(d, c) /\ calls' = (calls \ {c}) \cup {d}
    BY <2>1, Zenon DEF becomes, later, continues, sameRun
  <2> HIDE DEF d
  <2> QED
    BY <1>e, <1>f, <2>1, <2>2, Zenon
<1>3. ASSUME NEW c \in calls, pingAcked(c) \/ indirectResult(c) PROVE Goal
  <2>1. calls' \subseteq calls /\ net' = net /\ repeats' = repeats
    BY <1>3, Zenon DEF pingAcked, indirectResult
  <2>2. probe'.ind = probe.ind
    BY <1>3, <1>a, Zenon DEF pingAcked, indirectResult, succeed, ProbeRun
  <2> QED
    BY <1>d, <1>f, <2>1, <2>2, Zenon
<1>4. ASSUME NEW c \in calls, NEW asked \in SUBSET Peer, pingFailed(c, asked) PROVE Goal
  <2>1. net' = net /\ repeats' \in Nat
    BY <1>4, <1>a, Zenon DEF pingFailed
  <2> DEFINE S == calls \ {c}
  <2>2. S \in SUBSET calls
    BY Zenon
  <2>t. PICK t : t = probe'.ind
    BY Zenon
  <2>3. CASE asked = {}
    <3> DEFINE new == {}
    <3>1. calls' = S \cup new /\ new = {}
      BY <1>4, <2>3, Zenon DEF pingFailed
    <3>2. t = None
      BY <1>4, <1>a, <2>3, <2>t, Zenon DEF pingFailed, ProbeRun
    <3> HIDE DEF new, S
    <3> QED
      BY <1>c, <2>1, <2>2, <2>t, <3>1, <3>2, NewAccounted, Zenon
  <2>4. CASE asked # {}
    <3> DEFINE d == [by |-> Prober, seq |-> seqNo[Prober] + 1, kind |-> "indirect", reply |-> None,
                     pc |-> "new", asked |-> asked, nacks |-> 0]
               new == {d}
    <3>1. calls' = S \cup new /\ seqNo' = [seqNo EXCEPT ![Prober] = seqNo[Prober] + 1]
      BY <1>4, <2>4, Zenon DEF pingFailed, newCall, nextSeqNo
    <3>2. probe'.ind = seqNo[Prober] + 1
      BY <1>4, <1>a, <2>4, Zenon DEF pingFailed, nextSeqNo, ProbeRun
    <3>3. begins(d) /\ d.by = Prober
      BY <1>a, <3>1, <3>2, Zenon DEF begins
    <3>4. \E x : new = {x} /\ begins(x) /\ x.by = Prober
      BY <3>3, Zenon
    <3> HIDE DEF d, new, S
    <3> QED
      BY <1>c, <2>1, <2>2, <2>t, <3>1, <3>2, <3>4, NewAccounted, Zenon
  <2> QED
    BY <2>3, <2>4, Zenon
<1>5. ASSUME startProbe PROVE Goal
  <2> DEFINE d == [by |-> Prober, seq |-> seqNo[Prober] + 1, kind |-> "direct", reply |-> None,
                   pc |-> "new", asked |-> {}, nacks |-> 0]
             new == {d}
             S == calls \ finishedCalls
  <2>1. /\ calls' = S \cup new /\ seqNo' = [seqNo EXCEPT ![Prober] = seqNo[Prober] + 1]
        /\ net' = net /\ repeats' = 0
    BY <1>5, Zenon DEF startProbe, newCall, nextSeqNo
  <2>2. probe'.ping = seqNo[Prober] + 1 /\ probe'.ind = None
    BY <1>5, Zenon DEF startProbe, nextSeqNo
  <2>3. begins(d) /\ d.by = Prober
    BY <1>a, <2>1, <2>2, Zenon DEF begins
  <2>4. S \in SUBSET calls /\ \E x : new = {x} /\ begins(x) /\ x.by = Prober
    BY <2>3, Zenon
  <2>5. repeats' \in Nat
    BY <2>1
  <2>t. PICK t : t = probe'.ind /\ t = None
    BY <2>2, Zenon
  <2> HIDE DEF d, new, S
  <2> QED
    BY <1>c, <2>1, <2>4, <2>5, <2>t, NewAccounted, Zenon
<1>6. ASSUME NEW m \in net, NEW again \in BOOLEAN, handleIndirectPing(m, again) PROVE Goal
  <2> DEFINE n == m.node
             new == [by |-> n, seq |-> seqNo[n] + 1, kind |-> "direct", reply |-> m.seq,
                     pc |-> "new", asked |-> {}, nacks |-> 0]
  <2>1. /\ calls' = calls \cup {new} /\ seqNo' = [seqNo EXCEPT ![n] = seqNo[n] + 1] /\ probe' = probe
        /\ m.type = "indirectPing" /\ repeats' = IF again THEN repeats + 1 ELSE repeats
        /\ net' = IF again THEN net ELSE net \ {m}
    BY <1>6, Zenon DEF handleIndirectPing, newCall, nextSeqNo, receive, repeat
  <2>2. n \in Peer /\ n \in Pinger /\ m.type \in Indirect
    BY <1>a, <2>1, Zenon DEF PacketOK, Indirect
  <2>3. begins(new) /\ new.by = m.node /\ new.reply = m.seq
    BY <1>a, <2>1, <2>2, Zenon DEF begins
  <2> HIDE DEF new
  <2>4. UniqueRuns' /\ Accounted(s)'
    BY <1>s, <2>1, <2>2, <2>3, AnswerOwed, Zenon
  <2>5. repeats' \in Nat
    BY <1>a, <2>1
  <2> QED
    BY <1>b, <2>1, <2>4, <2>5, Zenon
<1>7. ASSUME NEW c \in calls, indirectReply(c) PROVE Goal
  <2> DEFINE m == answer(c)
  <2>1. net' = net \cup {m} /\ c.by \in Peer /\ calls' = calls \ {c} /\ repeats' = repeats /\ probe' = probe
    BY <1>7, Zenon DEF indirectReply
  <2>2. m.seq = c.reply
    BY Zenon DEF answer
  <2> HIDE DEF m
  <2>3. UniqueRuns' /\ Accounted(s)'
    BY <1>s, <2>1, <2>2, AnswerSent, Zenon
  <2> QED
    BY <1>a, <1>b, <2>1, <2>3, Zenon
<1>8. ASSUME NEW m \in net, NEW again \in BOOLEAN, handleAck(m, again) PROVE Goal
  <2> DEFINE F == [c \in calls |-> IF c.by = m.node /\ c.seq = m.seq /\ <<m.node, m.seq>> \in handlers
                                     THEN wake(c) ELSE c]
  <2>1. calls' = {F[c] : c \in calls} /\ repeats' = repeats /\ probe' = probe
    BY <1>8, Zenon DEF handleAck, invokeAckHandler
  <2>2. \A c \in calls : continues(F[c], c)
    BY ZenonT(30) DEF wake, later, continues, sameRun
  <2>3. packetsFor(s)' \subseteq packetsFor(s)
    BY <1>8, Zenon DEF handleAck, receive, packetsFor
  <2>4. calls \in SUBSET calls /\ repeats' \in Nat /\ repeats' >= repeats
    BY <1>a, <2>1
  <2> HIDE DEF F
  <2>5. UniqueRuns' /\ Accounted(s)'
    BY <1>s, <2>1, <2>2, <2>3, <2>4, QuietAccounted, Zenon
  <2> QED
    BY <1>b, <2>1, <2>4, <2>5, Zenon
<1>9. ASSUME NEW m \in net, NEW again \in BOOLEAN, handleIndirectAck(m, again) PROVE Goal
  <2>1. /\ m.type = "indirectAck" /\ net' = (IF again THEN net ELSE net \ {m})
        /\ repeats' = (IF again THEN repeats + 1 ELSE repeats) /\ probe' = probe
    BY <1>9, Zenon DEF handleIndirectAck, receive, repeat
  <2>2. repeats' \in Nat
    BY <1>a, <2>1
  <2>3. CASE m.success
    <3> DEFINE F == [c \in calls |-> IF c.by = Prober /\ c.seq = m.seq /\ <<Prober, m.seq>> \in handlers
                                       THEN wake(c) ELSE c]
    <3>1. calls' = {F[c] : c \in calls}
      BY <1>9, <2>3, Zenon DEF handleIndirectAck, invokeIndirectAckHandler, invokeAckHandler
    <3>2. \A c \in calls : continues(F[c], c)
      BY ZenonT(30) DEF wake, later, continues, sameRun
    <3> HIDE DEF F
    <3>3. UniqueRuns' /\ Accounted(s)'
      BY <1>s, <2>1, <3>1, <3>2, AnswerArrives, Zenon
    <3> QED
      BY <1>b, <2>1, <2>2, <3>3, Zenon
  <2>4. CASE ~m.success
    <3> DEFINE F == [c \in calls |-> IF c.by = Prober /\ c.seq = m.seq /\ <<Prober, m.seq>> \in handlers
                                       THEN addNack(c) ELSE c]
    <3>1. calls' = {F[c] : c \in calls}
      BY <1>9, <2>4, Zenon DEF handleIndirectAck, invokeIndirectAckHandler
    <3>2. \A c \in calls : continues(F[c], c) \/ (counts(F[c], c) /\ c.seq = m.seq)
      BY ZenonT(30) DEF addNack, later, counts, continues, sameRun
    <3> HIDE DEF F
    <3>3. UniqueRuns' /\ Accounted(s)'
      BY <1>s, <2>1, <3>1, <3>2, AnswerArrives, Zenon
    <3> QED
      BY <1>b, <2>1, <2>2, <3>3, Zenon
  <2> QED
    BY <2>3, <2>4, Zenon
<1>10. ASSUME NEW m \in net, NEW again \in BOOLEAN, handlePing(m, again) PROVE Goal
  <2>1. calls' = calls /\ repeats' = repeats
    BY <1>10, Zenon DEF handlePing
  <2>2. probe'.ind = probe.ind
    BY <1>10, <1>a, Zenon DEF handlePing, ProbeRun
  <2>3. packetsFor(s)' \subseteq packetsFor(s)
    BY <1>10 DEF handlePing, receive, packetsFor, Indirect
  <2> QED
    BY <1>d, <2>1, <2>2, <2>3, Zenon
<1>11. ASSUME \/ \E h \in timers : handlerTimeout(h)
              \/ tcpResult \/ waitTimeout \/ targetStop
              \/ \E ok \in BOOLEAN : TcpPing(ok)
              \/ UNCHANGED vars
       PROVE  Goal
  <2>1. UNCHANGED <<net, calls, repeats>>
    BY <1>11, Zenon DEF handlerTimeout, tcpResult, waitTimeout, targetStop, TcpPing, vars
  <2>2. probe'.ind = probe.ind
    <3>1. ASSUME tcpResult \/ waitTimeout PROVE probe'.ind = probe.ind
      BY <1>a, <3>1, Zenon DEF tcpResult, succeed, waitTimeout, ProbeRun
    <3>2. ASSUME NEW ok \in BOOLEAN, TcpPing(ok) PROVE probe'.ind = probe.ind
      <4> DEFINE b == probe.answered \/ ok
                 r == IF ok THEN "ok" ELSE "fail"
      <4>1. probe' = [probe EXCEPT !.tcp = r, !.answered = b]
        BY <3>2, Zenon DEF TcpPing
      <4> HIDE DEF b, r
      <4> QED
        BY <1>a, <4>1, Zenon DEF ProbeRun
    <3>3. ASSUME targetStop \/ (\E h \in timers : handlerTimeout(h)) \/ UNCHANGED vars PROVE probe'.ind = probe.ind
      BY <3>3, Zenon DEF targetStop, handlerTimeout, vars
    <3> QED
      BY <1>11, <3>1, <3>2, <3>3, Zenon
  <2> QED
    BY <1>d, <1>f, <2>1, <2>2, Zenon
<1>12. Goal
  BY <1>1, <1>2, <1>3, <1>4, <1>5, <1>6, <1>7, <1>8, <1>9, <1>10, <1>11, Zenon DEF Next
<1> QED
  BY <1>12, Zenon DEF Goal

\* missed is set from a run whose nacks fit, and repeats only grow until the next
\* probe.
LEMMA MissedStep ==
  ASSUME NackInv, [Next]_vars
  PROVE  NacksAccounted'
<1>a. probe \in ProbeRun /\ probe.missed \in Int /\ repeats \in Nat /\ probe.missed + repeats >= 0
  BY Zenon DEF NackInv, FreshInv, ProbeTypeOK, NacksAccounted, ProbeRun
<1>1. ASSUME NEW c \in calls, indirectResult(c) PROVE NacksAccounted'
  <2>0. repeats' = repeats
    BY <1>1, Zenon DEF indirectResult
  <2>1. CASE succeed
    <3>1. probe'.missed = probe.missed
      BY <1>a, <2>1, Zenon DEF succeed, ProbeRun
    <3> QED
      BY <1>a, <2>0, <3>1, Zenon DEF NacksAccounted
  <2>2. CASE probe' = [probe EXCEPT !.missed = Cardinality(c.asked) - c.nacks]
    <3>1. CallOK(c) /\ nacksFit(c, probe.ind)
      BY <1>1, Zenon DEF NackInv, FreshInv, ProbeTypeOK, Accounted, indirectResult
    <3>2. Cardinality(c.asked) \in Nat /\ c.nacks \in Nat /\ c.nacks <= Cardinality(c.asked) + repeats
      BY <3>1, CountKept, ProbeAssumption, Zenon DEF CallOK, nacksFit
    <3>3. probe'.missed = Cardinality(c.asked) - c.nacks
      BY <1>a, <2>2, Zenon DEF ProbeRun
    <3> QED
      BY <1>a, <2>0, <3>2, <3>3 DEF NacksAccounted
  <2> QED
    BY <1>1, <2>1, <2>2, Zenon DEF indirectResult
<1>2. ASSUME probe'.missed = probe.missed, repeats' \in Nat, repeats' >= repeats PROVE NacksAccounted'
  BY <1>a, <1>2 DEF NacksAccounted
<1>3. ASSUME startProbe PROVE NacksAccounted'
  <2>1. probe'.missed = 0 /\ repeats' = 0
    BY <1>3, Zenon DEF startProbe
  <2> QED
    BY <2>1 DEF NacksAccounted
<1>4. ASSUME \/ tcpResult \/ waitTimeout \/ targetStop
             \/ \E ok \in BOOLEAN : TcpPing(ok)
             \/ \E h \in timers : handlerTimeout(h)
             \/ UNCHANGED vars
      PROVE  probe'.missed = probe.missed /\ repeats' = repeats
  <2>1. ASSUME NEW ok \in BOOLEAN, TcpPing(ok) PROVE probe'.missed = probe.missed /\ repeats' = repeats
    <3> DEFINE b == probe.answered \/ ok
               r == IF ok THEN "ok" ELSE "fail"
    <3>1. probe' = [probe EXCEPT !.tcp = r, !.answered = b] /\ repeats' = repeats
      BY <2>1, Zenon DEF TcpPing
    <3> HIDE DEF b, r
    <3> QED
      BY <1>a, <3>1, Zenon DEF ProbeRun
  <2>2. ASSUME tcpResult \/ waitTimeout PROVE probe'.missed = probe.missed /\ repeats' = repeats
    BY <1>a, <2>2, Zenon DEF tcpResult, succeed, waitTimeout, ProbeRun
  <2>3. ASSUME targetStop \/ (\E h \in timers : handlerTimeout(h)) \/ UNCHANGED vars
        PROVE  probe' = probe /\ repeats' = repeats
    BY <2>3, Zenon DEF targetStop, handlerTimeout, vars
  <2> QED
    BY <1>4, <2>1, <2>2, <2>3, Zenon
<1>5. ASSUME NEW m \in net, NEW again \in BOOLEAN,
             handlePing(m, again) \/ handleAck(m, again) \/ handleIndirectPing(m, again) \/ handleIndirectAck(m, again)
      PROVE  probe'.missed = probe.missed /\ repeats' \in {repeats, repeats + 1}
  BY <1>a, <1>5, Zenon DEF handlePing, handleAck, handleIndirectPing, handleIndirectAck, repeat, ProbeRun
<1>6. ASSUME NEW c \in calls, \/ sendCall(c) \/ selectCall(c) \/ callTimeout(c) \/ indirectReply(c) \/ pingAcked(c)
                              \/ \E asked \in SUBSET Peer : pingFailed(c, asked)
      PROVE  probe'.missed = probe.missed /\ repeats' = repeats
  BY <1>a, <1>6, Zenon DEF sendCall, selectCall, callTimeout, indirectReply, pingAcked, succeed, pingFailed, ProbeRun
<1>7. ASSUME repeats' \in {repeats, repeats + 1} PROVE repeats' \in Nat /\ repeats' >= repeats
  BY <1>a, <1>7
<1> QED
  BY <1>1, <1>2, <1>3, <1>4, <1>5, <1>6, <1>7, Zenon DEF Next

\* A failed probe counts at most one nack of each peer that it has asked, and one
\* more for each indirect ping or answer that was delivered again, for any number of
\* peers and probes and whatever the network does: above all, missedNacks is never
\* negative when nothing was delivered again.
THEOREM ProbeNacksAccounted == Spec => []NacksAccounted
<1>1. Init => NackInv
  <2> SUFFICES ASSUME Init PROVE NackInv
    BY Zenon
  <2>1. FreshInv
    BY FreshInductive, Zenon
  <2>2. UniqueRuns /\ calls = {} /\ net = {}
    BY Zenon DEF Init, UniqueRuns
  <2>3. Accounted(probe.ind)
    <3>1. packetsFor(probe.ind) = {} /\ runsFor(probe.ind) = {} /\ callOf(probe.ind) = {}
      BY <2>2, Zenon DEF packetsFor, runsFor, servingRuns, callOf
    <3> QED
      BY <3>1, FS_EmptySet, Zenon DEF Accounted
  <2>4. NacksAccounted /\ repeats \in Nat
    BY DEF Init, NacksAccounted
  <2> QED
    BY <2>1, <2>2, <2>3, <2>4, Zenon DEF NackInv
<1>2. NackInv /\ [Next]_vars => NackInv'
  <2> SUFFICES ASSUME NackInv, [Next]_vars PROVE NackInv'
    BY Zenon
  <2>1. FreshInv'
    BY FreshInductive, Zenon DEF NackInv
  <2> QED
    BY <2>1, NackStep, MissedStep, Zenon DEF NackInv
<1>3. NackInv => NacksAccounted
  BY Zenon DEF NackInv
<1> QED
  BY <1>1, <1>2, <1>3, PTL DEF Spec
=============================================================================
