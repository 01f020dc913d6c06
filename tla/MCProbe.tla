------------------------------ MODULE MCProbe -------------------------------
(* An instance of Probe for TLC.                                           *)
EXTENDS Probe

CONSTANTS p, q

\* The first probe is unrestricted until an indirect packet is repeated.  From then
\* on, and throughout the second probe, no send fails, no deletion timer fires and
\* TcpPing does not return; the packets and runs at a time are bounded.
Sendable == \A c \in calls : c.pc = "new" =>
              \A d \in calls' : d.by = c.by /\ d.seq = c.seq => d.pc # "fail"
NoTimers == \A h \in timers : h \notin timers' => net' # net
Plain == Sendable /\ NoTimers /\ probe'.tcp \in {"none", "dial"}
AtMost(packets, runs, peerRuns) ==
  /\ Cardinality(net') <= packets /\ Cardinality(calls') <= runs
  /\ Cardinality({c \in calls' : c.by \in Peer}) <= peerRuns

\* A repeated indirect ping makes the peer run Ping twice.
Repeated == repeats' > 0 => Plain /\ AtMost(2, 3, 2)

\* The second probe follows a failed one in which no indirect packet was repeated.
\* A packet of the first, a run of Ping at the peer or one of IndirectPing may be
\* left, and meets up to two packets of the second, which are not repeated.
startsAfterFailure ==
  probe.verdict = "failed" /\ repeats = 0 /\ Cardinality(net) <= 1 /\ \A h \in timers : h[1] \in Peer
NoRepeat == repeats' = 0 /\ (net \subseteq net' => net' = net \/ calls' # calls)

SecondProbe ==
  probes' = 2 =>
    /\ probes = 1 => startsAfterFailure
    /\ targetUp' /\ Plain /\ NoRepeat /\ AtMost(3, 2, 1)
=============================================================================
