--------------------------- MODULE PushPullServer ---------------------------
(***************************************************************************)
(* The accepting side of push/pull: handleTcpConn runs in one goroutine    *)
(* per connection; handlePushPull counts itself in numPushPull, refuses    *)
(* the request if there are too many, reads the remote state, sends its    *)
(* own and merges, and counts itself out however it ends.  numPushPull is  *)
(* an unsigned word: counting out adds ^uint32(0).                         *)
(***************************************************************************)
EXTENDS Integers, FiniteSets

CONSTANTS
  Conn,             \* connections that may be open at the same time
  MaxPushPulls,     \* config.MaxPushPulls
  Word              \* 2^32, the number of values of numPushPull

ASSUME ServerAssumption ==
  /\ IsFiniteSet(Conn)
  /\ MaxPushPulls \in Nat
  /\ Word \in Nat /\ Cardinality(Conn) < Word

VARIABLES
  numPushPull,
  at                \* at[c]: where the goroutine of connection c is

vars == <<numPushPull, at>>

Place == {"none", "unpack", "refuse", "read", "send", "merge", "return"}
InHandler == {"refuse", "read", "send", "merge", "return"}
Exchanging == {"read", "send", "merge"}

Init ==
  /\ numPushPull = 0
  /\ at = [c \in Conn |-> "none"]

goes(c, place) == at' = [at EXCEPT ![c] = place]

\* receiveTcpConn starts a goroutine for the connection.
receiveTcpConn(c) == at[c] = "none" /\ goes(c, "unpack") /\ UNCHANGED numPushPull

\* unpackStream fails, or the message is a ping or of no known type.
otherConn(c) == at[c] = "unpack" /\ goes(c, "none") /\ UNCHANGED numPushPull

\* Slip of countIn: the counter is compared as it was before the request.
countInLate(c) ==
  /\ at[c] = "unpack"
  /\ numPushPull' = (numPushPull + 1) % Word
  /\ goes(c, IF numPushPull > MaxPushPulls THEN "refuse" ELSE "read")

countIn(c) ==
  /\ at[c] = "unpack"
  /\ numPushPull' = (numPushPull + 1) % Word
  /\ goes(c, IF numPushPull' >= MaxPushPulls THEN "refuse" ELSE "read")

readRemoteState(c) ==
  /\ at[c] = "read"
  /\ goes(c, "send") \/ goes(c, "return")
  /\ UNCHANGED numPushPull

\* Slip of sendLocalState: the exchange is started again on an error.
sendLocalStateRetry(c) ==
  /\ at[c] = "send"
  /\ goes(c, "merge") \/ goes(c, "read")
  /\ UNCHANGED numPushPull

sendLocalState(c) ==
  /\ at[c] = "send"
  /\ goes(c, "merge") \/ goes(c, "return")
  /\ UNCHANGED numPushPull

mergeState(c) == at[c] = "merge" /\ goes(c, "return") /\ UNCHANGED numPushPull

\* Slip of countOut: a refused request forgets the decrement.
countOutSometimes(c) ==
  /\ at[c] \in {"refuse", "return"}
  /\ numPushPull' = IF at[c] = "return" THEN (numPushPull + Word - 1) % Word ELSE numPushPull
  /\ goes(c, "none")

countOut(c) ==
  /\ at[c] \in {"refuse", "return"}
  /\ numPushPull' = (numPushPull + Word - 1) % Word
  /\ goes(c, "none")

Handler(c) == otherConn(c) \/ countIn(c) \/ readRemoteState(c) \/ sendLocalState(c)
                \/ mergeState(c) \/ countOut(c)

Next == \E c \in Conn : receiveTcpConn(c) \/ Handler(c)

Spec == Init /\ [][Next]_vars

\* Every goroutine goes on: reads and writes have the deadline TcpTimeout.
FairSpec == Spec /\ \A c \in Conn : WF_vars(Handler(c))

-----------------------------------------------------------------------------
TypeOK ==
  /\ numPushPull \in 0..(Word - 1)
  /\ at \in [Conn -> Place]

\* numPushPull counts the goroutines inside handlePushPull exactly, refused ones
\* included, so it never wraps below zero, whatever order they end in.
CounterExact ==
  numPushPull = Cardinality({c \in Conn : at[c] \in InHandler})

\* Never more than MaxPushPulls exchanges are under way, as the option promises,
\* whatever connections count themselves in at the same time.  The limit itself is
\* not reached: nPP includes the request and >= refuses it, so that one exchange
\* fewer is served, and none if MaxPushPulls is 1.
ExchangesBounded ==
  Cardinality({c \in Conn : at[c] \in Exchanging}) <= MaxPushPulls

\* A refused or failed request does not wedge the counter: a request that gets
\* in is over at last, and the place it took is given back.
RequestEnds == \A c \in Conn : at[c] # "none" ~> at[c] = "none"
=============================================================================
