-------------------------------- MODULE Wire --------------------------------
(***************************************************************************)
(* What two nodes send each other, over connections and in packets, while  *)
(* an administrator changes their keys.  One node, Server, accepts the     *)
(* connections; PushPullServer is what its goroutines do with them, and    *)
(* every step here of one of them is a step there.  The other end is       *)
(* sendAndReceiveState or TcpPing.                                         *)
(*                                                                         *)
(* All nodes have the same Label, and at first the same keyring or none.   *)
(* A connection breaks or times out at any point, a packet may be lost.    *)
(* The administrator adds a key anywhere at any time; before a node is     *)
(* told to use or to remove one they look at the other nodes, and what the *)
(* node itself is not ready for its keyring refuses.                       *)
(***************************************************************************)
EXTENDS PushPullServer, Keyring, Compound

CONSTANTS
  Node,
  Server,          \* the node that accepts the connections
  Length,          \* lengths of messages
  MaxGossip,       \* bound on the messages in one round of gossip
  MaxPiggyback     \* bound on the broadcasts that getBroadcasts returns for a ping

ASSUME WireAssumption ==
  /\ Server \in Node
  /\ \A n \in Length : n \in 1..(ByteValues * ByteValues - 1)
  /\ MaxGossip \in Nat /\ MaxPiggyback \in Nat

VARIABLES
  rings,           \* the nodes' keyrings
  client,          \* client[c]: the node at the other end, or Closed when it has closed
  request, reply,  \* what was written to connection c and not yet read
  pulled, pushed,  \* history: the client, the server has merged the other's state
  batch,           \* history: the messages in the packets under way, and whether
                   \* gossip has sent them
  packets          \* the packets under way, to one node

ends == <<client, request, reply, pulled, pushed>>
wireVars == <<vars, rings, ends, batch, packets>>

Closed == [node |-> "none", wants |-> "none"]
Nothing == [key |-> NoKey, msg |-> "nothing"]
NoBatch == [msgs |-> <<>>, gossip |-> FALSE]

WireInit ==
  /\ Init
  /\ \E r \in {NoKeyring} \cup {NewKeyring({}, k) : k \in Key} : rings = [n \in Node |-> r]
  /\ client = [c \in Conn |-> Closed]
  /\ request = [c \in Conn |-> Nothing]
  /\ reply = [c \in Conn |-> Nothing]
  /\ pulled = [c \in Conn |-> FALSE]
  /\ pushed = [c \in Conn |-> FALSE]
  /\ batch = NoBatch
  /\ packets = <<>>

-----------------------------------------------------------------------------
(* The administrator.                                                      *)

others(n) == Node \ {n}

addKey(n, k) ==
  /\ rings[n] # NoKeyring
  /\ rings' = [rings EXCEPT ![n] = AddKey(@, k)]
  /\ UNCHANGED <<vars, ends, batch, packets>>

useKey(n, k) ==
  /\ rings[n] # NoKeyring /\ \A o \in others(n) : k \in GetKeys(rings[o])
  /\ rings' = [rings EXCEPT ![n] = UseKey(@, k)]
  /\ UNCHANGED <<vars, ends, batch, packets>>

removeKey(n, k) ==
  /\ rings[n] # NoKeyring /\ \A o \in others(n) : k # GetPrimaryKey(rings[o])
  /\ rings' = [rings EXCEPT ![n] = RemoveKey(@, k)]
  /\ UNCHANGED <<vars, ends, batch, packets>>

-----------------------------------------------------------------------------
(* Connections.                                                            *)

\* sendAndReceiveState and TcpPing: dial and write the request.
connect(c, n, wants) ==
  /\ client[c] = Closed /\ at[c] = "none" /\ request[c] = Nothing
  /\ client' = [client EXCEPT ![c] = [node |-> n, wants |-> wants]]
  /\ request' = [request EXCEPT ![c] = packTcp(rings[n], wants)]
  /\ reply' = [reply EXCEPT ![c] = Nothing]
  /\ pulled' = [pulled EXCEPT ![c] = FALSE]
  /\ pushed' = [pushed EXCEPT ![c] = FALSE]
  /\ UNCHANGED <<vars, rings, batch, packets>>

accept(c) ==
  /\ request[c] # Nothing /\ receiveTcpConn(c)
  /\ UNCHANGED <<rings, ends, batch, packets>>

readable(c) == unpackStream(rings[Server], request[c])

\* sendTcp, while the other end is still there.
replies(c, msg) ==
  reply' = IF client[c] = Closed THEN reply
           ELSE [reply EXCEPT ![c] = packTcp(rings[Server], msg)]

requestRead(c) == request' = [request EXCEPT ![c] = Nothing]

\* The connection breaks before the request is read, or it is a ping for another
\* node, or of no known type.
acceptFails(c) ==
  /\ otherConn(c) /\ requestRead(c)
  /\ UNCHANGED <<rings, client, reply, pulled, pushed, batch, packets>>

\* unpackStream fails: the answer is an error message.
unpackFails(c) ==
  /\ otherConn(c) /\ requestRead(c)
  /\ ~readable(c) /\ replies(c, "err")
  /\ UNCHANGED <<rings, client, pulled, pushed, batch, packets>>

handlePingTcp(c) ==
  /\ otherConn(c) /\ requestRead(c)
  /\ readable(c) /\ request[c].msg = "ping" /\ replies(c, "ack")
  /\ UNCHANGED <<rings, client, pulled, pushed, batch, packets>>

handlePushPull(c) ==
  /\ countIn(c) /\ requestRead(c)
  /\ readable(c) /\ request[c].msg = "pushPull"
  /\ UNCHANGED <<rings, client, reply, pulled, pushed, batch, packets>>

receivesState(c) == readRemoteState(c) /\ UNCHANGED <<rings, ends, batch, packets>>

\* Slip of sendsState: the state is written although the exchange fails.
sendsStateEarly(c) ==
  /\ sendLocalState(c) /\ replies(c, "pushPull")
  /\ UNCHANGED <<rings, client, request, pulled, pushed, batch, packets>>

sendsState(c) ==
  /\ sendLocalState(c)
  /\ IF at'[c] = "merge" THEN replies(c, "pushPull") ELSE UNCHANGED reply
  /\ UNCHANGED <<rings, client, request, pulled, pushed, batch, packets>>

mergesState(c) ==
  /\ mergeState(c)
  /\ pushed' = [pushed EXCEPT ![c] = TRUE]
  /\ UNCHANGED <<rings, client, request, reply, pulled, batch, packets>>

returns(c) == countOut(c) /\ UNCHANGED <<rings, ends, batch, packets>>

\* The client reads the answer; it merges what a push/pull brought.
clientReads(c) ==
  /\ client[c] # Closed /\ reply[c] # Nothing
  /\ pulled' = [pulled EXCEPT ![c] =
       unpackStream(rings[client[c].node], reply[c])
         /\ client[c].wants = "pushPull" /\ reply[c].msg = "pushPull"]
  /\ client' = [client EXCEPT ![c] = Closed]
  /\ reply' = [reply EXCEPT ![c] = Nothing]
  /\ UNCHANGED <<vars, rings, request, pushed, batch, packets>>

\* Its deadline passes, or the server has closed the connection.
clientFails(c) ==
  /\ client[c] # Closed
  /\ client' = [client EXCEPT ![c] = Closed]
  /\ reply' = [reply EXCEPT ![c] = Nothing]
  /\ UNCHANGED <<vars, rings, request, pulled, pushed, batch, packets>>

ServerSteps(c) ==
  \/ acceptFails(c) \/ unpackFails(c) \/ handlePingTcp(c) \/ handlePushPull(c)
  \/ receivesState(c) \/ sendsState(c) \/ mergesState(c) \/ returns(c)

-----------------------------------------------------------------------------
(* Packets.                                                                *)

\* A message of n bytes.
message(n, i) == [j \in 1..n |-> IF j = 1 THEN aliveType ELSE i]
messages(lengths) == [i \in DOMAIN lengths |-> message(lengths[i], i)]

sendUdp(from, to, bodies) ==
  /\ packets = <<>>
  /\ packets' = [i \in DOMAIN bodies |-> [to |-> to, sealed |-> packUdp(rings[from], bodies[i])]]
  /\ UNCHANGED <<vars, rings, ends>>

gossip(from, to, msgs) ==
  /\ sendUdp(from, to, IF Len(msgs) = 1 THEN msgs ELSE splitToCompoundMsgs(msgs))
  /\ batch' = [msgs |-> msgs, gossip |-> TRUE]

\* A ping or an ack, the first of msgs, and the broadcasts sent with it, all in one
\* compound message, however many there are.
sendMsgPiggyback(from, to, msgs) ==
  /\ sendUdp(from, to, IF Len(msgs) = 1 THEN msgs ELSE <<packCompoundMsg(msgs)>>)
  /\ batch' = [msgs |-> msgs, gossip |-> FALSE]

\* What reaches the handlers of the node that packet p is sent to.
opens(p) == unpackPacket(rings[p.to], p.sealed)
handlePacket(p) == IF opens(p) THEN handleUdpMsg(p.sealed.msg) ELSE <<>>

\* The packets arrive, or are lost.
arrive ==
  /\ packets # <<>>
  /\ packets' = <<>> /\ batch' = NoBatch
  /\ UNCHANGED <<vars, rings, ends>>

-----------------------------------------------------------------------------
WireNext ==
  \/ \E n \in Node, k \in Key : addKey(n, k) \/ useKey(n, k) \/ removeKey(n, k)
  \/ \E c \in Conn :
       \/ \E n \in others(Server), wants \in {"pushPull", "ping"} : connect(c, n, wants)
       \/ accept(c) \/ clientReads(c) \/ clientFails(c) \/ ServerSteps(c)
  \/ \E from \in Node : \E to \in others(from) :
       \/ \E n \in 1..MaxGossip : \E lengths \in [1..n -> Length] :
            gossip(from, to, messages(lengths))
       \/ \E n \in 1..(MaxPiggyback + 1) : \E lengths \in [1..n -> Length] :
            sendMsgPiggyback(from, to, messages(lengths))
  \/ arrive

WireSpec == WireInit /\ [][WireNext]_wireVars

WireFairSpec == WireSpec /\ \A c \in Conn : WF_wireVars(ServerSteps(c))

-----------------------------------------------------------------------------
\* Keys can be replaced while the cluster runs: whatever a node sends, packet or
\* stream, every node can read at that moment, however the administrator's calls
\* to AddKey, UseKey and RemoveKey on the nodes follow each other.
RotationReadable ==
  \A n, m \in Node :
    /\ unpackPacket(rings[m], packUdp(rings[n], "any"))
    /\ unpackStream(rings[m], packTcp(rings[n], "any"))

\* The messages of a round of gossip come out of their packets complete and in
\* order, however many there are, as long as the key they were encrypted with has
\* not been removed: splitToCompoundMsgs stays within the byte that packCompoundMsg
\* has for the count, also at its limit.  For a ping and its broadcasts this holds
\* only up to maxMsgs of them: sendMsgPiggyback does not split, and one message
\* more makes the count byte wrap around and the messages are lost.
BatchIntact ==
  (batch.gossip \/ Len(batch.msgs) <= maxMsgs) /\ (\A i \in DOMAIN packets : opens(packets[i]))
    => written([i \in DOMAIN packets |-> handlePacket(packets[i])]) = batch.msgs

\* A push/pull is never one-sided against its initiator: when the initiator has
\* merged the state of the server, the server has merged the initiator's or is
\* about to, and nothing can fail in between.
PullImpliesPush == \A c \in Conn : pulled[c] => pushed[c] \/ at[c] = "merge"

\* With clients that fail and keys that change, the server's goroutines do what
\* PushPullServer allows, of which the bound on exchanges is proved.
ServerImplemented == Spec
=============================================================================
