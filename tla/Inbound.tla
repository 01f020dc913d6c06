------------------------------ MODULE Inbound -------------------------------
(***************************************************************************)
(* How a UDP message reaches its handler: the udpListen goroutine hands a  *)
(* packet to receivePacket over the unbuffered PacketCh; receivePacket     *)
(* queues alive, suspect, dead and user messages in the two queues of the  *)
(* longRunMsgManager and notifies runLongRunMsgHandler, which drains them, *)
(* newest first and alive messages before all others.  Shutdown stops the  *)
(* three goroutines.                                                       *)
(*                                                                         *)
(* A critical section on mng.l is one step, except that queueLongRunMsg    *)
(* returns with the mutex locked when the queue is full: locked.  The send *)
(* on gotMsgCh succeeds only while the handler waits in its select, so the *)
(* step from getNextMsg's empty answer back to the select is a state.      *)
(***************************************************************************)
EXTENDS Integers, Sequences, FiniteSets

CONSTANTS
  Message,         \* the long-run messages that may arrive, each once
  aliveMsg,        \* those of type aliveMsg
  userMsg,         \* those of type userMsg
  maxQueueDepth,   \* config.MaxLongRunQueueDepth
  NoMsg

ASSUME MessageAssumption ==
  /\ aliveMsg \subseteq Message /\ userMsg \subseteq Message
  /\ aliveMsg \cap userMsg = {}
  /\ maxQueueDepth \in Nat
  /\ NoMsg \notin Message

VARIABLES
  arriving,        \* messages that are still on the network
  at,              \* where each goroutine is
  held,            \* the message each goroutine works on
  highPriorQueue, lowPriorQueue,
  locked,          \* mng.l is locked and its holder is gone
  handled,         \* messages whose handler has returned
  dropped,         \* messages refused by a full queue
  shutdown         \* "no", "transport": waiting for the listener, "closed": shutdownCh

vars == <<arriving, at, held, highPriorQueue, lowPriorQueue, locked, handled, dropped, shutdown>>
queues == <<highPriorQueue, lowPriorQueue>>

Goroutine == {"listener", "receiver", "handler"}

Init ==
  /\ arriving = Message
  /\ at = [g \in Goroutine |-> IF g = "listener" THEN "read" ELSE "select"]
  /\ held = [g \in Goroutine |-> NoMsg]
  /\ highPriorQueue = <<>> /\ lowPriorQueue = <<>>
  /\ locked = FALSE
  /\ handled = {} /\ dropped = {}
  /\ shutdown = "no"

goes(g, place, msg) ==
  /\ at' = [at EXCEPT ![g] = place]
  /\ held' = [held EXCEPT ![g] = msg]

-----------------------------------------------------------------------------
\* udpListen: a packet is read while the socket is open.
udpListen(msg) ==
  /\ at["listener"] = "read" /\ shutdown = "no"
  /\ msg \in arriving
  /\ arriving' = arriving \ {msg}
  /\ goes("listener", "send", msg)
  /\ UNCHANGED <<queues, locked, handled, dropped, shutdown>>

\* The read fails on the closed socket.
udpListenStop ==
  /\ at["listener"] = "read" /\ shutdown # "no"
  /\ goes("listener", "stopped", NoMsg)
  /\ UNCHANGED <<arriving, queues, locked, handled, dropped, shutdown>>

receivePacket ==
  /\ at["receiver"] = "select" /\ at["listener"] = "send"
  /\ at' = [at EXCEPT !["receiver"] = "lock", !["listener"] = "read"]
  /\ held' = [held EXCEPT !["receiver"] = held["listener"], !["listener"] = NoMsg]
  /\ UNCHANGED <<arriving, queues, locked, handled, dropped, shutdown>>

\* Slip of receivePacketStop: the shutdown flag is tested instead of shutdownCh.
receivePacketStopEarly ==
  /\ at["receiver"] = "select" /\ shutdown # "no"
  /\ goes("receiver", "stopped", NoMsg)
  /\ UNCHANGED <<arriving, queues, locked, handled, dropped, shutdown>>

receivePacketStop ==
  /\ at["receiver"] = "select" /\ shutdown = "closed"
  /\ goes("receiver", "stopped", NoMsg)
  /\ UNCHANGED <<arriving, queues, locked, handled, dropped, shutdown>>

queueOf(msg) == IF msg \in aliveMsg THEN highPriorQueue ELSE lowPriorQueue

\* queueLongRunMsg, when there is room.
pushLongRunMsg ==
  LET msg == held["receiver"]
  IN  /\ at["receiver"] = "lock" /\ ~locked
      /\ Len(queueOf(msg)) < maxQueueDepth
      /\ IF msg \in aliveMsg
           THEN highPriorQueue' = Append(highPriorQueue, msg) /\ UNCHANGED lowPriorQueue
           ELSE lowPriorQueue' = Append(lowPriorQueue, msg) /\ UNCHANGED highPriorQueue
      /\ goes("receiver", "notify", NoMsg)
      /\ UNCHANGED <<arriving, locked, handled, dropped, shutdown>>

\* queueLongRunMsg, when the queue is full: it returns the error without Unlock.
dropLongRunMsg ==
  LET msg == held["receiver"]
  IN  /\ at["receiver"] = "lock" /\ ~locked
      /\ Len(queueOf(msg)) >= maxQueueDepth
      /\ locked' = TRUE
      /\ dropped' = dropped \cup {msg}
      /\ goes("receiver", "select", NoMsg)
      /\ UNCHANGED <<arriving, queues, handled, shutdown>>

\* The non-blocking send on gotMsgCh.
notifyHandler ==
  /\ at["receiver"] = "notify"
  /\ at' = [at EXCEPT !["receiver"] = "select",
                      !["handler"] = IF @ = "select" THEN "drain" ELSE @]
  /\ UNCHANGED <<arriving, held, queues, locked, handled, dropped, shutdown>>

lastOf(queue) == queue[Len(queue)]
allButLast(queue) == [k \in 1..(Len(queue) - 1) |-> queue[k]]

\* Slips of getNextMsg: the message is read but not removed; the loop gives up
\* as soon as no alive message is left.
getNextMsgKeep ==
  /\ at["handler"] = "drain" /\ ~locked
  /\ \/ /\ highPriorQueue # <<>>
        /\ goes("handler", "handle", lastOf(highPriorQueue))
        /\ UNCHANGED queues
     \/ /\ highPriorQueue = <<>> /\ lowPriorQueue # <<>>
        /\ goes("handler", "handle", lastOf(lowPriorQueue))
        /\ lowPriorQueue' = allButLast(lowPriorQueue) /\ UNCHANGED highPriorQueue
     \/ /\ highPriorQueue = <<>> /\ lowPriorQueue = <<>>
        /\ goes("handler", "leave", NoMsg)
        /\ UNCHANGED queues
  /\ UNCHANGED <<arriving, locked, handled, dropped, shutdown>>

getNextMsgHighOnly ==
  /\ at["handler"] = "drain" /\ ~locked
  /\ \/ /\ highPriorQueue # <<>>
        /\ goes("handler", "handle", lastOf(highPriorQueue))
        /\ highPriorQueue' = allButLast(highPriorQueue) /\ UNCHANGED lowPriorQueue
     \/ /\ highPriorQueue = <<>>
        /\ goes("handler", "leave", NoMsg)
        /\ UNCHANGED queues
  /\ UNCHANGED <<arriving, locked, handled, dropped, shutdown>>

getNextMsg ==
  /\ at["handler"] = "drain" /\ ~locked
  /\ \/ /\ highPriorQueue # <<>>
        /\ goes("handler", "handle", lastOf(highPriorQueue))
        /\ highPriorQueue' = allButLast(highPriorQueue) /\ UNCHANGED lowPriorQueue
     \/ /\ highPriorQueue = <<>> /\ lowPriorQueue # <<>>
        /\ goes("handler", "handle", lastOf(lowPriorQueue))
        /\ lowPriorQueue' = allButLast(lowPriorQueue) /\ UNCHANGED highPriorQueue
     \/ /\ highPriorQueue = <<>> /\ lowPriorQueue = <<>>
        /\ goes("handler", "leave", NoMsg)
        /\ UNCHANGED queues
  /\ UNCHANGED <<arriving, locked, handled, dropped, shutdown>>

backToSelect ==
  /\ at["handler"] = "leave"
  /\ goes("handler", "select", NoMsg)
  /\ UNCHANGED <<arriving, queues, locked, handled, dropped, shutdown>>

handle(msgs) ==
  /\ at["handler"] = "handle" /\ held["handler"] \in msgs
  /\ handled' = handled \cup {held["handler"]}
  /\ goes("handler", "drain", NoMsg)
  /\ UNCHANGED <<arriving, queues, locked, dropped, shutdown>>

\* handleAlive, handleSuspect, handleDead.
handleMember == handle(Message \ userMsg)

\* handleUser: the send on usrMsgCh waits for the application.
handleUser == handle(userMsg)

handlerStop ==
  /\ at["handler"] = "select" /\ shutdown = "closed"
  /\ goes("handler", "stopped", NoMsg)
  /\ UNCHANGED <<arriving, queues, locked, handled, dropped, shutdown>>

\* Shutdown closes the sockets and waits for the listener to end...
Shutdown ==
  /\ shutdown = "no"
  /\ shutdown' = "transport"
  /\ UNCHANGED <<arriving, at, held, queues, locked, handled, dropped>>

\* ... then closes shutdownCh.
closeShutdownCh ==
  /\ shutdown = "transport" /\ at["listener"] = "stopped"
  /\ shutdown' = "closed"
  /\ UNCHANGED <<arriving, at, held, queues, locked, handled, dropped>>

-----------------------------------------------------------------------------
Receiver == receivePacket \/ receivePacketStop \/ pushLongRunMsg \/ dropLongRunMsg \/ notifyHandler
Handler == getNextMsg \/ backToSelect \/ handleMember \/ handlerStop

Next ==
  \/ \E msg \in Message : udpListen(msg)
  \/ udpListenStop
  \/ Receiver \/ Handler \/ handleUser
  \/ Shutdown \/ closeShutdownCh

Spec == Init /\ [][Next]_vars

\* Goroutines that can run do run, the application keeps reading usrMsgCh, and
\* Shutdown, once called, goes on.  Nothing has to arrive.
Fairness ==
  /\ WF_vars(udpListenStop) /\ WF_vars(Receiver) /\ WF_vars(Handler)
  /\ WF_vars(handleUser) /\ WF_vars(closeShutdownCh)

FairSpec == Spec /\ Fairness

-----------------------------------------------------------------------------
\* How often a message occurs in the hands of a goroutine and in the queues.
occurrences(msg) ==
  Cardinality({g \in Goroutine : held[g] = msg})
  + Cardinality({k \in 1..Len(highPriorQueue) : highPriorQueue[k] = msg})
  + Cardinality({k \in 1..Len(lowPriorQueue) : lowPriorQueue[k] = msg})

\* A message is in one place: on its way, in the hands of one goroutine, in one
\* queue, handled or dropped; queueing and draining concurrently neither loses
\* nor repeats it.
Accounted ==
  \A msg \in Message :
    occurrences(msg) = IF msg \in arriving \cup handled \cup dropped THEN 0 ELSE 1

\* A notification that finds the handler in its select is enough, as long as no
\* queue was full: the handler drains both, including what arrives meanwhile.
WokenDrains ==
  (at["receiver"] = "notify" /\ at["handler"] = "select" /\ shutdown # "closed")
    ~> \/ highPriorQueue = <<>> /\ lowPriorQueue = <<>>
       \/ at["handler"] = "stopped"
       \/ dropped # {}

\* What the comment in Shutdown relies on: the listener, which may be blocked on
\* PacketCh, is always relieved by receivePacket, because shutdownCh is closed
\* only afterwards; so Shutdown returns.
ShutdownReturns == shutdown = "transport" ~> shutdown = "closed"
=============================================================================
