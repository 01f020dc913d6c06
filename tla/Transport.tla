----------------------------- MODULE Transport ------------------------------
(***************************************************************************)
(* A node from Build to Shutdown: Start opens a TCP and a UDP socket and   *)
(* starts a listener goroutine for each; start then starts the goroutines  *)
(* that take what the listeners hand over, which Inbound models for        *)
(* packets.  Build uses one bind address.  With port 0 Start is tried      *)
(* again, on the port that the first try was given.                        *)
(*                                                                         *)
(* A UDP socket whose buffer cannot be resized is not yet among udpConns:  *)
(* it stays open until it is garbage collected.                            *)
(***************************************************************************)
EXTENDS Inbound

CONSTANT MaxTries     \* 10, the tries of ZeroBindPortTransport

ASSUME TriesAssumption == MaxTries \in Nat \ {0}

VARIABLES
  build,           \* where Build is; "running" and "failed" when it has returned
  tries,           \* how often Start may still be tried
  tcpLn,           \* TRUE while the TCP listener is open
  udpConn,         \* "closed", "open", or "lost": open and not in udpConns
  tcpListener,     \* the goroutine tcpListen
  tcpReceiver      \* the goroutine receiveTcpConn

sockets == <<tcpLn, udpConn>>
tcp == <<tcpListener, tcpReceiver>>
transportVars == <<vars, build, tries, sockets, tcp>>

TransportInit ==
  /\ Init
  /\ build = "tcp" /\ tries \in {1, MaxTries}
  /\ tcpLn = FALSE /\ udpConn = "closed"
  /\ tcpListener = "accept" /\ tcpReceiver = "select"

Listening == build \in {"listening", "running", "failing"}

-----------------------------------------------------------------------------
\* Start: ListenTCP, ListenUDP and setUDPSocketBuf, each of which may fail.
listenTCP ==
  /\ build = "tcp"
  /\ \/ tcpLn' = TRUE /\ build' = "udp"
     \/ UNCHANGED tcpLn /\ build' = "cleanup"
  /\ UNCHANGED <<vars, tries, udpConn, tcp>>

\* The port of a lost socket is in use.
listenUDP ==
  /\ build = "udp"
  /\ \/ udpConn = "closed" /\ udpConn' = "lost" /\ build' = "resize"
     \/ UNCHANGED udpConn /\ build' = "cleanup"
  /\ UNCHANGED <<vars, tries, tcpLn, tcp>>

setUDPSocketBuf ==
  /\ build = "resize"
  /\ \/ udpConn' = "open" /\ build' = "listening"
     \/ UNCHANGED udpConn /\ build' = "cleanup"
  /\ UNCHANGED <<vars, tries, tcpLn, tcp>>

\* Slip of cleanup: Start returns its error and leaves the sockets open.
cleanupNot ==
  /\ build = "cleanup"
  /\ tries' = tries - 1
  /\ build' = IF tries' = 0 THEN "failed" ELSE "tcp"
  /\ UNCHANGED <<vars, sockets, tcp>>

\* Slip of cleanup: the tries are not counted.
cleanupForever ==
  /\ build = "cleanup"
  /\ tcpLn' = FALSE
  /\ build' = IF tries = 1 THEN "failed" ELSE "tcp"
  /\ UNCHANGED <<vars, tries, udpConn, tcp>>

\* The deferred Shutdown of a Start that failed; no listener runs yet.
cleanup ==
  /\ build = "cleanup"
  /\ tcpLn' = FALSE
  /\ tries' = tries - 1
  /\ build' = IF tries' = 0 THEN "failed" ELSE "tcp"
  /\ UNCHANGED <<vars, udpConn, tcp>>

collect ==
  /\ udpConn = "lost" /\ build # "resize"
  /\ udpConn' = "closed"
  /\ UNCHANGED <<vars, build, tries, tcpLn, tcp>>

closeSockets == tcpLn' = FALSE /\ udpConn' = "closed"

\* start: the advertised address, encryption and tags are accepted ...
startOk ==
  /\ build = "listening"
  /\ build' = "running"
  /\ UNCHANGED <<vars, tries, sockets, tcp>>

\* ... or not: Build calls Shutdown although nobody takes packets or connections.
startFails ==
  /\ build = "listening"
  /\ build' = "failing"
  /\ Shutdown /\ closeSockets
  /\ UNCHANGED <<tries, tcp>>

\* The application calls Shutdown.
callShutdown ==
  /\ build = "running"
  /\ Shutdown /\ closeSockets
  /\ UNCHANGED <<build, tries, tcp>>

\* Slip of shutdownWaits: only the UDP listener is waited for.
shutdownWaitsUdp ==
  /\ closeShutdownCh
  /\ build' = IF build = "failing" THEN "failed" ELSE build
  /\ UNCHANGED <<tries, sockets, tcp>>

\* wg.Wait returns when both listeners have ended.
shutdownWaits ==
  /\ closeShutdownCh /\ tcpListener = "stopped"
  /\ build' = IF build = "failing" THEN "failed" ELSE build
  /\ UNCHANGED <<tries, sockets, tcp>>

-----------------------------------------------------------------------------
\* The goroutines of Inbound, once they have been started.
packetListener ==
  /\ Listening
  /\ udpListenStop \/ \E msg \in Message : udpListen(msg)
  /\ UNCHANGED <<build, tries, sockets, tcp>>

packetReceiver == build = "running" /\ Receiver /\ UNCHANGED <<build, tries, sockets, tcp>>
messageHandler == build = "running" /\ Handler /\ UNCHANGED <<build, tries, sockets, tcp>>
userReads == build = "running" /\ handleUser /\ UNCHANGED <<build, tries, sockets, tcp>>

\* tcpListen: a connection is accepted, or AcceptTCP fails on the closed listener;
\* after another error it is called again.
tcpListen ==
  /\ Listening /\ tcpListener = "accept"
  /\ tcpListener' = IF tcpLn THEN "send" ELSE "stopped"
  /\ UNCHANGED <<vars, build, tries, sockets, tcpReceiver>>

\* receiveTcpConn takes the connection; a goroutine of its own handles it.
receiveTcpConn ==
  /\ build = "running" /\ tcpListener = "send" /\ tcpReceiver = "select"
  /\ tcpListener' = "accept"
  /\ UNCHANGED <<vars, build, tries, sockets, tcpReceiver>>

receiveTcpConnStop ==
  /\ build = "running" /\ tcpReceiver = "select" /\ shutdown = "closed"
  /\ tcpReceiver' = "stopped"
  /\ UNCHANGED <<vars, build, tries, sockets, tcpListener>>

Build == listenTCP \/ listenUDP \/ setUDPSocketBuf \/ cleanup \/ startOk \/ startFails

TransportNext ==
  \/ Build \/ collect \/ callShutdown \/ shutdownWaits
  \/ packetListener \/ packetReceiver \/ messageHandler \/ userReads
  \/ tcpListen \/ receiveTcpConn \/ receiveTcpConnStop

TransportSpec == TransportInit /\ [][TransportNext]_transportVars

\* As in Inbound: what can run does run, and the application reads usrMsgCh.  No
\* packet and no connection has to arrive.
TransportFairSpec ==
  /\ TransportSpec
  /\ WF_transportVars(Build) /\ WF_transportVars(shutdownWaits)
  /\ WF_transportVars(packetListener /\ shutdown # "no") /\ WF_transportVars(packetReceiver)
  /\ WF_transportVars(messageHandler) /\ WF_transportVars(userReads)
  /\ WF_transportVars(tcpListen /\ ~tcpLn) /\ WF_transportVars(receiveTcpConn)
  /\ WF_transportVars(receiveTcpConnStop)

-----------------------------------------------------------------------------
\* Once Build has failed or Shutdown has returned, no socket is left open but one
\* whose buffer could not be resized, and no listener goroutine is left that
\* could hand over anything more: the deferred Shutdown of Start closes what the
\* failed try had opened, at whichever call it failed.
NothingLeftOpen ==
  (build = "failed" \/ shutdown = "closed") =>
    /\ ~tcpLn /\ udpConn # "open"
    /\ shutdown = "closed" => tcpListener = "stopped" /\ at["listener"] = "stopped"

\* Build returns, unless start fails after a packet or a connection has come in:
\* its listener waits for a goroutine that was never started, and Shutdown waits
\* for the listener.
BuildReturnsUnlessBusy ==
  <>(\/ build \in {"running", "failed"}
     \/ build = "failing" /\ "send" \in {at["listener"], tcpListener})

\* Shutdown of a running node returns if no queue was ever full: both listeners
\* are relieved of what they hold, because shutdownCh is closed after they ended.
ShutdownReturnsUnlessFull ==
  (build = "running" /\ shutdown = "transport") ~> (shutdown = "closed" \/ dropped # {})

\* After Shutdown of a running node none of its five goroutines is left behind, if
\* no queue was ever full.
GoroutinesEnd ==
  (build = "running" /\ shutdown = "closed")
    ~> \/ /\ \A g \in Goroutine : at[g] = "stopped"
          /\ tcpListener = "stopped" /\ tcpReceiver = "stopped"
       \/ dropped # {}
=============================================================================
