----------------------------- MODULE Suspicion ------------------------------
(***************************************************************************)
(* The suspicion timer: it is started for the longest timeout and          *)
(* restarted for a shorter one with every confirmation from another node;  *)
(* when it fires, or when a confirmation finds the new timeout already     *)
(* over, timeoutFn runs in a goroutine of its own.  Time is counted in     *)
(* ticks from the creation of the suspicion; an expired timer may fire up  *)
(* to Slack ticks late, so that a confirmation can come in between.        *)
(***************************************************************************)
EXTENDS Integers, FiniteSets

CONSTANTS
  From,             \* the nodes that may suspect; one of them is the first
  ConfirmCap,
  MinTimeout, MaxTimeout,
  Interpolated,     \* Interpolated[k]: the timeout after k < ConfirmCap confirmations
  Slack             \* how late an expired timer may fire

ASSUME SuspicionAssumption ==
  /\ ConfirmCap \in Nat /\ MinTimeout \in Nat /\ MaxTimeout \in Nat /\ Slack \in Nat
  /\ MinTimeout <= MaxTimeout
  /\ Interpolated \in [1..(ConfirmCap - 1) -> Nat]
  /\ \A k \in 1..(ConfirmCap - 1) : Interpolated[k] >= MinTimeout
  /\ \A k, l \in 1..(ConfirmCap - 1) : k <= l => Interpolated[l] <= Interpolated[k]
  /\ ConfirmCap > 1 => Interpolated[1] = MaxTimeout

VARIABLES
  now,
  confirmMap,       \* the nodes that have confirmed
  deadline,         \* when the timer expires, or Stopped
  running,          \* how many goroutines of timeoutFn have been started and not yet counted
  fired,            \* how often timeoutFn was called
  firedAt,          \* when timeoutFn was started
  firedWith         \* and with how many confirmations

suspicionVars == <<now, confirmMap, deadline, running, fired, firedAt, firedWith>>

Stopped == -1

\* remainingTime + elapsed
timeoutAfter(confirms) == IF confirms >= ConfirmCap THEN MinTimeout ELSE Interpolated[confirms]

initialTimeout == IF ConfirmCap <= 1 THEN MinTimeout ELSE MaxTimeout

\* newSuspicion
SuspicionInit ==
  /\ now = 0
  /\ \E from \in From : confirmMap = {from}
  /\ deadline = initialTimeout
  /\ running = 0 /\ fired = 0 /\ firedAt = 0 /\ firedWith = 0

ignoreConfirm(from) == Cardinality(confirmMap) >= ConfirmCap \/ from \in confirmMap

\* A goroutine of timeoutFn starts, and the timer is not set any more.
start ==
  /\ deadline' = Stopped /\ running' = running + 1
  /\ firedAt' = now /\ firedWith' = Cardinality(confirmMap')

setTimer(timeout) == deadline' = timeout /\ UNCHANGED <<running, firedAt, firedWith>>

noTimer == deadline = Stopped /\ UNCHANGED <<deadline, running, firedAt, firedWith>>

\* Slips of restart: a timer that has fired is started again; timeoutFn runs at
\* once; nothing runs when the timeout is already over.
restartAlways(timeout) == IF timeout > now THEN setTimer(timeout) ELSE start
restartNow(timeout) == noTimer \/ (deadline # Stopped /\ start)
restartForgotten(timeout) ==
  \/ noTimer
  \/ deadline # Stopped /\ IF timeout > now THEN setTimer(timeout)
                             ELSE deadline' = Stopped /\ UNCHANGED <<running, firedAt, firedWith>>

\* timer.Stop() fails once the timer has fired or has been stopped.
restart(timeout) ==
  \/ noTimer
  \/ deadline # Stopped /\ timeout > now /\ setTimer(timeout)
  \/ deadline # Stopped /\ timeout <= now /\ start

\* Slip of Confirm: the timeout is computed before the confirmation is counted.
ConfirmUncounted(from) ==
  /\ ~ignoreConfirm(from)
  /\ confirmMap' = confirmMap \cup {from}
  /\ restart(timeoutAfter(Cardinality(confirmMap)))
  /\ UNCHANGED <<now, fired>>

Confirm(from) ==
  /\ ~ignoreConfirm(from)
  /\ confirmMap' = confirmMap \cup {from}
  /\ restart(timeoutAfter(Cardinality(confirmMap')))
  /\ UNCHANGED <<now, fired>>

\* The runtime's timer.
expire ==
  /\ deadline # Stopped /\ now >= deadline
  /\ UNCHANGED <<now, confirmMap, fired>>
  /\ start

timeoutFn ==
  /\ running > 0
  /\ running' = running - 1 /\ fired' = fired + 1
  /\ UNCHANGED <<now, confirmMap, deadline, firedAt, firedWith>>

tick ==
  /\ deadline # Stopped /\ now < deadline + Slack
  /\ now' = now + 1
  /\ UNCHANGED <<confirmMap, deadline, running, fired, firedAt, firedWith>>

SuspicionNext == (\E from \in From : Confirm(from)) \/ expire \/ timeoutFn \/ tick

SuspicionSpec == SuspicionInit /\ [][SuspicionNext]_suspicionVars

\* Time passes, expired timers fire and goroutines run.
SuspicionFairSpec ==
  SuspicionSpec /\ WF_suspicionVars(tick) /\ WF_suspicionVars(expire) /\ WF_suspicionVars(timeoutFn)

-----------------------------------------------------------------------------
SuspicionTypeOK ==
  /\ now \in Nat
  /\ confirmMap \subseteq From /\ IsFiniteSet(confirmMap) /\ confirmMap # {}
  /\ deadline \in Nat \cup {Stopped}
  /\ running \in Nat /\ fired \in Nat /\ firedAt \in Nat /\ firedWith \in Nat

\* However confirmations, the expiry and the restarts interleave, timeoutFn is
\* started exactly once: either the timer is still set or it was started, never
\* both and never twice.
StartedOnce ==
  running + fired = IF deadline = Stopped THEN 1 ELSE 0

\* A timer that is set expires when the confirmations received so far say.
DeadlineMatchesConfirms ==
  deadline # Stopped => deadline = timeoutAfter(Cardinality(confirmMap))

\* timeoutFn is started neither before the timeout that the confirmations
\* received by then call for, nor more than Slack ticks after the longest one.
StartedInTime ==
  deadline = Stopped => firedAt \in timeoutAfter(firedWith)..(MaxTimeout + Slack)

\* A suspicion ends: timeoutFn is called.
TimeoutFnRuns == <>(fired = 1)
=============================================================================
