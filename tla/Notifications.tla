---------------------------- MODULE Notifications ----------------------------
(***************************************************************************)
(* core/money/nwcNotifications.ts: the server's subscription to what the   *)
(* platform wallet pushes, taken once at the start and retried with        *)
(* growing pauses until it is there.  What a push does is in WrapDriver.   *)
(*                                                                         *)
(* The relay is external and up or down as it likes.                       *)
(***************************************************************************)
EXTENDS Naturals

CONSTANT MaxPause  \* bound: how often the pause is doubled (5 s to 5 minutes: six times)

VARIABLES
  at,          \* the one promise chain: starts, subscribes, or waits for nothing
  byTimer,     \* the subscribe under way was begun by the timer
  timer,       \* retryTimer: none, set, or spent (fired, and still not forgotten)
  pause,       \* doublings of retryMs
  subscribed,  \* unsubscribe is there
  stopped,
  up           \* the relay

vars == <<at, byTimer, timer, pause, subscribed, stopped, up>>

TypeOK ==
  /\ at \in {"start", "subscribe", "rest"} /\ byTimer \in BOOLEAN
  /\ timer \in {"none", "set", "spent"} /\ pause \in 0..MaxPause
  /\ subscribed \in BOOLEAN /\ stopped \in BOOLEAN /\ up \in BOOLEAN

Init ==
  /\ at = "start" /\ byTimer = FALSE /\ timer = "none" /\ pause = 0
  /\ subscribed = FALSE /\ stopped = FALSE /\ up \in BOOLEAN

\* startWrapNotifications
Start ==
  /\ at = "start" /\ at' = "subscribe" /\ byTimer' = FALSE
  /\ UNCHANGED <<timer, pause, subscribed, stopped, up>>

\* getInfo, then subscribeNotifications
Subscribes ==
  /\ at = "subscribe" /\ up /\ at' = "rest" /\ subscribed' = TRUE /\ pause' = 0
  /\ UNCHANGED <<byTimer, timer, stopped, up>>

\* scheduleRetry: one timer at a time, and none after a stop.
ScheduleRetry == IF stopped \/ timer # "none" THEN timer ELSE "set"

\* (mutant) The pause doubles without RETRY_MAX_MS.
Doubled_NoCap == pause + 1
Doubled == IF pause < MaxPause THEN pause + 1 ELSE pause

SubscribeFails ==
  /\ at = "subscribe" /\ ~up /\ at' = "rest"
  /\ pause' = IF byTimer THEN Doubled ELSE pause
  /\ timer' = ScheduleRetry
  /\ UNCHANGED <<byTimer, subscribed, stopped, up>>

\* (mutant) The timer that fired is not forgotten before it subscribes.
Fired_Kept == "spent"
Fired == "none"

TimerFires ==
  /\ timer = "set" /\ timer' = Fired
  /\ IF stopped \/ subscribed THEN UNCHANGED <<at, byTimer>>
     ELSE at' = "subscribe" /\ byTimer' = TRUE
  /\ UNCHANGED <<pause, subscribed, stopped, up>>

\* The handle server.ts gets once the first attempt is over; a retry under way goes on.
Stop ==
  /\ at = "rest" \/ byTimer
  /\ ~stopped /\ stopped' = TRUE /\ timer' = "none" /\ subscribed' = FALSE
  /\ UNCHANGED <<at, byTimer, pause, up>>

Relay ==
  /\ up' = ~up
  /\ UNCHANGED <<at, byTimer, timer, pause, subscribed, stopped>>

Step == Start \/ Subscribes \/ SubscribeFails \/ TimerFires

Next == Step \/ Stop \/ Relay

Spec == Init /\ [][Next]_vars

\* Fairness: every request of the wallet library has a timeout, and timers fire.
FairSpec == Spec /\ WF_vars(Step)

-----------------------------------------------------------------------------
(* Properties *)

\* "Now we keep trying with backoff until subscribed" (nwcNotifications.ts:85-88): however
\* many attempts failed, once the relay stays up the server is subscribed, unless it was
\* stopped.  Until then the sweeps of WrapDriver are all there is.
EventuallySubscribed == ([]~stopped /\ <>[]up) => <>subscribed
=============================================================================
