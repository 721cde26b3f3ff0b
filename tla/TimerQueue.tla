----------------------------- MODULE TimerQueue -----------------------------
(***************************************************************************)
(* What start_timer, stop_timer and wait_for_event promise to a protocol,  *)
(* without any clock.  Its handlers start and stop timers; whenever        *)
(* wait_for_event returns a timeout, the timer that was started longest    *)
(* ago has gone off, and no other event touches a timer.                   *)
(***************************************************************************)
EXTENDS TimerOrder

CONSTANT Slots

VARIABLES
  handling,  \* a handler of the protocol runs; FALSE: in wait_for_event
  event,     \* what wait_for_event found last
  running    \* the running timers, the one started longest ago first

Init ==
  /\ handling = TRUE
  /\ event = "no_event"
  /\ running = <<>>

Start(k) ==
  /\ handling
  /\ running' = StartTimer(running, k)
  /\ UNCHANGED <<handling, event>>

Stop(k) ==
  /\ handling
  /\ running' = StopTimer(running, k)
  /\ UNCHANGED <<handling, event>>

Wait ==
  /\ handling
  /\ handling' = FALSE
  /\ UNCHANGED <<event, running>>

GoOff ==
  /\ ~handling
  /\ running # <<>>
  /\ event' = "timeout"
  /\ running' = Tail(running)
  /\ handling' = TRUE

OtherEvent(e) ==
  /\ ~handling
  /\ event' = e
  /\ handling' = (e # "no_event")
  /\ UNCHANGED running

Next ==
  \/ \E k \in Slots : Start(k) \/ Stop(k)
  \/ Wait \/ GoOff
  \/ \E e \in {"no_event", "frame", "network_layer_ready", "ack_timeout"} : OtherEvent(e)

queue_vars == <<handling, event, running>>

Spec == Init /\ [][Next]_queue_vars
=============================================================================
