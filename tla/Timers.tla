------------------------------- MODULE Timers -------------------------------
(***************************************************************************)
(* The clock of one worker (simulator.c): the data frame timers, the       *)
(* auxiliary timer for acknowledgements, and how wait_for_event turns the  *)
(* go-aheads of main into events.  The protocol that runs on the worker is *)
(* arbitrary: in a handler it starts and stops timers and enables or       *)
(* disables its network layer as it likes.                                 *)
(*                                                                         *)
(* Time is measured in ticks; main hands out multiples of DELTA, so that   *)
(* the starts of one handler, told apart by offset, are different ticks.   *)
(* Timer slot k is the frame number itself: start_timer and stop_timer     *)
(* take k % nseqs, and every protocol numbers its frames below nseqs.      *)
(***************************************************************************)
EXTENDS Integers, FiniteSets, FiniteSetsExt

CONSTANTS
  NR_TIMERS,         \* the number of data frame timers
  DELTA,             \* ticks per event of main
  AUX,               \* the auxiliary timeout is the main timeout / AUX
  UINT_MAX,          \* larger than every tick of a run
  timeout_interval,  \* in ticks
  MaxStarts,         \* the most timers one handler starts
  LastTick           \* bound: main stops here

ASSUME TimersAssumption ==
  /\ NR_TIMERS \in Nat /\ DELTA \in Nat \ {0} /\ AUX \in Nat \ {0}
  /\ UINT_MAX \in Nat /\ timeout_interval \in Nat /\ LastTick \in Nat
  /\ MaxStarts \in 0 .. DELTA
  /\ LastTick + timeout_interval + DELTA < UINT_MAX

VARIABLES
  phase,         \* "handler": protocol code runs; "waiting": in
                 \* wait_for_event, for a go-ahead; "exited"
  event,         \* the event wait_for_event returned last
  tick,          \* current time
  offset,        \* to prevent multiple timeouts on same tick
  ack_timer,     \* when each data frame timer goes off; 0: not running
  lowest_timer,  \* lowest of the timers
  aux_timer,     \* value of the auxiliary timer
  network_layer_status,
  word           \* what the worker tells main: "OK" or "NOTHING"

timer_vars == <<ack_timer, lowest_timer, aux_timer>>
vars == <<phase, event, tick, offset, timer_vars, network_layer_status, word>>

Timer == 0 .. NR_TIMERS - 1

Ticks == {n * DELTA : n \in 0 .. LastTick \div DELTA}

TypeOK ==
  /\ phase \in {"handler", "waiting", "exited"}
  /\ event \in {"no_event", "frame", "timeout", "network_layer_ready", "ack_timeout"}
  /\ tick \in Ticks
  /\ offset \in 0 .. MaxStarts
  /\ ack_timer \in [Timer -> Nat]
  /\ lowest_timer \in Nat
  /\ aux_timer \in Nat
  /\ network_layer_status \in {0, 1}
  /\ word \in {"OK", "NOTHING"}

Init ==
  /\ phase = "handler"
  /\ event = "no_event"
  /\ tick = 0
  /\ offset = 0
  /\ ack_timer = [k \in Timer |-> 0]
  /\ lowest_timer = 0
  /\ aux_timer = 0
  /\ network_layer_status = 0
  /\ word = "OK"

-----------------------------------------------------------------------------
(* What a handler may do.                                                  *)

Running(timers) == {k \in Timer : timers[k] > 0}

RecalcTimers_Latest(timers) ==
  IF Running(timers) = {} THEN UINT_MAX ELSE Max({timers[k] : k \in Running(timers)})

(* recalc_timers: find the lowest timer.                                   *)
RecalcTimers(timers) == Min({UINT_MAX} \cup {timers[k] : k \in Running(timers)})

SetTimer(k, value) ==
  /\ ack_timer' = [ack_timer EXCEPT ![k] = value]
  /\ lowest_timer' = RecalcTimers(ack_timer')

StartTimer_SameOffset(k) ==
  /\ phase = "handler" /\ offset < MaxStarts
  /\ SetTimer(k, tick + timeout_interval + offset)
  /\ UNCHANGED <<phase, event, tick, offset, aux_timer, network_layer_status, word>>

StartTimer_InThePast(k) ==
  /\ phase = "handler" /\ offset < MaxStarts
  /\ SetTimer(k, tick + offset - timeout_interval)
  /\ offset' = offset + 1
  /\ UNCHANGED <<phase, event, tick, aux_timer, network_layer_status, word>>

StartTimer(k) ==
  /\ phase = "handler" /\ offset < MaxStarts
  /\ SetTimer(k, tick + timeout_interval + offset)
  /\ offset' = offset + 1
  /\ UNCHANGED <<phase, event, tick, aux_timer, network_layer_status, word>>

StopTimer_NoRecalc(k) ==
  /\ phase = "handler"
  /\ ack_timer' = [ack_timer EXCEPT ![k] = 0]
  /\ UNCHANGED <<phase, event, tick, offset, lowest_timer, aux_timer,
                 network_layer_status, word>>

StopTimer(k) ==
  /\ phase = "handler"
  /\ SetTimer(k, 0)
  /\ UNCHANGED <<phase, event, tick, offset, aux_timer, network_layer_status, word>>

StartAckTimer ==
  /\ phase = "handler" /\ offset < MaxStarts
  /\ aux_timer' = tick + timeout_interval \div AUX
  /\ offset' = offset + 1
  /\ UNCHANGED <<phase, event, tick, ack_timer, lowest_timer, network_layer_status, word>>

StopAckTimer ==
  /\ phase = "handler"
  /\ aux_timer' = 0
  /\ UNCHANGED <<phase, event, tick, offset, ack_timer, lowest_timer,
                 network_layer_status, word>>

(* enable_network_layer and disable_network_layer.                         *)
SetNetworkLayer(status) ==
  /\ phase = "handler"
  /\ network_layer_status' = status
  /\ UNCHANGED <<phase, event, tick, offset, timer_vars, word>>

-----------------------------------------------------------------------------
(* wait_for_event.                                                         *)

WaitForEvent ==
  /\ phase = "handler"
  /\ phase' = "waiting"
  /\ offset' = 0
  /\ word' = "OK"
  /\ UNCHANGED <<event, tick, timer_vars, network_layer_status>>

(* The go-ahead carries the time of main, at least one event later.        *)
GoAhead ==
  /\ phase = "waiting"
  /\ tick' \in {ct \in Ticks : ct > tick}

Returns(e) ==
  /\ phase' = "handler"
  /\ event' = e
  /\ word' = "OK"
  /\ UNCHANGED <<offset, network_layer_status>>

AckTimerExpired == aux_timer > 0 /\ tick' >= aux_timer

TimerExpired == lowest_timer # 0 /\ tick' >= lowest_timer

(* check_ack_timer comes first.                                            *)
AckTimeout ==
  /\ GoAhead
  /\ AckTimerExpired
  /\ aux_timer' = 0
  /\ Returns("ack_timeout")
  /\ UNCHANGED <<ack_timer, lowest_timer>>

(* nframes > 0: a frame, damaged or not.                                   *)
FrameEvent ==
  /\ GoAhead
  /\ ~AckTimerExpired
  /\ Returns("frame")
  /\ UNCHANGED timer_vars

NetworkLayerReady ==
  /\ GoAhead
  /\ ~AckTimerExpired
  /\ network_layer_status = 1
  /\ Returns("network_layer_ready")
  /\ UNCHANGED timer_vars

(* check_timers: the timer that is lowest is turned off; when there is     *)
(* none with that value the worker prints "Impossible" and exits.          *)
Timeout ==
  /\ GoAhead
  /\ ~AckTimerExpired /\ network_layer_status = 0
  /\ TimerExpired
  /\ UNCHANGED aux_timer
  /\ LET hits == {k \in Timer : ack_timer[k] = lowest_timer}
     IN IF hits = {}
        THEN /\ phase' = "exited"
             /\ UNCHANGED <<event, offset, ack_timer, lowest_timer,
                            network_layer_status, word>>
        ELSE SetTimer(Min(hits), 0) /\ Returns("timeout")

Word == IF lowest_timer = 0 THEN "NOTHING" ELSE "OK"

(* no_event: the worker tells main what it found, and waits again.         *)
NoEvent ==
  /\ GoAhead
  /\ ~AckTimerExpired /\ network_layer_status = 0
  /\ ~TimerExpired
  /\ event' = "no_event"
  /\ word' = Word
  /\ UNCHANGED <<phase, offset, timer_vars, network_layer_status>>

Handler ==
  \/ \E k \in Timer : StartTimer(k) \/ StopTimer(k)
  \/ StartAckTimer \/ StopAckTimer
  \/ \E status \in {0, 1} : SetNetworkLayer(status)
  \/ WaitForEvent

Turn == AckTimeout \/ FrameEvent \/ NetworkLayerReady \/ Timeout \/ NoEvent

Next == Handler \/ Turn

Spec == Init /\ [][Next]_vars

-----------------------------------------------------------------------------
(* Properties.                                                             *)

(* The comment in check_timers: "it is impossible for two frame timers to  *)
(* have the same value", although several timers are started in a handler  *)
(* and timers are started again while others run.  Nor can the next one    *)
(* that is started have the value of another: none that runs lies as far   *)
(* ahead, so a started timer is always the last to go off.                 *)
UniqueTimers ==
  /\ \A j, k \in Running(ack_timer) : j # k => ack_timer[j] # ack_timer[k]
  /\ \A k \in Running(ack_timer) :
       ack_timer[k] < tick + timeout_interval + (IF phase = "handler" THEN offset ELSE DELTA)

(* The message in check_timers: whenever the lowest timer has run out, the *)
(* timer it belongs to is found.                                           *)
NeverImpossible == phase # "exited"

(* The running timers, the next one to go off first.                       *)
InOrder(timers) ==
  CHOOSE ts \in [1 .. Cardinality(Running(timers)) -> Running(timers)] :
    \A i, j \in DOMAIN ts : i < j => ts[i] # ts[j] /\ timers[ts[i]] <= timers[ts[j]]

(* The timers as a protocol sees them: whenever wait_for_event returns a   *)
(* timeout, the timer that was started longest ago has gone off, and no    *)
(* other event touches a timer.  simulator.c finds that timer by its       *)
(* value, over whatever handlers started, stopped and started again.       *)
Queue == INSTANCE TimerQueue
         WITH Slots <- Timer, handling <- (phase = "handler"), running <- InOrder(ack_timer)

ImplementsTimerQueue == Queue!Spec

(* doc.md: "If it cannot run now and no timers are pending, it returns the *)
(* code NOTHING."                                                          *)
IdleMeansNothing ==
  [][NoEvent /\ Running(ack_timer) = {} /\ aux_timer = 0 => word' = "NOTHING"]_vars
=============================================================================
