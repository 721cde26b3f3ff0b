----------------------------- MODULE TimerOrder -----------------------------
(***************************************************************************)
(* What a protocol can tell about the data frame timers of simulator.c:    *)
(* every timer runs for the same interval, so the running timers go off in *)
(* the order in which they were last started.  The running timers are a    *)
(* sequence of slots, the next one to go off first.  Module Timers checks  *)
(* that the tick arithmetic of simulator.c really behaves like this.       *)
(***************************************************************************)
EXTENDS SequencesExt

(* stop_timer: slot k no longer runs (a slot that was not running is left  *)
(* alone).                                                                 *)
StopTimer(ts, k) ==
  IF \E i \in DOMAIN ts : ts[i] = k
  THEN RemoveAt(ts, CHOOSE i \in DOMAIN ts : ts[i] = k)
  ELSE ts

(* stop_timer for one slot after the other.                                *)
StopTimers(ts, slots) ==
  LET stopped[i \in 0 .. Len(slots)] ==
        IF i = 0 THEN ts ELSE StopTimer(stopped[i - 1], slots[i])
  IN stopped[Len(slots)]

(* start_timer: slot k runs for a full interval from now, so it is now the *)
(* last to go off, also when it was running already.                       *)
StartTimer(ts, k) == Append(StopTimer(ts, k), k)
=============================================================================
