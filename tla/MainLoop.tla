------------------------------ MODULE MainLoop ------------------------------
(***************************************************************************)
(* main, the process that runs start_simulator (simulator.c): it picks a   *)
(* worker for every tick, reads the worker's report, counts how long each  *)
(* worker has had nothing to do, gives the go-ahead, and at the end stops  *)
(* both workers and looks for their statistics in the two report pipes.    *)
(*                                                                         *)
(* A pipe is a sequence of words.  Time is not modelled: last_tick is a    *)
(* parameter of the run, so the loop may end whenever it is at its head.   *)
(* hanging counts in events, not in ticks, and no further than it matters. *)
(***************************************************************************)
EXTENDS Cyclic, SequencesExt

CONSTANT Timeout  \* timeout_interval / DELTA, in events

ASSUME MainLoopAssumption == Timeout \in Nat

VARIABLES
  pc,       \* "pick", "read", "write": in the loop; "terminate";
            \* "statistics": waiting for the workers to exit; "done"
  process,  \* whose turn is it
  hanging,  \* # times a process has done nothing
  verdict,  \* why the run ended: "running", "end", "deadlock" or "broken"
  ready,    \* per worker, the pipe with its reports
  go,       \* per worker, the pipe with its go-aheads
  printed   \* the four words the efficiency is computed from

main_vars == <<pc, process, hanging, verdict, printed>>
pipe_vars == <<ready, go>>

DEADLOCK == 3 * Timeout

Words == {"OK", "NOTHING", "zero", "accepted", "sent"}

MainTypeOK ==
  /\ pc \in {"pick", "read", "write", "terminate", "statistics", "done"}
  /\ process \in Proc
  /\ hanging \in [Proc -> 0 .. DEADLOCK]
  /\ verdict \in {"running", "end", "deadlock", "broken"}
  /\ ready \in [Proc -> Seq(Words)]
  /\ go \in [Proc -> Seq({"go", "stop"})]
  /\ printed \in Seq(Words)

MainInit ==
  /\ pc = "pick"
  /\ process = 0
  /\ hanging = [p \in Proc |-> 0]
  /\ verdict = "running"
  /\ ready = [p \in Proc |-> <<>>]
  /\ go = [p \in Proc |-> <<>>]
  /\ printed = <<>>

-----------------------------------------------------------------------------
(* The main simulation loop.                                               *)

Pick(p) ==
  /\ pc = "pick"
  /\ process' = p
  /\ pc' = "read"
  /\ UNCHANGED <<hanging, verdict, printed, pipe_vars>>

EndOfSimulation ==
  /\ pc = "pick"
  /\ pc' = "terminate"
  /\ verdict' = "end"
  /\ UNCHANGED <<process, hanging, printed, pipe_vars>>

(* A report of nothing to do adds an event, any other starts afresh.       *)
Hanging(word) ==
  [hanging EXCEPT ![process] = CASE word = "OK" -> 0
                                 [] word = "NOTHING" /\ @ < DEADLOCK -> @ + 1
                                 [] OTHER -> @]

(* Read the report of the worker; at the end of the file it has exited.    *)
ReadReport(exited) ==
  /\ pc = "read"
  /\ ready[process] # <<>> \/ exited
  /\ UNCHANGED <<process, go, printed>>
  /\ IF ready[process] = <<>>
     THEN pc' = "terminate" /\ verdict' = "broken" /\ UNCHANGED <<hanging, ready>>
     ELSE /\ ready' = [ready EXCEPT ![process] = Tail(@)]
          /\ hanging' = Hanging(Head(ready[process]))
          /\ IF \A p \in Proc : hanging'[p] >= DEADLOCK
             THEN pc' = "terminate" /\ verdict' = "deadlock"
             ELSE pc' = "write" /\ UNCHANGED verdict

GiveGoAhead ==
  /\ pc = "write"
  /\ pc' = "pick"
  /\ go' = [go EXCEPT ![process] = Append(@, "go")]
  /\ UNCHANGED <<process, hanging, verdict, printed, ready>>

-----------------------------------------------------------------------------
(* terminate.                                                              *)

StopWorkers_OnlyOne ==
  /\ pc = "terminate"
  /\ pc' = "statistics"
  /\ go' = [go EXCEPT ![0] = Append(@, "stop")]
  /\ UNCHANGED <<process, hanging, verdict, printed, ready>>

StopWorkers ==
  /\ pc = "terminate"
  /\ pc' = "statistics"
  /\ go' = [p \in Proc |-> Append(go[p], "stop")]
  /\ UNCHANGED <<process, hanging, verdict, printed, ready>>

(* The i-th word, from 0, of a buffer that was cleared and then filled     *)
(* from a pipe.                                                            *)
WordAt(res, i) == IF i < Len(res) THEN res[i + 1] ELSE "zero"

(* The zero word indicates start of statistics: the index after it.        *)
AfterZero(res) ==
  CHOOSE k \in 1 .. Len(res) + 1 :
    WordAt(res, k - 1) = "zero" /\ \A i \in 0 .. k - 2 : WordAt(res, i) # "zero"

(* Where terminate looks for the statistics of M0 and of M1.  The loop     *)
(* that should look for the zero in res2 looks in res1.                    *)
Statistics(res1, res2) ==
  LET k1 == AfterZero(res1)
      k2 == AfterZero(res1)
  IN <<WordAt(res1, k1), WordAt(res1, k1 + 1),
       WordAt(res2, k2), WordAt(res2, k2 + 1)>>

(* The sleep of terminate is longer than the workers take to exit.         *)
ReadStatistics(exited) ==
  /\ pc = "statistics"
  /\ exited
  /\ pc' = "done"
  /\ printed' = IF verdict = "broken" THEN <<>> ELSE Statistics(ready[0], ready[1])
  /\ ready' = [p \in Proc |-> <<>>]
  /\ UNCHANGED <<process, hanging, verdict, go>>

(* terminate finds the statistics of both workers: the words it adds up    *)
(* are numbers of accepted payloads and numbers of frames sent.            *)
StatisticsFound == printed = <<>> \/ printed = <<"accepted", "sent", "accepted", "sent">>
=============================================================================
