----------------------------- MODULE Protocol2 ------------------------------
(***************************************************************************)
(* Protocol 2 (p2.c), stop-and-wait over a channel assumed to be free of   *)
(* errors, together with main and the three-way handshake between main and *)
(* the two workers.  M0 runs sender2, M1 runs receiver2.                   *)
(*                                                                         *)
(* The protocol starts no timer, so a lost frame is the end: both workers  *)
(* report nothing to do until main declares a deadlock.  It does not look  *)
(* at the event, so a checksum error is a frame like any other here.       *)
(***************************************************************************)
EXTENDS MainLoop

CONSTANTS
  MaxPkt,  \* the largest unsigned int
  MayLose  \* pkt_loss > 0

ASSUME Protocol2Assumption == MaxPkt \in Nat \ {0} /\ MayLose \in BOOLEAN

VARIABLES
  phase,          \* "start"; "report": about to queue frames and report to
                  \* main; "wait": for the go-ahead; "exited"
  word,           \* what the worker reports next
  chan,           \* the frames sent to each worker and not yet taken: the
                  \* data frame carries a packet, the dummy frame a zero
  nframes,        \* how many of them are in queue[]
  next_net_pkt,   \* seq of next network packet to fetch
  last_pkt_given  \* seq of last pkt delivered

worker_vars == <<phase, word, chan, nframes, next_net_pkt, last_pkt_given>>
vars == <<main_vars, pipe_vars, worker_vars>>

Pkt == 0 .. MaxPkt

S == 0  \* sender2
R == 1  \* receiver2

TypeOK ==
  /\ MainTypeOK
  /\ phase \in [Proc -> {"start", "report", "wait", "exited"}]
  /\ word \in [Proc -> {"OK", "NOTHING"}]
  /\ chan \in [Proc -> Seq(Pkt)]
  /\ nframes \in [Proc -> Nat]
  /\ \A p \in Proc : nframes[p] <= Len(chan[p])
  /\ next_net_pkt \in [Proc -> Pkt]
  /\ last_pkt_given \in [Proc -> Pkt]

Init ==
  /\ MainInit
  /\ phase = [p \in Proc |-> "start"]
  /\ word = [p \in Proc |-> "OK"]
  /\ chan = [p \in Proc |-> <<>>]
  /\ nframes = [p \in Proc |-> 0]
  /\ next_net_pkt = [p \in Proc |-> 0]
  /\ last_pkt_given = [p \in Proc |-> MaxPkt]

-----------------------------------------------------------------------------
(* The protocol.                                                           *)

LossOutcomes == IF MayLose THEN {TRUE, FALSE} ELSE {FALSE}

(* to_physical_layer, after taking the first frame of `received`.          *)
Transmit(p, received, info) ==
  \E lost \in LossOutcomes :
    chan' = [chan EXCEPT ![p] = received,
                         ![Peer(p)] = IF lost THEN @ ELSE Append(@, info)]

(* The loop body of sender2 up to wait_for_event: a new packet, whatever   *)
(* the frame that was received said.                                       *)
SendNext(received) ==
  /\ next_net_pkt' = [next_net_pkt EXCEPT ![S] = Inc(@, MaxPkt)]
  /\ Transmit(S, received, next_net_pkt[S])
  /\ phase' = [phase EXCEPT ![S] = "report"]
  /\ UNCHANGED last_pkt_given

(* The loop body of receiver2 after wait_for_event: pass on the packet and *)
(* wake up the sender; to_network_layer exits when it is out of sequence.  *)
PassOn(received, pkt) ==
  /\ UNCHANGED next_net_pkt
  /\ IF pkt = Inc(last_pkt_given[R], MaxPkt)
     THEN /\ last_pkt_given' = [last_pkt_given EXCEPT ![R] = pkt]
          /\ Transmit(R, received, 0)
          /\ phase' = [phase EXCEPT ![R] = "report"]
     ELSE /\ phase' = [phase EXCEPT ![R] = "exited"]
          /\ chan' = [chan EXCEPT ![R] = received]
          /\ UNCHANGED last_pkt_given

Handle(p, received, pkt) == IF p = S THEN SendNext(received) ELSE PassOn(received, pkt)

-----------------------------------------------------------------------------
(* wait_for_event.                                                         *)

Start(p) ==
  /\ phase[p] = "start"
  /\ IF p = S THEN SendNext(chan[S])
     ELSE /\ phase' = [phase EXCEPT ![p] = "report"]
          /\ UNCHANGED <<chan, next_net_pkt, last_pkt_given>>
  /\ UNCHANGED <<word, nframes, pipe_vars>>

(* Queue the frames of the pipe and tell main how the last go-ahead went.  *)
Report(p) ==
  /\ phase[p] = "report"
  /\ phase' = [phase EXCEPT ![p] = "wait"]
  /\ ready' = [ready EXCEPT ![p] = Append(@, word[p])]
  /\ nframes' = [nframes EXCEPT ![p] = Len(chan[p])]
  /\ UNCHANGED <<word, go, chan, next_net_pkt, last_pkt_given>>

GoAhead(p) ==
  /\ phase[p] = "wait"
  /\ go[p] # <<>> /\ Head(go[p]) = "go"
  /\ go' = [go EXCEPT ![p] = Tail(@)]
  /\ UNCHANGED ready

TakeFrame_KeepsCount(p) ==
  /\ GoAhead(p)
  /\ nframes[p] > 0
  /\ UNCHANGED nframes
  /\ word' = [word EXCEPT ![p] = "OK"]
  /\ Handle(p, Tail(chan[p]), Head(chan[p]))

(* frametype takes the first frame, whatever it is, and the protocol runs. *)
TakeFrame(p) ==
  /\ GoAhead(p)
  /\ nframes[p] > 0
  /\ nframes' = [nframes EXCEPT ![p] = @ - 1]
  /\ word' = [word EXCEPT ![p] = "OK"]
  /\ Handle(p, Tail(chan[p]), Head(chan[p]))

NoEvent_Returns(p) ==
  /\ GoAhead(p)
  /\ nframes[p] = 0
  /\ word' = [word EXCEPT ![p] = "NOTHING"]
  /\ UNCHANGED nframes
  /\ Handle(p, chan[p], next_net_pkt[S])

NoEvent_Silent(p) ==
  /\ GoAhead(p)
  /\ nframes[p] = 0
  /\ word' = [word EXCEPT ![p] = "NOTHING"]
  /\ UNCHANGED <<phase, chan, nframes, next_net_pkt, last_pkt_given>>

(* No frame, and no timer was ever started: lowest_timer is 0.             *)
NoEvent(p) ==
  /\ GoAhead(p)
  /\ nframes[p] = 0
  /\ word' = [word EXCEPT ![p] = "NOTHING"]
  /\ phase' = [phase EXCEPT ![p] = "report"]
  /\ UNCHANGED <<chan, nframes, next_net_pkt, last_pkt_given>>

PrintStatistics_NoZero(p) ==
  /\ phase[p] = "wait"
  /\ go[p] # <<>> /\ Head(go[p]) = "stop"
  /\ go' = [go EXCEPT ![p] = Tail(@)]
  /\ ready' = [ready EXCEPT ![p] = @ \o <<"accepted", "sent">>]
  /\ phase' = [phase EXCEPT ![p] = "exited"]
  /\ UNCHANGED <<word, chan, nframes, next_net_pkt, last_pkt_given>>

(* print_statistics.  It sleeps long enough for the peer to finish what it *)
(* is doing, so nobody writes to a pipe whose reader is gone.              *)
PrintStatistics(p) ==
  /\ phase[p] = "wait"
  /\ go[p] # <<>> /\ Head(go[p]) = "stop"
  /\ go' = [go EXCEPT ![p] = Tail(@)]
  /\ ready' = [ready EXCEPT ![p] = @ \o <<"zero", "accepted", "sent">>]
  /\ phase' = [phase EXCEPT ![p] = "exited"]
  /\ UNCHANGED <<word, chan, nframes, next_net_pkt, last_pkt_given>>

Worker(p) ==
  /\ Start(p) \/ Report(p) \/ TakeFrame(p) \/ NoEvent(p) \/ PrintStatistics(p)
  /\ UNCHANGED main_vars

Loop ==
  \/ EndOfSimulation
  \/ ReadReport(phase[process] = "exited")
  \/ GiveGoAhead
  \/ StopWorkers
  \/ ReadStatistics(\A p \in Proc : phase[p] = "exited")

Main ==
  /\ Loop \/ \E p \in Proc : Pick(p)
  /\ UNCHANGED worker_vars

Next == Main \/ \E p \in Proc : Worker(p)

Spec == Init /\ [][Next]_vars

(* Every process keeps running, and the random choice of main picks each   *)
(* worker again and again.                                                 *)
Fairness ==
  /\ WF_vars(Main)
  /\ \A p \in Proc : WF_vars(Worker(p)) /\ SF_vars(Main /\ Pick(p))

FairSpec == Spec /\ Fairness

-----------------------------------------------------------------------------
(* Properties.                                                             *)

(* The handshake: while the run lasts, exactly one of these is true of     *)
(* every worker: it is running; its report is in the pipe; main holds its  *)
(* report; its go-ahead is in the pipe.  So main never blocks on a worker  *)
(* that waits for main, and never runs ahead of one.                       *)
Handshake ==
  verdict = "running" =>
    \A p \in Proc :
      LET working == IF phase[p] \in {"start", "report"} THEN 1 ELSE 0
          held == IF pc = "write" /\ process = p THEN 1 ELSE 0
      IN working + held + Len(ready[p]) + Len(go[p]) = 1

(* "The protocol must explicitly prevent the sender from flooding the      *)
(* receiver": there is never more than one frame on the link, and the      *)
(* packet on its way is the one the receiver has to pass on next.          *)
OneFrameOnTheLink ==
  /\ Len(chan[S]) + Len(chan[R]) <= 1
  /\ \A i \in DOMAIN chan[R] : chan[R][i] = Inc(last_pkt_given[R], MaxPkt)

(* The packets of M0's network layer reach M1's in order, each once: when  *)
(* a frame is lost the stream stops, but it never skips a packet.          *)
Stream == INSTANCE PacketStream WITH Senders <- {S}, Window <- 1

DeliversStream == Stream!Spec

(* A frame has been lost: nothing is on the link and nobody will send.     *)
Stuck == (\A p \in Proc : phase[p] # "start") /\ chan = [p \in Proc |-> <<>>]

(* When a frame was lost main finds out: the run does not last for ever.   *)
DeadlockIsFound == Stuck ~> verdict # "running"

(* terminate ends the run: both workers see the zero word, in whatever     *)
(* state it finds them, and main prints the statistics.                    *)
RunEnds == pc = "terminate" ~> pc = "done"

(* At the end of a run that was not cut short terminate finds the          *)
(* statistics of both workers.                                             *)
StatisticsAtEnd == verdict = "end" => StatisticsFound

(* The comment in terminate: "res1[k2] = accepted, res1[k2+1] = sent".     *)
StatisticsInBothPipes == StatisticsFound
=============================================================================
