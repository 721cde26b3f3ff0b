------------------------------ MODULE DataLink ------------------------------
(***************************************************************************)
(* The worker half of simulator.c as an event-driven protocol sees it: the *)
(* frames on their way to each worker, the event loop of wait_for_event,   *)
(* the data frame timers, and the two network layers.                      *)
(*                                                                         *)
(* The pipe to a worker and its array queue[] hold the frames in the order *)
(* they were sent (module FrameQueue is about the array), so they are one  *)
(* sequence here, chan[p], of which the first nframes[p] are already in    *)
(* queue[].  The difference matters: pick_event looks at queue[] only, so  *)
(* a timer can go off while a frame is waiting in the pipe.                *)
(*                                                                         *)
(* main hands out go-aheads in an order nobody controls, so a waiting      *)
(* worker may run at any time.  The two workers run concurrently: what one *)
(* does between two accesses to a pipe is a single step.                   *)
(***************************************************************************)
EXTENDS Cyclic, TimerOrder

CONSTANTS
  MaxPkt,      \* the largest unsigned int, 2^32 - 1 in the code
  MayLose,     \* pkt_loss > 0
  MayGarble,   \* garbled > 0
  MaxInFlight  \* bound: no timer goes off when this many frames are in flight

ASSUME DataLinkAssumption ==
  /\ MaxPkt \in Nat \ {0} /\ MaxInFlight \in Nat
  /\ MayLose \in BOOLEAN /\ MayGarble \in BOOLEAN

VARIABLES
  phase,          \* "start": before the first wait_for_event;
                  \* "queue_frames": about to look at the pipe;
                  \* "wait": waiting for the go-ahead of main;
                  \* "exited": stopped with a protocol error
  chan,           \* the frames sent to each worker and not yet taken
  nframes,        \* how many of them are in queue[]
  timers,         \* the running data frame timers of each worker
  next_net_pkt,   \* seq of next network packet to fetch
  last_pkt_given  \* seq of last pkt delivered

link_vars == <<phase, chan, nframes, timers, next_net_pkt, last_pkt_given>>

Pkt == 0 .. MaxPkt

Frame == [kind : {"data", "ack", "nak"}, seq : Nat, ack : Nat, info : Pkt]

LinkTypeOK(Slots) ==
  /\ phase \in [Proc -> {"start", "queue_frames", "wait", "exited"}]
  /\ chan \in [Proc -> Seq(Frame)]
  /\ nframes \in [Proc -> Nat]
  /\ \A p \in Proc : nframes[p] <= Len(chan[p])
  /\ timers \in [Proc -> Seq(Slots)]
  /\ next_net_pkt \in [Proc -> Pkt]
  /\ last_pkt_given \in [Proc -> Pkt]

(* Packet numbers start at 0; last_pkt_given starts one below, at the      *)
(* largest unsigned int.                                                   *)
LinkInit ==
  /\ phase = [p \in Proc |-> "start"]
  /\ chan = [p \in Proc |-> <<>>]
  /\ nframes = [p \in Proc |-> 0]
  /\ timers = [p \in Proc |-> <<>>]
  /\ next_net_pkt = [p \in Proc |-> 0]
  /\ last_pkt_given = [p \in Proc |-> MaxPkt]

InFlight == Len(chan[0]) + Len(chan[1])

-----------------------------------------------------------------------------
(* The services a handler uses.                                            *)

(* The outcomes of the coin tossed for a frame that is sent: is it lost?   *)
LossOutcomes == IF MayLose THEN {TRUE, FALSE} ELSE {FALSE}

(* to_physical_layer: a lost frame is never written to the pipe.           *)
Transmit(frames, s, lost) == IF lost THEN frames ELSE Append(frames, s)

(* to_network_layer accepts the packet; otherwise the worker exits.        *)
InSequence(p, pkt) == pkt = Inc(last_pkt_given[p], MaxPkt)

-----------------------------------------------------------------------------
(* The event loop.                                                         *)

(* The worker moves all frames of the pipe to queue[] and tells main that  *)
(* it is ready.                                                            *)
QueueFrames(p) ==
  /\ phase[p] = "queue_frames"
  /\ phase' = [phase EXCEPT ![p] = "wait"]
  /\ nframes' = [nframes EXCEPT ![p] = Len(chan[p])]
  /\ UNCHANGED <<chan, timers, next_net_pkt, last_pkt_given>>

(* A go-ahead with nothing to do: no frame in queue[], and no timer that   *)
(* has run out.  The loop goes round and looks at the pipe again.          *)
NoEvent(p) ==
  /\ phase[p] = "wait"
  /\ nframes[p] = 0
  /\ nframes' = [nframes EXCEPT ![p] = Len(chan[p])]
  /\ UNCHANGED <<phase, chan, timers, next_net_pkt, last_pkt_given>>

TakesFrame_KeepsCount(p) ==
  /\ phase[p] = "wait"
  /\ nframes[p] > 0
  /\ UNCHANGED nframes

(* frametype: the go-ahead finds a frame in queue[], which is removed.     *)
TakesFrame(p) ==
  /\ phase[p] = "wait"
  /\ nframes[p] > 0
  /\ nframes' = [nframes EXCEPT ![p] = @ - 1]

(* The timer that goes off is turned off.  Frames have priority over       *)
(* timers; a timer may not have run out yet, so this step may be late.     *)
TimerGoesOff(p) ==
  /\ phase[p] = "wait"
  /\ nframes[p] = 0
  /\ timers[p] # <<>>
  /\ InFlight < MaxInFlight
  /\ UNCHANGED nframes

(* The handler is done and calls wait_for_event.                           *)
BackToWait(p) == phase' = [phase EXCEPT ![p] = "queue_frames"]

(* A packet out of order: the worker prints a message and exits.           *)
ExitWithProtocolError(p) ==
  /\ phase' = [phase EXCEPT ![p] = "exited"]
  /\ chan' = [chan EXCEPT ![p] = Tail(@)]
  /\ UNCHANGED <<timers, next_net_pkt, last_pkt_given>>

(* The check of to_network_layer never fails: every packet reaches the     *)
(* network layer in order, none twice and none skipped, so no worker stops *)
(* with "Packet delivered out of order".                                   *)
NoProtocolError == \A p \in Proc : phase[p] # "exited"
=============================================================================
