----------------------------- MODULE Protocol5 ------------------------------
(***************************************************************************)
(* Protocol 5 (p5.c): go back n.  Up to MAX_SEQ frames may be on their     *)
(* way; they are accepted in order only, acknowledgements are piggybacked  *)
(* and count for all earlier frames, and on a timeout every outstanding    *)
(* frame is sent again.  Both workers run protocol5.  One action per event *)
(* of the loop body; the frames of the timeout loop are sent one per step, *)
(* because the peer may run in between.                                    *)
(***************************************************************************)
EXTENDS SlidingWindow

VARIABLES
  buffer,  \* buffers for the outbound stream
  left     \* frames the timeout loop still has to send

vars == <<link_vars, window_vars, buffer, left>>

TypeOK ==
  /\ WindowTypeOK(MAX_SEQ)
  /\ buffer \in [Proc -> [SeqNr -> Pkt]]
  /\ left \in [Proc -> 0 .. MAX_SEQ]

(* The buffers are uninitialized in the code; none is read before          *)
(* network_layer_ready has filled it.                                      *)
Init ==
  /\ WindowInit
  /\ buffer = [p \in Proc |-> [n \in SeqNr |-> 0]]
  /\ left = [p \in Proc |-> 0]

NetworkLayerEnabled_OneMore(p) == nbuffered[p] <= MAX_SEQ

(* enable_network_layer and disable_network_layer at the end of the loop   *)
(* body: between two handlers the status is a function of nbuffered.       *)
NetworkLayerEnabled(p) == nbuffered[p] < MAX_SEQ

(* send_data: frame `nr`, with the acknowledgement of the last frame       *)
(* accepted, is transmitted and its timer started.                         *)
SendData(p, nr, running) ==
  LET s == [kind |-> "data", seq |-> nr,
            ack |-> LastAccepted(p), info |-> buffer'[p][nr]]
  IN /\ \E lost \in LossOutcomes :
          chan' = [chan EXCEPT ![Peer(p)] = Transmit(@, s, lost)]
     /\ timers' = [timers EXCEPT ![p] = StartTimer(running, nr)]

Start(p) == EntersLoop(p) /\ UNCHANGED <<buffer, left>>

(* network_layer_ready: no frame in queue[], and room in the window.       *)
NetworkLayerReady(p) ==
  /\ phase[p] = "wait" /\ nframes[p] = 0 /\ NetworkLayerEnabled(p)
  /\ buffer' = [buffer EXCEPT ![p][next_frame_to_send[p]] = next_net_pkt[p]]
  /\ next_net_pkt' = [next_net_pkt EXCEPT ![p] = Inc(@, MaxPkt)]
  /\ nbuffered' = [nbuffered EXCEPT ![p] = @ + 1]
  /\ SendData(p, next_frame_to_send[p], timers[p])
  /\ next_frame_to_send' = [next_frame_to_send EXCEPT ![p] = Inc(@, MAX_SEQ)]
  /\ BackToWait(p)
  /\ UNCHANGED <<nframes, last_pkt_given, ack_expected, left, frame_expected>>

(* Frames are accepted only in order.                                      *)
CarriesExpected(p, r) == r.seq = frame_expected[p]

AcceptPacket(p, r) ==
  IF CarriesExpected(p, r)
  THEN /\ last_pkt_given' = [last_pkt_given EXCEPT ![p] = r.info]
       /\ frame_expected' = [frame_expected EXCEPT ![p] = Inc(@, MAX_SEQ)]
  ELSE UNCHANGED <<last_pkt_given, frame_expected>>

(* frame_arrival.                                                          *)
FrameArrival(p) ==
  /\ TakesFrame(p)
  /\ UNCHANGED <<next_net_pkt, next_frame_to_send, buffer, left>>
  /\ LET r == Head(chan[p])
     IN IF CarriesExpected(p, r) /\ ~InSequence(p, r.info)
        THEN /\ ExitWithProtocolError(p)
             /\ UNCHANGED <<ack_expected, nbuffered, frame_expected>>
        ELSE /\ AcceptPacket(p, r)
             /\ HandleAck(p, r, timers[p])
             /\ chan' = [chan EXCEPT ![p] = Tail(@)]
             /\ BackToWait(p)

(* cksum_err: the frame is ignored.                                        *)
CksumErr(p) ==
  /\ MayGarble
  /\ TakesFrame(p)
  /\ chan' = [chan EXCEPT ![p] = Tail(@)]
  /\ BackToWait(p)
  /\ UNCHANGED <<timers, next_net_pkt, last_pkt_given, window_vars, buffer, left>>

Timeout_NothingSent(p) ==
  /\ TimerGoesOff(p) /\ ~NetworkLayerEnabled(p)
  /\ timers' = [timers EXCEPT ![p] = Tail(@)]
  /\ BackToWait(p)
  /\ UNCHANGED <<chan, next_net_pkt, last_pkt_given, window_vars, buffer, left>>

(* timeout: go back to the oldest outstanding frame.  pick_event looks at  *)
(* the timers only when the network layer has nothing to send.             *)
Timeout(p) ==
  /\ TimerGoesOff(p) /\ ~NetworkLayerEnabled(p)
  /\ timers' = [timers EXCEPT ![p] = Tail(@)]
  /\ next_frame_to_send' = [next_frame_to_send EXCEPT ![p] = ack_expected[p]]
  /\ left' = [left EXCEPT ![p] = nbuffered[p]]
  /\ BackToWait(p)
  /\ UNCHANGED <<chan, next_net_pkt, last_pkt_given, ack_expected, buffer,
                 nbuffered, frame_expected>>

Resend_FirstOnly(p) ==
  /\ left[p] > 0
  /\ left' = [left EXCEPT ![p] = 0]
  /\ UNCHANGED <<phase, nframes, next_net_pkt, last_pkt_given, ack_expected,
                 buffer, nbuffered, frame_expected>>
  /\ SendData(p, next_frame_to_send[p], timers[p])
  /\ next_frame_to_send' = [next_frame_to_send EXCEPT ![p] = Inc(@, MAX_SEQ)]

(* One round of the timeout loop.                                          *)
Resend(p) ==
  /\ left[p] > 0
  /\ left' = [left EXCEPT ![p] = @ - 1]
  /\ UNCHANGED <<phase, nframes, next_net_pkt, last_pkt_given, ack_expected,
                 buffer, nbuffered, frame_expected>>
  /\ SendData(p, next_frame_to_send[p], timers[p])
  /\ next_frame_to_send' = [next_frame_to_send EXCEPT ![p] = Inc(@, MAX_SEQ)]

Wait(p) ==
  /\ \/ QueueFrames(p) /\ left[p] = 0
     \/ NoEvent(p) /\ ~NetworkLayerEnabled(p)
  /\ UNCHANGED <<window_vars, buffer, left>>

Next == \E p \in Proc :
          \/ Start(p) \/ NetworkLayerReady(p) \/ FrameArrival(p)
          \/ CksumErr(p) \/ Timeout(p) \/ Resend(p) \/ Wait(p)

Spec == Init /\ [][Next]_vars

-----------------------------------------------------------------------------
(* Fairness.  main keeps handing out ticks, so a worker that finds no      *)
(* frame and has room in its window takes the next packet, and a timer     *)
(* that runs while the window stays full goes off.  Loss and damage are    *)
(* tossed for each frame anew: of infinitely many retransmissions of the   *)
(* oldest frame infinitely many are neither lost nor damaged.              *)
(*                                                                         *)
(* CatchesUp is an assumption about a parameter of the program: the        *)
(* timeout interval is long enough for a worker to take all frames of a    *)
(* round before the next round arrives.  Frames go before new packets in   *)
(* pick_event, so with a shorter interval the worker is kept busy taking   *)
(* duplicates, sends nothing itself and so acknowledges nothing.           *)

CatchesUp(p) == []<>(phase[p] = "wait" /\ nframes[p] = 0)

TimersRunOut(p) == []<>(left[p] > 0 \/ NetworkLayerEnabled(p) \/ timers[p] = <<>>)

GoesBack(p) == left[p] > 0 /\ left[p] = nbuffered[p]

GetsOldest(p) == FrameArrival(p) /\ Head(chan[p]).seq = ack_expected[Peer(p)]

Fairness ==
  \A p \in Proc :
    /\ WF_vars(NetworkLayerReady(p))
    /\ CatchesUp(p)
    /\ TimersRunOut(p)
    /\ []<>GoesBack(p) => []<><<GetsOldest(Peer(p))>>_vars

FairSpec == Spec /\ Fairness

-----------------------------------------------------------------------------
(* Properties.                                                             *)

(* The types are right and the two ends agree about the window, also while *)
(* a timeout has set next_frame_to_send back: it is nbuffered frames ahead *)
(* of ack_expected less those still to be sent again; the peer expects the *)
(* frame after the ones it has passed on; and the buffers hold the         *)
(* nbuffered last packets fetched, in the order of their frames.           *)
WindowsAgree ==
  /\ TypeOK
  /\ \A p \in Proc :
       /\ EdgesAgree(p)
       /\ next_frame_to_send[p] = Outstanding(p, nbuffered[p] - left[p])
       /\ \A i \in 0 .. nbuffered[p] - 1 :
            Distance(buffer[p][Outstanding(p, i)], next_net_pkt[p], MaxPkt)
              = nbuffered[p] - i

(* MAX_SEQ outstanding frames are not too many for MAX_SEQ + 1 numbers:    *)
(* whatever was sent again or damaged, a frame under way that carries the  *)
(* number its receiver expects carries the packet it expects.              *)
FramesUnambiguous ==
  \A p \in Proc : \A i \in DOMAIN chan[p] :
    CarriesExpected(p, chan[p][i]) => InSequence(p, chan[p][i].info)

(* The running timers are those of the outstanding frames in the order of  *)
(* their numbers, so the one that goes off is always that of ack_expected, *)
(* the frame to go back to; in the middle of a retransmission those still  *)
(* to be sent come first.                                                  *)
TimersMatchWindow ==
  \A p \in Proc :
    LET n == nbuffered[p]
        behind == n - left[p]
        old == [i \in 1 .. left[p] |-> Outstanding(p, behind + i - 1)]
        new == [i \in 1 .. behind |-> Outstanding(p, i - 1)]
    IN timers[p] = (IF behind = 0 /\ n > 0 THEN Tail(old) ELSE old) \o new

(* The packets of each network layer reach the other one in order, each    *)
(* exactly once, and at most MAX_SEQ of them are under way.                *)
Stream == INSTANCE PacketStream WITH Senders <- Proc, Window <- MAX_SEQ

DeliversStream == Stream!Spec

(* Progress: both network layers keep being given packets, although        *)
(* protocol 5 acknowledges only with its own data frames.                  *)
Progress == \A p \in Proc : []<><<last_pkt_given'[p] # last_pkt_given[p]>>_vars
=============================================================================
