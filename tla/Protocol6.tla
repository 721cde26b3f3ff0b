----------------------------- MODULE Protocol6 ------------------------------
(***************************************************************************)
(* Protocol 6 (p6.c): selective repeat.  A frame that arrives within the   *)
(* receiver's window is kept until those before it have arrived; a gap or  *)
(* a damaged frame is answered by a nak, once per expected frame; a timer  *)
(* per frame repeats that frame only; the auxiliary timer sends an ack     *)
(* when no frame of the worker's own carries it.  Both workers run         *)
(* protocol6.  One action per event of the loop body, frame_arrival in     *)
(* three by the kind of the frame.  No handler sends more than one frame.  *)
(***************************************************************************)
EXTENDS SlidingWindow

CONSTANTS
  Supply0,  \* bound: the packets the network layer of M0 hands out; it never
            \* runs dry, as in the code, when this is more than MaxPkt
  Supply1   \* bound: the same for M1

ASSUME Protocol6Assumption ==
  /\ MAX_SEQ % 2 = 1
  /\ Supply0 \in Nat /\ Supply1 \in Nat

VARIABLES
  out_buf,    \* buffers for the outbound stream
  seqs,       \* last sequence number sent per timer
  too_far,    \* upper edge of receiver's window + 1
  in_buf,     \* buffers for the inbound stream
  arrived,    \* inbound bit map
  no_nak,     \* no nak has been sent yet
  aux_timer   \* does the ack timer run?

send_vars == <<out_buf, seqs>>
receive_vars == <<too_far, in_buf, arrived>>
vars == <<link_vars, window_vars, send_vars, receive_vars, no_nak, aux_timer>>

NR_BUFS_NoParentheses == MAX_SEQ + (1 \div 2)

NR_BUFS == (MAX_SEQ + 1) \div 2

Buf == 0 .. NR_BUFS - 1

TypeOK ==
  /\ WindowTypeOK(NR_BUFS)
  /\ out_buf \in [Proc -> [Buf -> Pkt]] /\ in_buf \in [Proc -> [Buf -> Pkt]]
  /\ seqs \in [Proc -> [SeqNr -> SeqNr]] /\ too_far \in [Proc -> SeqNr]
  /\ arrived \in [Proc -> [Buf -> BOOLEAN]]
  /\ no_nak \in [Proc -> BOOLEAN] /\ aux_timer \in [Proc -> BOOLEAN]

(* Neither buffer is initialized in the code, nor read before it is set.   *)
Init ==
  /\ WindowInit
  /\ out_buf = [p \in Proc |-> [b \in Buf |-> 0]]
  /\ seqs = [p \in Proc |-> [k \in SeqNr |-> 0]]
  /\ too_far = [p \in Proc |-> NR_BUFS]
  /\ in_buf = [p \in Proc |-> [b \in Buf |-> 0]]
  /\ arrived = [p \in Proc |-> [b \in Buf |-> FALSE]]
  /\ no_nak = [p \in Proc |-> TRUE] /\ aux_timer = [p \in Proc |-> FALSE]

Supply(p) == IF p = 0 THEN Supply0 ELSE Supply1

(* enable_network_layer and disable_network_layer at the end of the loop.  *)
(* A network layer that has handed out its supply counts as disabled.      *)
NetworkLayerEnabled(p) == nbuffered[p] < NR_BUFS /\ next_net_pkt[p] < Supply(p)

-----------------------------------------------------------------------------
(* send_frame.  `received` is what is left of the frames to p.  The info   *)
(* of an ack or nak is whatever is on the stack; nobody reads it.          *)

Send(p, kind, nr, received) ==
  LET s == [kind |-> kind, seq |-> nr,
            ack |-> LastAccepted(p),
            info |-> IF kind = "data" THEN out_buf'[p][nr % NR_BUFS] ELSE 0]
  IN \E lost \in LossOutcomes :
       chan' = [chan EXCEPT ![p] = received, ![Peer(p)] = Transmit(@, s, lost)]

SendData_TimerPerBuffer(p, nr, received, running) ==
  /\ Send(p, "data", nr, received)
  /\ seqs' = [seqs EXCEPT ![p][nr] = nr]
  /\ timers' = [timers EXCEPT ![p] = StartTimer(running, nr % NR_BUFS)]
  /\ aux_timer' = [aux_timer EXCEPT ![p] = FALSE]

(* A data frame also starts its timer; the slot is its number, because     *)
(* init_max_seqnr has made nseqs MAX_SEQ + 1.                              *)
SendData(p, nr, received, running) ==
  /\ Send(p, "data", nr, received)
  /\ seqs' = [seqs EXCEPT ![p][nr] = nr]
  /\ timers' = [timers EXCEPT ![p] = StartTimer(running, nr)]
  /\ aux_timer' = [aux_timer EXCEPT ![p] = FALSE]

SendsNothing(p, received) == chan' = [chan EXCEPT ![p] = received]

-----------------------------------------------------------------------------

Start(p) ==
  EntersLoop(p) /\ UNCHANGED <<send_vars, receive_vars, no_nak, aux_timer>>

(* network_layer_ready: no frame in queue[], and room in the window.       *)
NetworkLayerReady(p) ==
  LET next == next_frame_to_send[p]
  IN /\ phase[p] = "wait" /\ nframes[p] = 0 /\ NetworkLayerEnabled(p)
     /\ nbuffered' = [nbuffered EXCEPT ![p] = @ + 1]
     /\ out_buf' = [out_buf EXCEPT ![p][next % NR_BUFS] = next_net_pkt[p]]
     /\ next_net_pkt' = [next_net_pkt EXCEPT ![p] = Inc(@, MaxPkt)]
     /\ SendData(p, next, chan[p], timers[p])
     /\ next_frame_to_send' = [next_frame_to_send EXCEPT ![p] = Inc(@, MAX_SEQ)]
     /\ BackToWait(p)
     /\ UNCHANGED <<nframes, last_pkt_given, ack_expected, frame_expected,
                    receive_vars, no_nak>>

(* Is r new, and within the receiver's window?                             *)
Wanted(p, r) ==
  /\ Between(frame_expected[p], r.seq, too_far[p])
  /\ ~arrived[p][r.seq % NR_BUFS]

Expected(p, i) == Advance(frame_expected[p], i, MAX_SEQ)

(* The bit map and the buffers with r stored, and the number of packets    *)
(* that can now be passed on.                                              *)
StoredMap(p, r) == [arrived[p] EXCEPT ![r.seq % NR_BUFS] = TRUE]

StoredBuf(p, r) == [in_buf[p] EXCEPT ![r.seq % NR_BUFS] = r.info]

Deliverable(p, r) ==
  CHOOSE n \in 0 .. NR_BUFS :
    /\ \A i \in 0 .. n - 1 : StoredMap(p, r)[Expected(p, i) % NR_BUFS]
    /\ n < NR_BUFS => ~StoredMap(p, r)[Expected(p, n) % NR_BUFS]

InOrder(p, r) ==
  \A i \in 0 .. Deliverable(p, r) - 1 :
    StoredBuf(p, r)[Expected(p, i) % NR_BUFS]
      = Advance(Inc(last_pkt_given[p], MaxPkt), i, MaxPkt)

(* A wanted frame is stored, and every packet that has no gap before it is *)
(* passed on; the window advances by as many frames.                       *)
StoreAndPassOn(p, r) ==
  LET n == Deliverable(p, r)
      passed == {Expected(p, i) % NR_BUFS : i \in 0 .. n - 1}
  IN /\ in_buf' = [in_buf EXCEPT ![p] = StoredBuf(p, r)]
     /\ arrived' = [arrived EXCEPT ![p] =
          [b \in Buf |-> StoredMap(p, r)[b] /\ b \notin passed]]
     /\ last_pkt_given' = [last_pkt_given EXCEPT ![p] = Advance(@, n, MaxPkt)]
     /\ frame_expected' = [frame_expected EXCEPT ![p] = Expected(p, n)]
     /\ too_far' = [too_far EXCEPT ![p] = Advance(@, n, MAX_SEQ)]

Gap(p, r) == r.seq # frame_expected[p] /\ no_nak[p]

(* frame_arrival of a data frame.  A gap is answered by a nak, anything    *)
(* else starts the ack timer; the window advance starts it in any case and *)
(* allows a new nak.                                                       *)
DataArrival(p) ==
  LET r == Head(chan[p])
      rest == Tail(chan[p])
      advances == Wanted(p, r) /\ Deliverable(p, r) > 0
  IN /\ TakesFrame(p) /\ r.kind = "data"
     /\ UNCHANGED <<next_net_pkt, next_frame_to_send, send_vars>>
     /\ IF Wanted(p, r) /\ ~InOrder(p, r)
        THEN /\ ExitWithProtocolError(p)
             /\ UNCHANGED <<ack_expected, nbuffered, frame_expected,
                            receive_vars, no_nak, aux_timer>>
        ELSE /\ IF Gap(p, r) THEN Send(p, "nak", 0, rest) ELSE SendsNothing(p, rest)
             /\ aux_timer' = [aux_timer EXCEPT ![p] = ~Gap(p, r) \/ advances]
             /\ no_nak' = [no_nak EXCEPT ![p] = (@ /\ ~Gap(p, r)) \/ advances]
             /\ IF Wanted(p, r) THEN StoreAndPassOn(p, r)
                                ELSE UNCHANGED <<last_pkt_given, frame_expected, receive_vars>>
             /\ HandleAck(p, r, timers[p])
             /\ BackToWait(p)

(* The frame a nak asks for: the one after the last one acknowledged.      *)
Missing(r) == (r.ack + 1) % (MAX_SEQ + 1)

(* frame_arrival of a nak: the missing frame, if it is outstanding, is     *)
(* sent again.                                                             *)
NakArrival(p) ==
  LET r == Head(chan[p])
      missing == Missing(r)
  IN /\ TakesFrame(p) /\ r.kind = "nak"
     /\ UNCHANGED <<next_net_pkt, last_pkt_given, next_frame_to_send,
                    frame_expected, out_buf, receive_vars, no_nak>>
     /\ IF Between(ack_expected[p], missing, next_frame_to_send[p])
        THEN /\ Send(p, "data", missing, Tail(chan[p]))
             /\ seqs' = [seqs EXCEPT ![p][missing] = missing]
             /\ aux_timer' = [aux_timer EXCEPT ![p] = FALSE]
             /\ HandleAck(p, r, StartTimer(timers[p], missing))
        ELSE /\ SendsNothing(p, Tail(chan[p]))
             /\ HandleAck(p, r, timers[p])
             /\ UNCHANGED <<seqs, aux_timer>>
     /\ BackToWait(p)

(* frame_arrival of an ack.                                                *)
AckArrival(p) ==
  /\ TakesFrame(p) /\ Head(chan[p]).kind = "ack"
  /\ SendsNothing(p, Tail(chan[p]))
  /\ HandleAck(p, Head(chan[p]), timers[p])
  /\ BackToWait(p)
  /\ UNCHANGED <<next_net_pkt, last_pkt_given, next_frame_to_send, frame_expected,
                 send_vars, receive_vars, no_nak, aux_timer>>

CksumErr_NakAlways(p) ==
  /\ MayGarble
  /\ TakesFrame(p)
  /\ Send(p, "nak", 0, Tail(chan[p]))
  /\ aux_timer' = [aux_timer EXCEPT ![p] = FALSE]
  /\ no_nak' = [no_nak EXCEPT ![p] = FALSE]
  /\ BackToWait(p)
  /\ UNCHANGED <<timers, next_net_pkt, last_pkt_given, window_vars,
                 send_vars, receive_vars>>

(* cksum_err: a nak, unless one has been sent.                             *)
CksumErr(p) ==
  /\ MayGarble
  /\ TakesFrame(p)
  /\ IF no_nak[p] THEN Send(p, "nak", 0, Tail(chan[p]))
                  ELSE SendsNothing(p, Tail(chan[p]))
  /\ aux_timer' = [aux_timer EXCEPT ![p] = @ /\ ~no_nak[p]]
  /\ no_nak' = [no_nak EXCEPT ![p] = FALSE]
  /\ BackToWait(p)
  /\ UNCHANGED <<timers, next_net_pkt, last_pkt_given, window_vars,
                 send_vars, receive_vars>>

(* get_timedout_seqnr: the number recorded for the slot that goes off.     *)
TimedOutSeqnr(p) == seqs[p][Head(timers[p])]

Timeout_NothingSent(p) ==
  /\ TimerGoesOff(p) /\ ~NetworkLayerEnabled(p)
  /\ timers' = [timers EXCEPT ![p] = Tail(@)]
  /\ BackToWait(p)
  /\ UNCHANGED <<chan, next_net_pkt, last_pkt_given, window_vars, send_vars,
                 receive_vars, no_nak, aux_timer>>

(* timeout: that frame is sent again.                                      *)
Timeout(p) ==
  /\ TimerGoesOff(p) /\ ~NetworkLayerEnabled(p)
  /\ UNCHANGED <<next_net_pkt, last_pkt_given, window_vars, out_buf,
                 receive_vars, no_nak>>
  /\ SendData(p, TimedOutSeqnr(p), chan[p], Tail(timers[p]))
  /\ BackToWait(p)

(* ack_timeout, which goes before all other events.                        *)
AckTimeout(p) ==
  /\ phase[p] = "wait" /\ aux_timer[p]
  /\ aux_timer' = [aux_timer EXCEPT ![p] = FALSE]
  /\ Send(p, "ack", 0, chan[p])
  /\ BackToWait(p)
  /\ UNCHANGED <<nframes, timers, next_net_pkt, last_pkt_given, window_vars,
                 send_vars, receive_vars, no_nak>>

Wait(p) ==
  /\ QueueFrames(p) \/ (NoEvent(p) /\ ~NetworkLayerEnabled(p))
  /\ UNCHANGED <<window_vars, send_vars, receive_vars, no_nak, aux_timer>>

Next == \E p \in Proc :
          \/ Start(p) \/ NetworkLayerReady(p)
          \/ DataArrival(p) \/ NakArrival(p) \/ AckArrival(p) \/ CksumErr(p)
          \/ Timeout(p) \/ AckTimeout(p) \/ Wait(p)

Spec == Init /\ [][Next]_vars

-----------------------------------------------------------------------------
(* Fairness.  main picks a worker at random for every tick, so any finite  *)
(* pattern of turns comes up again and again, also one in which a worker   *)
(* runs so often in a row that it takes all frames of queue[] and then its *)
(* clock passes its timers.  Loss and damage are tossed for each frame     *)
(* anew.  So a worker keeps running, and what can happen again and again   *)
(* does happen: a timeout or ack_timeout whose frame is not lost, and a    *)
(* frame that arrives undamaged and tells its receiver something.  That    *)
(* there are such timeouts and frames is up to the handlers.               *)
(*                                                                         *)
(* Nothing else is promised of the ack timer, which every arriving data    *)
(* frame puts off (p6.c): while its oldest frame is sent again and again,  *)
(* a worker may never send a separate ack.                                 *)

(* The bound on the frames under way must not stop the timers for good.    *)
CatchesUp(p) ==
  []<>(\/ phase[p] = "exited"
       \/ phase[p] = "wait" /\ nframes[p] = 0 /\ InFlight < MaxInFlight)

KeepsRunning(p) ==
  /\ CatchesUp(p)
  /\ WF_vars(NetworkLayerReady(p))
  /\ WF_vars(Timeout(p))
  /\ WF_vars(Wait(p))

Sends(p) == Len(chan'[Peer(p)]) = Len(chan[Peer(p)]) + 1

SendsOldest(p) ==
  /\ timers[p] # <<>> /\ TimedOutSeqnr(p) = ack_expected[p]
  /\ Timeout(p) /\ Sends(p)

IsOldest(p, r) == r.kind = "data" /\ r.seq = ack_expected[Peer(p)]

(* The oldest frame, or one that acknowledges something.                   *)
GetsNews(p) ==
  /\ nframes[p] > 0
  /\ IsOldest(p, Head(chan[p])) \/ Acked(p, Head(chan[p])) # {}
  /\ DataArrival(p) \/ NakArrival(p) \/ AckArrival(p)

Fairness ==
  \A p \in Proc :
    /\ KeepsRunning(p)
    /\ SF_vars(SendsOldest(p) \/ (AckTimeout(p) /\ Sends(p)))
    /\ SF_vars(GetsNews(p))

FairSpec == Spec /\ Fairness

-----------------------------------------------------------------------------
(* Properties.                                                             *)

(* The types are right and the windows of the two ends agree: the peer     *)
(* expects the frame after the ones it has passed on, both windows have    *)
(* the width the code relies on, and out_buf holds the packet of every     *)
(* outstanding frame, which a timer or a nak may ask for at any time.      *)
WindowsAgree ==
  /\ TypeOK
  /\ \A p \in Proc :
       /\ EdgesAgree(p)
       /\ next_frame_to_send[p] = Outstanding(p, nbuffered[p])
       /\ too_far[p] = Expected(p, NR_BUFS)
       /\ \A i \in 0 .. nbuffered[p] - 1 :
            Distance(out_buf[p][Outstanding(p, i) % NR_BUFS], next_net_pkt[p], MaxPkt)
              = nbuffered[p] - i

(* Is pkt the packet of frame nr, for a number in the window of p?         *)
CarriesPacketOf(p, nr, pkt) ==
  pkt = Advance(Inc(last_pkt_given[p], MaxPkt),
                Distance(frame_expected[p], nr, MAX_SEQ), MaxPkt)

(* NR_BUFS is half the sequence numbers: a data frame under way whose      *)
(* number is in the receiver's window, however old, carries the packet     *)
(* that belongs there, and so does every buffer marked in the bit map.     *)
(* The buffer of the expected frame is free between two events.            *)
FramesUnambiguous ==
  \A p \in Proc :
    LET window == {Expected(p, i) : i \in 0 .. NR_BUFS - 1}
    IN /\ \A i \in DOMAIN chan[p] :
            LET r == chan[p][i]
            IN r.kind = "data" /\ r.seq \in window => CarriesPacketOf(p, r.seq, r.info)
       /\ \A nr \in window :
            arrived[p][nr % NR_BUFS] => CarriesPacketOf(p, nr, in_buf[p][nr % NR_BUFS])
       /\ ~arrived[p][frame_expected[p] % NR_BUFS]

(* Exactly the outstanding frames have a running timer, each one, and the  *)
(* number recorded in seqs[] for its slot, which get_timedout_seqnr will   *)
(* return, is the number of that frame and not of an older one.            *)
TimersMatchWindow ==
  \A p \in Proc :
    /\ ToSet(timers[p]) = {Outstanding(p, i) : i \in 0 .. nbuffered[p] - 1}
    /\ IsInjective(timers[p])
    /\ \A k \in ToSet(timers[p]) : seqs[p][k] = k

(* "One nak per frame, please": of the naks under way at most one asks for *)
(* the frame now expected, and while there is one, no_nak says so.  Older  *)
(* naks ask for frames that have been passed on.                           *)
OneNak ==
  \A p \in Proc :
    LET naks == {i \in DOMAIN chan[Peer(p)] :
                  /\ chan[Peer(p)][i].kind = "nak"
                  /\ Missing(chan[Peer(p)][i]) = frame_expected[p]}
    IN Cardinality(naks) <= 1 /\ (naks # {} => ~no_nak[p])

(* The packets of each network layer reach the other one in order, each    *)
(* exactly once, and at most NR_BUFS of them are under way.                *)
Stream == INSTANCE PacketStream WITH Senders <- Proc, Window <- NR_BUFS

DeliversStream == Stream!Spec

(* Whatever is lost or damaged, frames, naks and acks, in the end every    *)
(* packet has been passed on and both senders know it: a nak is sent once  *)
(* only, and what no nak brings back the timers of p6.c do.                *)
EverythingArrives ==
  <>[](\A p \in Proc : nbuffered[p] = 0 /\ UnderWay(p) = 0
                       /\ next_net_pkt[p] = Supply(p))
=============================================================================
