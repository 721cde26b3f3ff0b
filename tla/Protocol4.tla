----------------------------- MODULE Protocol4 ------------------------------
(***************************************************************************)
(* Protocol 4 (p4.c): a sliding window of one frame in both directions,    *)
(* acknowledgements piggybacked.  M0 runs protocol4 with wait_for_peer, M1 *)
(* without.  One action per event the loop body handles; every handler     *)
(* ends by sending the current frame and starting its timer.               *)
(***************************************************************************)
EXTENDS DataLink

VARIABLES
  next_frame_to_send,  \* 0 or 1 only
  frame_expected,      \* 0 or 1 only
  buffer               \* current packet being sent

vars == <<link_vars, next_frame_to_send, frame_expected, buffer>>

MAX_SEQ == 1

TypeOK ==
  /\ LinkTypeOK(0 .. MAX_SEQ)
  /\ next_frame_to_send \in [Proc -> 0 .. MAX_SEQ]
  /\ frame_expected \in [Proc -> 0 .. MAX_SEQ]
  /\ buffer \in [Proc -> Pkt]

Init ==
  /\ LinkInit
  /\ next_frame_to_send = [p \in Proc |-> 0]
  /\ frame_expected = [p \in Proc |-> 0]
  /\ buffer = [p \in Proc |-> 0]

(* protocol4_wfp is the protocol of M0, protocol4_nwfp that of M1.         *)
WaitsForPeer(p) == p = 0

(* from_network_layer(&buffer).                                            *)
FetchPacket(p) ==
  /\ buffer' = [buffer EXCEPT ![p] = next_net_pkt[p]]
  /\ next_net_pkt' = [next_net_pkt EXCEPT ![p] = Inc(@, MaxPkt)]

(* Does the frame carry the packet p expects, and does it acknowledge the  *)
(* packet p is sending?                                                    *)
CarriesExpected_Any(p, r) == TRUE

CarriesExpected(p, r) == r.seq = frame_expected[p]

Acknowledges_Any(p, r) == TRUE

Acknowledges(p, r) == r.ack = next_frame_to_send[p]

SendCurrent_StaleAck(p, received, running) ==
  LET s == [kind |-> "data", seq |-> next_frame_to_send'[p],
            ack |-> frame_expected'[p], info |-> buffer'[p]]
  IN /\ \E lost \in LossOutcomes :
          chan' = [chan EXCEPT ![p] = received, ![Peer(p)] = Transmit(@, s, lost)]
     /\ timers' = [timers EXCEPT ![p] = StartTimer(running, s.seq)]

SendCurrent_NoTimer(p, received, running) ==
  LET s == [kind |-> "data", seq |-> next_frame_to_send'[p],
            ack |-> 1 - frame_expected'[p], info |-> buffer'[p]]
  IN /\ \E lost \in LossOutcomes :
          chan' = [chan EXCEPT ![p] = received, ![Peer(p)] = Transmit(@, s, lost)]
     /\ timers' = [timers EXCEPT ![p] = running]

(* The tail of the loop body: construct a frame from the variables as the  *)
(* handler leaves them, transmit it and start the timer.  `received` is    *)
(* what is left of the frames to p, `running` the timers p still runs.     *)
SendCurrent(p, received, running) ==
  LET s == [kind |-> "data", seq |-> next_frame_to_send'[p],
            ack |-> 1 - frame_expected'[p], info |-> buffer'[p]]
  IN /\ \E lost \in LossOutcomes :
          chan' = [chan EXCEPT ![p] = received, ![Peer(p)] = Transmit(@, s, lost)]
     /\ timers' = [timers EXCEPT ![p] = StartTimer(running, s.seq)]

(* Before the loop: fetch a packet and, unless p waits for its peer, send. *)
Start(p) ==
  /\ phase[p] = "start"
  /\ FetchPacket(p)
  /\ UNCHANGED <<next_frame_to_send, frame_expected, nframes, last_pkt_given>>
  /\ IF WaitsForPeer(p) THEN UNCHANGED <<chan, timers>>
                        ELSE SendCurrent(p, chan[p], timers[p])
  /\ BackToWait(p)

(* The inbound half of frame_arrival: pass on the packet p expects.        *)
AcceptPacket(p, r) ==
  IF CarriesExpected(p, r)
  THEN /\ last_pkt_given' = [last_pkt_given EXCEPT ![p] = r.info]
       /\ frame_expected' = [frame_expected EXCEPT ![p] = Inc(@, MAX_SEQ)]
  ELSE UNCHANGED <<last_pkt_given, frame_expected>>

(* The outbound half: an acknowledged packet makes room for the next.      *)
HandleAck(p, r) ==
  IF Acknowledges(p, r)
  THEN /\ FetchPacket(p)
       /\ next_frame_to_send' = [next_frame_to_send EXCEPT ![p] = Inc(@, MAX_SEQ)]
  ELSE UNCHANGED <<buffer, next_net_pkt, next_frame_to_send>>

TimersAfter(p, r) ==
  IF Acknowledges(p, r) THEN StopTimer(timers[p], r.ack) ELSE timers[p]

(* frame_arrival.                                                          *)
FrameArrival(p) ==
  /\ TakesFrame(p)
  /\ LET r == Head(chan[p])
     IN IF CarriesExpected(p, r) /\ ~InSequence(p, r.info)
        THEN /\ ExitWithProtocolError(p)
             /\ UNCHANGED <<next_frame_to_send, frame_expected, buffer>>
        ELSE /\ AcceptPacket(p, r)
             /\ HandleAck(p, r)
             /\ SendCurrent(p, Tail(chan[p]), TimersAfter(p, r))
             /\ BackToWait(p)

(* cksum_err: the frame is dropped, and the current frame is sent again.   *)
CksumErr(p) ==
  /\ MayGarble
  /\ TakesFrame(p)
  /\ UNCHANGED <<next_frame_to_send, frame_expected, buffer,
                 next_net_pkt, last_pkt_given>>
  /\ SendCurrent(p, Tail(chan[p]), timers[p])
  /\ BackToWait(p)

(* timeout: the current frame is sent again.                               *)
Timeout(p) ==
  /\ TimerGoesOff(p)
  /\ UNCHANGED <<next_frame_to_send, frame_expected, buffer,
                 next_net_pkt, last_pkt_given>>
  /\ SendCurrent(p, chan[p], Tail(timers[p]))
  /\ BackToWait(p)

Wait(p) ==
  /\ QueueFrames(p) \/ NoEvent(p)
  /\ UNCHANGED <<next_frame_to_send, frame_expected, buffer>>

Next == \E p \in Proc : Start(p) \/ FrameArrival(p) \/ CksumErr(p)
                          \/ Timeout(p) \/ Wait(p)

Spec == Init /\ [][Next]_vars

-----------------------------------------------------------------------------
(* Fairness.  main keeps handing out ticks, to a worker chosen at random   *)
(* for every tick, so a worker that is waiting runs again, and a timer     *)
(* that nothing disturbs runs out.  Every loss and every checksum error is *)
(* an independent coin toss: of infinitely many frames taken, infinitely   *)
(* many are undamaged and answered by a frame that is not lost; of         *)
(* infinitely many timeouts, infinitely many send a frame that is not lost.*)

Sends(p) == Len(chan'[Peer(p)]) = Len(chan[Peer(p)]) + 1

Fairness ==
  \A p \in Proc :
    /\ WF_vars(Start(p))
    /\ WF_vars(Wait(p))
    /\ WF_vars(Timeout(p))
    /\ SF_vars(FrameArrival(p) /\ Sends(p))
    /\ []<><<Timeout(p)>>_vars => []<><<Timeout(p) /\ Sends(p)>>_vars

FairSpec == Spec /\ Fairness

-----------------------------------------------------------------------------
(* Properties.                                                             *)

(* One bit is enough.  Whatever is lost, damaged or sent twice, the frames *)
(* on their way from p to its peer are some with the previous number       *)
(* followed by some with the current one; the current ones carry p's       *)
(* current packet; and once the peer has passed that packet on, no frame   *)
(* with the previous number, which it would take for the next packet, is   *)
(* still under way.                                                        *)
FramesAlternate ==
  \A p \in Proc :
    LET frames == chan[Peer(p)]
        current(i) == frames[i].seq = next_frame_to_send[p]
    IN \A i \in DOMAIN frames :
         /\ current(i) => frames[i].info = buffer[p]
         /\ \A j \in DOMAIN frames : i < j /\ current(i) => current(j)
         /\ frame_expected[Peer(p)] # next_frame_to_send[p] => current(i)

(* The same for acknowledgements: on their way to p are some for an older  *)
(* frame followed by some for its current frame, and an acknowledgement of *)
(* the current frame exists only after the peer has passed the packet on.  *)
AcksAlternate ==
  \A p \in Proc :
    LET acks(i) == chan[p][i].ack = next_frame_to_send[p]
    IN \A i \in DOMAIN chan[p] :
         /\ \A j \in DOMAIN chan[p] : i < j /\ acks(i) => acks(j)
         /\ acks(i) => frame_expected[Peer(p)] # next_frame_to_send[p]

(* The two ends agree: the peer expects the number p is sending exactly    *)
(* when the packet in p's buffer is the next one it has to pass on;        *)
(* otherwise that packet was its last.  That packet is also the last one p *)
(* has fetched; before p has fetched its first, nothing is under way.      *)
EndsAgree ==
  \A p \in Proc :
    LET q == Peer(p)
        ahead == frame_expected[q] # next_frame_to_send[p]
    IN /\ buffer[p] = IF ahead THEN last_pkt_given[q] ELSE Inc(last_pkt_given[q], MaxPkt)
       /\ IF phase[p] = "start"
          THEN next_net_pkt[p] = buffer[p] /\ ~ahead /\ chan[q] = <<>>
          ELSE next_net_pkt[p] = Inc(buffer[p], MaxPkt)

(* Nobody can be left waiting: between two handlers the timer of the       *)
(* current frame of p is running, and no other one.  The exception is M0   *)
(* while it waits for its peer, and then it has sent nothing yet.          *)
TimerRuns ==
  \A p \in Proc :
    \/ timers[p] = <<next_frame_to_send[p]>>
    \/ /\ timers[p] = <<>>
       /\ phase[p] = "start" \/ WaitsForPeer(p)
       /\ next_frame_to_send[p] = 0 /\ chan[Peer(p)] = <<>>

(* The three together: they do not hold one without the others.            *)
AlternatingBitWorks ==
  FramesAlternate /\ AcksAlternate /\ EndsAgree

(* The packets of each network layer reach the other one in order, each    *)
(* exactly once, and a packet is fetched only when the one before it has   *)
(* been passed on.                                                         *)
Stream == INSTANCE PacketStream WITH Senders <- Proc, Window <- 1

DeliversStream == Stream!Spec

(* The comment on wait_for_peer: "If we wait for the peer, we do not send  *)
(* a packet until we received a packet from the peer."                     *)
WaitsForAPacket ==
  [][\A p \in Proc :
       WaitsForPeer(p) /\ timers[p] = <<>> /\ timers'[p] # <<>>
         => last_pkt_given'[p] # last_pkt_given[p]]_vars

(* Progress: both network layers keep being given packets.                 *)
Progress == \A p \in Proc : []<><<last_pkt_given'[p] # last_pkt_given[p]>>_vars
=============================================================================
