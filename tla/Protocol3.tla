----------------------------- MODULE Protocol3 ------------------------------
(***************************************************************************)
(* Protocol 3 (p3.c): positive acknowledgement with retransmission, data   *)
(* in one direction.  M0 runs sender3, M1 runs receiver3.  The sender ends *)
(* every handler by sending its current packet, also when the event was an *)
(* old acknowledgement or a checksum error; the receiver acknowledges      *)
(* every undamaged frame and says nothing about a damaged one.             *)
(***************************************************************************)
EXTENDS DataLink

VARIABLES
  next_frame_to_send,  \* of sender3: seq number of next outgoing frame
  buffer,              \* of sender3: the outbound packet
  frame_expected       \* of receiver3

sender_vars == <<next_frame_to_send, buffer>>
vars == <<link_vars, sender_vars, frame_expected>>

MAX_SEQ == 1

S == 0  \* the worker that runs sender3
R == 1  \* the worker that runs receiver3

TypeOK ==
  /\ LinkTypeOK(0 .. MAX_SEQ)
  /\ next_frame_to_send \in 0 .. MAX_SEQ
  /\ buffer \in Pkt
  /\ frame_expected \in 0 .. MAX_SEQ

Init ==
  /\ LinkInit
  /\ next_frame_to_send = 0
  /\ buffer = 0
  /\ frame_expected = 0

-----------------------------------------------------------------------------
(* sender3.                                                                *)

FetchPacket ==
  /\ buffer' = next_net_pkt[S]
  /\ next_net_pkt' = [next_net_pkt EXCEPT ![S] = Inc(@, MaxPkt)]

SendCurrent_NoTimer(received, running) ==
  LET s == [kind |-> "data", seq |-> next_frame_to_send', ack |-> 0, info |-> buffer']
  IN /\ \E lost \in LossOutcomes :
          chan' = [chan EXCEPT ![S] = received, ![R] = Transmit(@, s, lost)]
     /\ timers' = [timers EXCEPT ![S] = running]

(* The head of the sender's loop.  `received` is what is left of the       *)
(* acknowledgements, `running` the timers that still run.                  *)
SendCurrent(received, running) ==
  LET s == [kind |-> "data", seq |-> next_frame_to_send', ack |-> 0, info |-> buffer']
  IN /\ \E lost \in LossOutcomes :
          chan' = [chan EXCEPT ![S] = received, ![R] = Transmit(@, s, lost)]
     /\ timers' = [timers EXCEPT ![S] = StartTimer(running, s.seq)]

StartSender ==
  /\ phase[S] = "start"
  /\ FetchPacket
  /\ UNCHANGED <<next_frame_to_send, nframes>>
  /\ SendCurrent(chan[S], timers[S])
  /\ BackToWait(S)

Acknowledges_Any(ack) == TRUE

Acknowledges(ack) == ack = next_frame_to_send

(* frame_arrival: an acknowledgement of the current frame makes room for   *)
(* the next packet; any other is answered with the current frame again.    *)
AckArrival ==
  /\ TakesFrame(S)
  /\ LET ack == Head(chan[S]).ack
     IN IF Acknowledges(ack)
        THEN /\ FetchPacket
             /\ next_frame_to_send' = Inc(next_frame_to_send, MAX_SEQ)
             /\ SendCurrent(Tail(chan[S]), StopTimer(timers[S], ack))
        ELSE /\ UNCHANGED <<sender_vars, next_net_pkt>>
             /\ SendCurrent(Tail(chan[S]), timers[S])
  /\ BackToWait(S)

(* cksum_err at the sender.                                                *)
AckDamaged ==
  /\ MayGarble
  /\ TakesFrame(S)
  /\ UNCHANGED <<sender_vars, next_net_pkt>>
  /\ SendCurrent(Tail(chan[S]), timers[S])
  /\ BackToWait(S)

Timeout ==
  /\ TimerGoesOff(S)
  /\ UNCHANGED <<sender_vars, next_net_pkt>>
  /\ SendCurrent(chan[S], Tail(timers[S]))
  /\ BackToWait(S)

Sender ==
  /\ StartSender \/ AckArrival \/ AckDamaged \/ Timeout
  /\ UNCHANGED <<last_pkt_given, frame_expected>>

-----------------------------------------------------------------------------
(* receiver3.                                                              *)

StartReceiver ==
  /\ phase[R] = "start"
  /\ UNCHANGED <<chan, nframes, last_pkt_given, frame_expected>>
  /\ BackToWait(R)

(* Tell which frame is being acked: the last one passed on.                *)
SendAck(received) ==
  LET s == [kind |-> "ack", seq |-> 0, ack |-> 1 - frame_expected', info |-> 0]
  IN \E lost \in LossOutcomes :
       chan' = [chan EXCEPT ![R] = received, ![S] = Transmit(@, s, lost)]

IsExpected(r) == r.seq = frame_expected

AcceptPacket(r) ==
  IF IsExpected(r)
  THEN /\ last_pkt_given' = [last_pkt_given EXCEPT ![R] = r.info]
       /\ frame_expected' = Inc(frame_expected, MAX_SEQ)
  ELSE UNCHANGED <<last_pkt_given, frame_expected>>

(* frame_arrival.                                                          *)
DataArrival ==
  /\ TakesFrame(R)
  /\ LET r == Head(chan[R])
     IN IF IsExpected(r) /\ ~InSequence(R, r.info)
        THEN ExitWithProtocolError(R) /\ UNCHANGED frame_expected
        ELSE AcceptPacket(r) /\ SendAck(Tail(chan[R])) /\ BackToWait(R)

(* cksum_err at the receiver: the loop body does nothing.                  *)
DataDamaged ==
  /\ MayGarble
  /\ TakesFrame(R)
  /\ chan' = [chan EXCEPT ![R] = Tail(@)]
  /\ UNCHANGED <<last_pkt_given, frame_expected>>
  /\ BackToWait(R)

Receiver ==
  /\ StartReceiver \/ DataArrival \/ DataDamaged
  /\ UNCHANGED <<sender_vars, next_net_pkt, timers>>

-----------------------------------------------------------------------------

Wait(p) ==
  /\ QueueFrames(p) \/ NoEvent(p)
  /\ UNCHANGED <<sender_vars, frame_expected>>

Next == Sender \/ Receiver \/ \E p \in Proc : Wait(p)

Spec == Init /\ [][Next]_vars

(* Fairness, as for protocol 4: workers and undisturbed timers run, and of *)
(* infinitely many frames infinitely many are neither damaged nor lost.    *)
Sends(p) == Len(chan'[Peer(p)]) = Len(chan[Peer(p)]) + 1

Fairness ==
  /\ \A p \in Proc : WF_vars(Wait(p))
  /\ WF_vars(StartSender /\ Sender)
  /\ WF_vars(StartReceiver /\ Receiver)
  /\ WF_vars(Timeout /\ Sender)
  /\ SF_vars(AckArrival /\ Sender /\ Sends(S))
  /\ SF_vars(DataArrival /\ Receiver /\ Sends(R))
  /\ []<><<Timeout /\ Sender>>_vars => []<><<Timeout /\ Sender /\ Sends(S)>>_vars

FairSpec == Spec /\ Fairness

-----------------------------------------------------------------------------
(* Properties.                                                             *)

(* The heart of the protocol: the frames under way carry the previous      *)
(* number first and then the current one, those with the current number    *)
(* carry the current packet, and when the receiver already has that packet *)
(* no other frame is under way; the acknowledgements of the current frame  *)
(* come last, and there are none until the receiver has its packet.        *)
OneBitIsEnough ==
  LET current(i) == chan[R][i].seq = next_frame_to_send
      acks(i) == chan[S][i].ack = next_frame_to_send
      received == frame_expected # next_frame_to_send
  IN /\ \A i \in DOMAIN chan[R] :
          /\ current(i) => chan[R][i].info = buffer
          /\ received => current(i)
          /\ \A j \in DOMAIN chan[R] : i < j /\ current(i) => current(j)
     /\ \A i \in DOMAIN chan[S] :
          /\ acks(i) => received
          /\ \A j \in DOMAIN chan[S] : i < j /\ acks(i) => acks(j)

(* The sender is never left waiting for an acknowledgement that was lost:  *)
(* once it has started, the timer of its current frame runs, and no other. *)
TimerRuns == timers[S] = IF phase[S] = "start" THEN <<>> ELSE <<next_frame_to_send>>

(* The packets of M0's network layer reach M1's in order, each once, and   *)
(* none is fetched before the last one has been passed on.                 *)
Stream == INSTANCE PacketStream WITH Senders <- {S}, Window <- 1

DeliversStream == Stream!Spec

(* Progress: the receiving network layer keeps being given packets.        *)
Progress == []<><<last_pkt_given'[R] # last_pkt_given[R]>>_vars
=============================================================================
