-------------------------- MODULE Protocol3_proofs --------------------------
(***************************************************************************)
(* Proofs about protocol 3, for every range of packet numbers and any      *)
(* number of frames under way.  There is one link, from the sender S to    *)
(* the receiver R; what its steps do to it is in DataLink_proofs.          *)
(***************************************************************************)
EXTENDS Protocol3, DataLink_proofs

(* The link in the terms of DataLink_proofs: besides OneBitIsEnough this   *)
(* says that the packet in buffer is the last one passed on or the one     *)
(* after it.                                                               *)
Link ==
  LinkOK(chan[R], chan[S], next_frame_to_send, frame_expected, buffer, last_pkt_given[R])

(* The sender has fetched the packet in its buffer and no more; before it  *)
(* starts nothing has been sent.                                           *)
Fetched ==
  IF phase[S] = "start"
  THEN /\ next_net_pkt[S] = buffer /\ chan[R] = <<>>
       /\ frame_expected = next_frame_to_send
  ELSE next_net_pkt[S] = Inc(buffer, MaxPkt)

(* The inductive invariant.                                                *)
IInv == TypeOK /\ NoProtocolError /\ Link /\ Fetched /\ TimerRuns

(* There are the sender and the receiver and nobody else.                  *)
LEMMA Workers == S \in Proc /\ R \in Proc /\ S # R /\ \A x \in Proc : x = S \/ x = R
  BY DEF S, R, Proc

(* What the conjuncts of the invariant say of the variables.               *)
LEMMA Facts ==
  ASSUME IInv
  PROVE  /\ TypeOK /\ NoProtocolError /\ Link /\ Fetched /\ TimerRuns
         /\ S \in Proc /\ R \in Proc /\ S # R /\ \A x \in Proc : x = S \/ x = R
         /\ LinkTypeOK(0 .. MAX_SEQ)
         /\ chan \in [Proc -> Seq(Frame)] /\ nframes \in [Proc -> Nat]
         /\ chan[R] \in Seq(Frame) /\ chan[S] \in Seq(Frame)
         /\ nframes[R] <= Len(chan[R]) /\ nframes[S] <= Len(chan[S])
         /\ next_frame_to_send \in Bit /\ frame_expected \in Bit
         /\ buffer \in Pkt /\ last_pkt_given \in [Proc -> Pkt]
         /\ next_net_pkt \in [Proc -> Pkt]
  BY Workers DEF IInv, TypeOK, LinkTypeOK, MAX_SEQ, Bit

(* The invariant is stronger than the property the run checks.             *)
LEMMA LinkImpliesOneBit == ASSUME IInv PROVE OneBitIsEnough
<1>1. /\ DOMAIN chan[R] = 1 .. Len(chan[R]) /\ DOMAIN chan[S] = 1 .. Len(chan[S])
  BY Facts, LenProperties
<1>2. /\ FramesOK(chan[R], next_frame_to_send, frame_expected, buffer)
      /\ AcksOK(chan[S], next_frame_to_send, frame_expected)
  BY Facts DEF Link, LinkOK
<1> QED
  BY <1>1, <1>2 DEF OneBitIsEnough, FramesOK, AcksOK

(* Init establishes the invariant.                                         *)
LEMMA InitInvariant == Init => IInv
<1> SUFFICES ASSUME Init PROVE IInv
  OBVIOUS
<1> USE DataLinkAssumption DEF Init, LinkInit
<1>1. TypeOK
  BY EmptySeq DEF TypeOK, LinkTypeOK, MAX_SEQ, Pkt
<1>2. NoProtocolError
  BY DEF NoProtocolError
<1>3. Link
  <2>1. chan[R] = <<>> /\ chan[S] = <<>> /\ last_pkt_given[R] = MaxPkt
    BY Workers
  <2>2. LinkTyped(<<>>, <<>>, 0, 0, 0, MaxPkt)
    BY EmptySeq DEF LinkTyped, Bit, Pkt
  <2>3. FramesOK(<<>>, 0, 0, 0) /\ AcksOK(<<>>, 0, 0)
    BY DEF FramesOK, AcksOK
  <2>4. EndsOK(0, 0, 0, MaxPkt)
    BY DEF EndsOK, Inc
  <2> QED
    BY <2>1, <2>2, <2>3, <2>4 DEF Link, LinkOK
<1>4. Fetched /\ TimerRuns
  BY Workers DEF Fetched, TimerRuns
<1> QED
  BY <1>1, <1>2, <1>3, <1>4 DEF IInv

-----------------------------------------------------------------------------
(* The sender.                                                             *)

(* How every handler of the sender ends.  When the link is in order with   *)
(* what the handler has done so far, it is in order after the frame has    *)
(* been sent, or lost.                                                     *)
LEMMA SenderStep ==
  ASSUME IInv,
         NEW received \in Seq(Frame), NEW running,
         SendCurrent(received, running), BackToWait(S),
         running \in {<<>>, <<next_frame_to_send'>>},
         nframes' = [nframes EXCEPT ![S] = nframes'[S]],
         nframes'[S] \in Nat, nframes'[S] <= Len(received),
         next_net_pkt' = [next_net_pkt EXCEPT ![S] = Inc(buffer', MaxPkt)],
         UNCHANGED <<last_pkt_given, frame_expected>>,
         LinkOK(chan[R], received, next_frame_to_send', frame_expected, buffer',
                last_pkt_given[R])
  PROVE  IInv'
<1> DEFINE s == [kind |-> "data", seq |-> next_frame_to_send', ack |-> 0, info |-> buffer']
<1> USE Facts
<1>1. next_frame_to_send' \in Bit /\ buffer' \in Pkt
  BY DEF LinkOK, LinkTyped
<1>2. s \in Frame /\ s.seq = next_frame_to_send' /\ s.info = buffer'
  BY <1>1 DEF Frame, Bit
<1>3. PICK lost \in LossOutcomes :
        chan' = [chan EXCEPT ![S] = received, ![R] = Transmit(@, s, lost)]
  BY DEF SendCurrent
<1>4. timers' = [timers EXCEPT ![S] = <<next_frame_to_send'>>]
  BY OneTimer DEF SendCurrent
<1>5. phase' = [phase EXCEPT ![S] = "queue_frames"]
  BY DEF BackToWait
<1> HIDE DEF s
<1>6. /\ chan'[S] = received
      /\ chan'[R] = chan[R] \/ chan'[R] = Append(chan[R], s)
      /\ chan' = [chan EXCEPT ![S] = received, ![R] = chan'[R]]
  BY <1>3 DEF Transmit
<1>7. /\ Append(chan[R], s) \in Seq(Frame) /\ Len(chan[R]) \in Nat
      /\ Len(Append(chan[R], s)) = Len(chan[R]) + 1
  BY <1>2, AppendIndex
<1>8. chan'[R] \in Seq(Frame) /\ Len(chan'[R]) >= Len(chan[R])
  <2>1. CASE chan'[R] = chan[R]
    BY <1>7, <2>1
  <2>2. CASE chan'[R] = Append(chan[R], s)
    <3>1. Len(chan'[R]) = Len(chan[R]) + 1
      BY <1>7, <2>2, Zenon
    <3> QED
      BY <1>7, <2>2, <3>1
  <2> QED
    BY <1>6, <2>1, <2>2
<1>9. Link'
  <2>1. CASE chan'[R] = chan[R]
    BY <1>6, <2>1 DEF Link
  <2>2. CASE chan'[R] = Append(chan[R], s)
    BY <1>2, <1>6, <2>2, FrameSent DEF Link
  <2> QED
    BY <1>6, <2>1, <2>2
<1>10. Fetched'
  BY <1>5 DEF Fetched, TypeOK, LinkTypeOK
<1>11. TimerRuns'
  BY <1>4, <1>5 DEF TimerRuns, TypeOK, LinkTypeOK
<1>12. NoProtocolError'
  BY <1>5 DEF NoProtocolError, TypeOK, LinkTypeOK
<1>13. TypeOK'
  <2>1. Inc(buffer', MaxPkt) \in Pkt
    BY <1>1, IncType
  <2>2. next_net_pkt' \in [Proc -> Pkt]
    BY <2>1
  <2>3. <<next_frame_to_send'>> \in Seq(0 .. MAX_SEQ)
    BY <1>1 DEF MAX_SEQ, Bit
  <2>4. timers' \in [Proc -> Seq(0 .. MAX_SEQ)]
    BY <1>4, <2>3 DEF TypeOK, LinkTypeOK
  <2>5. phase' \in [Proc -> {"start", "queue_frames", "wait", "exited"}]
    BY <1>5 DEF TypeOK, LinkTypeOK
  <2>6. chan' \in [Proc -> Seq(Frame)]
    BY <1>6, <1>8
  <2>7. nframes' \in [Proc -> Nat]
    OBVIOUS
  <2>8. \A x \in Proc : nframes'[x] <= Len(chan'[x])
    <3>1. nframes'[R] = nframes[R] /\ nframes[R] \in Nat /\ Len(chan'[R]) \in Nat
      BY <1>8, LenProperties
    <3>2. nframes'[R] <= Len(chan'[R])
      BY <1>7, <1>8, <3>1
    <3>3. nframes'[S] <= Len(chan'[S])
      BY <1>6
    <3> QED
      BY <3>2, <3>3, Workers
  <2> QED
    BY <1>1, <2>2, <2>4, <2>5, <2>6, <2>7, <2>8 DEF TypeOK, LinkTypeOK, MAX_SEQ, Bit
<1> QED
  BY <1>9, <1>10, <1>11, <1>12, <1>13 DEF IInv
(* Sending the current frame again, after a damaged or an old              *)
(* acknowledgement was taken, or after a timeout.                          *)
LEMMA ResendStep ==
  ASSUME IInv, phase[S] = "wait",
         NEW received \in Seq(Frame), NEW running,
         received = chan[S] \/ (chan[S] # <<>> /\ received = Tail(chan[S])),
         SendCurrent(received, running), BackToWait(S),
         running \in {<<>>, <<next_frame_to_send>>},
         nframes' = [nframes EXCEPT ![S] = nframes'[S]],
         nframes'[S] \in Nat, nframes'[S] <= Len(received),
         UNCHANGED <<sender_vars, next_net_pkt, last_pkt_given, frame_expected>>
  PROVE  IInv'
<1> USE Facts DEF sender_vars
<1>1. LinkOK(chan[R], received, next_frame_to_send', frame_expected, buffer',
             last_pkt_given[R])
  <2>1. LinkOK(chan[R], chan[S], next_frame_to_send, frame_expected, buffer,
               last_pkt_given[R])
    BY DEF Link
  <2>2. CASE received = chan[S]
    BY <2>1, <2>2
  <2>3. CASE chan[S] # <<>> /\ received = Tail(chan[S])
    <3>1. LinkOK(chan[R], Tail(chan[S]), next_frame_to_send, frame_expected, buffer,
                 last_pkt_given[R])
      BY <2>1, <2>3, DropAck
    <3> QED
      BY <2>3, <3>1
  <2> QED
    BY <2>2, <2>3
<1>2. next_net_pkt[S] = Inc(buffer, MaxPkt)
  BY DEF Fetched
<1>3. next_net_pkt' = [next_net_pkt EXCEPT ![S] = Inc(buffer', MaxPkt)]
  BY <1>2
<1> QED
  BY <1>1, <1>3, SenderStep

(* Taking a frame, in terms of the frames under way.                       *)
LEMMA TakesFirst ==
  ASSUME IInv, NEW p \in Proc, TakesFrame(p)
  PROVE  /\ phase[p] = "wait"
         /\ chan[p] # <<>> /\ Tail(chan[p]) \in Seq(Frame) /\ Head(chan[p]) \in Frame
         /\ nframes' = [nframes EXCEPT ![p] = nframes'[p]]
         /\ nframes'[p] \in Nat /\ nframes'[p] <= Len(Tail(chan[p]))
<1>1. LinkTypeOK(0 .. MAX_SEQ)
  BY Facts
<1> QED
  BY ONLY <1>1, TakesFrame(p), p \in Proc, TakeFrame

(* Waiting, the sender runs the timer of its current frame.                *)
LEMMA RunningTimer ==
  ASSUME IInv, phase[S] = "wait"
  PROVE  timers[S] = <<next_frame_to_send>>
  BY Facts DEF TimerRuns

(* The sender sends its first frame.                                       *)
LEMMA StartSenderStep ==
  ASSUME IInv, StartSender, UNCHANGED <<last_pkt_given, frame_expected>>
  PROVE  IInv'
<1> USE Facts
<1>1. phase[S] = "start" /\ FetchPacket /\ UNCHANGED <<next_frame_to_send, nframes>>
      /\ SendCurrent(chan[S], timers[S]) /\ BackToWait(S)
  BY DEF StartSender
<1>2. next_net_pkt[S] = buffer /\ timers[S] = <<>>
  BY <1>1 DEF Fetched, TimerRuns
<1>3. buffer' = buffer /\ next_net_pkt' = [next_net_pkt EXCEPT ![S] = Inc(buffer', MaxPkt)]
  BY <1>1, <1>2 DEF FetchPacket
<1>4. LinkOK(chan[R], chan[S], next_frame_to_send', frame_expected, buffer',
             last_pkt_given[R])
  BY <1>1, <1>3 DEF Link
<1>5. nframes' = [nframes EXCEPT ![S] = nframes'[S]] /\ nframes'[S] \in Nat
      /\ nframes'[S] <= Len(chan[S])
  BY <1>1
<1> QED
  BY <1>1, <1>2, <1>3, <1>4, <1>5, SenderStep

(* An acknowledgement arrives; if it is that of the current frame the      *)
(* sender goes on to the next packet.                                      *)
LEMMA AckArrivalStep ==
  ASSUME IInv, AckArrival, UNCHANGED <<last_pkt_given, frame_expected>>
  PROVE  IInv'
<1> DEFINE ack == Head(chan[S]).ack
           rest == Tail(chan[S])
<1> USE Facts
<1>1. TakesFrame(S) /\ BackToWait(S)
  BY DEF AckArrival
<1>2. /\ phase[S] = "wait" /\ chan[S] # <<>> /\ rest \in Seq(Frame)
      /\ nframes' = [nframes EXCEPT ![S] = nframes'[S]]
      /\ nframes'[S] \in Nat /\ nframes'[S] <= Len(rest)
  BY <1>1, TakesFirst
<1>3. timers[S] = <<next_frame_to_send>> /\ next_net_pkt[S] = Inc(buffer, MaxPkt)
  BY <1>2, RunningTimer DEF Fetched
<1>4. CASE Acknowledges(ack)
  <2>1. /\ FetchPacket /\ next_frame_to_send' = Inc(next_frame_to_send, MAX_SEQ)
        /\ SendCurrent(rest, StopTimer(timers[S], ack))
    BY <1>4 DEF AckArrival
  <2>2. StopTimer(timers[S], ack) = <<>>
    BY <1>3, <1>4, OneTimer DEF Acknowledges
  <2>3. /\ buffer' = Inc(buffer, MaxPkt)
        /\ next_net_pkt' = [next_net_pkt EXCEPT ![S] = Inc(buffer', MaxPkt)]
    BY <1>3, <2>1 DEF FetchPacket
  <2>4. LinkOK(chan[R], chan[S], next_frame_to_send, frame_expected, buffer,
               last_pkt_given[R])
    BY DEF Link
  <2>5. LinkOK(chan[R], rest, Inc(next_frame_to_send, 1), frame_expected,
               Inc(buffer, MaxPkt), last_pkt_given[R])
    <3>1. chan[S] # <<>> /\ Head(chan[S]).ack = next_frame_to_send
      BY <1>2, <1>4 DEF Acknowledges
    <3> QED
      BY ONLY <3>1, <2>4, AcceptAck
  <2>6. LinkOK(chan[R], rest, next_frame_to_send', frame_expected, buffer',
               last_pkt_given[R])
    BY <2>1, <2>3, <2>5 DEF MAX_SEQ
  <2> QED
    BY <1>1, <1>2, <2>1, <2>2, <2>3, <2>6, SenderStep
<1>5. CASE ~Acknowledges(ack)
  <2>1. UNCHANGED <<sender_vars, next_net_pkt>> /\ SendCurrent(rest, timers[S])
    BY <1>5 DEF AckArrival
  <2> QED
    BY <1>1, <1>2, <1>3, <2>1, ResendStep
<1> QED
  BY <1>4, <1>5

(* A damaged acknowledgement makes the sender repeat its frame.            *)
LEMMA AckDamagedStep ==
  ASSUME IInv, AckDamaged, UNCHANGED <<last_pkt_given, frame_expected>>
  PROVE  IInv'
<1>1. TakesFrame(S) /\ S \in Proc
  BY Workers DEF AckDamaged
<1>2. timers[S] = <<next_frame_to_send>>
  BY <1>1, TakesFirst, RunningTimer
<1> QED
  BY <1>1, <1>2, TakesFirst, ResendStep DEF AckDamaged

(* A timeout makes the sender repeat its frame.                            *)
LEMMA TimeoutStep ==
  ASSUME IInv, Timeout, UNCHANGED <<last_pkt_given, frame_expected>>
  PROVE  IInv'
<1> USE Facts
<1>1. phase[S] = "wait" /\ nframes' = nframes
  BY DEF Timeout, TimerGoesOff
<1>2. Tail(timers[S]) = <<>>
  <2>1. timers[S] = <<next_frame_to_send>>
    BY <1>1, RunningTimer
  <2> QED
    BY <2>1
<1>3. nframes' = [nframes EXCEPT ![S] = nframes'[S]] /\ nframes'[S] \in Nat
      /\ nframes'[S] <= Len(chan[S])
  BY <1>1
<1> QED
  BY <1>1, <1>2, <1>3, ResendStep DEF Timeout

-----------------------------------------------------------------------------
(* The receiver.                                                           *)

(* How its handlers end: it has taken frames off chan[R], has perhaps sent *)
(* a frame a to the sender, and goes back to wait.                         *)
LEMMA ReceiverStep ==
  ASSUME IInv, NEW received \in Seq(Frame), NEW acks \in Seq(Frame),
         chan' = [chan EXCEPT ![R] = received, ![S] = acks],
         Len(acks) >= Len(chan[S]), BackToWait(R),
         nframes' = [nframes EXCEPT ![R] = nframes'[R]],
         nframes'[R] \in Nat, nframes'[R] <= Len(received),
         last_pkt_given' = [last_pkt_given EXCEPT ![R] = last_pkt_given'[R]],
         UNCHANGED <<sender_vars, next_net_pkt, timers>>,
         chan[R] = <<>> => received = <<>> /\ frame_expected' = frame_expected,
         LinkOK(received, acks, next_frame_to_send, frame_expected', buffer,
                last_pkt_given'[R])
  PROVE  IInv'
<1> USE Facts DEF sender_vars
<1>1. frame_expected' \in Bit /\ last_pkt_given'[R] \in Pkt
  BY DEF LinkOK, LinkTyped
<1>2. phase' = [phase EXCEPT ![R] = "queue_frames"]
  BY DEF BackToWait
<1>3. chan'[R] = received /\ chan'[S] = acks /\ chan' \in [Proc -> Seq(Frame)]
  OBVIOUS
<1>4. Link'
  BY <1>3 DEF Link
<1>5. phase'[S] = phase[S]
  BY <1>2 DEF TypeOK, LinkTypeOK
<1>6. Fetched' /\ TimerRuns'
  BY <1>3, <1>5 DEF Fetched, TimerRuns
<1>7. NoProtocolError'
  BY <1>2 DEF NoProtocolError, TypeOK, LinkTypeOK
<1>8. TypeOK'
  <2>1. phase' \in [Proc -> {"start", "queue_frames", "wait", "exited"}]
    BY <1>2 DEF TypeOK, LinkTypeOK
  <2>2. last_pkt_given' \in [Proc -> Pkt] /\ nframes' \in [Proc -> Nat]
    BY <1>1
  <2>3. nframes'[R] <= Len(chan'[R])
    BY <1>3
  <2>4. nframes'[S] <= Len(chan'[S])
    <3>1. nframes'[S] = nframes[S] /\ nframes[S] \in Nat
          /\ Len(acks) \in Nat /\ Len(chan[S]) \in Nat
      BY LenProperties
    <3> QED
      BY <1>3, <3>1
  <2>5. \A x \in Proc : nframes'[x] <= Len(chan'[x])
    BY <2>3, <2>4, Workers
  <2> QED
    BY <1>1, <1>3, <2>1, <2>2, <2>5 DEF TypeOK, LinkTypeOK, MAX_SEQ, Bit
<1> QED
  BY <1>4, <1>6, <1>7, <1>8 DEF IInv

(* The receiver starts to wait.                                            *)
LEMMA StartReceiverStep ==
  ASSUME IInv, StartReceiver, UNCHANGED <<sender_vars, next_net_pkt, timers>>
  PROVE  IInv'
<1> USE Facts
<1>1. /\ UNCHANGED <<chan, nframes, last_pkt_given, frame_expected>> /\ BackToWait(R)
  BY DEF StartReceiver
<1>2. chan' = [chan EXCEPT ![R] = chan[R], ![S] = chan[S]]
  BY <1>1
<1>3. Len(chan[S]) >= Len(chan[S])
  BY LenProperties
<1>4. /\ nframes' = [nframes EXCEPT ![R] = nframes'[R]] /\ nframes'[R] \in Nat
      /\ nframes'[R] <= Len(chan[R])
      /\ last_pkt_given' = [last_pkt_given EXCEPT ![R] = last_pkt_given'[R]]
  BY <1>1
<1>5. LinkOK(chan[R], chan[S], next_frame_to_send, frame_expected', buffer,
             last_pkt_given'[R])
  BY <1>1 DEF Link
<1> QED
  BY <1>1, <1>2, <1>3, <1>4, <1>5, ReceiverStep

(* A frame with the expected number carries the expected packet.           *)
LEMMA ExpectedFrame ==
  ASSUME IInv, chan[R] # <<>>, IsExpected(Head(chan[R]))
  PROVE  /\ frame_expected = next_frame_to_send
         /\ Head(chan[R]).info = Inc(last_pkt_given[R], MaxPkt)
         /\ LinkOK(Tail(chan[R]), chan[S], next_frame_to_send, Inc(frame_expected, 1),
                   buffer, Head(chan[R]).info)
<1>1. LinkOK(chan[R], chan[S], next_frame_to_send, frame_expected, buffer,
             last_pkt_given[R])
  BY Facts DEF Link
<1>2. chan[R] # <<>> /\ Head(chan[R]).seq = frame_expected
  BY DEF IsExpected
<1> QED
  BY ONLY <1>1, <1>2, AcceptFrame

(* frame_arrival at the receiver: the frame is passed on if it is the      *)
(* expected one, and acknowledged in any case.                             *)
LEMMA DataArrivalStep ==
  ASSUME IInv, DataArrival, UNCHANGED <<sender_vars, next_net_pkt, timers>>
  PROVE  IInv'
<1> DEFINE r == Head(chan[R])
           rest == Tail(chan[R])
           a == [kind |-> "ack", seq |-> 0, ack |-> 1 - frame_expected', info |-> 0]
<1> USE Facts
<1>1. TakesFrame(R)
  BY DEF DataArrival
<1>2. /\ phase[R] = "wait" /\ chan[R] # <<>> /\ rest \in Seq(Frame) /\ r \in Frame
      /\ nframes' = [nframes EXCEPT ![R] = nframes'[R]]
      /\ nframes'[R] \in Nat /\ nframes'[R] <= Len(rest)
  BY <1>1, TakesFirst
<1>3. IsExpected(r) => InSequence(R, r.info)
  BY <1>2, ExpectedFrame DEF InSequence
<1>4. AcceptPacket(r) /\ SendAck(rest) /\ BackToWait(R)
  BY <1>3 DEF DataArrival
<1>5. /\ LinkOK(rest, chan[S], next_frame_to_send, frame_expected', buffer,
                last_pkt_given'[R])
      /\ last_pkt_given' = [last_pkt_given EXCEPT ![R] = last_pkt_given'[R]]
  <2>1. CASE IsExpected(r)
    <3>1. /\ last_pkt_given' = [last_pkt_given EXCEPT ![R] = r.info]
          /\ frame_expected' = Inc(frame_expected, 1)
      BY <1>4, <2>1 DEF AcceptPacket, MAX_SEQ
    <3>2. last_pkt_given'[R] = r.info
      BY <3>1
    <3>3. LinkOK(rest, chan[S], next_frame_to_send, Inc(frame_expected, 1), buffer, r.info)
      BY <1>2, <2>1, ExpectedFrame
    <3> QED
      BY <3>1, <3>2, <3>3
  <2>2. CASE ~IsExpected(r)
    <3>1. UNCHANGED <<last_pkt_given, frame_expected>>
      BY <1>4, <2>2 DEF AcceptPacket
    <3>2. LinkOK(chan[R], chan[S], next_frame_to_send, frame_expected, buffer,
                 last_pkt_given[R])
      BY DEF Link
    <3>3. LinkOK(rest, chan[S], next_frame_to_send, frame_expected, buffer,
                 last_pkt_given[R])
      BY ONLY <1>2, <3>2, DropFrame
    <3> QED
      BY <3>1, <3>3
  <2> QED
    BY <2>1, <2>2
<1>6. frame_expected' \in Bit
  BY <1>5 DEF LinkOK, LinkTyped
<1>7. a \in Frame /\ a.ack = 1 - frame_expected'
  <2>1. 0 \in Pkt
    BY DataLinkAssumption DEF Pkt
  <2>2. \A b \in Bit : 1 - b \in Nat
    BY ONLY SMT DEF Bit
  <2>3. 1 - frame_expected' \in Nat
    BY ONLY <1>6, <2>2
  <2> QED
    BY ONLY <2>1, <2>3 DEF Frame
<1>8. PICK lost \in LossOutcomes :
        chan' = [chan EXCEPT ![R] = rest, ![S] = Transmit(@, a, lost)]
  BY <1>4 DEF SendAck
<1> HIDE DEF a, rest
<1>9. /\ Append(chan[S], a) \in Seq(Frame) /\ Len(chan[S]) \in Nat
      /\ Len(Append(chan[S], a)) = Len(chan[S]) + 1
  BY <1>7, AppendIndex
<1>10. PICK acks \in {chan[S], Append(chan[S], a)} :
         chan' = [chan EXCEPT ![R] = rest, ![S] = acks]
  BY <1>8 DEF Transmit
<1>11. acks \in Seq(Frame) /\ Len(acks) >= Len(chan[S])
  <2>1. CASE acks = chan[S]
    BY <1>9, <2>1
  <2>2. CASE acks = Append(chan[S], a)
    <3>1. Len(acks) = Len(chan[S]) + 1
      BY <1>9, <2>2, Zenon
    <3> QED
      BY <1>9, <2>2, <3>1
  <2> QED
    BY <2>1, <2>2
<1>12. LinkOK(rest, acks, next_frame_to_send, frame_expected', buffer, last_pkt_given'[R])
  <2>1. CASE acks = chan[S]
    BY <1>5, <2>1
  <2>2. CASE acks = Append(chan[S], a)
    <3>1. LinkOK(rest, Append(chan[S], a), next_frame_to_send, frame_expected', buffer,
                 last_pkt_given'[R])
      BY ONLY <1>5, <1>7, AckSent
    <3> QED
      BY <2>2, <3>1, Zenon
  <2> QED
    BY <2>1, <2>2
<1> QED
  BY <1>2, <1>4, <1>5, <1>10, <1>11, <1>12, ReceiverStep

(* The receiver ignores a damaged frame.                                   *)
LEMMA DataDamagedStep ==
  ASSUME IInv, DataDamaged, UNCHANGED <<sender_vars, next_net_pkt, timers>>
  PROVE  IInv'
<1> DEFINE rest == Tail(chan[R])
<1> USE Facts
<1>1. /\ TakesFrame(R) /\ chan' = [chan EXCEPT ![R] = rest]
      /\ UNCHANGED <<last_pkt_given, frame_expected>> /\ BackToWait(R)
  BY DEF DataDamaged
<1>2. /\ phase[R] = "wait" /\ chan[R] # <<>> /\ rest \in Seq(Frame)
      /\ nframes' = [nframes EXCEPT ![R] = nframes'[R]]
      /\ nframes'[R] \in Nat /\ nframes'[R] <= Len(rest)
  BY <1>1, TakesFirst
<1>3. LinkOK(rest, chan[S], next_frame_to_send, frame_expected, buffer, last_pkt_given[R])
  <2>1. LinkOK(chan[R], chan[S], next_frame_to_send, frame_expected, buffer,
               last_pkt_given[R])
    BY DEF Link
  <2> QED
    BY ONLY <1>2, <2>1, DropFrame
<1> HIDE DEF rest
<1>4. chan' = [chan EXCEPT ![R] = rest, ![S] = chan[S]] /\ Len(chan[S]) >= Len(chan[S])
  <2>1. chan' = [chan EXCEPT ![R] = rest, ![S] = chan[S]]
    BY <1>1
  <2>2. Len(chan[S]) \in Nat
    BY LenProperties
  <2> QED
    BY <2>1, <2>2
<1>5. last_pkt_given' = [last_pkt_given EXCEPT ![R] = last_pkt_given'[R]]
  BY <1>1
<1>6. LinkOK(rest, chan[S], next_frame_to_send, frame_expected', buffer, last_pkt_given'[R])
  BY <1>1, <1>3
<1> QED
  BY <1>1, <1>2, <1>4, <1>5, <1>6, ReceiverStep

-----------------------------------------------------------------------------

(* A worker fills queue[] and waits for the go-ahead.                      *)
LEMMA WaitStep ==
  ASSUME IInv, NEW p \in Proc, Wait(p)
  PROVE  IInv'
<1> USE Facts
<1>1. /\ nframes' = [nframes EXCEPT ![p] = Len(chan[p])]
      /\ phase[p] \in {"queue_frames", "wait"}
      /\ phase' = [phase EXCEPT ![p] = "wait"]
      /\ UNCHANGED <<chan, timers, next_net_pkt, last_pkt_given,
                     next_frame_to_send, frame_expected, buffer>>
  <2>1. CASE QueueFrames(p)
    BY <2>1 DEF Wait, QueueFrames, sender_vars
  <2>2. CASE NoEvent(p)
    BY <2>2 DEF Wait, NoEvent, sender_vars, TypeOK, LinkTypeOK
  <2> QED
    BY <2>1, <2>2 DEF Wait
<1>2. \A x \in Proc : /\ phase'[x] = "start" <=> phase[x] = "start"
                      /\ phase'[x] = "exited" <=> phase[x] = "exited"
  BY <1>1 DEF TypeOK, LinkTypeOK
<1>3. TypeOK'
  <2>1. \A x \in Proc : Len(chan[x]) \in Nat
    BY LenProperties
  <2>2. nframes' \in [Proc -> Nat] /\ \A x \in Proc : nframes'[x] <= Len(chan[x])
    BY <1>1, <2>1 DEF TypeOK, LinkTypeOK
  <2>3. phase' \in [Proc -> {"start", "queue_frames", "wait", "exited"}]
    BY <1>1 DEF TypeOK, LinkTypeOK
  <2> QED
    BY <1>1, <2>2, <2>3 DEF TypeOK, LinkTypeOK
<1> QED
  BY <1>1, <1>2, <1>3 DEF IInv, NoProtocolError, Link, Fetched, TimerRuns

(* Every step keeps the invariant.                                         *)
LEMMA NextStep ==
  ASSUME IInv, [Next]_vars
  PROVE  IInv'
<1>1. CASE Sender
  BY <1>1, StartSenderStep, AckArrivalStep, AckDamagedStep, TimeoutStep DEF Sender
<1>2. CASE Receiver
  BY <1>2, StartReceiverStep, DataArrivalStep, DataDamagedStep DEF Receiver
<1>3. ASSUME NEW p \in Proc, Wait(p) PROVE IInv'
  BY <1>3, WaitStep
<1>4. CASE UNCHANGED vars
  BY <1>4 DEF IInv, TypeOK, LinkTypeOK, NoProtocolError, Link, Fetched, TimerRuns,
              vars, link_vars, sender_vars
<1> QED
  BY <1>1, <1>2, <1>3, <1>4 DEF Next

-----------------------------------------------------------------------------

(* The invariant holds in every state of every behaviour.                  *)
THEOREM Invariant == Spec => []IInv
  BY InitInvariant, NextStep, PTL DEF Spec

(* Type correctness of protocol 3: neither sequence number ever leaves     *)
(* 0 and 1, and queue[] never counts more frames than are under way.       *)
THEOREM TypeCorrect == Spec => []TypeOK
  BY Invariant, PTL DEF IInv

(* The check of to_network_layer never fails in protocol 3.                *)
THEOREM NeverProtocolError == Spec => []NoProtocolError
  BY Invariant, PTL DEF IInv

(* One bit of numbering is enough, whatever is lost, damaged or sent       *)
(* twice, and however many frames are under way.                           *)
THEOREM OneBitTheorem == Spec => []OneBitIsEnough
  BY Invariant, LinkImpliesOneBit, PTL

(* The sender's only safeguard against a lost frame, the timer of its      *)
(* current frame, always runs.                                             *)
THEOREM TimerAlwaysRuns == Spec => []TimerRuns
  BY Invariant, PTL DEF IInv

-----------------------------------------------------------------------------
(* Protocol 3 implements PacketStream with one sender.                     *)

(* How many packets are under way, by what the two ends know.              *)
LEMMA UnderWayCount ==
  ASSUME IInv
  PROVE  Stream!UnderWay(S) =
           IF phase[S] = "start" \/ frame_expected # next_frame_to_send THEN 0 ELSE 1
<1> USE Facts
<1>1. Stream!UnderWay(S) = Distance(Inc(last_pkt_given[R], MaxPkt), next_net_pkt[S], MaxPkt)
  BY DEF Stream!UnderWay, Stream!Distance, Stream!Inc, Stream!Peer, Distance, Inc, S, R
<1>2. EndsOK(next_frame_to_send, frame_expected, buffer, last_pkt_given[R])
  BY DEF Link, LinkOK
<1>3. last_pkt_given[R] \in Pkt /\ Inc(last_pkt_given[R], MaxPkt) \in Pkt
  BY IncType
<1>4. CASE phase[S] = "start"
  BY <1>1, <1>2, <1>3, <1>4, Distances DEF Fetched, EndsOK
<1>5. CASE phase[S] # "start" /\ frame_expected # next_frame_to_send
  BY <1>1, <1>2, <1>3, <1>5, Distances DEF Fetched, EndsOK
<1>6. CASE phase[S] # "start" /\ frame_expected = next_frame_to_send
  BY <1>1, <1>2, <1>3, <1>6, Distances DEF Fetched, EndsOK
<1> QED
  BY <1>4, <1>5, <1>6

(* The sender fetches a packet only when the one before has been passed on.*)
LEMMA FetchIsFetch ==
  ASSUME IInv, FetchPacket, phase[S] = "start" \/ frame_expected # next_frame_to_send,
         UNCHANGED last_pkt_given
  PROVE  Stream!Next
<1>1. Stream!UnderWay(S) < 1
  BY UnderWayCount
<1>2. Stream!Inc(next_net_pkt[S], MaxPkt) = Inc(next_net_pkt[S], MaxPkt)
  BY DEF Stream!Inc, Inc
<1>3. Stream!Fetch(S)
  BY <1>1, <1>2 DEF Stream!Fetch, FetchPacket
<1>4. S \in Stream!Proc
  BY DEF S, Stream!Proc
<1> QED
  BY <1>3, <1>4 DEF Stream!Next, Stream!Turn

(* The receiver passes on the one packet that is under way.                *)
LEMMA GiveIsGive ==
  ASSUME IInv, phase[S] # "start", frame_expected = next_frame_to_send,
         last_pkt_given' = [last_pkt_given EXCEPT ![R] = Inc(@, MaxPkt)],
         UNCHANGED next_net_pkt
  PROVE  Stream!Next
<1>1. Stream!UnderWay(S) = 1 /\ Stream!Peer(R) = S /\ R \in Stream!Proc
  BY UnderWayCount DEF Stream!Peer, Stream!Proc, S, R
<1>2. last_pkt_given[R] \in Pkt
  BY Facts
<1>3. Stream!Advance(last_pkt_given[R], 1, MaxPkt) = Inc(last_pkt_given[R], MaxPkt)
  BY <1>2, Distances DEF Stream!Advance, Advance
<1>4. 1 \in 1 .. Stream!UnderWay(Stream!Peer(R))
  BY <1>1
<1>5. last_pkt_given' =
        [last_pkt_given EXCEPT ![R] = Stream!Advance(last_pkt_given[R], 1, MaxPkt)]
  BY <1>3
<1>6. Stream!Give(R)
  BY <1>4, <1>5 DEF Stream!Give
<1> QED
  BY <1>1, <1>6 DEF Stream!Next, Stream!Turn

(* Every step is one of PacketStream or none.                              *)
LEMMA StreamStep ==
  ASSUME IInv, [Next]_vars
  PROVE  [Stream!Next]_(Stream!stream_vars)
<1> USE Facts DEF Stream!stream_vars
<1>1. CASE StartSender /\ Sender
  BY <1>1, FetchIsFetch DEF StartSender, Sender
<1>2. CASE AckArrival /\ Sender
  <2>1. TakesFrame(S) /\ UNCHANGED last_pkt_given
    BY <1>2 DEF AckArrival, Sender
  <2>2. chan[S] # <<>>
    BY <2>1, TakesFirst
  <2>3. CASE Acknowledges(Head(chan[S]).ack)
    <3>1. LinkOK(chan[R], chan[S], next_frame_to_send, frame_expected, buffer,
                 last_pkt_given[R])
      BY DEF Link
    <3>2. Head(chan[S]).ack = next_frame_to_send
      BY <2>3 DEF Acknowledges
    <3>3. /\ frame_expected # next_frame_to_send /\ last_pkt_given[R] = buffer
          /\ LinkOK(chan[R], Tail(chan[S]), Inc(next_frame_to_send, 1), frame_expected,
                    Inc(buffer, MaxPkt), last_pkt_given[R])
      BY ONLY <2>2, <3>1, <3>2, AcceptAck
    <3>4. FetchPacket
      BY <1>2, <2>3 DEF AckArrival
    <3> QED
      BY <2>1, <3>3, <3>4, FetchIsFetch
  <2>4. CASE ~Acknowledges(Head(chan[S]).ack)
    BY <1>2, <2>1, <2>4 DEF AckArrival
  <2> QED
    BY <2>3, <2>4
<1>3. CASE (AckDamaged \/ Timeout) /\ Sender
  BY <1>3 DEF AckDamaged, Timeout, Sender
<1>4. CASE DataArrival /\ Receiver
  <2>1. TakesFrame(R) /\ UNCHANGED next_net_pkt
    BY <1>4 DEF DataArrival, Receiver
  <2>2. chan[R] # <<>>
    BY <2>1, TakesFirst
  <2>3. CASE IsExpected(Head(chan[R]))
    <3>1. /\ frame_expected = next_frame_to_send
          /\ Head(chan[R]).info = Inc(last_pkt_given[R], MaxPkt)
      BY <2>2, <2>3, ExpectedFrame
    <3>2. phase[S] # "start"
      BY <2>2 DEF Fetched
    <3>3. last_pkt_given' = [last_pkt_given EXCEPT ![R] = Inc(@, MaxPkt)]
      BY <1>4, <2>3, <3>1 DEF DataArrival, AcceptPacket, InSequence
    <3> QED
      BY <2>1, <3>1, <3>2, <3>3, GiveIsGive
  <2>4. CASE ~IsExpected(Head(chan[R]))
    BY <1>4, <2>1, <2>4 DEF DataArrival, AcceptPacket
  <2> QED
    BY <2>3, <2>4
<1>5. CASE (StartReceiver \/ DataDamaged) /\ Receiver
  BY <1>5 DEF StartReceiver, DataDamaged, Receiver
<1>6. ASSUME NEW p \in Proc, Wait(p)
      PROVE  UNCHANGED <<next_net_pkt, last_pkt_given>>
  BY <1>6 DEF Wait, QueueFrames, NoEvent
<1>7. CASE UNCHANGED vars
  BY <1>7 DEF vars, link_vars
<1> QED
  BY <1>1, <1>2, <1>3, <1>4, <1>5, <1>6, <1>7 DEF Next, Sender, Receiver

(* Every behaviour of protocol 3 is one of PacketStream with one sender    *)
(* and a window of one packet.                                             *)
THEOREM DeliversStreamTheorem == Spec => DeliversStream
<1>1. Init => Stream!Init
  BY DEF Init, LinkInit, Stream!Init, Stream!Proc, Proc
<1>2. IInv /\ [Next]_vars => [Stream!Next]_(Stream!stream_vars)
  BY StreamStep
<1> QED
  BY <1>1, <1>2, Invariant, PTL DEF Spec, DeliversStream, Stream!Spec
=============================================================================
