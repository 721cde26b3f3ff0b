-------------------------- MODULE Protocol4_proofs --------------------------
(***************************************************************************)
(* Proofs about protocol 4, for every range of packet numbers and any      *)
(* number of frames under way.  The lemmas about one direction of the link *)
(* are in DataLink_proofs; here they are applied to both directions, p to  *)
(* Peer(p) and back, for every action.                                     *)
(***************************************************************************)
EXTENDS Protocol4, DataLink_proofs

(* The inductive invariant.  NoProtocolError alone is not inductive: why   *)
(* the packet is in sequence follows from what is under way.               *)
IInv ==
  /\ TypeOK
  /\ NoProtocolError
  /\ FramesAlternate
  /\ AcksAlternate
  /\ EndsAgree
  /\ TimerRuns

(* The link from p to its peer, in the terms of DataLink_proofs.           *)
Link(p) ==
  LinkOK(chan[Peer(p)], chan[p], next_frame_to_send[p], frame_expected[Peer(p)],
         buffer[p], last_pkt_given[Peer(p)])

(* What TimerRuns and EndsAgree say of worker p.                           *)
TimerOK(p) ==
  \/ timers[p] = <<next_frame_to_send[p]>>
  \/ /\ timers[p] = <<>>
     /\ phase[p] = "start" \/ WaitsForPeer(p)
     /\ next_frame_to_send[p] = 0 /\ chan[Peer(p)] = <<>>

FetchedOK(p) ==
  IF phase[p] = "start"
  THEN /\ next_net_pkt[p] = buffer[p] /\ chan[Peer(p)] = <<>>
       /\ frame_expected[Peer(p)] = next_frame_to_send[p]
  ELSE next_net_pkt[p] = Inc(buffer[p], MaxPkt)

Worker(p) == Link(p) /\ TimerOK(p) /\ FetchedOK(p)

(* There are a worker and its peer and nobody else.                        *)
LEMMA PeerProc ==
  /\ \A p \in Proc : Peer(p) \in Proc /\ Peer(p) # p /\ Peer(Peer(p)) = p
  /\ \A p, x \in Proc : x = p \/ x = Peer(p)
  BY DEF Proc, Peer

(* The invariant, worker by worker.                                        *)
LEMMA WorkerByWorker ==
  ASSUME TypeOK
  PROVE  FramesAlternate /\ AcksAlternate /\ EndsAgree /\ TimerRuns
           <=> \A p \in Proc : Worker(p)
<1>1. \A p \in Proc :
        /\ chan[p] \in Seq(Frame) /\ DOMAIN chan[p] = 1 .. Len(chan[p])
        /\ next_frame_to_send[p] \in Bit /\ frame_expected[p] \in Bit
        /\ buffer[p] \in Pkt /\ last_pkt_given[p] \in Pkt
  BY LenProperties DEF TypeOK, LinkTypeOK, MAX_SEQ, Bit
<1>2. FramesAlternate <=>
        \A p \in Proc : FramesOK(chan[Peer(p)], next_frame_to_send[p],
                                 frame_expected[Peer(p)], buffer[p])
  BY <1>1, PeerProc DEF FramesAlternate, FramesOK
<1>3. AcksAlternate <=>
        \A p \in Proc : AcksOK(chan[p], next_frame_to_send[p], frame_expected[Peer(p)])
  BY <1>1, PeerProc DEF AcksAlternate, AcksOK
<1>4. EndsAgree <=>
        \A p \in Proc : /\ EndsOK(next_frame_to_send[p], frame_expected[Peer(p)],
                                  buffer[p], last_pkt_given[Peer(p)])
                        /\ FetchedOK(p)
  BY <1>1, PeerProc DEF EndsAgree, EndsOK, FetchedOK
<1>5. TimerRuns <=> \A p \in Proc : TimerOK(p)
  BY DEF TimerRuns, TimerOK
<1>6. \A p \in Proc :
        LinkTyped(chan[Peer(p)], chan[p], next_frame_to_send[p],
                  frame_expected[Peer(p)], buffer[p], last_pkt_given[Peer(p)])
  BY <1>1, PeerProc DEF LinkTyped
<1> QED
  BY <1>2, <1>3, <1>4, <1>5, <1>6 DEF Worker, Link, LinkOK

(* Init establishes the invariant.                                         *)
THEOREM InitInvariant == Init => IInv
<1> SUFFICES ASSUME Init PROVE IInv
  OBVIOUS
<1> USE DataLinkAssumption DEF Init, LinkInit, Proc, Peer
<1>1. TypeOK
  BY EmptySeq DEF TypeOK, LinkTypeOK, MAX_SEQ, Pkt
<1>2. NoProtocolError
  BY DEF NoProtocolError
<1>3. FramesAlternate /\ AcksAlternate
  BY DEF FramesAlternate, AcksAlternate
<1>4. EndsAgree
  BY DEF EndsAgree, Inc
<1>5. TimerRuns
  BY DEF TimerRuns
<1> QED
  BY <1>1, <1>2, <1>3, <1>4, <1>5 DEF IInv

-----------------------------------------------------------------------------
(* Only p's component of these variables changes.                          *)
OnlyOf(p) ==
  /\ next_frame_to_send' = [next_frame_to_send EXCEPT ![p] = next_frame_to_send'[p]]
  /\ frame_expected' = [frame_expected EXCEPT ![p] = frame_expected'[p]]
  /\ buffer' = [buffer EXCEPT ![p] = buffer'[p]]
  /\ next_net_pkt' = [next_net_pkt EXCEPT ![p] = next_net_pkt'[p]]
  /\ last_pkt_given' = [last_pkt_given EXCEPT ![p] = last_pkt_given'[p]]
  /\ nframes' = [nframes EXCEPT ![p] = nframes'[p]]

(* The step every handler ends with.  When the two links are in order with *)
(* what the handler has done so far, they are in order after the frame is  *)
(* sent, or lost, and both workers satisfy the invariant.                  *)
LEMMA HandlerStep ==
  ASSUME TypeOK, NEW p \in Proc, Worker(p), Worker(Peer(p)), NoProtocolError,
         NEW received \in Seq(Frame), NEW running,
         SendCurrent(p, received, running), BackToWait(p), OnlyOf(p),
         running \in {<<>>, <<next_frame_to_send'[p]>>},
         nframes'[p] \in Nat, nframes'[p] <= Len(received),
         chan[p] = <<>> => received = <<>> /\ frame_expected'[p] = frame_expected[p],
         next_net_pkt'[p] = Inc(buffer'[p], MaxPkt),
         LinkOK(chan[Peer(p)], received, next_frame_to_send'[p],
                frame_expected[Peer(p)], buffer'[p], last_pkt_given[Peer(p)]),
         LinkOK(received, chan[Peer(p)], next_frame_to_send[Peer(p)],
                frame_expected'[p], buffer[Peer(p)], last_pkt_given'[p])
  PROVE  TypeOK' /\ NoProtocolError' /\ Worker(p)' /\ Worker(Peer(p))'
<1> DEFINE q == Peer(p)
           s == [kind |-> "data", seq |-> next_frame_to_send'[p],
                 ack |-> 1 - frame_expected'[p], info |-> buffer'[p]]
<1>1. q \in Proc /\ q # p /\ Peer(q) = p /\ \A x \in Proc : x = p \/ x = q
  BY PeerProc
<1>2. /\ next_frame_to_send'[p] \in Bit /\ frame_expected'[p] \in Bit
      /\ buffer'[p] \in Pkt /\ last_pkt_given'[p] \in Pkt
  BY DEF LinkOK, LinkTyped
<1>3. s \in Frame
  BY <1>2 DEF Frame, Bit
<1>4. /\ next_frame_to_send'[q] = next_frame_to_send[q]
      /\ frame_expected'[q] = frame_expected[q] /\ buffer'[q] = buffer[q]
      /\ last_pkt_given'[q] = last_pkt_given[q] /\ nframes'[q] = nframes[q]
      /\ next_net_pkt'[q] = next_net_pkt[q]
  BY <1>1 DEF OnlyOf, TypeOK, LinkTypeOK
<1>5. /\ chan' \in [Proc -> Seq(Frame)]
      /\ chan'[p] = received
      /\ chan'[q] = chan[q] \/ chan'[q] = Append(chan[q], s)
      /\ Len(chan'[q]) >= Len(chan[q])
  <2>1. /\ chan \in [Proc -> Seq(Frame)]
        /\ Append(chan[q], s) \in Seq(Frame)
        /\ Len(chan[q]) \in Nat
        /\ Len(Append(chan[q], s)) = Len(chan[q]) + 1
    BY <1>1, <1>3, AppendIndex DEF TypeOK, LinkTypeOK
  <2>2. PICK lost \in LossOutcomes :
          chan' = [chan EXCEPT ![p] = received, ![q] = Transmit(@, s, lost)]
    BY DEF SendCurrent
  <2>3. Transmit(chan[q], s, lost) = chan[q] \/ Transmit(chan[q], s, lost) = Append(chan[q], s)
    BY DEF Transmit
  <2> HIDE DEF s
  <2>4. chan'[p] = received /\ chan'[q] = Transmit(chan[q], s, lost)
    BY <1>1, <2>1, <2>2
  <2>5. chan' = [chan EXCEPT ![p] = received, ![q] = chan'[q]]
    BY <1>1, <2>1, <2>2
  <2>6. /\ chan'[q] = chan[q] \/ chan'[q] = Append(chan[q], s)
        /\ Len(chan'[q]) >= Len(chan[q])
        /\ chan'[q] \in Seq(Frame)
    <3>1. chan'[q] = chan[q] \/ chan'[q] = Append(chan[q], s)
      BY <2>3, <2>4, Zenon
    <3>2. chan[q] \in Seq(Frame)
      BY <1>1, <2>1
    <3>3. CASE chan'[q] = chan[q]
      BY <2>1, <3>2, <3>3
    <3>4. CASE chan'[q] = Append(chan[q], s)
      <4>1. Len(chan'[q]) = Len(chan[q]) + 1
        BY <2>1, <3>4, Zenon
      <4> QED
        BY <2>1, <3>4, <4>1
    <3> QED
      BY <3>1, <3>3, <3>4
  <2>7. chan' \in [Proc -> Seq(Frame)]
    BY <2>1, <2>5, <2>6
  <2> QED
    BY <2>4, <2>6, <2>7
<1>6. timers' = [timers EXCEPT ![p] = <<next_frame_to_send'[p]>>]
  BY OneTimer DEF SendCurrent
<1>7. phase' = [phase EXCEPT ![p] = "queue_frames"]
  BY DEF BackToWait
<1> HIDE DEF s
<1>8. Worker(p)'
  <2>1. Link(p)'
    <3>1. CASE chan'[q] = chan[q]
      BY <1>4, <1>5, <3>1 DEF Link
    <3>2. CASE chan'[q] = Append(chan[q], s)
      BY <1>3, <1>4, <1>5, <3>2, FrameSent DEF Link, s
    <3> QED
      BY <1>5, <3>1, <3>2
  <2>2. TimerOK(p)'
    BY <1>6 DEF TimerOK, TypeOK, LinkTypeOK
  <2>3. FetchedOK(p)'
    BY <1>7 DEF FetchedOK, TypeOK, LinkTypeOK
  <2> QED
    BY <2>1, <2>2, <2>3 DEF Worker
<1>9. Worker(q)'
  <2>1. Link(q)'
    <3>1. CASE chan'[q] = chan[q]
      BY <1>1, <1>4, <1>5, <3>1 DEF Link
    <3>2. CASE chan'[q] = Append(chan[q], s)
      BY <1>1, <1>3, <1>4, <1>5, <3>2, AckSent DEF Link, s
    <3> QED
      BY <1>5, <3>1, <3>2
  <2>2. TimerOK(q)'
    BY <1>1, <1>4, <1>5, <1>6, <1>7 DEF Worker, TimerOK, WaitsForPeer, TypeOK, LinkTypeOK
  <2>3. FetchedOK(q)'
    BY <1>1, <1>4, <1>5, <1>7 DEF Worker, FetchedOK, TypeOK, LinkTypeOK
  <2> QED
    BY <2>1, <2>2, <2>3 DEF Worker
<1>10. TypeOK'
  <2>1. next_net_pkt'[p] \in Pkt
    BY <1>2, IncType
  <2>2. <<next_frame_to_send'[p]>> \in Seq(0 .. MAX_SEQ)
    BY <1>2 DEF MAX_SEQ, Bit
  <2>3. \A x \in Proc : nframes'[x] \in Nat /\ nframes'[x] <= Len(chan'[x])
    <3>1. nframes'[p] \in Nat /\ nframes'[p] <= Len(chan'[p])
      BY <1>5
    <3>2. nframes'[q] \in Nat /\ nframes'[q] <= Len(chan[q])
      BY <1>1, <1>4 DEF TypeOK, LinkTypeOK
    <3>3. Len(chan[q]) \in Nat /\ Len(chan'[q]) \in Nat
      BY <1>1, <1>5, LenProperties DEF TypeOK, LinkTypeOK
    <3> QED
      BY <1>1, <1>5, <3>1, <3>2, <3>3
  <2>4. nframes' \in [Proc -> Nat]
    BY DEF OnlyOf, TypeOK, LinkTypeOK
  <2>5. /\ next_frame_to_send' \in [Proc -> 0 .. MAX_SEQ]
        /\ frame_expected' \in [Proc -> 0 .. MAX_SEQ]
        /\ buffer' \in [Proc -> Pkt]
        /\ next_net_pkt' \in [Proc -> Pkt] /\ last_pkt_given' \in [Proc -> Pkt]
    BY <1>2, <2>1 DEF OnlyOf, TypeOK, LinkTypeOK, MAX_SEQ, Bit
  <2>6. /\ timers' \in [Proc -> Seq(0 .. MAX_SEQ)]
        /\ phase' \in [Proc -> {"start", "queue_frames", "wait", "exited"}]
    BY <1>6, <1>7, <2>2 DEF TypeOK, LinkTypeOK
  <2> QED
    BY <1>5, <2>3, <2>4, <2>5, <2>6 DEF TypeOK, LinkTypeOK
<1>11. NoProtocolError'
  BY <1>7 DEF NoProtocolError, TypeOK, LinkTypeOK
<1> QED
  BY <1>8, <1>9, <1>10, <1>11

-----------------------------------------------------------------------------
(* One lemma per action.                                                   *)

Good == TypeOK /\ NoProtocolError /\ \A x \in Proc : Worker(x)

(* The invariant of the run, looked at worker by worker.                   *)
LEMMA InvariantIsGood == IInv <=> Good
  BY WorkerByWorker DEF IInv, Good

(* What the links and their neighbours are, seen from worker p.            *)
LEMMA Facts ==
  ASSUME Good, NEW p \in Proc
  PROVE  /\ TypeOK /\ NoProtocolError /\ Worker(p) /\ Worker(Peer(p))
         /\ Peer(p) \in Proc /\ Peer(p) # p /\ Peer(Peer(p)) = p
         /\ \A x \in Proc : x = p \/ x = Peer(p)
         /\ chan[p] \in Seq(Frame) /\ chan[Peer(p)] \in Seq(Frame)
         /\ nframes[p] \in Nat /\ nframes[p] <= Len(chan[p])
         /\ LinkOK(chan[Peer(p)], chan[p], next_frame_to_send[p],
                   frame_expected[Peer(p)], buffer[p], last_pkt_given[Peer(p)])
         /\ LinkOK(chan[p], chan[Peer(p)], next_frame_to_send[Peer(p)],
                   frame_expected[p], buffer[Peer(p)], last_pkt_given[p])
<1>1. /\ Peer(p) \in Proc /\ Peer(p) # p /\ Peer(Peer(p)) = p
      /\ \A x \in Proc : x = p \/ x = Peer(p)
  BY PeerProc
<1>2. Link(p) /\ Link(Peer(p))
  BY <1>1 DEF Good, Worker
<1> QED
  BY <1>1, <1>2 DEF Good, Link, TypeOK, LinkTypeOK

(* A worker starts, and sends its first frame or waits for its peer.       *)
LEMMA StartStep ==
  ASSUME Good, NEW p \in Proc, Start(p)
  PROVE  Good'
<1> DEFINE q == Peer(p)
<1> USE Facts
<1>1. phase[p] = "start" /\ BackToWait(p) /\ FetchPacket(p)
      /\ UNCHANGED <<next_frame_to_send, frame_expected, nframes, last_pkt_given>>
  BY DEF Start
<1>2. next_net_pkt[p] = buffer[p] /\ buffer[p] \in Pkt
  BY <1>1 DEF Worker, FetchedOK, TypeOK
<1>3. buffer' = buffer /\ next_net_pkt' = [next_net_pkt EXCEPT ![p] = Inc(buffer[p], MaxPkt)]
  BY <1>1, <1>2 DEF FetchPacket, TypeOK, LinkTypeOK
<1>4. phase' = [phase EXCEPT ![p] = "queue_frames"]
  BY <1>1 DEF BackToWait
<1>5. OnlyOf(p) /\ next_net_pkt'[p] = Inc(buffer'[p], MaxPkt)
  BY <1>1, <1>3 DEF OnlyOf, TypeOK, LinkTypeOK
<1>6. CASE WaitsForPeer(p)
  <2>1. UNCHANGED <<chan, timers>>
    BY <1>6 DEF Start
  <2>2. TypeOK'
    BY <1>1, <1>2, <1>3, <1>4, <2>1, IncType DEF TypeOK, LinkTypeOK
  <2>3. NoProtocolError'
    BY <1>4 DEF NoProtocolError, TypeOK, LinkTypeOK
  <2>4. \A x \in Proc : Link(x)'
    BY <1>1, <1>3, <2>1 DEF Good, Worker, Link
  <2>5. \A x \in Proc : TimerOK(x)'
    BY <1>1, <1>4, <1>6, <2>1 DEF Good, Worker, TimerOK, WaitsForPeer, TypeOK, LinkTypeOK
  <2>6. \A x \in Proc : FetchedOK(x)'
    BY <1>1, <1>3, <1>4, <2>1 DEF Good, Worker, FetchedOK, TypeOK, LinkTypeOK
  <2> QED
    BY <2>2, <2>3, <2>4, <2>5, <2>6 DEF Good, Worker
<1>7. CASE ~WaitsForPeer(p)
  <2>1. SendCurrent(p, chan[p], timers[p])
    BY <1>7 DEF Start
  <2>2. timers[p] \in {<<>>, <<next_frame_to_send'[p]>>}
    BY <1>1 DEF Worker, TimerOK
  <2>3. TypeOK' /\ NoProtocolError' /\ Worker(p)' /\ Worker(q)'
    BY <1>1, <1>3, <1>5, <2>1, <2>2, HandlerStep
  <2> QED
    BY <2>3 DEF Good
<1> QED
  BY <1>6, <1>7

(* cksum_err and timeout: the current frame is sent again.                 *)
LEMMA ResendStep ==
  ASSUME Good, NEW p \in Proc, phase[p] = "wait",
         NEW received \in Seq(Frame), NEW running,
         received = chan[p] \/ (chan[p] # <<>> /\ received = Tail(chan[p])),
         nframes' = [nframes EXCEPT ![p] = nframes'[p]],
         nframes'[p] \in Nat, nframes'[p] <= Len(received),
         running \in {<<>>, <<next_frame_to_send[p]>>},
         UNCHANGED <<next_frame_to_send, frame_expected, buffer,
                     next_net_pkt, last_pkt_given>>,
         SendCurrent(p, received, running), BackToWait(p)
  PROVE  Good'
<1> USE Facts
<1>1. OnlyOf(p)
  BY DEF OnlyOf, TypeOK, LinkTypeOK
<1>2. next_net_pkt'[p] = Inc(buffer'[p], MaxPkt)
  BY DEF Worker, FetchedOK
<1>3. LinkOK(chan[Peer(p)], received, next_frame_to_send'[p],
             frame_expected[Peer(p)], buffer'[p], last_pkt_given[Peer(p)])
  <2>1. CASE received = chan[p]
    BY <2>1
  <2>2. CASE chan[p] # <<>> /\ received = Tail(chan[p])
    <3>1. LinkOK(chan[Peer(p)], Tail(chan[p]), next_frame_to_send[p],
                 frame_expected[Peer(p)], buffer[p], last_pkt_given[Peer(p)])
      BY <2>2, DropAck
    <3> QED
      BY <2>2, <3>1
  <2> QED
    BY <2>1, <2>2
<1>4. LinkOK(received, chan[Peer(p)], next_frame_to_send[Peer(p)],
             frame_expected'[p], buffer[Peer(p)], last_pkt_given'[p])
  <2>1. CASE received = chan[p]
    BY <2>1
  <2>2. CASE chan[p] # <<>> /\ received = Tail(chan[p])
    <3>1. LinkOK(Tail(chan[p]), chan[Peer(p)], next_frame_to_send[Peer(p)],
                 frame_expected[p], buffer[Peer(p)], last_pkt_given[p])
      BY <2>2, DropFrame
    <3> QED
      BY <2>2, <3>1
  <2> QED
    BY <2>1, <2>2
<1>5. chan[p] = <<>> => received = <<>> /\ frame_expected'[p] = frame_expected[p]
  OBVIOUS
<1>6. TypeOK' /\ NoProtocolError' /\ Worker(p)' /\ Worker(Peer(p))'
  BY <1>1, <1>2, <1>3, <1>4, <1>5, HandlerStep
<1> QED
  BY <1>6 DEF Good

(* Taking a frame, in terms of the frames under way.                       *)
LEMMA TakesFirst ==
  ASSUME Good, NEW p \in Proc, TakesFrame(p)
  PROVE  /\ phase[p] = "wait"
         /\ chan[p] # <<>> /\ Tail(chan[p]) \in Seq(Frame) /\ Head(chan[p]) \in Frame
         /\ nframes' = [nframes EXCEPT ![p] = nframes'[p]]
         /\ nframes'[p] \in Nat /\ nframes'[p] <= Len(Tail(chan[p]))
<1>1. LinkTypeOK(0 .. MAX_SEQ)
  BY DEF Good, TypeOK
<1> QED
  BY ONLY <1>1, TakesFrame(p), p \in Proc, TakeFrame

(* A damaged frame makes a sending worker repeat its frame.                *)
LEMMA CksumErrStep ==
  ASSUME Good, NEW p \in Proc, CksumErr(p)
  PROVE  Good'
<1>1. timers[p] \in {<<>>, <<next_frame_to_send[p]>>}
  BY Facts DEF Worker, TimerOK
<1> QED
  BY <1>1, TakesFirst, ResendStep DEF CksumErr

(* A timeout makes a worker repeat its frame.                              *)
LEMMA TimeoutStep ==
  ASSUME Good, NEW p \in Proc, Timeout(p)
  PROVE  Good'
<1>1. timers[p] = <<next_frame_to_send[p]>>
  BY Facts DEF Worker, TimerOK, Timeout, TimerGoesOff
<1>2. Tail(timers[p]) = <<>>
  BY <1>1
<1>3. phase[p] = "wait" /\ nframes' = nframes
  BY DEF Timeout, TimerGoesOff
<1>4. nframes' = [nframes EXCEPT ![p] = nframes'[p]] /\ nframes'[p] \in Nat
      /\ nframes'[p] <= Len(chan[p])
  BY <1>3, Facts DEF TypeOK, LinkTypeOK
<1> QED
  BY <1>2, <1>3, <1>4, Facts, ResendStep DEF Timeout

(* frame_arrival, and why the worker never exits: the frame that carries   *)
(* the expected number carries the expected packet.                        *)
LEMMA FrameArrivalStep ==
  ASSUME Good, NEW p \in Proc, FrameArrival(p)
  PROVE  Good'
<1> DEFINE q == Peer(p)
           r == Head(chan[p])
           rest == Tail(chan[p])
<1> USE Facts
<1>1. TakesFrame(p)
  BY DEF FrameArrival
<1>2. /\ phase[p] = "wait"
      /\ chan[p] # <<>> /\ rest \in Seq(Frame) /\ r \in Frame
      /\ nframes' = [nframes EXCEPT ![p] = nframes'[p]]
      /\ nframes'[p] \in Nat /\ nframes'[p] <= Len(rest)
  BY <1>1, TakesFirst
<1> HIDE DEF r, rest
<1>12. ASSUME CarriesExpected(p, r)
       PROVE  /\ r.info = Inc(last_pkt_given[p], MaxPkt)
              /\ LinkOK(rest, chan[q], next_frame_to_send[q],
                        Inc(frame_expected[p], 1), buffer[q], r.info)
  <2>1. chan[p] # <<>> /\ Head(chan[p]).seq = frame_expected[p]
    BY <1>2, <1>12 DEF CarriesExpected, r
  <2>2. LinkOK(chan[p], chan[q], next_frame_to_send[q],
               frame_expected[p], buffer[q], last_pkt_given[p])
    OBVIOUS
  <2> QED
    BY ONLY <2>1, <2>2, AcceptFrame DEF r, rest
<1>13. ASSUME Acknowledges(p, r)
       PROVE  LinkOK(chan[q], rest, Inc(next_frame_to_send[p], 1),
                     frame_expected[q], Inc(buffer[p], MaxPkt), last_pkt_given[q])
  <2>1. chan[p] # <<>> /\ Head(chan[p]).ack = next_frame_to_send[p]
    BY <1>2, <1>13 DEF Acknowledges, r
  <2> QED
    BY <2>1, AcceptAck DEF rest
<1>3. CarriesExpected(p, r) => InSequence(p, r.info)
  BY <1>12 DEF InSequence
<1>4. /\ AcceptPacket(p, r) /\ HandleAck(p, r) /\ BackToWait(p)
      /\ SendCurrent(p, rest, TimersAfter(p, r))
  BY <1>3 DEF FrameArrival, r, rest
<1>5. LinkOK(rest, chan[q], next_frame_to_send[q],
             frame_expected'[p], buffer[q], last_pkt_given'[p])
  <2>1. CASE CarriesExpected(p, r)
    <3>1. last_pkt_given'[p] = r.info /\ frame_expected'[p] = Inc(frame_expected[p], 1)
      BY <1>4, <2>1 DEF AcceptPacket, TypeOK, LinkTypeOK, MAX_SEQ
    <3> QED
      BY <1>12, <2>1, <3>1
  <2>2. CASE ~CarriesExpected(p, r)
    <3>1. last_pkt_given' = last_pkt_given /\ frame_expected' = frame_expected
      BY <1>4, <2>2 DEF AcceptPacket
    <3> QED
      BY <1>2, <3>1, DropFrame DEF rest
  <2> QED
    BY <2>1, <2>2
<1>6. next_net_pkt[p] = Inc(buffer[p], MaxPkt)
  BY <1>2 DEF Worker, FetchedOK
<1>7. timers[p] \in {<<>>, <<next_frame_to_send[p]>>}
  BY DEF Worker, TimerOK
<1>8. /\ LinkOK(chan[q], rest, next_frame_to_send'[p],
                frame_expected[q], buffer'[p], last_pkt_given[q])
      /\ next_net_pkt'[p] = Inc(buffer'[p], MaxPkt)
      /\ TimersAfter(p, r) \in {<<>>, <<next_frame_to_send'[p]>>}
  <2>1. CASE Acknowledges(p, r)
    <3>1. /\ buffer'[p] = Inc(buffer[p], MaxPkt)
          /\ next_net_pkt'[p] = Inc(Inc(buffer[p], MaxPkt), MaxPkt)
          /\ next_frame_to_send'[p] = Inc(next_frame_to_send[p], 1)
      BY <1>4, <1>6, <2>1 DEF HandleAck, FetchPacket, TypeOK, LinkTypeOK, MAX_SEQ
    <3>2. TimersAfter(p, r) = <<>>
      BY <1>7, <2>1, OneTimer DEF TimersAfter, Acknowledges
    <3> QED
      BY <1>6, <1>13, <2>1, <3>1, <3>2
  <2>2. CASE ~Acknowledges(p, r)
    <3>1. UNCHANGED <<buffer, next_net_pkt, next_frame_to_send>>
      BY <1>4, <2>2 DEF HandleAck
    <3>2. TimersAfter(p, r) = timers[p]
      BY <2>2 DEF TimersAfter
    <3>3. LinkOK(chan[q], rest, next_frame_to_send[p],
                 frame_expected[q], buffer[p], last_pkt_given[q])
      BY <1>2, DropAck DEF rest
    <3> QED
      BY <1>6, <1>7, <3>1, <3>2, <3>3
  <2> QED
    BY <2>1, <2>2
<1>9. OnlyOf(p)
  <2>1. /\ frame_expected' = [frame_expected EXCEPT ![p] = frame_expected'[p]]
        /\ last_pkt_given' = [last_pkt_given EXCEPT ![p] = last_pkt_given'[p]]
    BY <1>4 DEF AcceptPacket, TypeOK, LinkTypeOK
  <2>2. /\ next_frame_to_send' = [next_frame_to_send EXCEPT ![p] = next_frame_to_send'[p]]
        /\ buffer' = [buffer EXCEPT ![p] = buffer'[p]]
        /\ next_net_pkt' = [next_net_pkt EXCEPT ![p] = next_net_pkt'[p]]
    BY <1>4 DEF HandleAck, FetchPacket, TypeOK, LinkTypeOK
  <2> QED
    BY <1>2, <2>1, <2>2 DEF OnlyOf
<1>10. TypeOK' /\ NoProtocolError' /\ Worker(p)' /\ Worker(q)'
  BY <1>2, <1>4, <1>5, <1>8, <1>9, HandlerStep
<1> QED
  BY <1>10 DEF Good

(* A worker fills queue[] and waits for the go-ahead.                      *)
LEMMA WaitStep ==
  ASSUME Good, NEW p \in Proc, Wait(p)
  PROVE  Good'
<1> USE Facts
<1>1. /\ nframes' = [nframes EXCEPT ![p] = Len(chan[p])]
      /\ phase[p] \in {"queue_frames", "wait"}
      /\ phase' = [phase EXCEPT ![p] = "wait"]
      /\ UNCHANGED <<chan, timers, next_net_pkt, last_pkt_given,
                     next_frame_to_send, frame_expected, buffer>>
  <2>1. CASE QueueFrames(p)
    BY <2>1 DEF Wait, QueueFrames
  <2>2. CASE NoEvent(p)
    BY <2>2 DEF Wait, NoEvent, TypeOK, LinkTypeOK
  <2> QED
    BY <2>1, <2>2 DEF Wait
<1>2. TypeOK'
  <2>1. Len(chan[p]) \in Nat
    BY LenProperties
  <2>2. nframes' \in [Proc -> Nat] /\ \A x \in Proc : nframes'[x] <= Len(chan[x])
    <3>1. nframes'[p] = Len(chan[p]) /\ nframes' \in [Proc -> Nat]
      BY <1>1, <2>1 DEF TypeOK, LinkTypeOK
    <3>2. nframes'[Peer(p)] = nframes[Peer(p)] /\ nframes[Peer(p)] <= Len(chan[Peer(p)])
      BY <1>1 DEF TypeOK, LinkTypeOK
    <3> QED
      BY <2>1, <3>1, <3>2
  <2>3. phase' \in [Proc -> {"start", "queue_frames", "wait", "exited"}]
    BY <1>1 DEF TypeOK, LinkTypeOK
  <2> QED
    BY <1>1, <2>2, <2>3 DEF TypeOK, LinkTypeOK
<1>5. \A x \in Proc : /\ phase'[x] = "start" <=> phase[x] = "start"
                      /\ phase'[x] = "exited" <=> phase[x] = "exited"
  BY <1>1 DEF TypeOK, LinkTypeOK
<1>3. NoProtocolError'
  BY <1>5 DEF NoProtocolError
<1>4. \A x \in Proc : Worker(x)'
  BY <1>1, <1>5 DEF Good, Worker, Link, TimerOK, FetchedOK, WaitsForPeer
<1> QED
  BY <1>2, <1>3, <1>4 DEF Good

(* Steps of others.                                                        *)
LEMMA StutterStep ==
  ASSUME Good, UNCHANGED vars
  PROVE  Good'
  BY DEF Good, TypeOK, LinkTypeOK, NoProtocolError, Worker, Link, TimerOK, FetchedOK,
         WaitsForPeer, vars, link_vars

(* Every step keeps the invariant.                                         *)
LEMMA NextStep ==
  ASSUME Good, [Next]_vars
  PROVE  Good'
  BY StartStep, FrameArrivalStep, CksumErrStep, TimeoutStep, WaitStep, StutterStep
     DEF Next

-----------------------------------------------------------------------------

(* The invariant holds in every state of every behaviour.                  *)
THEOREM Invariant == Spec => []IInv
<1>1. IInv /\ [Next]_vars => IInv'
  <2>1. Good' => IInv'
    BY InvariantIsGood, PTL
  <2> QED
    BY <2>1, InvariantIsGood, NextStep
<1> QED
  BY <1>1, InitInvariant, PTL DEF Spec

(* Type correctness of protocol 4: in particular the counters of queue[]   *)
(* never exceed what is under way and both sequence numbers stay one bit.  *)
THEOREM TypeCorrect == Spec => []TypeOK
  BY Invariant, PTL DEF IInv

(* The check of to_network_layer never fails in protocol 4, whatever is    *)
(* lost, damaged or sent twice: no worker ever stops with a protocol       *)
(* error.                                                                  *)
THEOREM NeverProtocolError == Spec => []NoProtocolError
  BY Invariant, PTL DEF IInv

(* One bit of numbering is enough: frames and acknowledgements under way   *)
(* never mix an old number with a new one in the wrong order, and the two  *)
(* ends agree about the packet that is on its way.                         *)
THEOREM AlternatingBitTheorem == Spec => []AlternatingBitWorks
<1>1. IInv => AlternatingBitWorks
  BY DEF IInv, AlternatingBitWorks
<1> QED
  BY <1>1, Invariant, PTL

(* A worker that has a packet to get across always has its timer running,  *)
(* so a lost frame or acknowledgement cannot stop protocol 4.              *)
THEOREM TimerAlwaysRuns == Spec => []TimerRuns
  BY Invariant, PTL DEF IInv

-----------------------------------------------------------------------------
(* Protocol 4 implements PacketStream.                                     *)

(* PacketStream counts with the same arithmetic.                           *)
LEMMA StreamCounts ==
  ASSUME NEW p \in Proc
  PROVE  /\ Stream!UnderWay(p) =
              Distance(Inc(last_pkt_given[Peer(p)], MaxPkt), next_net_pkt[p], MaxPkt)
         /\ \A k, n : Stream!Advance(k, n, MaxPkt) = Advance(k, n, MaxPkt)
         /\ \A k : Stream!Inc(k, MaxPkt) = Inc(k, MaxPkt)
         /\ Stream!Peer(p) = Peer(p)
         /\ Stream!Proc = Proc
  BY DEF Stream!UnderWay, Stream!Distance, Stream!Inc, Stream!Advance, Stream!Peer,
         Stream!Proc, Distance, Inc, Advance, Peer, Proc

(* How many packets are under way, by what the two ends know.              *)
LEMMA UnderWayCount ==
  ASSUME Good, NEW p \in Proc
  PROVE  Stream!UnderWay(p) =
           IF phase[p] = "start" \/ frame_expected[Peer(p)] # next_frame_to_send[p]
           THEN 0 ELSE 1
<1>1. /\ buffer[p] \in Pkt /\ last_pkt_given[Peer(p)] \in Pkt
      /\ FetchedOK(p)
      /\ EndsOK(next_frame_to_send[p], frame_expected[Peer(p)],
                buffer[p], last_pkt_given[Peer(p)])
  BY Facts DEF Worker, LinkOK, LinkTyped
<1>2. Inc(last_pkt_given[Peer(p)], MaxPkt) \in Pkt
  BY <1>1, IncType
<1>3. CASE phase[p] = "start"
  BY <1>1, <1>2, <1>3, Distances, StreamCounts DEF FetchedOK, EndsOK
<1>4. CASE phase[p] # "start" /\ frame_expected[Peer(p)] # next_frame_to_send[p]
  BY <1>1, <1>2, <1>4, Distances, StreamCounts DEF FetchedOK, EndsOK
<1>5. CASE phase[p] # "start" /\ frame_expected[Peer(p)] = next_frame_to_send[p]
  BY <1>1, <1>2, <1>5, Distances, StreamCounts DEF FetchedOK, EndsOK
<1> QED
  BY <1>3, <1>4, <1>5

(* from_network_layer is Fetch of PacketStream: the window has room.       *)
LEMMA FetchIsFetch ==
  ASSUME Good, NEW p \in Proc, FetchPacket(p),
         phase[p] = "start" \/ frame_expected[Peer(p)] # next_frame_to_send[p]
  PROVE  Stream!Fetch(p)
<1>1. Stream!UnderWay(p) = 0
  BY UnderWayCount
<1> QED
  <2>1. Stream!UnderWay(p) < 1
    BY <1>1
  <2>2. Stream!Inc(next_net_pkt[p], MaxPkt) = Inc(next_net_pkt[p], MaxPkt)
    BY StreamCounts
  <2> QED
    BY <2>1, <2>2 DEF Stream!Fetch, FetchPacket

(* Every step is one of PacketStream or none.                              *)
LEMMA StreamStep ==
  ASSUME Good, [Next]_vars
  PROVE  [Stream!Next]_(Stream!stream_vars)
<1> USE DEF Stream!stream_vars
<1>1. ASSUME NEW p \in Proc, Start(p)
      PROVE  Stream!Turn(p)
  <2>1. Stream!Fetch(p)
    BY <1>1, FetchIsFetch DEF Start
  <2> QED
    BY <1>1, <2>1 DEF Stream!Turn, Start
<1>2. ASSUME NEW p \in Proc, FrameArrival(p)
      PROVE  Stream!Turn(p)
  <2> DEFINE r == Head(chan[p])
             q == Peer(p)
  <2>1. phase[p] = "wait" /\ chan[p] # <<>> /\ TakesFrame(p)
    BY <1>2, TakesFirst DEF FrameArrival
  <2>2. /\ LinkOK(chan[q], chan[p], next_frame_to_send[p],
                  frame_expected[q], buffer[p], last_pkt_given[q])
        /\ LinkOK(chan[p], chan[q], next_frame_to_send[q],
                  frame_expected[p], buffer[q], last_pkt_given[p])
        /\ q \in Proc /\ Peer(q) = p /\ Worker(q)
    BY Facts
  <2>3. ASSUME CarriesExpected(p, r)
        PROVE  /\ frame_expected[p] = next_frame_to_send[q]
               /\ r.info = Inc(last_pkt_given[p], MaxPkt)
    <3>1. chan[p] # <<>> /\ Head(chan[p]).seq = frame_expected[p]
      BY <2>1, <2>3 DEF CarriesExpected
    <3>2. LinkOK(chan[p], chan[q], next_frame_to_send[q],
                 frame_expected[p], buffer[q], last_pkt_given[p])
      BY <2>2
    <3> QED
      BY ONLY <3>1, <3>2, AcceptFrame DEF r
  <2>4. ASSUME Acknowledges(p, r)
        PROVE  frame_expected[q] # next_frame_to_send[p]
    <3>1. chan[p] # <<>> /\ Head(chan[p]).ack = next_frame_to_send[p]
      BY <2>1, <2>4 DEF Acknowledges
    <3>2. LinkOK(chan[q], chan[p], next_frame_to_send[p],
                 frame_expected[q], buffer[p], last_pkt_given[q])
      BY <2>2
    <3>3. LinkOK(chan[q], Tail(chan[p]), Inc(next_frame_to_send[p], 1), frame_expected[q],
                 Inc(buffer[p], MaxPkt), last_pkt_given[q])
          /\ frame_expected[q] # next_frame_to_send[p]
      BY <3>1, <3>2, AcceptAck
    <3> QED
      BY <3>3
  <2>5. AcceptPacket(p, r) /\ HandleAck(p, r)
    BY <1>2, <2>3 DEF FrameArrival, InSequence
  <2>6. Stream!Fetch(p) \/ UNCHANGED next_net_pkt
    BY <2>4, <2>5, FetchIsFetch DEF HandleAck
  <2>7. Stream!Give(p) \/ UNCHANGED last_pkt_given
    <3>1. CASE CarriesExpected(p, r)
      <4>1. phase[q] # "start"
        BY <2>1, <2>2 DEF Worker, FetchedOK
      <4>2. Stream!UnderWay(q) = 1
        BY <2>2, <2>3, <3>1, <4>1, UnderWayCount
      <4>3. last_pkt_given[p] \in Pkt
        BY DEF Good, TypeOK, LinkTypeOK
      <4>4. Advance(last_pkt_given[p], 1, MaxPkt) = r.info
        BY <2>3, <3>1, <4>3, Distances
      <4>5. last_pkt_given' = [last_pkt_given EXCEPT ![p] = Advance(@, 1, MaxPkt)]
        BY <2>5, <3>1, <4>4 DEF AcceptPacket
      <4>6. 1 \in 1 .. Stream!UnderWay(Stream!Peer(p))
        BY <4>2, StreamCounts
      <4>7. Stream!Advance(last_pkt_given[p], 1, MaxPkt)
              = Advance(last_pkt_given[p], 1, MaxPkt)
        BY StreamCounts
      <4> QED
        BY <4>5, <4>6, <4>7 DEF Stream!Give
    <3>2. CASE ~CarriesExpected(p, r)
      BY <2>5, <3>2 DEF AcceptPacket
    <3> QED
      BY <3>1, <3>2
  <2> QED
    BY <2>6, <2>7 DEF Stream!Turn
<1>3. ASSUME NEW p \in Proc, CksumErr(p) \/ Timeout(p) \/ Wait(p)
      PROVE  UNCHANGED <<next_net_pkt, last_pkt_given>>
  BY <1>3 DEF CksumErr, Timeout, Wait, QueueFrames, NoEvent
<1>4. CASE UNCHANGED vars
  BY <1>4 DEF vars, link_vars
<1> QED
  BY <1>1, <1>2, <1>3, <1>4, StreamCounts DEF Next, Stream!Next

(* Every behaviour of protocol 4 is one of PacketStream with a window of   *)
(* one packet: in order, each exactly once, in both directions.            *)
THEOREM DeliversStreamTheorem == Spec => DeliversStream
<1>1. Init => Stream!Init
  BY DEF Init, LinkInit, Stream!Init, Stream!Proc, Proc
<1>2. IInv /\ [Next]_vars => [Stream!Next]_(Stream!stream_vars)
  BY InvariantIsGood, StreamStep
<1> QED
  BY <1>1, <1>2, Invariant, PTL DEF Spec, DeliversStream, Stream!Spec
=============================================================================
