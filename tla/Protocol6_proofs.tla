-------------------------- MODULE Protocol6_proofs --------------------------
(***************************************************************************)
(* Proofs about protocol 6, for every even number of sequence numbers,     *)
(* every range of packet numbers and any number of frames under way.       *)
(*                                                                         *)
(* As for protocol 5, the argument counts packets without wrapping.  Of    *)
(* the packets of worker p the first a have been acknowledged, its peer    *)
(* has passed on the first e and has stored none from number h on, and p   *)
(* has fetched the first a + nbuffered[p].  Packet k travels in a frame    *)
(* with number k modulo MAX_SEQ + 1 and waits in buffer k modulo NR_BUFS   *)
(* at either end.  That h, and not e, is what frames under way can be      *)
(* compared with: the receiver's window may jump ahead of the frame that   *)
(* has just arrived, over frames that arrived earlier.                     *)
(***************************************************************************)
EXTENDS Protocol6, DataLink_proofs

SeqNo(k) == Wrapped(k, MAX_SEQ)
PktNo(k) == Wrapped(k, MaxPkt)
BufNo(k) == Wrapped(k, NR_BUFS - 1)

(* The sender's variables when its first outstanding packet is number a.   *)
SenderOK(ae, nf, nb, buf, sq, nn, a) ==
  /\ ae = SeqNo(a) /\ nf = SeqNo(a + nb) /\ nn = PktNo(a + nb)
  /\ \A k \in a .. (a + nb) - 1 : buf[BufNo(k)] = PktNo(k) /\ sq[SeqNo(k)] = SeqNo(k)

(* The running timers are those of its outstanding frames.                 *)
TimersOK(ts, a, nb) ==
  /\ ts \in Seq(SeqNr) /\ IsInjective(ts)
  /\ ToSet(ts) = {SeqNo(k) : k \in a .. (a + nb) - 1}

(* The bit map and the buffers of the receiver when it expects packet      *)
(* number e.                                                               *)
Stores(map, buf, e, h) ==
  \A k \in e .. (e + NR_BUFS) - 1 : map[BufNo(k)] => k < h /\ buf[BufNo(k)] = PktNo(k)

ReceiverOK(fe, tf, lg, map, buf, e, h) ==
  /\ fe = SeqNo(e) /\ tf = SeqNo(e + NR_BUFS) /\ Inc(lg, MaxPkt) = PktNo(e)
  /\ ~map[BufNo(e)] /\ Stores(map, buf, e, h)

(* Does f ask for the frame its sender expects now?                        *)
AsksFor(f, fe) == f.kind = "nak" /\ Inc(f.ack, MAX_SEQ) = fe

(* The naks under way to the sender, when its peer may send one or not.    *)
NaksOK(frames, fe, free) ==
  /\ \A i, j \in 1 .. Len(frames) : AsksFor(frames[i], fe) /\ AsksFor(frames[j], fe) => i = j
  /\ free => \A i \in 1 .. Len(frames) : ~AsksFor(frames[i], fe)

Numbering(p, a, e, h, nrs, acks) ==
  LET q == Peer(p)
      top == a + nbuffered[p]
  IN /\ SenderOK(ack_expected[p], next_frame_to_send[p], nbuffered[p], out_buf[p],
                 seqs[p], next_net_pkt[p], a)
     /\ TimersOK(timers[p], a, nbuffered[p])
     /\ ReceiverOK(frame_expected[q], too_far[q], last_pkt_given[q], arrived[q],
                   in_buf[q], e, h)
     /\ a <= e /\ e <= h /\ h <= top
     /\ DataWindow(chan[q], nrs, MAX_SEQ, NR_BUFS, top, h)
     /\ AckWindow(chan[p], acks, MAX_SEQ, a, e)
     /\ NaksOK(chan[p], frame_expected[q], no_nak[q])

Direction(p) == \E a, e, h \in Nat : \E nrs, acks : Numbering(p, a, e, h, nrs, acks)

IInv ==
  /\ TypeOK
  /\ NoProtocolError
  /\ \A p \in Proc : Direction(p)

-----------------------------------------------------------------------------
(* Numbers.                                                                *)

(* The sizes of the sets of numbers: the buffers are half of them.         *)
LEMMA Sizes ==
  /\ MAX_SEQ \in Nat \ {0} /\ MaxPkt \in Nat \ {0} /\ MAX_SEQ <= MaxPkt
  /\ NR_BUFS \in Nat \ {0} /\ NR_BUFS + NR_BUFS = MAX_SEQ + 1 /\ NR_BUFS <= MAX_SEQ
  /\ SeqNr = 0 .. MAX_SEQ /\ Pkt = 0 .. MaxPkt /\ Buf = 0 .. NR_BUFS - 1
<1>1. /\ MAX_SEQ \in Nat \ {0} /\ MaxPkt \in Nat \ {0} /\ MAX_SEQ <= MaxPkt
      /\ MAX_SEQ % 2 = 1
  BY MaxSeqAssumption, DataLinkAssumption, Protocol6Assumption
<1>2. PICK x \in Nat : MAX_SEQ = 2 * x + 1
  <2>1. 2 \in Nat \ {0} /\ MAX_SEQ \in Nat
    BY <1>1
  <2>2. \E x \in Nat : MAX_SEQ = 2 * x + (MAX_SEQ % 2)
    BY <2>1, Quotient
  <2> QED
    BY <1>1, <2>2
<1>3. NR_BUFS = x + 1
  <2>1. (2 * x + 1) + 1 = 2 * (x + 1) /\ (2 * (x + 1)) \div 2 = x + 1
    OBVIOUS
  <2> QED
    BY <1>2, <2>1 DEF NR_BUFS
<1> QED
  BY <1>1, <1>2, <1>3 DEF SeqNr, Pkt, Buf

(* A worker and its peer, and nobody else.                                 *)
LEMMA PeerFacts ==
  ASSUME NEW p \in Proc
  PROVE  Peer(p) \in Proc /\ Peer(p) # p /\ Peer(Peer(p)) = p /\ Proc = {p, Peer(p)}
BY DEF Proc, Peer

(* inc on the numbers of packet k gives those of packet k + 1.             *)
LEMMA SeqNumbers ==
  ASSUME NEW k \in Nat
  PROVE  /\ SeqNo(k) \in SeqNr /\ Inc(SeqNo(k), MAX_SEQ) = SeqNo(k + 1)
         /\ PktNo(k) \in Pkt /\ Inc(PktNo(k), MaxPkt) = PktNo(k + 1)
BY Sizes, WrappedNext DEF SeqNo, PktNo

(* Numbers of packets at most MAX_SEQ apart, as distances.                 *)
LEMMA SeqNumberFromTo ==
  ASSUME NEW k \in Nat, NEW l \in Nat, k <= l, l <= k + MAX_SEQ
  PROVE  /\ SeqNo(l) = Advance(SeqNo(k), l - k, MAX_SEQ)
         /\ Distance(SeqNo(k), SeqNo(l), MAX_SEQ) = l - k
         /\ PktNo(l) = Advance(PktNo(k), l - k, MaxPkt)
         /\ Distance(PktNo(k), PktNo(l), MaxPkt) = l - k
<1>1. l <= k + MaxPkt /\ MAX_SEQ \in Nat /\ MaxPkt \in Nat
  BY Sizes
<1> QED
  BY <1>1, WrappedFromTo DEF SeqNo, PktNo

(* Packets at most MAX_SEQ apart have different numbers.                   *)
LEMMA SeqNumbersApart ==
  ASSUME NEW k \in Nat, NEW l \in Nat, k <= l + MAX_SEQ, l <= k + MAX_SEQ,
         SeqNo(k) = SeqNo(l)
  PROVE  k = l
BY Sizes, WrappedApart DEF SeqNo

(* The buffer of a frame, which is the same a window further on.           *)
LEMMA BufNumbers ==
  ASSUME NEW k \in Nat
  PROVE  /\ SeqNo(k) % NR_BUFS = BufNo(k) /\ BufNo(k) \in Buf
         /\ BufNo(k + NR_BUFS) = BufNo(k)
<1>1. /\ NR_BUFS \in Nat \ {0} /\ 2 * NR_BUFS - 1 = MAX_SEQ /\ NR_BUFS - 1 \in Nat
      /\ (NR_BUFS - 1) + 1 = NR_BUFS
  BY Sizes
<1>2. SeqNo(k) % NR_BUFS = BufNo(k)
  BY <1>1, WrappedHalf DEF SeqNo, BufNo
<1>3. BufNo(k + NR_BUFS) = BufNo(k)
  <2>1. Wrapped(k + ((NR_BUFS - 1) + 1), NR_BUFS - 1) = Wrapped(k, NR_BUFS - 1)
    BY <1>1, WrappedRound
  <2> QED
    BY <1>1, <2>1 DEF BufNo
<1>4. BufNo(k) \in 0 .. NR_BUFS - 1
  BY <1>1, Quotient DEF BufNo, Wrapped
<1> QED
  BY <1>2, <1>3, <1>4, Sizes

(* Packets less than a window apart have different buffers.                *)
LEMMA BufNumbersApart ==
  ASSUME NEW k \in Nat, NEW l \in Nat, k < l + NR_BUFS, l < k + NR_BUFS,
         BufNo(k) = BufNo(l)
  PROVE  k = l
<1>1. NR_BUFS - 1 \in Nat /\ k <= l + (NR_BUFS - 1) /\ l <= k + (NR_BUFS - 1)
  BY Sizes
<1> QED
  BY <1>1, WrappedApart DEF BufNo

(* The acknowledgement a frame carries.                                    *)
LEMMA LastAcceptedNumber ==
  ASSUME NEW fe \in SeqNr
  PROVE  LET ack == (fe + MAX_SEQ) % (MAX_SEQ + 1)
         IN ack \in 0 .. MAX_SEQ /\ Inc(ack, MAX_SEQ) = fe
<1>1. MAX_SEQ \in Nat \ {0} /\ fe \in 0 .. MAX_SEQ
  BY Sizes
<1>2. CASE fe = 0
  <2>1. MAX_SEQ % (MAX_SEQ + 1) = MAX_SEQ
    BY <1>1
  <2> QED
    BY <1>1, <1>2, <2>1 DEF Inc
<1>3. CASE fe # 0
  <2>1. PICK x \in 0 .. MAX_SEQ : fe = x + 1 /\ x < MAX_SEQ
    BY <1>1, <1>3
  <2>2. x + (MAX_SEQ + 1) = fe + MAX_SEQ
    BY <1>1, <2>1
  <2>3. (MAX_SEQ + 1) * 1 + x = fe + MAX_SEQ /\ MAX_SEQ + 1 \in Nat \ {0}
    BY <1>1, <2>2
  <2>4. (fe + MAX_SEQ) % (MAX_SEQ + 1) = x
    BY <1>1, <2>1, <2>3, Remainder
  <2> QED
    BY <1>1, <2>1, <2>4 DEF Inc
<1> QED
  BY <1>2, <1>3

(* The frame a nak asks for.                                               *)
LEMMA MissingNumber ==
  ASSUME NEW r \in Frame, r.ack \in 0 .. MAX_SEQ
  PROVE  Missing(r) = Inc(r.ack, MAX_SEQ)
<1> DEFINE x == r.ack
<1>1. x \in 0 .. MAX_SEQ /\ MAX_SEQ \in Nat
  BY Sizes
<1> HIDE DEF x
<1>2. CASE x = MAX_SEQ
  <2>1. (MAX_SEQ + 1) % (MAX_SEQ + 1) = 0
    BY <1>1
  <2> QED
    BY <1>1, <1>2, <2>1 DEF Inc, Missing, x
<1>3. CASE x # MAX_SEQ
  <2>1. (MAX_SEQ + 1) * 0 + (x + 1) = x + 1 /\ x + 1 \in 0 .. (MAX_SEQ + 1) - 1
        /\ MAX_SEQ + 1 \in Nat \ {0} /\ 0 \in Nat
    BY <1>1, <1>3
  <2>2. (x + 1) % (MAX_SEQ + 1) = x + 1
    BY <2>1, Remainder
  <2> QED
    BY <1>1, <1>3, <2>2 DEF Inc, Missing, x
<1> QED
  BY <1>2, <1>3

-----------------------------------------------------------------------------
(* What a worker writes: nothing, or a frame that is lost, or a frame.     *)

Sent(frames, frames2, kind, nr, info, fe) ==
  \/ frames2 = frames
  \/ \E f \in Frame :
       /\ f.kind = kind /\ f.ack \in 0 .. MAX_SEQ /\ Inc(f.ack, MAX_SEQ) = fe
       /\ kind = "data" => f.seq = nr /\ f.info = info
       /\ frames2 = Append(frames, f)

(* A frame that is sent is a packet of the sender's window, if it is data. *)
LEMMA SentNumbers ==
  ASSUME NEW frames, NEW frames2, NEW nrs, NEW top \in Nat, NEW h \in Nat, NEW k \in Nat,
         DataWindow(frames, nrs, MAX_SEQ, NR_BUFS, top, h),
         NEW kind, kind = "data" => top <= k + NR_BUFS /\ h <= k + NR_BUFS /\ k < top,
         NEW fe, Sent(frames, frames2, kind, SeqNo(k), PktNo(k), fe)
  PROVE  \E nrs2 : DataWindow(frames2, nrs2, MAX_SEQ, NR_BUFS, top, h)
<1>1. MAX_SEQ \in Nat /\ NR_BUFS \in Nat
  BY Sizes
<1>2. CASE frames2 = frames
  BY <1>2
<1>3. CASE frames2 # frames
  <2>1. PICK f \in Frame : /\ f.kind = kind /\ frames2 = Append(frames, f)
                           /\ kind = "data" => f.seq = SeqNo(k) /\ f.info = PktNo(k)
    BY <1>3 DEF Sent
  <2>2. Transmit(frames, f, FALSE) = frames2
    BY <2>1 DEF Transmit
  <2>3. CASE kind = "data"
    <3>1. f.seq = Wrapped(k, MAX_SEQ) /\ f.info = Wrapped(k, MaxPkt)
      BY <2>1, <2>3 DEF SeqNo, PktNo
    <3>2. \E nrs2 : DataWindow(Transmit(frames, f, FALSE), nrs2, MAX_SEQ, NR_BUFS, top, h)
      BY <1>1, <2>3, <3>1, DataTransmitted
    <3> QED
      BY <2>2, <3>2
  <2>4. CASE kind # "data"
    <3>1. \E nrs2 : DataWindow(Transmit(frames, f, FALSE), nrs2, MAX_SEQ, NR_BUFS, top, h)
      BY <1>1, <2>1, <2>4, OtherSent
    <3> QED
      BY <2>2, <3>1
  <2> QED
    BY <2>3, <2>4
<1> QED
  BY <1>2, <1>3

(* A frame that is sent acknowledges what was passed on last.              *)
LEMMA SentAck ==
  ASSUME NEW frames, NEW frames2, NEW acks, NEW a \in Nat, NEW e \in Nat, a <= e,
         AckWindow(frames, acks, MAX_SEQ, a, e),
         NEW kind, NEW nr, NEW info, Sent(frames, frames2, kind, nr, info, SeqNo(e))
  PROVE  \E acks2 : AckWindow(frames2, acks2, MAX_SEQ, a, e)
<1>1. CASE frames2 = frames
  BY <1>1
<1>2. CASE frames2 # frames
  <2>1. PICK f \in Frame : /\ f.ack \in 0 .. MAX_SEQ /\ Inc(f.ack, MAX_SEQ) = SeqNo(e)
                           /\ frames2 = Append(frames, f)
    BY <1>2 DEF Sent
  <2>2. MAX_SEQ \in Nat /\ Inc(f.ack, MAX_SEQ) = Wrapped(e, MAX_SEQ)
    BY <2>1, Sizes DEF SeqNo
  <2>3. AckWindow(Append(frames, f), Append(acks, e), MAX_SEQ, a, e)
    BY <2>1, <2>2, AckAdded
  <2> QED
    BY <2>1, <2>3
<1> QED
  BY <1>1, <1>2

(* A worker sends a nak only when it has sent none for the frame it        *)
(* expects.                                                                *)
LEMMA SentNak ==
  ASSUME NEW frames \in Seq(Frame), NEW frames2, NEW free, NEW free2,
         NEW kind, NEW nr, NEW info, NEW fe,
         Sent(frames, frames2, kind, nr, info, fe), NaksOK(frames, fe, free),
         free2 => free, kind = "nak" => free /\ ~free2
  PROVE  NaksOK(frames2, fe, free2)
<1>1. CASE frames2 = frames
  BY <1>1 DEF NaksOK
<1>2. CASE frames2 # frames
  <2>1. PICK f \in Frame : f.kind = kind /\ frames2 = Append(frames, f)
    BY <1>2 DEF Sent
  <2>2. /\ Len(frames) \in Nat /\ Len(frames2) = Len(frames) + 1
        /\ \A i \in 1 .. Len(frames) : frames2[i] = frames[i]
        /\ frames2[Len(frames) + 1] = f
    BY <2>1, AppendIndex
  <2>3. \A i \in 1 .. Len(frames2) : i \in 1 .. Len(frames) \/ (i = Len(frames) + 1 /\ frames2[i] = f)
    BY <2>2
  <2>4. AsksFor(f, fe) => kind = "nak"
    BY <2>1 DEF AsksFor
  <2> QED
    BY <2>2, <2>3, <2>4 DEF NaksOK
<1> QED
  BY <1>1, <1>2

(* Taking a frame adds no nak.                                             *)
LEMMA DropNak ==
  ASSUME NEW frames \in Seq(Frame), frames # <<>>, NEW fe, NEW free,
         NaksOK(frames, fe, free)
  PROVE  NaksOK(Tail(frames), fe, free)
<1> DEFINE fs == Tail(frames)
<1>1. /\ fs \in Seq(Frame) /\ Len(fs) = Len(frames) - 1 /\ Len(frames) \in Nat
      /\ \A i \in 1 .. Len(fs) : fs[i] = frames[i + 1] /\ i + 1 \in 1 .. Len(frames)
  BY TailIndex
<1> HIDE DEF fs
<1>2. \A i, j \in 1 .. Len(fs) : i + 1 = j + 1 => i = j
  BY <1>1
<1>3. NaksOK(fs, fe, free)
  BY <1>1, <1>2 DEF NaksOK
<1> QED
  BY <1>3 DEF fs

(* No nak asks for a frame the receiver expects for the first time.        *)
LEMMA NoNakYet ==
  ASSUME NEW frames, NEW acks, NEW a \in Nat, NEW e \in Nat, NEW f \in Nat,
         AckWindow(frames, acks, MAX_SEQ, a, e), e < f, f <= a + MAX_SEQ, NEW free
  PROVE  NaksOK(frames, SeqNo(f), free)
<1>1. ASSUME NEW i \in 1 .. Len(frames)
      PROVE  ~AsksFor(frames[i], SeqNo(f))
  <2> DEFINE l == acks[i]
  <2>1. /\ l \in Nat /\ a <= l /\ l <= e
        /\ Inc(frames[i].ack, MAX_SEQ) = SeqNo(l)
    BY DEF AckWindow, SeqNo
  <2> HIDE DEF l
  <2>2. MAX_SEQ \in Nat /\ l <= f + MAX_SEQ /\ f <= l + MAX_SEQ /\ l # f
    <3>1. MAX_SEQ \in Nat
      BY Sizes
    <3> QED
      BY <2>1, <3>1
  <2>3. SeqNo(l) # SeqNo(f)
    BY <2>1, <2>2, SeqNumbersApart
  <2> QED
    BY <2>1, <2>3 DEF AsksFor
<1> QED
  BY <1>1 DEF NaksOK

-----------------------------------------------------------------------------
(* The sender.                                                             *)

(* The sender's variables after it fetched and sent one more packet.       *)
LEMMA SenderFetches ==
  ASSUME NEW a \in Nat, NEW nb \in Nat, nb < NR_BUFS, NEW ae, NEW nf, NEW nn,
         NEW buf \in [Buf -> Pkt], NEW sq \in [SeqNr -> SeqNr],
         SenderOK(ae, nf, nb, buf, sq, nn, a)
  PROVE  LET buf2 == [buf EXCEPT ![nf % NR_BUFS] = nn]
         IN /\ nf = SeqNo(a + nb) /\ nn = PktNo(a + nb) /\ nf % NR_BUFS \in Buf
            /\ buf2[nf % NR_BUFS] = nn
            /\ SenderOK(ae, Inc(nf, MAX_SEQ), nb + 1, buf2, [sq EXCEPT ![nf] = nf],
                        Inc(nn, MaxPkt), a)
<1> DEFINE b == nf % NR_BUFS
           buf2 == [buf EXCEPT ![b] = nn]
           sq2 == [sq EXCEPT ![nf] = nf]
<1>1. /\ a + nb \in Nat /\ a + (nb + 1) = (a + nb) + 1
      /\ NR_BUFS \in Nat \ {0} /\ MAX_SEQ \in Nat /\ NR_BUFS <= MAX_SEQ
  BY Sizes
<1>2. nf = SeqNo(a + nb) /\ nn = PktNo(a + nb)
  BY DEF SenderOK
<1>3. /\ Inc(nf, MAX_SEQ) = SeqNo((a + nb) + 1) /\ Inc(nn, MaxPkt) = PktNo((a + nb) + 1)
      /\ nf \in SeqNr /\ b = BufNo(a + nb) /\ b \in Buf
  BY <1>1, <1>2, SeqNumbers, BufNumbers
<1> HIDE DEF b
<1>4. ASSUME NEW k \in a .. (a + (nb + 1)) - 1
      PROVE  buf2[BufNo(k)] = PktNo(k) /\ sq2[SeqNo(k)] = SeqNo(k)
  <2>1. SeqNo(k) \in SeqNr /\ BufNo(k) \in Buf /\ k \in Nat
    BY SeqNumbers, BufNumbers
  <2>2. CASE k = a + nb
    BY <1>2, <1>3, <2>2
  <2>3. CASE k # a + nb
    <3>1. /\ k \in a .. (a + nb) - 1
          /\ k < (a + nb) + NR_BUFS /\ a + nb < k + NR_BUFS
          /\ k <= (a + nb) + MAX_SEQ /\ a + nb <= k + MAX_SEQ
      BY <1>1, <2>3
    <3>2. SeqNo(k) # nf /\ BufNo(k) # b
      BY <1>1, <1>2, <1>3, <2>1, <2>3, <3>1, SeqNumbersApart, BufNumbersApart
    <3> QED
      BY <2>1, <3>1, <3>2 DEF SenderOK
  <2> QED
    BY <2>2, <2>3
<1>5. ae = SeqNo(a) /\ buf2[b] = nn
  BY <1>3 DEF SenderOK
<1> HIDE DEF buf2, sq2
<1>6. SenderOK(ae, Inc(nf, MAX_SEQ), nb + 1, buf2, sq2, Inc(nn, MaxPkt), a)
  BY <1>1, <1>3, <1>4, <1>5 DEF SenderOK
<1> QED
  BY <1>2, <1>3, <1>5, <1>6 DEF b, buf2, sq2

(* An outstanding frame is sent again.                                     *)
LEMMA SenderRepeats ==
  ASSUME NEW a \in Nat, NEW nb \in Nat, NEW ae, NEW nf, NEW nn,
         NEW buf, NEW sq \in [SeqNr -> SeqNr], SenderOK(ae, nf, nb, buf, sq, nn, a),
         NEW k \in a .. (a + nb) - 1
  PROVE  /\ buf[SeqNo(k) % NR_BUFS] = PktNo(k)
         /\ SenderOK(ae, nf, nb, buf, [sq EXCEPT ![SeqNo(k)] = SeqNo(k)], nn, a)
<1>1. buf[SeqNo(k) % NR_BUFS] = PktNo(k)
  BY BufNumbers DEF SenderOK
<1>2. [sq EXCEPT ![SeqNo(k)] = SeqNo(k)] = sq
  <2>1. sq[SeqNo(k)] = SeqNo(k)
    BY DEF SenderOK
  <2> QED
    BY <2>1
<1> QED
  BY <1>1, <1>2

(* The n oldest frames are acknowledged.                                   *)
LEMMA SenderAcked ==
  ASSUME NEW a \in Nat, NEW nb \in Nat, nb <= MAX_SEQ, NEW n \in 0 .. nb,
         NEW ae, NEW nf, NEW nn, NEW buf, NEW sq, SenderOK(ae, nf, nb, buf, sq, nn, a)
  PROVE  SenderOK(Advance(ae, n, MAX_SEQ), nf, nb - n, buf, sq, nn, a + n)
<1>1. /\ (a + n) + (nb - n) = a + nb /\ a + n \in Nat
      /\ a <= a + n /\ a + n <= a + MAX_SEQ /\ (a + n) - a = n
  BY Sizes
<1>2. Advance(ae, n, MAX_SEQ) = SeqNo(a + n)
  BY <1>1, SeqNumberFromTo DEF SenderOK
<1>3. \A k \in a + n .. ((a + n) + (nb - n)) - 1 : k \in a .. (a + nb) - 1
  BY <1>1
<1> QED
  BY <1>1, <1>2, <1>3 DEF SenderOK

(* Its timers: one more, one started again, and the n oldest stopped.      *)
LEMMA TimerAdded ==
  ASSUME NEW a \in Nat, NEW nb \in Nat, NEW ts, TimersOK(ts, a, nb)
  PROVE  TimersOK(StartTimer(ts, SeqNo(a + nb)), a, nb + 1)
<1> DEFINE us == StartTimer(ts, SeqNo(a + nb))
<1>1. SeqNo(a + nb) \in SeqNr
  BY SeqNumbers, a + nb \in Nat
<1>2. us \in Seq(SeqNr) /\ IsInjective(us) /\ ToSet(us) = ToSet(ts) \cup {SeqNo(a + nb)}
  BY <1>1, StartOne DEF TimersOK
<1> HIDE DEF us
<1>3. {SeqNo(k) : k \in a .. (a + (nb + 1)) - 1}
        = {SeqNo(k) : k \in a .. (a + nb) - 1} \cup {SeqNo(a + nb)}
  <2>1. a .. (a + (nb + 1)) - 1 = (a .. (a + nb) - 1) \cup {a + nb}
    OBVIOUS
  <2> QED
    BY <2>1
<1>4. TimersOK(us, a, nb + 1)
  BY <1>2, <1>3 DEF TimersOK
<1> QED
  BY <1>4 DEF us

(* Starting the timer of an outstanding frame again adds none.             *)
LEMMA TimerRestarts ==
  ASSUME NEW a \in Nat, NEW nb \in Nat, NEW ts, TimersOK(ts, a, nb),
         NEW k \in a .. (a + nb) - 1
  PROVE  TimersOK(StartTimer(ts, SeqNo(k)), a, nb)
<1>1. SeqNo(k) \in SeqNr
  BY SeqNumbers, k \in Nat
<1>2. /\ StartTimer(ts, SeqNo(k)) \in Seq(SeqNr) /\ IsInjective(StartTimer(ts, SeqNo(k)))
      /\ ToSet(StartTimer(ts, SeqNo(k))) = ToSet(ts) \cup {SeqNo(k)}
  BY <1>1, StartOne DEF TimersOK
<1> QED
  BY <1>2 DEF TimersOK

(* The timer that went off belongs to an outstanding frame, which is sent  *)
(* again.                                                                  *)
LEMMA TimerFires ==
  ASSUME NEW a \in Nat, NEW nb \in Nat, NEW ts, TimersOK(ts, a, nb), ts # <<>>
  PROVE  /\ Head(ts) \in {SeqNo(k) : k \in a .. (a + nb) - 1}
         /\ TimersOK(StartTimer(Tail(ts), Head(ts)), a, nb)
<1> DEFINE us == Tail(ts)
           k == Head(ts)
<1>1. ts \in Seq(SeqNr) /\ IsInjective(ts)
  BY DEF TimersOK
<1>2. /\ us \in Seq(SeqNr) /\ k \in SeqNr /\ k = ts[1] /\ Len(us) = Len(ts) - 1
      /\ Len(ts) \in Nat \ {0}
      /\ \A i \in 1 .. Len(us) : us[i] = ts[i + 1] /\ i + 1 \in 1 .. Len(ts)
  BY <1>1, TailIndex
<1>3. DOMAIN us = 1 .. Len(us) /\ DOMAIN ts = 1 .. Len(ts)
  BY <1>1, <1>2, LenProperties
<1> HIDE DEF us, k
<1>4. IsInjective(us)
  <2>1. \A i, j \in 1 .. Len(us) : i + 1 = j + 1 => i = j
    BY <1>2
  <2> QED
    BY <1>1, <1>2, <1>3, <2>1 DEF IsInjective
<1>5. ToSet(ts) = ToSet(us) \cup {k}
  <2>1. \A i \in 1 .. Len(ts) : i = 1 \/ (i - 1 \in 1 .. Len(us) /\ (i - 1) + 1 = i)
    BY <1>2
  <2>2. \A i \in 1 .. Len(ts) : i = 1 \/ (i - 1 \in 1 .. Len(us) /\ us[i - 1] = ts[i])
    BY <1>2, <2>1
  <2>3. 1 \in 1 .. Len(ts)
    BY <1>2
  <2>4. ASSUME NEW x \in ToSet(ts) PROVE x \in ToSet(us) \cup {k}
    <3>1. PICK i \in 1 .. Len(ts) : x = ts[i]
      BY <1>3 DEF ToSet
    <3>2. CASE i = 1
      BY <1>2, <3>1, <3>2
    <3>3. CASE i # 1
      BY <1>3, <2>2, <3>1, <3>3 DEF ToSet
    <3> QED
      BY <3>2, <3>3
  <2>5. \A x \in ToSet(us) \cup {k} : x \in ToSet(ts)
    BY <1>2, <1>3, <2>3 DEF ToSet
  <2> QED
    BY <2>4, <2>5
<1>6. /\ StartTimer(us, k) \in Seq(SeqNr) /\ IsInjective(StartTimer(us, k))
      /\ ToSet(StartTimer(us, k)) = ToSet(us) \cup {k}
  BY <1>2, <1>4, StartOne
<1>7. TimersOK(StartTimer(us, k), a, nb)
  BY <1>5, <1>6 DEF TimersOK
<1>8. k \in {SeqNo(j) : j \in a .. (a + nb) - 1}
  BY <1>5 DEF TimersOK
<1> QED
  BY <1>7, <1>8 DEF us, k

(* The timers after n frames were acknowledged.                            *)
LEMMA TimersAcked ==
  ASSUME NEW a \in Nat, NEW nb \in Nat, nb <= MAX_SEQ, NEW n \in 0 .. nb,
         NEW ts, TimersOK(ts, a, nb)
  PROVE  TimersOK(StopTimers(ts, [i \in 1 .. n |-> Advance(SeqNo(a), i - 1, MAX_SEQ)]),
                  a + n, nb - n)
<1> DEFINE slots == [i \in 1 .. n |-> Advance(SeqNo(a), i - 1, MAX_SEQ)]
           us == StopTimers(ts, slots)
           stopped == {slots[i] : i \in 1 .. Len(slots)}
<1>1. ts \in Seq(SeqNr) /\ IsInjective(ts) /\ Len(slots) = n /\ n \in Nat
  BY DEF TimersOK
<1>2. \A i \in 1 .. n : slots[i] = SeqNo((a + i) - 1)
  <2> SUFFICES ASSUME NEW i \in 1 .. n PROVE slots[i] = SeqNo((a + i) - 1)
    OBVIOUS
  <2>1. /\ (a + i) - 1 \in Nat /\ a <= (a + i) - 1 /\ (a + i) - 1 <= a + MAX_SEQ
        /\ ((a + i) - 1) - a = i - 1
    BY Sizes
  <2>2. SeqNo((a + i) - 1) = Advance(SeqNo(a), i - 1, MAX_SEQ)
    BY <2>1, SeqNumberFromTo
  <2> QED
    BY <2>2
<1> HIDE DEF slots
<1>3. us \in Seq(SeqNr) /\ IsInjective(us) /\ ToSet(us) = ToSet(ts) \ stopped
  BY <1>1, StopMany
<1>4. ToSet(us) = {SeqNo(k) : k \in a + n .. ((a + n) + (nb - n)) - 1}
  <2>1. ((a + n) + (nb - n)) - 1 = (a + nb) - 1
    OBVIOUS
  <2>2. ASSUME NEW k \in a .. (a + nb) - 1
        PROVE  SeqNo(k) \in stopped <=> k < a + n
    <3>1. CASE k < a + n
      <4>1. k - a + 1 \in 1 .. n /\ (a + (k - a + 1)) - 1 = k
        BY <3>1
      <4>2. slots[k - a + 1] = SeqNo(k)
        BY <1>2, <4>1
      <4> QED
        BY <1>1, <3>1, <4>1, <4>2
    <3>2. CASE ~(k < a + n)
      <4> SUFFICES ASSUME NEW i \in 1 .. n, slots[i] = SeqNo(k) PROVE FALSE
        BY <1>1, <3>2
      <4>1. /\ (a + i) - 1 \in Nat /\ k \in Nat
            /\ (a + i) - 1 <= k + MAX_SEQ /\ k <= ((a + i) - 1) + MAX_SEQ
            /\ (a + i) - 1 # k
        BY <3>2, Sizes
      <4> QED
        BY <1>2, <4>1, SeqNumbersApart
    <3> QED
      BY <3>1, <3>2
  <2>3. \A k \in a + n .. (a + nb) - 1 : k \in a .. (a + nb) - 1 /\ ~(k < a + n)
    OBVIOUS
  <2>4. \A k \in a .. (a + nb) - 1 : k < a + n \/ k \in a + n .. (a + nb) - 1
    OBVIOUS
  <2>5. ToSet(ts) = {SeqNo(k) : k \in a .. (a + nb) - 1}
    BY DEF TimersOK
  <2> HIDE DEF us, stopped
  <2>6. \A x \in ToSet(us) : \E k \in a + n .. (a + nb) - 1 : x = SeqNo(k)
    BY <1>3, <2>2, <2>4, <2>5
  <2>7. \A k \in a + n .. (a + nb) - 1 : SeqNo(k) \in ToSet(us)
    BY <1>3, <2>2, <2>3, <2>5
  <2> QED
    BY <2>1, <2>6, <2>7
<1> HIDE DEF us
<1>5. TimersOK(us, a + n, nb - n)
  BY <1>3, <1>4 DEF TimersOK
<1> QED
  BY <1>5 DEF us, slots

-----------------------------------------------------------------------------
(* The receiver.                                                           *)

(* Its window is what between says, for a frame that was in the window of  *)
(* its sender: half of the sequence numbers is narrow enough.              *)
LEMMA WantedNumber ==
  ASSUME NEW e \in Nat, NEW k \in Nat, e <= k + NR_BUFS, k < e + NR_BUFS
  PROVE  Between(SeqNo(e), SeqNo(k), SeqNo(e + NR_BUFS)) => e <= k
<1>1. /\ NR_BUFS \in Nat \ {0} /\ MAX_SEQ \in Nat /\ NR_BUFS + NR_BUFS = MAX_SEQ + 1
      /\ NR_BUFS <= MAX_SEQ
  BY Sizes
<1>2. SUFFICES ASSUME Between(SeqNo(e), SeqNo(k), SeqNo(e + NR_BUFS)), k < e
               PROVE  FALSE
  OBVIOUS
<1>3. /\ SeqNo(e) \in 0 .. MAX_SEQ /\ SeqNo(k) \in 0 .. MAX_SEQ
      /\ SeqNo(e + NR_BUFS) \in 0 .. MAX_SEQ
  BY <1>1, SeqNumbers, Sizes, e + NR_BUFS \in Nat
<1>4. Distance(SeqNo(e), SeqNo(e + NR_BUFS), MAX_SEQ) = NR_BUFS
  <2>1. e + NR_BUFS \in Nat /\ e <= e + NR_BUFS /\ e + NR_BUFS <= e + MAX_SEQ
        /\ (e + NR_BUFS) - e = NR_BUFS
    BY <1>1
  <2> QED
    BY <2>1, SeqNumberFromTo
<1>5. Distance(SeqNo(k), SeqNo(e), MAX_SEQ) = e - k
  <2>1. k <= e /\ e <= k + MAX_SEQ
    BY <1>1, <1>2
  <2> QED
    BY <2>1, SeqNumberFromTo
<1>6. SeqNo(e) # SeqNo(k)
  <2>1. e <= k + MAX_SEQ /\ k <= e + MAX_SEQ /\ e # k
    BY <1>1, <1>2
  <2> QED
    BY <2>1, SeqNumbersApart
<1>7. Distance(SeqNo(e), SeqNo(k), MAX_SEQ) = (MAX_SEQ + 1) - (e - k)
  BY <1>1, <1>3, <1>5, <1>6, DistanceAround
<1>8. Distance(SeqNo(e), SeqNo(k), MAX_SEQ) < NR_BUFS
  BY <1>1, <1>2, <1>3, <1>4, BetweenIsCloser
<1> QED
  BY <1>1, <1>2, <1>7, <1>8

(* A frame of the window is stored.                                        *)
LEMMA FrameStored ==
  ASSUME NEW map \in [Buf -> BOOLEAN], NEW buf \in [Buf -> Pkt], NEW e \in Nat, NEW h \in Nat,
         Stores(map, buf, e, h), NEW k \in Nat, e <= k, k < e + NR_BUFS,
         NEW h2 \in Nat, h <= h2, k < h2
  PROVE  Stores([map EXCEPT ![BufNo(k)] = TRUE], [buf EXCEPT ![BufNo(k)] = PktNo(k)], e, h2)
<1> DEFINE map2 == [map EXCEPT ![BufNo(k)] = TRUE]
           buf2 == [buf EXCEPT ![BufNo(k)] = PktNo(k)]
<1>1. ASSUME NEW l \in e .. (e + NR_BUFS) - 1, map2[BufNo(l)]
      PROVE  l < h2 /\ buf2[BufNo(l)] = PktNo(l)
  <2>1. l \in Nat /\ NR_BUFS \in Nat
    BY Sizes
  <2> BufNo(l) \in Buf
    BY <2>1, BufNumbers
  <2>2. CASE l = k
    BY <2>1, <2>2
  <2>3. CASE l # k
    <3>1. l < k + NR_BUFS /\ k < l + NR_BUFS
      BY <2>1
    <3>2. BufNo(l) # BufNo(k)
      BY <2>1, <2>3, <3>1, BufNumbersApart
    <3>3. map[BufNo(l)] /\ buf2[BufNo(l)] = buf[BufNo(l)]
      BY <1>1, <2>1, <3>2
    <3>4. l < h /\ buf[BufNo(l)] = PktNo(l)
      BY <3>3 DEF Stores
    <3> QED
      BY <2>1, <3>3, <3>4
  <2> QED
    BY <2>2, <2>3
<1> HIDE DEF map2, buf2
<1>2. Stores(map2, buf2, e, h2)
  BY <1>1 DEF Stores
<1> QED
  BY <1>2 DEF map2, buf2

(* How many packets can be passed on.                                      *)
Prefix(map, e, n) ==
  /\ n \in 0 .. NR_BUFS
  /\ \A i \in 0 .. n - 1 : map[BufNo(e + i)]
  /\ n < NR_BUFS => ~map[BufNo(e + n)]

(* The frames stored from the expected one on, up to the first gap.        *)
LEMMA PrefixExists ==
  ASSUME NEW map, NEW e \in Nat
  PROVE  \E n : Prefix(map, e, n)
<1> DEFINE T == {n \in 0 .. NR_BUFS - 1 : ~map[BufNo(e + n)]}
<1>1. NR_BUFS \in Nat \ {0}
  BY Sizes
<1>2. CASE T = {}
  <2>1. \A i \in 0 .. NR_BUFS - 1 : map[BufNo(e + i)]
    BY <1>2
  <2> HIDE DEF T
  <2>2. NR_BUFS \in 0 .. NR_BUFS /\ ~(NR_BUFS < NR_BUFS)
    BY <1>1
  <2>3. Prefix(map, e, NR_BUFS)
    BY <2>1, <2>2 DEF Prefix
  <2> QED
    BY <2>3
<1>3. CASE T # {}
  <2>1. T \subseteq Nat
    BY <1>1
  <2> HIDE DEF T
  <2>2. PICK n \in T : \A m \in T : n <= m
    BY <1>3, <2>1, Smallest
  <2> USE DEF T
  <2>3. n \in 0 .. NR_BUFS /\ ~map[BufNo(e + n)]
    BY <1>1, <2>2
  <2>4. \A i \in 0 .. n - 1 : i \in 0 .. NR_BUFS - 1 /\ ~(n <= i)
    BY <1>1, <2>2
  <2>5. \A i \in 0 .. n - 1 : map[BufNo(e + i)]
    BY <2>2, <2>4
  <2>6. Prefix(map, e, n)
    BY <2>3, <2>5 DEF Prefix
  <2> QED
    BY <2>6
<1> QED
  BY <1>2, <1>3

(* The window advances by n frames: their buffers are those of the n new   *)
(* frames, which have not arrived.                                         *)
LEMMA WindowAdvances ==
  ASSUME NEW map \in [Buf -> BOOLEAN], NEW buf, NEW e \in Nat, NEW h \in Nat, e <= h,
         Stores(map, buf, e, h), NEW n, Prefix(map, e, n),
         NEW map2 \in [Buf -> BOOLEAN],
         \A b \in Buf : map2[b] = (map[b] /\ b \notin {BufNo(e + i) : i \in 0 .. n - 1})
  PROVE  e + n <= h /\ ~map2[BufNo(e + n)] /\ Stores(map2, buf, e + n, h)
<1>1. /\ NR_BUFS \in Nat \ {0} /\ n \in 0 .. NR_BUFS /\ n \in Nat
      /\ \A i \in 0 .. n - 1 : map[BufNo(e + i)]
      /\ n < NR_BUFS => ~map[BufNo(e + n)]
  <2>1. NR_BUFS \in Nat \ {0} /\ n \in 0 .. NR_BUFS
    BY Sizes DEF Prefix
  <2> QED
    BY <2>1 DEF Prefix
<1>2. e + n <= h
  <2>1. CASE n = 0
    BY <2>1
  <2>2. CASE n # 0
    <3>1. /\ n - 1 \in 0 .. n - 1 /\ e + (n - 1) \in e .. (e + NR_BUFS) - 1
      BY <1>1, <2>2
    <3>2. e + (n - 1) < h
      BY <1>1, <3>1 DEF Stores
    <3> QED
      BY <1>1, <3>1, <3>2
  <2> QED
    BY <2>1, <2>2
<1>3. \A i \in 0 .. n - 1 : ~map2[BufNo(e + i)]
  <2> SUFFICES ASSUME NEW i \in 0 .. n - 1 PROVE ~map2[BufNo(e + i)]
    OBVIOUS
  <2>1. BufNo(e + i) \in Buf
    BY BufNumbers, e + i \in Nat
  <2> QED
    BY <2>1
<1>4. ASSUME NEW k \in e .. (e + NR_BUFS) - 1, map2[BufNo(k)]
      PROVE  e + n <= k /\ map[BufNo(k)]
  <2>1. map[BufNo(k)]
    BY <1>4, BufNumbers, k \in Nat
  <2>2. ~(k < e + n)
    <3> SUFFICES ASSUME k < e + n PROVE FALSE
      OBVIOUS
    <3>1. k - e \in 0 .. n - 1 /\ e + (k - e) = k
      BY <1>1
    <3> QED
      BY <1>3, <1>4, <3>1
  <2> QED
    BY <1>1, <2>1, <2>2
<1>5. ASSUME NEW k \in e + n .. ((e + n) + NR_BUFS) - 1, map2[BufNo(k)]
      PROVE  k < e + NR_BUFS
  <2> SUFFICES ASSUME ~(k < e + NR_BUFS) PROVE FALSE
    BY <1>1
  <2>1. /\ (k - NR_BUFS) - e \in 0 .. n - 1 /\ e + ((k - NR_BUFS) - e) = k - NR_BUFS
        /\ k - NR_BUFS \in Nat /\ (k - NR_BUFS) + NR_BUFS = k
    BY <1>1
  <2>2. ~map2[BufNo(k - NR_BUFS)]
    BY <1>3, <2>1
  <2>3. BufNo((k - NR_BUFS) + NR_BUFS) = BufNo(k - NR_BUFS)
    BY <2>1, BufNumbers
  <2> QED
    BY <1>5, <2>1, <2>2, <2>3
<1>6. ~map2[BufNo(e + n)]
  <2>1. e + n \in e + n .. ((e + n) + NR_BUFS) - 1 /\ e + n \in Nat
    BY <1>1
  <2>2. CASE n = NR_BUFS
    BY <1>1, <1>5, <2>1, <2>2
  <2>3. CASE n # NR_BUFS
    BY <1>1, <2>1, <2>3, BufNumbers
  <2> QED
    BY <2>2, <2>3
<1>7. Stores(map2, buf, e + n, h)
  <2> SUFFICES ASSUME NEW k \in e + n .. ((e + n) + NR_BUFS) - 1, map2[BufNo(k)]
               PROVE  k < h /\ buf[BufNo(k)] = PktNo(k)
    BY DEF Stores
  <2>1. k < e + NR_BUFS
    BY <1>5
  <2>2. k \in e .. (e + NR_BUFS) - 1
    BY <1>1, <2>1
  <2> QED
    BY <1>4, <2>2 DEF Stores
<1> QED
  BY <1>2, <1>6, <1>7

-----------------------------------------------------------------------------
(* The invariant.                                                          *)

(* What TypeOK says of one worker.                                         *)
LEMMA Typed ==
  ASSUME TypeOK, NEW p \in Proc
  PROVE  /\ phase[p] \in {"start", "queue_frames", "wait", "exited"}
         /\ chan \in [Proc -> Seq(Frame)] /\ chan[p] \in Seq(Frame)
         /\ nframes[p] \in Nat /\ nframes[p] <= Len(chan[p])
         /\ timers \in [Proc -> Seq(SeqNr)] /\ timers[p] \in Seq(SeqNr)
         /\ next_net_pkt[p] \in Pkt /\ last_pkt_given[p] \in Pkt
         /\ ack_expected[p] \in SeqNr /\ next_frame_to_send[p] \in SeqNr
         /\ nbuffered[p] \in 0 .. NR_BUFS /\ nbuffered[p] \in Nat /\ nbuffered[p] <= MAX_SEQ
         /\ frame_expected[p] \in SeqNr /\ too_far[p] \in SeqNr
         /\ out_buf[p] \in [Buf -> Pkt] /\ in_buf[p] \in [Buf -> Pkt]
         /\ seqs[p] \in [SeqNr -> SeqNr] /\ arrived[p] \in [Buf -> BOOLEAN]
         /\ no_nak[p] \in BOOLEAN
<1>1. /\ phase[p] \in {"start", "queue_frames", "wait", "exited"}
      /\ chan \in [Proc -> Seq(Frame)] /\ chan[p] \in Seq(Frame)
      /\ nframes[p] \in Nat /\ nframes[p] <= Len(chan[p])
      /\ timers \in [Proc -> Seq(SeqNr)] /\ timers[p] \in Seq(SeqNr)
      /\ next_net_pkt[p] \in Pkt /\ last_pkt_given[p] \in Pkt
  BY DEF TypeOK, WindowTypeOK, LinkTypeOK
<1>2. /\ ack_expected[p] \in SeqNr /\ next_frame_to_send[p] \in SeqNr
      /\ nbuffered[p] \in 0 .. NR_BUFS
      /\ frame_expected[p] \in SeqNr /\ too_far[p] \in SeqNr
  BY DEF TypeOK, WindowTypeOK
<1>3. /\ out_buf[p] \in [Buf -> Pkt] /\ in_buf[p] \in [Buf -> Pkt]
      /\ seqs[p] \in [SeqNr -> SeqNr] /\ arrived[p] \in [Buf -> BOOLEAN]
      /\ no_nak[p] \in BOOLEAN
  BY DEF TypeOK
<1>4. nbuffered[p] \in Nat /\ nbuffered[p] <= MAX_SEQ
  BY <1>2, Sizes
<1> QED
  BY <1>1, <1>2, <1>3, <1>4

(* Init establishes the invariant.                                         *)
LEMMA InitInvariant == Init => IInv
<1> SUFFICES ASSUME Init PROVE IInv
  OBVIOUS
<1> USE DEF Init, WindowInit, LinkInit
<1>1. <<>> \in Seq(Frame) /\ <<>> \in Seq(SeqNr) /\ <<>> \in Seq(Nat) /\ Len(<<>>) = 0
  OBVIOUS
<1>2. TypeOK
  BY <1>1, Sizes DEF TypeOK, WindowTypeOK, LinkTypeOK
<1>3. NoProtocolError
  BY DEF NoProtocolError
<1>4. ASSUME NEW p \in Proc PROVE Direction(p)
  <2>1. SeqNo(0) = 0 /\ PktNo(0) = 0 /\ SeqNo(0 + NR_BUFS) = NR_BUFS
    <3>1. SeqNo(0) = 0 /\ PktNo(0) = 0
      BY Sizes DEF SeqNo, PktNo, Wrapped
    <3>2. SeqNo(0 + NR_BUFS) = Advance(SeqNo(0), NR_BUFS - 0, MAX_SEQ)
      BY Sizes, SeqNumberFromTo, NR_BUFS \in Nat, 0 + NR_BUFS = NR_BUFS
    <3> QED
      BY <3>1, <3>2, Sizes DEF Advance
  <2>2. Peer(p) \in Proc
    BY PeerFacts
  <2>3. Inc(MaxPkt, MaxPkt) = 0
    BY Sizes DEF Inc
  <2>4. SenderOK(0, 0, 0, [b \in Buf |-> 0], [k \in SeqNr |-> 0], 0, 0)
    BY <2>1 DEF SenderOK
  <2>5. ReceiverOK(0, NR_BUFS, MaxPkt, [b \in Buf |-> FALSE], [b \in Buf |-> 0], 0, 0)
    <3>1. \A k \in Nat : BufNo(k) \in Buf
      BY BufNumbers
    <3>2. \A k \in 0 .. (0 + NR_BUFS) - 1 : k \in Nat
      OBVIOUS
    <3> QED
      BY <2>1, <2>3, <3>1, <3>2 DEF ReceiverOK, Stores
  <2>6. DataWindow(<<>>, <<>>, MAX_SEQ, NR_BUFS, 0 + 0, 0) /\ AckWindow(<<>>, <<>>, MAX_SEQ, 0, 0)
    BY <1>1 DEF DataWindow, AckWindow
  <2>7. TimersOK(<<>>, 0, 0)
    BY <1>1 DEF TimersOK, IsInjective, ToSet
  <2>8. NaksOK(<<>>, 0, TRUE)
    BY <1>1 DEF NaksOK
  <2>9. Numbering(p, 0, 0, 0, <<>>, <<>>)
    <3> DEFINE q == Peer(p)
    <3>1. /\ ack_expected[p] = 0 /\ next_frame_to_send[p] = 0 /\ nbuffered[p] = 0
          /\ out_buf[p] = [b \in Buf |-> 0] /\ seqs[p] = [k \in SeqNr |-> 0]
          /\ next_net_pkt[p] = 0 /\ timers[p] = <<>> /\ chan[p] = <<>>
      OBVIOUS
    <3>2. /\ frame_expected[q] = 0 /\ too_far[q] = NR_BUFS /\ last_pkt_given[q] = MaxPkt
          /\ arrived[q] = [b \in Buf |-> FALSE] /\ in_buf[q] = [b \in Buf |-> 0]
          /\ chan[q] = <<>> /\ no_nak[q] = TRUE
      BY <2>2
    <3>3. 0 <= 0 /\ 0 <= 0 + 0
      OBVIOUS
    <3> QED
      BY ONLY <2>4, <2>5, <2>6, <2>7, <2>8, <3>1, <3>2, <3>3 DEF Numbering
  <2> QED
    BY <2>9 DEF Direction
<1> QED
  BY <1>2, <1>3, <1>4 DEF IInv

-----------------------------------------------------------------------------
(* What is common to the steps of a worker w.                              *)

(* All that its peer keeps is untouched.                                   *)
PeerUntouched(w) ==
  LET q == Peer(w)
  IN /\ ack_expected'[q] = ack_expected[q]
     /\ next_frame_to_send'[q] = next_frame_to_send[q]
     /\ nbuffered'[q] = nbuffered[q] /\ next_net_pkt'[q] = next_net_pkt[q]
     /\ out_buf'[q] = out_buf[q] /\ seqs'[q] = seqs[q] /\ timers'[q] = timers[q]
     /\ frame_expected'[q] = frame_expected[q] /\ too_far'[q] = too_far[q]
     /\ last_pkt_given'[q] = last_pkt_given[q]
     /\ arrived'[q] = arrived[q] /\ in_buf'[q] = in_buf[q] /\ no_nak'[q] = no_nak[q]

SenderUntouched(w) ==
  /\ ack_expected'[w] = ack_expected[w]
  /\ next_frame_to_send'[w] = next_frame_to_send[w]
  /\ nbuffered'[w] = nbuffered[w] /\ next_net_pkt'[w] = next_net_pkt[w]
  /\ out_buf'[w] = out_buf[w] /\ seqs'[w] = seqs[w] /\ timers'[w] = timers[w]

ReceiverUntouched(w) ==
  /\ frame_expected'[w] = frame_expected[w] /\ too_far'[w] = too_far[w]
  /\ last_pkt_given'[w] = last_pkt_given[w]
  /\ arrived'[w] = arrived[w] /\ in_buf'[w] = in_buf[w]

(* The frames to w: one may be taken.                                      *)
MayTake(w) ==
  chan'[w] = chan[w] \/ (chan[w] # <<>> /\ chan'[w] = Tail(chan[w]))

(* send_frame, in terms of the frames under way.                           *)
LEMMA SendStep ==
  ASSUME IInv, NEW w \in Proc, NEW kind \in {"data", "ack", "nak"}, NEW nr \in SeqNr,
         NEW received \in Seq(Frame), Send(w, kind, nr, received),
         kind = "data" => out_buf'[w][nr % NR_BUFS] \in Pkt
  PROVE  LET q == Peer(w)
         IN /\ chan' \in [Proc -> Seq(Frame)] /\ chan'[w] = received
            /\ Len(chan[q]) <= Len(chan'[q])
            /\ Sent(chan[q], chan'[q], kind, nr, out_buf'[w][nr % NR_BUFS], frame_expected[w])
<1> DEFINE q == Peer(w)
           f == [kind |-> kind, seq |-> nr, ack |-> LastAccepted(w),
                 info |-> IF kind = "data" THEN out_buf'[w][nr % NR_BUFS] ELSE 0]
<1>1. PICK lost \in LossOutcomes :
        chan' = [chan EXCEPT ![w] = received, ![q] = Transmit(@, f, lost)]
  BY DEF Send
<1>2. /\ chan \in [Proc -> Seq(Frame)] /\ chan[q] \in Seq(Frame) /\ frame_expected[w] \in SeqNr
      /\ q \in Proc /\ q # w /\ Proc = {w, q}
  BY Typed, PeerFacts DEF IInv
<1>3. LastAccepted(w) \in 0 .. MAX_SEQ /\ Inc(LastAccepted(w), MAX_SEQ) = frame_expected[w]
  BY <1>2, LastAcceptedNumber DEF LastAccepted
<1>4. /\ f \in Frame /\ f.kind = kind /\ f.seq = nr /\ f.ack = LastAccepted(w)
      /\ kind = "data" => f.info = out_buf'[w][nr % NR_BUFS]
  <2>1. nr \in Nat /\ LastAccepted(w) \in Nat /\ 0 \in Pkt
    BY <1>3, Sizes
  <2> QED
    BY <2>1 DEF Frame
<1> HIDE DEF f, q
<1>5. chan'[w] = received /\ chan'[q] = Transmit(chan[q], f, lost)
  BY <1>1, <1>2
<1>6. /\ Append(chan[q], f) \in Seq(Frame) /\ Len(chan[q]) \in Nat
      /\ Len(Append(chan[q], f)) = Len(chan[q]) + 1
  BY <1>2, <1>4, AppendIndex
<1>7. chan'[q] = chan[q] \/ chan'[q] = Append(chan[q], f)
  BY <1>5 DEF Transmit
<1>8. chan'[q] \in Seq(Frame) /\ Len(chan[q]) <= Len(chan'[q])
  <2>1. CASE chan'[q] = chan[q]
    BY <1>2, <1>6, <2>1
  <2>2. CASE chan'[q] = Append(chan[q], f)
    <3>1. Len(chan'[q]) = Len(chan[q]) + 1
      BY <1>6, <2>2
    <3>2. Len(chan[q]) <= Len(chan'[q])
      BY ONLY <1>6, <3>1
    <3> QED
      BY <1>6, <2>2, <3>2
  <2> QED
    BY <1>7, <2>1, <2>2
<1>9. chan' \in [Proc -> Seq(Frame)]
  BY <1>1, <1>2, <1>5, <1>8
<1>10. Sent(chan[q], chan'[q], kind, nr, out_buf'[w][nr % NR_BUFS], frame_expected[w])
  BY <1>3, <1>4, <1>7 DEF Sent
<1> QED
  BY <1>5, <1>8, <1>9, <1>10 DEF q

(* The direction from the peer to w, when w accepts no frame.              *)
LEMMA ReceiverIdle ==
  ASSUME IInv, NEW w \in Proc, PeerUntouched(w), ReceiverUntouched(w), MayTake(w),
         NEW kind, NEW nr, NEW info,
         Sent(chan[Peer(w)], chan'[Peer(w)], kind, nr, info, frame_expected[w]),
         no_nak'[w] => no_nak[w], kind = "nak" => no_nak[w] /\ ~no_nak'[w]
  PROVE  Direction(Peer(w))'
<1> DEFINE q == Peer(w)
<1>1. q \in Proc /\ Peer(q) = w /\ chan[q] \in Seq(Frame) /\ nbuffered[q] \in Nat
  BY PeerFacts, Typed DEF IInv
<1>2. PICK a \in Nat, e \in Nat, h \in Nat : \E nrs, acks : Numbering(q, a, e, h, nrs, acks)
  BY <1>1 DEF IInv, Direction
<1>3. PICK nrs, acks : Numbering(q, a, e, h, nrs, acks)
  BY <1>2
<1> DEFINE top == a + nbuffered[q]
<1>4. /\ frame_expected[w] = SeqNo(e) /\ a <= e
      /\ DataWindow(chan[w], nrs, MAX_SEQ, NR_BUFS, top, h)
      /\ AckWindow(chan[q], acks, MAX_SEQ, a, e)
      /\ NaksOK(chan[q], frame_expected[w], no_nak[w])
  BY <1>1, <1>3 DEF Numbering, ReceiverOK
<1>5. PICK nrs2 : DataWindow(chan'[w], nrs2, MAX_SEQ, NR_BUFS, top, h)
  <2>1. top \in Nat /\ MAX_SEQ \in Nat /\ NR_BUFS \in Nat
    BY <1>1, Sizes
  <2> HIDE DEF top
  <2>2. chan[w] # <<>> => DataWindow(Tail(chan[w]), Tail(nrs), MAX_SEQ, NR_BUFS, top, h)
    BY <1>4, <2>1, DataDropped
  <2> QED
    BY <1>4, <2>2 DEF MayTake
<1>6. PICK acks2 : AckWindow(chan'[q], acks2, MAX_SEQ, a, e)
  BY <1>4, SentAck
<1>7. NaksOK(chan'[q], frame_expected[w], no_nak'[w])
  BY <1>1, <1>4, SentNak
<1>8. Numbering(q, a, e, h, nrs2, acks2)'
  BY <1>1, <1>3, <1>5, <1>6, <1>7 DEF Numbering, PeerUntouched, ReceiverUntouched
<1> QED
  BY <1>8 DEF Direction

(* The direction from w to the peer, when w handles no acknowledgement and *)
(* sends no data.                                                          *)
LEMMA SenderIdle ==
  ASSUME IInv, NEW w \in Proc, PeerUntouched(w), SenderUntouched(w), MayTake(w),
         NEW kind, kind # "data", NEW nr, NEW info, NEW fe,
         Sent(chan[Peer(w)], chan'[Peer(w)], kind, nr, info, fe)
  PROVE  Direction(w)'
<1> DEFINE q == Peer(w)
<1>1. q \in Proc /\ Peer(q) = w /\ chan[w] \in Seq(Frame) /\ nbuffered[w] \in Nat
  BY PeerFacts, Typed DEF IInv
<1>2. PICK a \in Nat, e \in Nat, h \in Nat : \E nrs, acks : Numbering(w, a, e, h, nrs, acks)
  BY DEF IInv, Direction
<1>3. PICK nrs, acks : Numbering(w, a, e, h, nrs, acks)
  BY <1>2
<1> DEFINE top == a + nbuffered[w]
<1>4. /\ DataWindow(chan[q], nrs, MAX_SEQ, NR_BUFS, top, h)
      /\ AckWindow(chan[w], acks, MAX_SEQ, a, e)
      /\ NaksOK(chan[w], frame_expected[q], no_nak[q])
  BY <1>3 DEF Numbering
<1>5. PICK nrs2 : DataWindow(chan'[q], nrs2, MAX_SEQ, NR_BUFS, top, h)
  <2>1. top \in Nat /\ 0 \in Nat
    BY <1>1
  <2>2. Sent(chan[q], chan'[q], kind, SeqNo(0), PktNo(0), fe)
    BY DEF Sent
  <2> HIDE DEF top
  <2> QED
    BY <1>4, <2>1, <2>2, SentNumbers
<1>6. PICK acks2 : AckWindow(chan'[w], acks2, MAX_SEQ, a, e)
  <2>1. chan[w] # <<>> => AckWindow(Tail(chan[w]), Tail(acks), MAX_SEQ, a, e)
    BY <1>4, Sizes, AckTaken
  <2> QED
    BY <1>4, <2>1 DEF MayTake
<1>7. NaksOK(chan'[w], frame_expected[q], no_nak[q])
  <2>1. chan[w] # <<>> => NaksOK(Tail(chan[w]), frame_expected[q], no_nak[q])
    BY <1>1, <1>4, DropNak
  <2> QED
    BY <1>4, <2>1 DEF MayTake
<1>8. Numbering(w, a, e, h, nrs2, acks2)'
  BY <1>3, <1>5, <1>6, <1>7 DEF Numbering, PeerUntouched, SenderUntouched
<1> QED
  BY <1>8 DEF Direction

(* Frames in queue[] are counted right when one is taken, and when none is *)
(* and the channels only grow.                                             *)
LEMMA CountsTaken ==
  ASSUME IInv, NEW w \in Proc, TakesFrame(w)
  PROVE  /\ phase[w] = "wait"
         /\ chan[w] # <<>> /\ Head(chan[w]) \in Frame /\ Tail(chan[w]) \in Seq(Frame)
         /\ nframes' \in [Proc -> Nat]
         /\ chan'[w] = Tail(chan[w]) /\ Len(chan[Peer(w)]) <= Len(chan'[Peer(w)])
            /\ chan'[Peer(w)] \in Seq(Frame)
              => \A p \in Proc : nframes'[p] <= Len(chan'[p])
<1> DEFINE q == Peer(w)
<1>1. /\ TypeOK /\ LinkTypeOK(SeqNr) /\ q \in Proc /\ q # w /\ Proc = {w, q}
      /\ chan[q] \in Seq(Frame) /\ nframes \in [Proc -> Nat]
      /\ nframes[q] \in Nat /\ nframes[q] <= Len(chan[q])
  BY Typed, PeerFacts DEF IInv, TypeOK, WindowTypeOK, LinkTypeOK
<1>2. /\ phase[w] = "wait"
      /\ chan[w] # <<>> /\ Tail(chan[w]) \in Seq(Frame) /\ Head(chan[w]) \in Frame
      /\ nframes' = [nframes EXCEPT ![w] = nframes'[w]]
      /\ nframes'[w] \in Nat /\ nframes'[w] <= Len(Tail(chan[w]))
  BY <1>1, TakeFrame
<1>3. nframes' \in [Proc -> Nat] /\ nframes'[q] = nframes[q]
  BY <1>1, <1>2
<1>4. ASSUME chan'[w] = Tail(chan[w]), Len(chan[q]) <= Len(chan'[q]), chan'[q] \in Seq(Frame)
      PROVE  \A p \in Proc : nframes'[p] <= Len(chan'[p])
  <2>1. Len(chan[q]) \in Nat /\ Len(chan'[q]) \in Nat
    BY <1>1, <1>4
  <2>2. nframes'[q] <= Len(chan'[q])
    BY <1>1, <1>3, <1>4, <2>1
  <2> QED
    BY <1>1, <1>2, <1>4, <2>2
<1> QED
  BY <1>2, <1>3, <1>4

(* Sending never makes queue[] hold more than is under way.                *)
LEMMA CountsStay ==
  ASSUME IInv, NEW w \in Proc, UNCHANGED nframes, chan' \in [Proc -> Seq(Frame)],
         chan'[w] = chan[w], Len(chan[Peer(w)]) <= Len(chan'[Peer(w)])
  PROVE  \A p \in Proc : nframes'[p] <= Len(chan'[p])
<1> SUFFICES ASSUME NEW p \in Proc PROVE nframes'[p] <= Len(chan'[p])
  OBVIOUS
<1>1. /\ nframes[p] \in Nat /\ nframes[p] <= Len(chan[p]) /\ nframes'[p] = nframes[p]
      /\ chan[p] \in Seq(Frame) /\ chan'[p] \in Seq(Frame)
  BY Typed DEF IInv
<1>2. p = w \/ p = Peer(w)
  BY PeerFacts
<1>3. Len(chan[p]) \in Nat /\ Len(chan'[p]) \in Nat /\ Len(chan[p]) <= Len(chan'[p])
  BY <1>1, <1>2
<1> QED
  BY <1>1, <1>3

-----------------------------------------------------------------------------
(* The steps that neither send nor accept data.                            *)

(* The auxiliary timer goes off: a separate acknowledgement.               *)
LEMMA AckTimeoutStep ==
  ASSUME IInv, NEW w \in Proc, AckTimeout(w)
  PROVE  IInv'
<1> DEFINE q == Peer(w)
<1>1. /\ phase[w] = "wait" /\ Send(w, "ack", 0, chan[w])
      /\ aux_timer' = [aux_timer EXCEPT ![w] = FALSE]
      /\ phase' = [phase EXCEPT ![w] = "queue_frames"]
      /\ UNCHANGED <<nframes, timers, next_net_pkt, last_pkt_given, window_vars,
                     send_vars, receive_vars, no_nak>>
  BY DEF AckTimeout, BackToWait
<1>2. TypeOK /\ chan[w] \in Seq(Frame) /\ 0 \in SeqNr
  BY Typed, Sizes DEF IInv
<1>3. /\ chan' \in [Proc -> Seq(Frame)] /\ chan'[w] = chan[w]
      /\ Len(chan[q]) <= Len(chan'[q])
      /\ Sent(chan[q], chan'[q], "ack", 0, out_buf'[w][0 % NR_BUFS], frame_expected[w])
  BY <1>1, <1>2, SendStep
<1>4. PeerUntouched(w) /\ SenderUntouched(w) /\ ReceiverUntouched(w) /\ MayTake(w)
  BY <1>1, <1>3 DEF PeerUntouched, SenderUntouched, ReceiverUntouched, MayTake,
                    window_vars, send_vars, receive_vars
<1>5. Direction(w)'
  BY <1>3, <1>4, SenderIdle
<1>6. Direction(q)'
  <2>1. (no_nak'[w] => no_nak[w]) /\ ("ack" = "nak" => no_nak[w] /\ ~no_nak'[w])
    BY <1>1
  <2> QED
    BY <1>3, <1>4, <2>1, ReceiverIdle
<1>7. TypeOK'
  <2>1. \A p \in Proc : nframes'[p] <= Len(chan'[p])
    BY <1>1, <1>3, CountsStay
  <2> QED
    BY <1>1, <1>2, <1>3, <2>1 DEF TypeOK, WindowTypeOK, LinkTypeOK, window_vars, send_vars,
                                  receive_vars
<1>8. NoProtocolError'
  BY <1>1, <1>2 DEF IInv, NoProtocolError, TypeOK, WindowTypeOK, LinkTypeOK
<1> QED
  BY <1>5, <1>6, <1>7, <1>8, PeerFacts DEF IInv

(* A damaged frame: a nak, unless one was sent for this gap.               *)
LEMMA CksumErrStep ==
  ASSUME IInv, NEW w \in Proc, CksumErr(w)
  PROVE  IInv'
<1> DEFINE q == Peer(w)
           kind == IF no_nak[w] THEN "nak" ELSE "ack"
<1>1. /\ TakesFrame(w)
      /\ IF no_nak[w] THEN Send(w, "nak", 0, Tail(chan[w])) ELSE SendsNothing(w, Tail(chan[w]))
      /\ aux_timer' = [aux_timer EXCEPT ![w] = @ /\ ~no_nak[w]]
      /\ no_nak' = [no_nak EXCEPT ![w] = FALSE]
      /\ phase' = [phase EXCEPT ![w] = "queue_frames"]
      /\ UNCHANGED <<timers, next_net_pkt, last_pkt_given, window_vars,
                     send_vars, receive_vars>>
  BY DEF CksumErr, BackToWait
<1>2. /\ TypeOK /\ 0 \in SeqNr /\ q \in Proc /\ q # w /\ Proc = {w, q}
      /\ chan \in [Proc -> Seq(Frame)] /\ chan[q] \in Seq(Frame)
      /\ chan[w] # <<>> /\ Tail(chan[w]) \in Seq(Frame) /\ nframes' \in [Proc -> Nat]
  BY <1>1, CountsTaken, Typed, PeerFacts, Sizes DEF IInv
<1>3. /\ chan' \in [Proc -> Seq(Frame)] /\ chan'[w] = Tail(chan[w])
      /\ Len(chan[q]) <= Len(chan'[q])
      /\ Sent(chan[q], chan'[q], kind, 0, out_buf'[w][0 % NR_BUFS], frame_expected[w])
  <2>1. CASE no_nak[w]
    BY <1>1, <1>2, <2>1, SendStep
  <2>2. CASE ~no_nak[w]
    <3>1. chan' = [chan EXCEPT ![w] = Tail(chan[w])]
      BY <1>1, <2>2 DEF SendsNothing
    <3>2. chan'[q] = chan[q] /\ Len(chan[q]) <= Len(chan[q])
      BY <1>2, <3>1
    <3> QED
      BY <1>2, <3>1, <3>2 DEF Sent
  <2> QED
    BY <2>1, <2>2
<1>4. no_nak'[w] = FALSE /\ no_nak'[q] = no_nak[q] /\ no_nak' \in [Proc -> BOOLEAN]
  BY <1>1, <1>2 DEF TypeOK
<1>5. PeerUntouched(w) /\ SenderUntouched(w) /\ ReceiverUntouched(w) /\ MayTake(w)
  BY <1>1, <1>2, <1>3, <1>4 DEF PeerUntouched, SenderUntouched, ReceiverUntouched, MayTake,
                                window_vars, send_vars, receive_vars
<1>6. Direction(w)'
  BY <1>3, <1>5, SenderIdle
<1>7. Direction(q)'
  <2>1. no_nak'[w] => no_nak[w]
    BY <1>4
  <2>2. kind = "nak" => no_nak[w] /\ ~no_nak'[w]
    BY <1>4
  <2> HIDE DEF kind
  <2> QED
    BY <1>3, <1>5, <2>1, <2>2, ReceiverIdle
<1>8. TypeOK'
  <2>1. \A p \in Proc : nframes'[p] <= Len(chan'[p])
    BY <1>1, <1>2, <1>3, CountsTaken
  <2>2. aux_timer' \in [Proc -> BOOLEAN]
    BY <1>1, <1>2 DEF TypeOK
  <2> QED
    BY <1>1, <1>2, <1>3, <1>4, <2>1, <2>2 DEF TypeOK, WindowTypeOK, LinkTypeOK, window_vars,
                                              send_vars, receive_vars
<1>9. NoProtocolError'
  BY <1>1, <1>2 DEF IInv, NoProtocolError, TypeOK, WindowTypeOK, LinkTypeOK
<1> QED
  BY <1>2, <1>6, <1>7, <1>8, <1>9 DEF IInv

(* The steps that only move the event loop on.                             *)
LEMMA EventLoopStep ==
  ASSUME IInv, NEW w \in Proc, Start(w) \/ Wait(w)
  PROVE  IInv'
<1>1. /\ TypeOK /\ w \in Proc
      /\ UNCHANGED <<chan, timers, next_net_pkt, last_pkt_given, window_vars,
                     send_vars, receive_vars, no_nak, aux_timer>>
      /\ \/ phase[w] = "start" /\ phase' = [phase EXCEPT ![w] = "queue_frames"]
            /\ UNCHANGED nframes
         \/ phase[w] = "queue_frames" /\ phase' = [phase EXCEPT ![w] = "wait"]
            /\ nframes' = [nframes EXCEPT ![w] = Len(chan[w])]
         \/ phase[w] = "wait" /\ UNCHANGED phase
            /\ nframes' = [nframes EXCEPT ![w] = Len(chan[w])]
  BY DEF Start, Wait, EntersLoop, BackToWait, QueueFrames, NoEvent, IInv
<1>2. TypeOK'
  <2>1. Len(chan[w]) \in Nat /\ Len(chan[w]) <= Len(chan[w])
    <3>1. chan[w] \in Seq(Frame)
      BY <1>1, Typed
    <3> QED
      BY <3>1
  <2> QED
    BY <1>1, <2>1 DEF TypeOK, WindowTypeOK, LinkTypeOK, window_vars, send_vars, receive_vars
<1>3. NoProtocolError'
  BY <1>1 DEF IInv, NoProtocolError, TypeOK, WindowTypeOK, LinkTypeOK
<1>4. ASSUME NEW p \in Proc PROVE Direction(p)'
  <2>1. PICK a \in Nat, e \in Nat, h \in Nat : \E nrs, acks : Numbering(p, a, e, h, nrs, acks)
    BY DEF IInv, Direction
  <2>2. PICK nrs, acks : Numbering(p, a, e, h, nrs, acks)
    BY <2>1
  <2>3. Numbering(p, a, e, h, nrs, acks)'
    BY <1>1, <2>2 DEF Numbering, window_vars, send_vars, receive_vars
  <2> QED
    BY <2>3 DEF Direction
<1> QED
  BY <1>2, <1>3, <1>4 DEF IInv

(* Steps of others.                                                        *)
LEMMA StutterKeeps ==
  ASSUME IInv, UNCHANGED vars
  PROVE  IInv'
<1>1. /\ UNCHANGED <<phase, chan, nframes, timers, next_net_pkt, last_pkt_given>>
      /\ UNCHANGED <<window_vars, send_vars, receive_vars, no_nak, aux_timer>>
  BY DEF vars, link_vars
<1>2. TypeOK'
  BY <1>1 DEF IInv, TypeOK, WindowTypeOK, LinkTypeOK, window_vars, send_vars, receive_vars
<1>3. NoProtocolError'
  BY <1>1 DEF IInv, NoProtocolError
<1>4. ASSUME NEW p \in Proc PROVE Direction(p)'
  <2>1. PICK a \in Nat, e \in Nat, h \in Nat : \E nrs, acks : Numbering(p, a, e, h, nrs, acks)
    BY DEF IInv, Direction
  <2>2. PICK nrs, acks : Numbering(p, a, e, h, nrs, acks)
    BY <2>1
  <2>3. Numbering(p, a, e, h, nrs, acks)'
    BY <1>1, <2>2 DEF Numbering, window_vars, send_vars, receive_vars
  <2> QED
    BY <2>3 DEF Direction
<1> QED
  BY <1>2, <1>3, <1>4 DEF IInv

-----------------------------------------------------------------------------
(* The steps that send data and take no frame.                             *)

(* A worker fetches a packet and sends it.                                 *)
LEMMA NetworkLayerReadyStep ==
  ASSUME IInv, NEW w \in Proc, NetworkLayerReady(w)
  PROVE  IInv'
<1> DEFINE q == Peer(w)
           nb == nbuffered[w]
           ae == ack_expected[w]
           nf == next_frame_to_send[w]
           nn == next_net_pkt[w]
           b == nf % NR_BUFS
           buf2 == [out_buf[w] EXCEPT ![b] = nn]
           sq2 == [seqs[w] EXCEPT ![nf] = nf]
<1>1. /\ phase[w] = "wait" /\ nb < NR_BUFS
      /\ nbuffered' = [nbuffered EXCEPT ![w] = nb + 1]
      /\ out_buf' = [out_buf EXCEPT ![w] = buf2]
      /\ next_net_pkt' = [next_net_pkt EXCEPT ![w] = Inc(nn, MaxPkt)]
      /\ Send(w, "data", nf, chan[w])
      /\ seqs' = [seqs EXCEPT ![w] = sq2]
      /\ timers' = [timers EXCEPT ![w] = StartTimer(timers[w], nf)]
      /\ aux_timer' = [aux_timer EXCEPT ![w] = FALSE]
      /\ next_frame_to_send' = [next_frame_to_send EXCEPT ![w] = Inc(nf, MAX_SEQ)]
      /\ phase' = [phase EXCEPT ![w] = "queue_frames"]
      /\ UNCHANGED <<nframes, last_pkt_given, ack_expected, frame_expected,
                     receive_vars, no_nak>>
  BY DEF NetworkLayerReady, NetworkLayerEnabled, SendData, BackToWait, IInv, TypeOK,
         WindowTypeOK, LinkTypeOK
<1>2. /\ TypeOK /\ q \in Proc /\ q # w /\ Proc = {w, q}
      /\ chan[w] \in Seq(Frame) /\ nb \in Nat /\ nb <= MAX_SEQ /\ nn \in Pkt /\ nf \in SeqNr
      /\ out_buf[w] \in [Buf -> Pkt] /\ seqs[w] \in [SeqNr -> SeqNr]
  BY Typed, PeerFacts DEF IInv
<1>3. PICK a \in Nat, e \in Nat, h \in Nat : \E nrs, acks : Numbering(w, a, e, h, nrs, acks)
  BY DEF IInv, Direction
<1>4. PICK nrs, acks : Numbering(w, a, e, h, nrs, acks)
  BY <1>3
<1> HIDE DEF nb, ae, nf, nn, b, buf2, sq2
<1>5. /\ SenderOK(ae, nf, nb, out_buf[w], seqs[w], nn, a)
      /\ TimersOK(timers[w], a, nb)
      /\ ReceiverOK(frame_expected[q], too_far[q], last_pkt_given[q], arrived[q],
                    in_buf[q], e, h)
      /\ a <= e /\ e <= h /\ h <= a + nb
      /\ DataWindow(chan[q], nrs, MAX_SEQ, NR_BUFS, a + nb, h)
      /\ AckWindow(chan[w], acks, MAX_SEQ, a, e)
      /\ NaksOK(chan[w], frame_expected[q], no_nak[q])
  BY <1>4 DEF Numbering, nb, ae, nf, nn
<1>6. /\ nf = SeqNo(a + nb) /\ nn = PktNo(a + nb) /\ b \in Buf /\ buf2[b] = nn
      /\ SenderOK(ae, Inc(nf, MAX_SEQ), nb + 1, buf2, sq2, Inc(nn, MaxPkt), a)
  <2> DEFINE obf == out_buf[w]
             sqs == seqs[w]
  <2>1. /\ nb \in Nat /\ nb < NR_BUFS /\ obf \in [Buf -> Pkt] /\ sqs \in [SeqNr -> SeqNr]
        /\ SenderOK(ae, nf, nb, obf, sqs, nn, a)
    BY <1>1, <1>2, <1>5
  <2>2. buf2 = [obf EXCEPT ![nf % NR_BUFS] = nn] /\ sq2 = [sqs EXCEPT ![nf] = nf]
        /\ b = nf % NR_BUFS
    BY DEF b, buf2, sq2
  <2> HIDE DEF obf, sqs
  <2> QED
    BY <2>1, <2>2, SenderFetches
<1>7. /\ a + nb \in Nat /\ (a + nb) + 1 \in Nat /\ a + (nb + 1) = (a + nb) + 1
      /\ (a + nb) + 1 <= (a + nb) + NR_BUFS /\ h <= (a + nb) + NR_BUFS
      /\ h <= (a + nb) + 1 /\ a + nb < (a + nb) + 1
  <2>1. NR_BUFS \in Nat \ {0}
    BY Sizes
  <2> QED
    BY ONLY <1>2, <1>5, <2>1, a \in Nat, h \in Nat
<1>8. /\ Inc(nf, MAX_SEQ) \in SeqNr /\ Inc(nn, MaxPkt) \in Pkt /\ nb + 1 \in 0 .. NR_BUFS
      /\ buf2 \in [Buf -> Pkt] /\ sq2 \in [SeqNr -> SeqNr]
  <2>1. Inc(nf, MAX_SEQ) \in SeqNr /\ Inc(nn, MaxPkt) \in Pkt
    BY <1>6, <1>7, SeqNumbers
  <2>2. nb + 1 \in 0 .. NR_BUFS
    BY <1>1, <1>2, Sizes
  <2> QED
    BY <1>2, <2>1, <2>2 DEF buf2, sq2
<1>9. /\ nbuffered'[w] = nb + 1 /\ out_buf'[w] = buf2 /\ seqs'[w] = sq2
      /\ next_net_pkt'[w] = Inc(nn, MaxPkt) /\ next_frame_to_send'[w] = Inc(nf, MAX_SEQ)
      /\ ack_expected'[w] = ae /\ timers'[w] = StartTimer(timers[w], nf)
  BY <1>1, <1>2 DEF TypeOK, WindowTypeOK, LinkTypeOK, ae
<1>10. /\ chan' \in [Proc -> Seq(Frame)] /\ chan'[w] = chan[w] /\ Len(chan[q]) <= Len(chan'[q])
       /\ Sent(chan[q], chan'[q], "data", nf, nn, frame_expected[w])
  <2>1. out_buf'[w][nf % NR_BUFS] = nn
    BY <1>6, <1>9 DEF b
  <2>2. /\ chan' \in [Proc -> Seq(Frame)] /\ chan'[w] = chan[w] /\ Len(chan[q]) <= Len(chan'[q])
        /\ Sent(chan[q], chan'[q], "data", nf, out_buf'[w][nf % NR_BUFS], frame_expected[w])
    BY <1>1, <1>2, <2>1, SendStep
  <2> QED
    BY <2>1, <2>2
<1>11. PICK nrs2 : DataWindow(chan'[q], nrs2, MAX_SEQ, NR_BUFS, (a + nb) + 1, h)
  <2> DEFINE k == a + nb
             top == (a + nb) + 1
  <2>1. DataWindow(chan[q], nrs, MAX_SEQ, NR_BUFS, top, h)
    BY <1>5, <1>7, DataNumbered, Sizes
  <2>2. /\ k \in Nat /\ top \in Nat /\ top <= k + NR_BUFS /\ h <= k + NR_BUFS /\ k < top
        /\ Sent(chan[q], chan'[q], "data", SeqNo(k), PktNo(k), frame_expected[w])
    BY <1>6, <1>7, <1>10
  <2> HIDE DEF k, top
  <2>3. \E nrs2 : DataWindow(chan'[q], nrs2, MAX_SEQ, NR_BUFS, top, h)
    BY <2>1, <2>2, SentNumbers
  <2> QED
    BY <2>3 DEF top
<1>12. TimersOK(timers'[w], a, nb + 1) /\ timers'[w] \in Seq(SeqNr)
  <2>1. TimersOK(timers'[w], a, nb + 1)
    BY <1>2, <1>5, <1>6, <1>9, TimerAdded
  <2> QED
    BY <2>1 DEF TimersOK
<1>13. PeerUntouched(w) /\ ReceiverUntouched(w) /\ MayTake(w)
  BY <1>1, <1>2, <1>10 DEF PeerUntouched, ReceiverUntouched, MayTake, receive_vars, TypeOK,
                           WindowTypeOK, LinkTypeOK
<1>14. Direction(w)'
  <2>1. Numbering(w, a, e, h, nrs2, acks)'
    BY <1>5, <1>6, <1>7, <1>9, <1>10, <1>11, <1>12, <1>13 DEF Numbering, PeerUntouched
  <2> QED
    BY <2>1 DEF Direction
<1>15. Direction(q)'
  <2>1. (no_nak'[w] => no_nak[w]) /\ ("data" = "nak" => no_nak[w] /\ ~no_nak'[w])
    BY <1>1
  <2> QED
    BY <1>10, <1>13, <2>1, ReceiverIdle
<1>16. TypeOK'
  <2>1. \A p \in Proc : nframes'[p] <= Len(chan'[p])
    BY <1>1, <1>10, CountsStay
  <2>2. LinkTypeOK(SeqNr)'
    BY <1>1, <1>2, <1>8, <1>9, <1>10, <1>12, <2>1 DEF TypeOK, WindowTypeOK, LinkTypeOK
  <2>3. WindowTypeOK(NR_BUFS)'
    BY <1>1, <1>2, <1>8, <2>2 DEF TypeOK, WindowTypeOK
  <2> QED
    BY <1>1, <1>2, <1>8, <2>3 DEF TypeOK, receive_vars
<1>17. NoProtocolError'
  BY <1>1, <1>2 DEF IInv, NoProtocolError, TypeOK, WindowTypeOK, LinkTypeOK
<1> QED
  BY <1>2, <1>14, <1>15, <1>16, <1>17 DEF IInv

(* A worker repeats the frame whose timer went off.                        *)
LEMMA TimeoutStep ==
  ASSUME IInv, NEW w \in Proc, Timeout(w)
  PROVE  IInv'
<1> DEFINE q == Peer(w)
           nb == nbuffered[w]
           nr == TimedOutSeqnr(w)
<1>1. /\ phase[w] = "wait" /\ timers[w] # <<>>
      /\ Send(w, "data", nr, chan[w])
      /\ seqs' = [seqs EXCEPT ![w] = [seqs[w] EXCEPT ![nr] = nr]]
      /\ timers' = [timers EXCEPT ![w] = StartTimer(Tail(timers[w]), nr)]
      /\ aux_timer' = [aux_timer EXCEPT ![w] = FALSE]
      /\ phase' = [phase EXCEPT ![w] = "queue_frames"]
      /\ UNCHANGED <<nframes, next_net_pkt, last_pkt_given, window_vars, out_buf,
                     receive_vars, no_nak>>
  BY DEF Timeout, TimerGoesOff, SendData, BackToWait, IInv, TypeOK, WindowTypeOK, LinkTypeOK
<1>2. /\ TypeOK /\ q \in Proc /\ q # w /\ Proc = {w, q}
      /\ chan[w] \in Seq(Frame) /\ nb \in Nat /\ nb \in 0 .. NR_BUFS
      /\ out_buf[w] \in [Buf -> Pkt] /\ seqs[w] \in [SeqNr -> SeqNr]
  BY Typed, PeerFacts DEF IInv
<1>3. PICK a \in Nat, e \in Nat, h \in Nat : \E nrs, acks : Numbering(w, a, e, h, nrs, acks)
  BY DEF IInv, Direction
<1>4. PICK nrs, acks : Numbering(w, a, e, h, nrs, acks)
  BY <1>3
<1> HIDE DEF nr, nb
<1>5. /\ SenderOK(ack_expected[w], next_frame_to_send[w], nb, out_buf[w], seqs[w],
                  next_net_pkt[w], a)
      /\ TimersOK(timers[w], a, nb)
      /\ a <= e /\ e <= h /\ h <= a + nb
      /\ DataWindow(chan[q], nrs, MAX_SEQ, NR_BUFS, a + nb, h)
  BY <1>4 DEF Numbering, nb
<1>6. PICK k \in a .. (a + nb) - 1 : Head(timers[w]) = SeqNo(k)
  <2> DEFINE ts == timers[w]
  <2>1. TimersOK(ts, a, nb) /\ ts # <<>> /\ a \in Nat /\ nb \in Nat
    BY <1>1, <1>2, <1>5
  <2> HIDE DEF ts
  <2>2. Head(ts) \in {SeqNo(k) : k \in a .. (a + nb) - 1}
    BY <2>1, TimerFires
  <2> QED
    BY <2>2 DEF ts
<1>7. nr = SeqNo(k) /\ nr = Head(timers[w])
  BY <1>5, <1>6 DEF nr, TimedOutSeqnr, SenderOK
<1>8. /\ out_buf[w][nr % NR_BUFS] = PktNo(k) /\ PktNo(k) \in Pkt /\ nr \in SeqNr
      /\ SenderOK(ack_expected[w], next_frame_to_send[w], nb, out_buf[w], seqs'[w],
                  next_net_pkt[w], a)
      /\ seqs'[w] \in [SeqNr -> SeqNr]
  <2>1. seqs'[w] = [seqs[w] EXCEPT ![SeqNo(k)] = SeqNo(k)]
    BY <1>1, <1>2, <1>7 DEF TypeOK
  <2>2. k \in Nat /\ PktNo(k) \in Pkt /\ SeqNo(k) \in SeqNr
    BY SeqNumbers, k \in Nat
  <2>3. /\ out_buf[w][SeqNo(k) % NR_BUFS] = PktNo(k)
        /\ SenderOK(ack_expected[w], next_frame_to_send[w], nb, out_buf[w],
                    [seqs[w] EXCEPT ![SeqNo(k)] = SeqNo(k)], next_net_pkt[w], a)
    BY <1>2, <1>5, SenderRepeats
  <2> QED
    BY <1>2, <1>7, <2>1, <2>2, <2>3
<1>9. TimersOK(timers'[w], a, nb) /\ timers'[w] \in Seq(SeqNr)
  <2>1. timers'[w] = StartTimer(Tail(timers[w]), Head(timers[w]))
    BY <1>1, <1>2, <1>7 DEF TypeOK, WindowTypeOK, LinkTypeOK
  <2>2. TimersOK(timers'[w], a, nb)
    BY <1>1, <1>2, <1>5, <2>1, TimerFires
  <2> QED
    BY <2>2 DEF TimersOK
<1>10. /\ chan' \in [Proc -> Seq(Frame)] /\ chan'[w] = chan[w] /\ Len(chan[q]) <= Len(chan'[q])
       /\ Sent(chan[q], chan'[q], "data", SeqNo(k), PktNo(k), frame_expected[w])
  <2>1. out_buf'[w][nr % NR_BUFS] = PktNo(k)
    BY <1>1, <1>8
  <2>2. /\ chan' \in [Proc -> Seq(Frame)] /\ chan'[w] = chan[w] /\ Len(chan[q]) <= Len(chan'[q])
        /\ Sent(chan[q], chan'[q], "data", nr, out_buf'[w][nr % NR_BUFS], frame_expected[w])
    <3>1. out_buf'[w][nr % NR_BUFS] \in Pkt /\ nr \in SeqNr
      BY <1>8, <2>1
    <3> QED
      BY <1>1, <1>2, <3>1, SendStep
  <2> QED
    BY <1>7, <2>1, <2>2
<1>11. PICK nrs2 : DataWindow(chan'[q], nrs2, MAX_SEQ, NR_BUFS, a + nb, h)
  <2> DEFINE top == a + nb
  <2>1. k \in Nat /\ top \in Nat /\ top <= k + NR_BUFS /\ h <= k + NR_BUFS /\ k < top
    <3>1. /\ k \in a .. (a + nb) - 1 /\ a \in Nat /\ h \in Nat /\ nb \in Nat /\ h <= a + nb
          /\ nb <= NR_BUFS /\ NR_BUFS \in Nat
      BY <1>2, <1>5, Sizes
    <3> QED
      BY ONLY <3>1
  <2> HIDE DEF top
  <2>2. \E nrs2 : DataWindow(chan'[q], nrs2, MAX_SEQ, NR_BUFS, top, h)
    BY <1>5, <1>10, <2>1, SentNumbers DEF top
  <2> QED
    BY <2>2 DEF top
<1>12. PeerUntouched(w) /\ ReceiverUntouched(w) /\ MayTake(w)
  BY <1>1, <1>2, <1>10 DEF PeerUntouched, ReceiverUntouched, MayTake, receive_vars, window_vars,
                           TypeOK, WindowTypeOK, LinkTypeOK
<1>13. Direction(w)'
  <2>1. /\ ack_expected'[w] = ack_expected[w] /\ next_frame_to_send'[w] = next_frame_to_send[w]
        /\ nbuffered'[w] = nb /\ out_buf'[w] = out_buf[w] /\ next_net_pkt'[w] = next_net_pkt[w]
    BY <1>1 DEF window_vars, nb
  <2>2. Numbering(w, a, e, h, nrs2, acks)'
    BY <1>4, <1>5, <1>8, <1>9, <1>10, <1>11, <1>12, <2>1 DEF Numbering, PeerUntouched, nb
  <2> QED
    BY <2>2 DEF Direction
<1>14. Direction(q)'
  <2>1. (no_nak'[w] => no_nak[w]) /\ ("data" = "nak" => no_nak[w] /\ ~no_nak'[w])
    BY <1>1
  <2> QED
    BY <1>10, <1>12, <2>1, ReceiverIdle
<1>15. TypeOK'
  <2>1. \A p \in Proc : nframes'[p] <= Len(chan'[p])
    BY <1>1, <1>10, CountsStay
  <2>2. timers' \in [Proc -> Seq(SeqNr)] /\ seqs' \in [Proc -> [SeqNr -> SeqNr]]
        /\ aux_timer' \in [Proc -> BOOLEAN]
        /\ phase' \in [Proc -> {"start", "queue_frames", "wait", "exited"}]
    BY <1>1, <1>2, <1>8, <1>9 DEF TypeOK, WindowTypeOK, LinkTypeOK
  <2> QED
    BY <1>1, <1>2, <1>10, <2>1, <2>2 DEF TypeOK, WindowTypeOK, LinkTypeOK, window_vars,
                                         receive_vars
<1>16. NoProtocolError'
  BY <1>1, <1>2 DEF IInv, NoProtocolError, TypeOK, WindowTypeOK, LinkTypeOK
<1> QED
  BY <1>2, <1>13, <1>14, <1>15, <1>16 DEF IInv

-----------------------------------------------------------------------------
(* Acknowledgements.                                                       *)

(* Worker w takes a frame and handles its acknowledgement, after it has    *)
(* perhaps sent an outstanding frame again.                                *)
LEMMA AckHandled ==
  ASSUME IInv, NEW w \in Proc, NEW a \in Nat, NEW e \in Nat, NEW h \in Nat, NEW nrs, NEW acks,
         Numbering(w, a, e, h, nrs, acks), chan[w] # <<>>,
         NEW running, TimersOK(running, a, nbuffered[w]),
         HandleAck(w, Head(chan[w]), running), chan'[w] = Tail(chan[w]),
         next_frame_to_send'[w] = next_frame_to_send[w],
         SenderOK(ack_expected[w], next_frame_to_send[w], nbuffered[w], out_buf'[w],
                  seqs'[w], next_net_pkt'[w], a),
         NEW nrs2, DataWindow(chan'[Peer(w)], nrs2, MAX_SEQ, NR_BUFS, a + nbuffered[w], h),
         ReceiverUntouched(Peer(w)), no_nak'[Peer(w)] = no_nak[Peer(w)]
  PROVE  /\ Direction(w)'
         /\ ack_expected' \in [Proc -> SeqNr] /\ nbuffered' \in [Proc -> 0 .. NR_BUFS]
         /\ timers' \in [Proc -> Seq(SeqNr)]
         /\ ack_expected'[Peer(w)] = ack_expected[Peer(w)]
         /\ nbuffered'[Peer(w)] = nbuffered[Peer(w)] /\ timers'[Peer(w)] = timers[Peer(w)]
<1> DEFINE q == Peer(w)
           r == Head(chan[w])
           nb == nbuffered[w]
           ae == ack_expected[w]
           nf == next_frame_to_send[w]
           nn2 == next_net_pkt'[w]
           buf2 == out_buf'[w]
           sq2 == seqs'[w]
           n == Cardinality(Acked(w, r))
           stopped == StopTimers(running, [i \in 1 .. n |-> Advance(ae, i - 1, MAX_SEQ)])
           l == acks[1]
<1>1. /\ TypeOK /\ q \in Proc /\ q # w /\ Proc = {w, q} /\ chan[w] \in Seq(Frame)
      /\ nb \in Nat /\ nb <= NR_BUFS /\ nb <= MAX_SEQ
      /\ MAX_SEQ \in Nat \ {0} /\ NR_BUFS \in Nat /\ SeqNr = 0 .. MAX_SEQ
  <2>1. nb \in 0 .. NR_BUFS /\ NR_BUFS \in Nat
    BY Typed, Sizes DEF IInv
  <2> QED
    BY <2>1, Typed, PeerFacts, Sizes DEF IInv
<1>2. /\ nbuffered' = [nbuffered EXCEPT ![w] = nb - n]
      /\ ack_expected' = [ack_expected EXCEPT ![w] = Advance(ae, n, MAX_SEQ)]
      /\ timers' = [timers EXCEPT ![w] = stopped]
  BY <1>1 DEF HandleAck, TypeOK, WindowTypeOK, LinkTypeOK
<1>3. /\ SenderOK(ae, nf, nb, buf2, sq2, nn2, a)
      /\ ae = SeqNo(a) /\ nf = SeqNo(a + nb)
      /\ ReceiverOK(frame_expected[q], too_far[q], last_pkt_given[q], arrived[q],
                    in_buf[q], e, h)
      /\ a <= e /\ e <= h /\ h <= a + nb
      /\ DataWindow(chan'[q], nrs2, MAX_SEQ, NR_BUFS, a + nb, h)
      /\ AckWindow(chan[w], acks, MAX_SEQ, a, e)
      /\ NaksOK(chan[w], frame_expected[q], no_nak[q])
  BY DEF Numbering, SenderOK
<1>4. /\ l \in Nat /\ a <= l /\ l <= e
      /\ r.ack \in 0 .. MAX_SEQ /\ Inc(r.ack, MAX_SEQ) = Wrapped(l, MAX_SEQ)
      /\ AckWindow(Tail(chan[w]), Tail(acks), MAX_SEQ, l, e)
  BY <1>1, <1>3, AckTaken
<1>5. NaksOK(Tail(chan[w]), frame_expected[q], no_nak[q])
  BY <1>1, <1>3, DropNak
<1> HIDE DEF nb, ae, nf, nn2, buf2, sq2, l, stopped
<1>6. /\ a + nb \in Nat /\ l <= a + nb /\ a + nb <= a + MAX_SEQ
      /\ l - a \in 0 .. nb /\ nb - (l - a) \in 0 .. NR_BUFS
      /\ a + (l - a) = l /\ l + (nb - (l - a)) = a + nb
  <2>1. /\ a \in Nat /\ e \in Nat /\ h \in Nat /\ l \in Nat /\ nb \in Nat /\ NR_BUFS \in Nat
        /\ a <= l /\ l <= e /\ e <= h /\ h <= a + nb /\ nb <= NR_BUFS /\ nb <= MAX_SEQ
        /\ MAX_SEQ \in Nat
    BY <1>1, <1>3, <1>4
  <2> QED
    BY ONLY <2>1
<1>7. n = l - a
  <2>1. Acked(w, r) = AckedBy(Wrapped(a, MAX_SEQ), r.ack, Wrapped(a + nb, MAX_SEQ), MAX_SEQ)
    BY <1>1, <1>3, <1>6 DEF Acked, AckedBy, SeqNo, ae, nf
  <2>2. Cardinality(AckedBy(Wrapped(a, MAX_SEQ), r.ack, Wrapped(a + nb, MAX_SEQ), MAX_SEQ))
          = l - a
    <3> DEFINE b == a + nb
               ack == r.ack
    <3>1. /\ MAX_SEQ \in Nat \ {0} /\ a \in Nat /\ l \in Nat /\ b \in Nat
          /\ a <= l /\ l <= b /\ b <= a + MAX_SEQ
          /\ ack \in 0 .. MAX_SEQ /\ Inc(ack, MAX_SEQ) = Wrapped(l, MAX_SEQ)
      BY <1>1, <1>4, <1>6
    <3> HIDE DEF b, ack
    <3>2. Cardinality(AckedBy(Wrapped(a, MAX_SEQ), ack, Wrapped(b, MAX_SEQ), MAX_SEQ)) = l - a
      BY ONLY <3>1, AckedCount
    <3> QED
      BY <3>2 DEF b, ack
  <2> QED
    BY <2>1, <2>2
<1> HIDE DEF n
<1>8. SenderOK(Advance(ae, n, MAX_SEQ), nf, nb - n, buf2, sq2, nn2, a + n)
  BY <1>1, <1>3, <1>6, <1>7, SenderAcked
<1>9. stopped \in Seq(SeqNr) /\ TimersOK(stopped, a + n, nb - n)
  <2>1. \A m \in 0 .. nb :
          LET us == StopTimers(running, [i \in 1 .. m |-> Advance(SeqNo(a), i - 1, MAX_SEQ)])
          IN TimersOK(us, a + m, nb - m)
    BY <1>1, TimersAcked DEF nb
  <2>2. TimersOK(stopped, a + n, nb - n)
    BY <1>3, <1>6, <1>7, <2>1 DEF stopped
  <2> QED
    BY <2>2 DEF TimersOK
<1>10. /\ ack_expected'[w] = Advance(ae, n, MAX_SEQ) /\ nbuffered'[w] = nb - n
       /\ timers'[w] = stopped
       /\ ack_expected'[q] = ack_expected[q] /\ nbuffered'[q] = nbuffered[q]
       /\ timers'[q] = timers[q]
  BY <1>1, <1>2 DEF TypeOK, WindowTypeOK, LinkTypeOK
<1>11. Direction(w)'
  <2>1. /\ next_frame_to_send'[w] = nf /\ next_net_pkt'[w] = nn2 /\ out_buf'[w] = buf2
        /\ seqs'[w] = sq2
    BY DEF nf, nn2, buf2, sq2
  <2>2. a + n = l
    BY <1>6, <1>7
  <2>3. Numbering(w, l, e, h, nrs2, Tail(acks))'
    BY <1>3, <1>4, <1>5, <1>6, <1>7, <1>8, <1>9, <1>10, <2>1, <2>2 DEF Numbering,
       ReceiverUntouched, q
  <2> QED
    BY <1>4, <2>3 DEF Direction
<1>12. Advance(ae, n, MAX_SEQ) \in SeqNr
  <2>1. Advance(ae, n, MAX_SEQ) = SeqNo(a + n) /\ a + n \in Nat
    BY <1>4, <1>6, <1>7, <1>8 DEF SenderOK
  <2> QED
    BY <2>1, SeqNumbers
<1>13. /\ ack_expected' \in [Proc -> SeqNr] /\ nbuffered' \in [Proc -> 0 .. NR_BUFS]
       /\ timers' \in [Proc -> Seq(SeqNr)]
  BY <1>1, <1>2, <1>6, <1>7, <1>9, <1>12 DEF TypeOK, WindowTypeOK, LinkTypeOK
<1> QED
  BY <1>10, <1>11, <1>13 DEF q

(* The same when w sends no data.                                          *)
LEMMA AckReceived ==
  ASSUME IInv, NEW w \in Proc, chan[w] # <<>>,
         HandleAck(w, Head(chan[w]), timers[w]), chan'[w] = Tail(chan[w]),
         next_frame_to_send'[w] = next_frame_to_send[w], out_buf'[w] = out_buf[w],
         seqs'[w] = seqs[w], next_net_pkt'[w] = next_net_pkt[w],
         ReceiverUntouched(Peer(w)), no_nak'[Peer(w)] = no_nak[Peer(w)],
         NEW kind, kind # "data", NEW nr, NEW info, NEW fe,
         Sent(chan[Peer(w)], chan'[Peer(w)], kind, nr, info, fe)
  PROVE  /\ Direction(w)'
         /\ ack_expected' \in [Proc -> SeqNr] /\ nbuffered' \in [Proc -> 0 .. NR_BUFS]
         /\ timers' \in [Proc -> Seq(SeqNr)]
         /\ ack_expected'[Peer(w)] = ack_expected[Peer(w)]
         /\ nbuffered'[Peer(w)] = nbuffered[Peer(w)] /\ timers'[Peer(w)] = timers[Peer(w)]
<1> DEFINE q == Peer(w)
<1>1. PICK a \in Nat, e \in Nat, h \in Nat : \E nrs, acks : Numbering(w, a, e, h, nrs, acks)
  BY DEF IInv, Direction
<1>2. PICK nrs, acks : Numbering(w, a, e, h, nrs, acks)
  BY <1>1
<1>3. /\ DataWindow(chan[q], nrs, MAX_SEQ, NR_BUFS, a + nbuffered[w], h)
      /\ TimersOK(timers[w], a, nbuffered[w])
      /\ SenderOK(ack_expected[w], next_frame_to_send[w], nbuffered[w], out_buf'[w],
                  seqs'[w], next_net_pkt'[w], a)
  BY <1>2 DEF Numbering
<1>4. PICK nrs2 : DataWindow(chan'[q], nrs2, MAX_SEQ, NR_BUFS, a + nbuffered[w], h)
  <2> DEFINE top == a + nbuffered[w]
  <2>1. top \in Nat /\ 0 \in Nat
    BY Typed DEF IInv
  <2>2. Sent(chan[q], chan'[q], kind, SeqNo(0), PktNo(0), fe)
    BY DEF Sent
  <2> HIDE DEF top
  <2>3. \E nrs2 : DataWindow(chan'[q], nrs2, MAX_SEQ, NR_BUFS, top, h)
    BY <1>3, <2>1, <2>2, SentNumbers DEF top
  <2> QED
    BY <2>3 DEF top
<1> QED
  BY <1>2, <1>3, <1>4, AckHandled

(* A separate acknowledgement arrives.                                     *)
LEMMA AckArrivalStep ==
  ASSUME IInv, NEW w \in Proc, AckArrival(w)
  PROVE  IInv'
<1> DEFINE q == Peer(w)
<1>1. /\ TakesFrame(w) /\ chan' = [chan EXCEPT ![w] = Tail(chan[w])]
      /\ HandleAck(w, Head(chan[w]), timers[w])
      /\ phase' = [phase EXCEPT ![w] = "queue_frames"]
      /\ UNCHANGED <<next_net_pkt, last_pkt_given, next_frame_to_send, frame_expected,
                     send_vars, receive_vars, no_nak, aux_timer>>
  BY DEF AckArrival, SendsNothing, BackToWait
<1>2. /\ TypeOK /\ q \in Proc /\ q # w /\ Proc = {w, q} /\ phase[w] = "wait"
      /\ chan \in [Proc -> Seq(Frame)] /\ chan[q] \in Seq(Frame)
      /\ chan[w] # <<>> /\ Tail(chan[w]) \in Seq(Frame) /\ nframes' \in [Proc -> Nat]
  BY <1>1, CountsTaken, Typed, PeerFacts DEF IInv
<1>3. /\ chan' \in [Proc -> Seq(Frame)] /\ chan'[w] = Tail(chan[w]) /\ chan'[q] = chan[q]
      /\ Len(chan[q]) <= Len(chan'[q])
      /\ Sent(chan[q], chan'[q], "ack", 0, 0, frame_expected[w])
  <2>1. Len(chan[q]) \in Nat
    BY <1>2
  <2> QED
    BY <1>1, <1>2, <2>1 DEF Sent
<1>4. /\ Direction(w)'
      /\ ack_expected' \in [Proc -> SeqNr] /\ nbuffered' \in [Proc -> 0 .. NR_BUFS]
      /\ timers' \in [Proc -> Seq(SeqNr)]
      /\ ack_expected'[q] = ack_expected[q]
      /\ nbuffered'[q] = nbuffered[q] /\ timers'[q] = timers[q]
  <2>1. ReceiverUntouched(q)
    BY <1>1 DEF ReceiverUntouched, receive_vars
  <2> QED
    BY <1>1, <1>2, <1>3, <2>1, AckReceived DEF send_vars
<1>5. PeerUntouched(w) /\ ReceiverUntouched(w) /\ MayTake(w)
  BY <1>1, <1>2, <1>3, <1>4 DEF PeerUntouched, ReceiverUntouched, MayTake, send_vars,
                                receive_vars
<1>6. Direction(q)'
  <2>1. (no_nak'[w] => no_nak[w]) /\ ("ack" = "nak" => no_nak[w] /\ ~no_nak'[w])
    BY <1>1
  <2> QED
    BY <1>3, <1>5, <2>1, ReceiverIdle
<1>7. TypeOK'
  <2>1. \A p \in Proc : nframes'[p] <= Len(chan'[p])
    BY <1>1, <1>2, <1>3, CountsTaken
  <2> QED
    BY <1>1, <1>2, <1>3, <1>4, <2>1 DEF TypeOK, WindowTypeOK, LinkTypeOK, send_vars,
                                        receive_vars
<1>8. NoProtocolError'
  BY <1>1, <1>2 DEF IInv, NoProtocolError, TypeOK, WindowTypeOK, LinkTypeOK
<1> QED
  BY <1>2, <1>4, <1>6, <1>7, <1>8 DEF IInv

(* The frame a nak asks for, if between finds it in the window of w, is    *)
(* the first one after those that the nak acknowledges, and outstanding.   *)
LEMMA NakAsks ==
  ASSUME NEW a \in Nat, NEW nb \in Nat, nb <= MAX_SEQ, NEW l \in Nat, a <= l, l <= a + nb,
         NEW r \in Frame, r.ack \in 0 .. MAX_SEQ, Inc(r.ack, MAX_SEQ) = SeqNo(l)
  PROVE  /\ Missing(r) = SeqNo(l) /\ Missing(r) \in SeqNr
         /\ Between(SeqNo(a), Missing(r), SeqNo(a + nb)) => l \in a .. (a + nb) - 1
<1>1. Missing(r) = SeqNo(l) /\ SeqNo(l) \in SeqNr
  BY MissingNumber, SeqNumbers
<1>2. ASSUME Between(SeqNo(a), SeqNo(l), SeqNo(a + nb))
      PROVE  l \in a .. (a + nb) - 1
  <2>1. /\ a + nb \in Nat /\ a <= a + nb /\ a + nb <= a + MAX_SEQ /\ (a + nb) - a = nb
        /\ l <= a + MAX_SEQ /\ MAX_SEQ \in Nat
    BY Sizes
  <2>2. /\ Distance(SeqNo(a), SeqNo(l), MAX_SEQ) = l - a
        /\ Distance(SeqNo(a), SeqNo(a + nb), MAX_SEQ) = nb
    <3>1. Distance(SeqNo(a), SeqNo(a + nb), MAX_SEQ) = (a + nb) - a
      BY <2>1, SeqNumberFromTo
    <3> QED
      BY <2>1, <3>1, SeqNumberFromTo
  <2>3. /\ SeqNo(a) \in 0 .. MAX_SEQ /\ SeqNo(l) \in 0 .. MAX_SEQ
        /\ SeqNo(a + nb) \in 0 .. MAX_SEQ
    BY <2>1, SeqNumbers, Sizes
  <2>4. l - a < nb
    BY <1>2, <2>1, <2>2, <2>3, BetweenIsCloser
  <2> QED
    BY <2>4
<1> QED
  BY <1>1, <1>2

(* A nak arrives: the frame it asks for is sent again.                     *)
LEMMA NakArrivalStep ==
  ASSUME IInv, NEW w \in Proc, NakArrival(w)
  PROVE  IInv'
<1> DEFINE q == Peer(w)
           r == Head(chan[w])
           nr == Missing(r)
           nb == nbuffered[w]
           resends == Between(ack_expected[w], nr, next_frame_to_send[w])
           running == IF resends THEN StartTimer(timers[w], nr) ELSE timers[w]
           kind == IF resends THEN "data" ELSE "ack"
<1>1. /\ TakesFrame(w)
      /\ UNCHANGED <<next_net_pkt, last_pkt_given, next_frame_to_send,
                     frame_expected, out_buf, receive_vars, no_nak>>
      /\ phase' = [phase EXCEPT ![w] = "queue_frames"]
      /\ HandleAck(w, r, running)
      /\ IF resends
         THEN /\ Send(w, "data", nr, Tail(chan[w]))
              /\ seqs' = [seqs EXCEPT ![w] = [seqs[w] EXCEPT ![nr] = nr]]
              /\ aux_timer' = [aux_timer EXCEPT ![w] = FALSE]
         ELSE /\ chan' = [chan EXCEPT ![w] = Tail(chan[w])]
              /\ UNCHANGED <<seqs, aux_timer>>
  BY DEF NakArrival, SendsNothing, BackToWait, IInv, TypeOK
<1>2. /\ TypeOK /\ q \in Proc /\ q # w /\ Proc = {w, q} /\ phase[w] = "wait"
      /\ chan \in [Proc -> Seq(Frame)] /\ chan[q] \in Seq(Frame) /\ r \in Frame
      /\ chan[w] # <<>> /\ Tail(chan[w]) \in Seq(Frame) /\ nframes' \in [Proc -> Nat]
      /\ nb \in Nat /\ nb <= NR_BUFS /\ nb <= MAX_SEQ
      /\ out_buf[w] \in [Buf -> Pkt] /\ seqs[w] \in [SeqNr -> SeqNr]
  <2>1. nb \in 0 .. NR_BUFS /\ NR_BUFS \in Nat
    BY Typed, Sizes DEF IInv
  <2> QED
    BY <1>1, <2>1, CountsTaken, Typed, PeerFacts DEF IInv
<1>3. PICK a \in Nat, e \in Nat, h \in Nat : \E nrs, acks : Numbering(w, a, e, h, nrs, acks)
  BY DEF IInv, Direction
<1>4. PICK nrs, acks : Numbering(w, a, e, h, nrs, acks)
  BY <1>3
<1> DEFINE l == acks[1]
<1>5. /\ SenderOK(ack_expected[w], next_frame_to_send[w], nb, out_buf[w], seqs[w],
                  next_net_pkt[w], a)
      /\ ack_expected[w] = SeqNo(a) /\ next_frame_to_send[w] = SeqNo(a + nb)
      /\ TimersOK(timers[w], a, nb)
      /\ a <= e /\ e <= h /\ h <= a + nb
      /\ DataWindow(chan[q], nrs, MAX_SEQ, NR_BUFS, a + nb, h)
      /\ AckWindow(chan[w], acks, MAX_SEQ, a, e)
  BY <1>4 DEF Numbering, SenderOK
<1>6. /\ l \in Nat /\ a <= l /\ l <= e
      /\ r.ack \in 0 .. MAX_SEQ /\ Inc(r.ack, MAX_SEQ) = SeqNo(l)
  BY <1>2, <1>5, AckTaken, Sizes DEF SeqNo
<1> HIDE DEF nb, l, r, nr, resends, running, kind
<1>7. l <= a + nb /\ a + nb <= l + NR_BUFS /\ h <= l + NR_BUFS
  <2>1. /\ a \in Nat /\ e \in Nat /\ h \in Nat /\ l \in Nat /\ nb \in Nat /\ NR_BUFS \in Nat
        /\ a <= l /\ l <= e /\ e <= h /\ h <= a + nb /\ nb <= NR_BUFS
    BY <1>2, <1>5, <1>6, Sizes
  <2> QED
    BY ONLY <2>1
<1>8. nr = SeqNo(l) /\ nr \in SeqNr /\ (resends => l \in a .. (a + nb) - 1)
  BY <1>2, <1>5, <1>6, <1>7, NakAsks DEF nr, resends
<1>9. resends => out_buf[w][nr % NR_BUFS] = PktNo(l)
  <2> SUFFICES ASSUME resends PROVE out_buf[w][nr % NR_BUFS] = PktNo(l)
    OBVIOUS
  <2>1. l \in a .. (a + nb) - 1
    BY <1>8
  <2>2. out_buf[w][SeqNo(l) % NR_BUFS] = PktNo(l)
    BY <1>5, <1>6, <2>1, BufNumbers DEF SenderOK
  <2> QED
    BY <1>8, <2>2
<1>10. TimersOK(running, a, nb)
  <2>1. CASE resends
    <3>1. l \in a .. (a + nb) - 1
      BY <1>8, <2>1
    <3>2. TimersOK(StartTimer(timers[w], SeqNo(l)), a, nb)
      BY <1>2, <1>5, <3>1, TimerRestarts
    <3> QED
      BY <1>8, <2>1, <3>2 DEF running
  <2>2. CASE ~resends
    BY <1>5, <2>2 DEF running
  <2> QED
    BY <2>1, <2>2
<1>11. /\ seqs' \in [Proc -> [SeqNr -> SeqNr]] /\ seqs'[q] = seqs[q] /\ seqs'[w] = seqs[w]
       /\ aux_timer' \in [Proc -> BOOLEAN]
  <2>1. CASE resends
    <3>1. l \in a .. (a + nb) - 1
      BY <1>8, <2>1
    <3>2. seqs[w][nr] = nr
      BY <1>5, <1>8, <3>1 DEF SenderOK
    <3>3. [seqs[w] EXCEPT ![nr] = nr] = seqs[w]
      BY <1>2, <3>2
    <3>4. seqs' = [seqs EXCEPT ![w] = seqs[w]] /\ aux_timer' = [aux_timer EXCEPT ![w] = FALSE]
      BY <1>1, <2>1, <3>3
    <3>5. seqs \in [Proc -> [SeqNr -> SeqNr]] /\ aux_timer \in [Proc -> BOOLEAN]
      BY <1>2 DEF TypeOK
    <3>6. seqs' = seqs
      BY <3>4, <3>5
    <3> QED
      BY <3>4, <3>5, <3>6
  <2>2. CASE ~resends
    BY <1>1, <1>2, <2>2 DEF TypeOK
  <2> QED
    BY <2>1, <2>2
<1>12. /\ chan' \in [Proc -> Seq(Frame)] /\ chan'[w] = Tail(chan[w])
       /\ Len(chan[q]) <= Len(chan'[q])
       /\ Sent(chan[q], chan'[q], kind, SeqNo(l), PktNo(l), frame_expected[w])
  <2>1. CASE resends
    <3>1. PktNo(l) \in Pkt /\ out_buf'[w][nr % NR_BUFS] = PktNo(l)
      BY <1>1, <1>6, <1>9, <2>1, SeqNumbers
    <3>2. out_buf'[w][nr % NR_BUFS] \in Pkt
      BY <3>1
    <3>3. /\ chan' \in [Proc -> Seq(Frame)] /\ chan'[w] = Tail(chan[w])
          /\ Len(chan[q]) <= Len(chan'[q])
          /\ Sent(chan[q], chan'[q], "data", nr, out_buf'[w][nr % NR_BUFS], frame_expected[w])
      BY <1>1, <1>2, <1>8, <2>1, <3>2, SendStep
    <3> QED
      BY <1>8, <2>1, <3>1, <3>3 DEF kind
  <2>2. CASE ~resends
    <3>1. chan' = [chan EXCEPT ![w] = Tail(chan[w])] /\ Len(chan[q]) \in Nat
      BY <1>1, <1>2, <2>2
    <3> QED
      BY <1>2, <3>1 DEF Sent
  <2> QED
    BY <2>1, <2>2
<1>13. PICK nrs2 : DataWindow(chan'[q], nrs2, MAX_SEQ, NR_BUFS, a + nb, h)
  <2> DEFINE top == a + nb
  <2>1. top \in Nat /\ DataWindow(chan[q], nrs, MAX_SEQ, NR_BUFS, top, h)
    BY <1>2, <1>5
  <2>2. kind = "data" => top <= l + NR_BUFS /\ h <= l + NR_BUFS /\ l < top
    <3> SUFFICES ASSUME kind = "data" PROVE l < top
      BY <1>7
    <3>1. l \in a .. (a + nb) - 1 /\ a \in Nat /\ nb \in Nat
      BY <1>2, <1>8 DEF kind
    <3> QED
      BY ONLY <3>1
  <2> HIDE DEF top
  <2>3. \E nrs2 : DataWindow(chan'[q], nrs2, MAX_SEQ, NR_BUFS, top, h)
    BY <1>6, <1>12, <2>1, <2>2, SentNumbers
  <2> QED
    BY <2>3 DEF top
<1>14. /\ Direction(w)'
       /\ ack_expected' \in [Proc -> SeqNr] /\ nbuffered' \in [Proc -> 0 .. NR_BUFS]
       /\ timers' \in [Proc -> Seq(SeqNr)]
       /\ ack_expected'[q] = ack_expected[q]
       /\ nbuffered'[q] = nbuffered[q] /\ timers'[q] = timers[q]
  <2>1. ReceiverUntouched(q) /\ no_nak'[q] = no_nak[q]
        /\ next_frame_to_send'[w] = next_frame_to_send[w]
    BY <1>1 DEF ReceiverUntouched, receive_vars
  <2>2. SenderOK(ack_expected[w], next_frame_to_send[w], nb, out_buf'[w], seqs'[w],
                 next_net_pkt'[w], a)
    BY <1>1, <1>5, <1>11
  <2> QED
    BY <1>1, <1>2, <1>4, <1>10, <1>12, <1>13, <2>1, <2>2, AckHandled DEF nb, r
<1>15. PeerUntouched(w) /\ ReceiverUntouched(w) /\ MayTake(w)
  BY <1>1, <1>2, <1>11, <1>12, <1>14 DEF PeerUntouched, ReceiverUntouched, MayTake, receive_vars
<1>16. Direction(q)'
  <2>1. no_nak'[w] => no_nak[w]
    BY <1>1
  <2>2. kind # "nak"
    BY DEF kind
  <2> QED
    BY <1>12, <1>15, <2>1, <2>2, ReceiverIdle
<1>17. TypeOK'
  <2>1. \A p \in Proc : nframes'[p] <= Len(chan'[p])
    BY <1>1, <1>2, <1>12, CountsTaken
  <2> QED
    BY <1>1, <1>2, <1>11, <1>12, <1>14, <2>1 DEF TypeOK, WindowTypeOK, LinkTypeOK, receive_vars
<1>18. NoProtocolError'
  BY <1>1, <1>2 DEF IInv, NoProtocolError, TypeOK, WindowTypeOK, LinkTypeOK
<1> QED
  BY <1>2, <1>14, <1>16, <1>17, <1>18 DEF IInv

-----------------------------------------------------------------------------
(* Data frames.                                                            *)

(* The number k of the data frame that worker w takes: at most a window    *)
(* away from the packet w expects.  With it w may store up to packet h2.   *)
LEMMA FrameArrives ==
  ASSUME IInv, NEW w \in Proc, NEW a \in Nat, NEW e \in Nat, NEW h \in Nat, NEW nrs, NEW acks,
         Numbering(Peer(w), a, e, h, nrs, acks),
         chan[w] # <<>>, Head(chan[w]).kind = "data"
  PROVE  \E k, h2 \in Nat :
           /\ Head(chan[w]).seq = SeqNo(k) /\ Head(chan[w]).info = PktNo(k)
           /\ e <= k + NR_BUFS /\ k < e + NR_BUFS
           /\ h <= h2 /\ k < h2 /\ h2 <= a + nbuffered[Peer(w)]
           /\ DataWindow(Tail(chan[w]), Tail(nrs), MAX_SEQ, NR_BUFS,
                         a + nbuffered[Peer(w)], h2)
<1> DEFINE q == Peer(w)
           nb == nbuffered[q]
           top == a + nb
           r == Head(chan[w])
           k == nrs[1]
<1>1. /\ q \in Proc /\ Peer(q) = w /\ nb \in Nat /\ nb <= NR_BUFS
      /\ NR_BUFS \in Nat /\ MAX_SEQ \in Nat /\ top \in Nat
  <2>1. nb \in 0 .. NR_BUFS /\ NR_BUFS \in Nat /\ q \in Proc
    BY Typed, PeerFacts, Sizes DEF IInv
  <2> QED
    BY <2>1, PeerFacts, Sizes
<1>2. /\ DataWindow(chan[w], nrs, MAX_SEQ, NR_BUFS, top, h)
      /\ a <= e /\ e <= h /\ h <= top
  BY <1>1 DEF Numbering
<1> DEFINE fs == chan[w]
<1> HIDE DEF fs, top, k
<1>3. DataWindow(fs, nrs, MAX_SEQ, NR_BUFS, top, h) /\ fs # <<>> /\ Head(fs).kind = "data"
  BY <1>2 DEF fs
<1>4. /\ k \in Nat /\ k < top /\ h <= k + NR_BUFS
      /\ Head(fs).seq = SeqNo(k) /\ Head(fs).info = PktNo(k)
      /\ DataWindow(Tail(fs), Tail(nrs), MAX_SEQ, NR_BUFS, top, k + 1)
      /\ DataWindow(Tail(fs), Tail(nrs), MAX_SEQ, NR_BUFS, top, h)
  BY <1>1, <1>3, DataTaken, DataDropped DEF SeqNo, PktNo, k
<1>5. e <= k + NR_BUFS /\ k < e + NR_BUFS
  <2>1. /\ a \in Nat /\ e \in Nat /\ h \in Nat /\ k \in Nat /\ nb \in Nat /\ NR_BUFS \in Nat
        /\ a <= e /\ e <= h /\ nb <= NR_BUFS /\ h <= k + NR_BUFS /\ k < top /\ top = a + nb
    BY <1>1, <1>2, <1>4 DEF top
  <2> HIDE DEF nb
  <2> QED
    BY ONLY <2>1
<1>6. CASE k < h
  BY <1>2, <1>4, <1>5, <1>6 DEF fs, top
<1>7. CASE ~(k < h)
  <2>1. k + 1 \in Nat /\ h <= k + 1 /\ k < k + 1 /\ k + 1 <= top
    BY <1>1, <1>4, <1>7
  <2> QED
    BY <1>4, <1>5, <2>1 DEF fs, top
<1> QED
  BY <1>6, <1>7

(* The numbers and buffers of the receiver's window.                       *)
LEMMA ExpectedNumbers ==
  ASSUME NEW w \in Proc, NEW e \in Nat, frame_expected[w] = SeqNo(e), NEW i \in 0 .. NR_BUFS
  PROVE  /\ Expected(w, i) = SeqNo(e + i) /\ Expected(w, i) % NR_BUFS = BufNo(e + i)
         /\ Advance(PktNo(e), i, MaxPkt) = PktNo(e + i)
<1>1. e + i \in Nat /\ e <= e + i /\ e + i <= e + MAX_SEQ /\ (e + i) - e = i
  BY Sizes
<1>2. SeqNo(e + i) = Advance(SeqNo(e), i, MAX_SEQ) /\ PktNo(e + i) = Advance(PktNo(e), i, MaxPkt)
  BY <1>1, SeqNumberFromTo
<1>3. SeqNo(e + i) % NR_BUFS = BufNo(e + i)
  BY <1>1, BufNumbers
<1> QED
  BY <1>2, <1>3 DEF Expected

(* A wanted frame is stored where it belongs, and the packets passed on    *)
(* are the next ones.                                                      *)
LEMMA WantedStored ==
  ASSUME IInv, NEW w \in Proc, NEW e \in Nat, NEW h \in Nat,
         ReceiverOK(frame_expected[w], too_far[w], last_pkt_given[w], arrived[w], in_buf[w],
                    e, h),
         NEW r, NEW k \in Nat, r.seq = SeqNo(k), r.info = PktNo(k),
         e <= k + NR_BUFS, k < e + NR_BUFS, NEW h2 \in Nat, h <= h2, k < h2, Wanted(w, r)
  PROVE  /\ StoredMap(w, r) \in [Buf -> BOOLEAN] /\ StoredBuf(w, r) \in [Buf -> Pkt]
         /\ Stores(StoredMap(w, r), StoredBuf(w, r), e, h2)
         /\ Prefix(StoredMap(w, r), e, Deliverable(w, r))
         /\ InOrder(w, r)
<1> DEFINE map == arrived[w]
           buf == in_buf[w]
           map2 == StoredMap(w, r)
           buf2 == StoredBuf(w, r)
           n == Deliverable(w, r)
<1>1. /\ map \in [Buf -> BOOLEAN] /\ buf \in [Buf -> Pkt]
      /\ frame_expected[w] = SeqNo(e) /\ too_far[w] = SeqNo(e + NR_BUFS)
      /\ Inc(last_pkt_given[w], MaxPkt) = PktNo(e) /\ Stores(map, buf, e, h)
      /\ NR_BUFS \in Nat \ {0}
  BY Typed, Sizes DEF IInv, ReceiverOK
<1>2. r.seq % NR_BUFS = BufNo(k) /\ BufNo(k) \in Buf /\ PktNo(k) \in Pkt
  BY BufNumbers, SeqNumbers
<1>3. e <= k
  BY <1>1, WantedNumber DEF Wanted
<1>4. map2 = [map EXCEPT ![BufNo(k)] = TRUE] /\ buf2 = [buf EXCEPT ![BufNo(k)] = PktNo(k)]
  BY <1>2 DEF StoredMap, StoredBuf
<1>5. map2 \in [Buf -> BOOLEAN] /\ buf2 \in [Buf -> Pkt]
  BY <1>1, <1>2, <1>4
<1> HIDE DEF map, buf
<1>6. Stores(map2, buf2, e, h2)
  <2>1. Stores([map EXCEPT ![BufNo(k)] = TRUE], [buf EXCEPT ![BufNo(k)] = PktNo(k)], e, h2)
    BY <1>1, <1>3, FrameStored
  <2> QED
    BY <1>4, <2>1
<1> HIDE DEF buf2
<1>7. Prefix(map2, e, n)
  <2>1. \A i \in 0 .. NR_BUFS : Expected(w, i) % NR_BUFS = BufNo(e + i)
    BY <1>1, ExpectedNumbers
  <2>2. PICK m : Prefix(map2, e, m)
    BY PrefixExists
  <2> DEFINE P(x) == /\ \A i \in 0 .. x - 1 : map2[Expected(w, i) % NR_BUFS]
                     /\ x < NR_BUFS => ~map2[Expected(w, x) % NR_BUFS]
  <2>3. ASSUME NEW x \in 0 .. NR_BUFS
        PROVE  P(x) <=> Prefix(map2, e, x)
    <3>1. \A i \in 0 .. x - 1 : i \in 0 .. NR_BUFS
      BY <1>1
    <3> HIDE DEF map2
    <3> QED
      BY <2>1, <3>1 DEF Prefix
  <2>4. m \in 0 .. NR_BUFS
    BY <2>2 DEF Prefix
  <2>5. n = CHOOSE x \in 0 .. NR_BUFS : P(x)
    BY DEF Deliverable
  <2> HIDE DEF P, n, map2
  <2>6. n \in 0 .. NR_BUFS /\ P(n)
    BY <2>2, <2>3, <2>4, <2>5
  <2> QED
    BY <2>3, <2>6
<1>8. InOrder(w, r)
  <2> HIDE DEF n, map2
  <2>1. n \in 0 .. NR_BUFS /\ \A i \in 0 .. n - 1 : map2[BufNo(e + i)]
    BY <1>7 DEF Prefix
  <2> SUFFICES ASSUME NEW i \in 0 .. n - 1
               PROVE  buf2[Expected(w, i) % NR_BUFS]
                        = Advance(Inc(last_pkt_given[w], MaxPkt), i, MaxPkt)
    BY DEF InOrder, n, buf2
  <2>2. i \in 0 .. NR_BUFS /\ e + i \in e .. (e + NR_BUFS) - 1
    BY <1>1, <2>1
  <2>3. /\ Expected(w, i) % NR_BUFS = BufNo(e + i)
        /\ Advance(PktNo(e), i, MaxPkt) = PktNo(e + i)
    BY <1>1, <2>2, ExpectedNumbers
  <2>4. buf2[BufNo(e + i)] = PktNo(e + i)
    BY <1>6, <2>1, <2>2 DEF Stores
  <2> QED
    BY <1>1, <2>3, <2>4
<1> QED
  BY <1>5, <1>6, <1>7, <1>8 DEF buf2

(* One packet further and n packets further can be exchanged.              *)
LEMMA IncAdvance ==
  ASSUME NEW k \in Pkt, NEW n \in 0 .. MaxPkt
  PROVE  /\ Inc(Advance(k, n, MaxPkt), MaxPkt) = Advance(Inc(k, MaxPkt), n, MaxPkt)
         /\ Advance(k, n, MaxPkt) \in Pkt
<1>1. MaxPkt \in Nat /\ k \in 0 .. MaxPkt
  BY Sizes
<1> QED
  BY <1>1, Sizes DEF Inc, Advance

(* The receiver after it has stored a frame and passed n packets on.       *)
LEMMA PassedOnWindow ==
  ASSUME IInv, NEW w \in Proc, NEW e \in Nat, NEW h \in Nat, e <= h,
         ReceiverOK(frame_expected[w], too_far[w], last_pkt_given[w], arrived[w], in_buf[w],
                    e, h),
         NEW r, NEW k \in Nat, r.seq = SeqNo(k), r.info = PktNo(k),
         e <= k + NR_BUFS, k < e + NR_BUFS, NEW h2 \in Nat, h <= h2, k < h2, Wanted(w, r),
         StoreAndPassOn(w, r)
  PROVE  LET n == Deliverable(w, r)
         IN /\ n \in 0 .. NR_BUFS /\ n \in Nat /\ e + n <= h2
            /\ ReceiverOK(frame_expected'[w], too_far'[w], last_pkt_given'[w], arrived'[w],
                          in_buf'[w], e + n, h2)
            /\ frame_expected'[w] \in SeqNr /\ too_far'[w] \in SeqNr
            /\ last_pkt_given'[w] \in Pkt
            /\ arrived'[w] \in [Buf -> BOOLEAN] /\ in_buf'[w] \in [Buf -> Pkt]
            /\ last_pkt_given'[w] = Advance(last_pkt_given[w], n, MaxPkt)
<1> DEFINE n == Deliverable(w, r)
           map == StoredMap(w, r)
           buf == StoredBuf(w, r)
           map2 == arrived'[w]
           lg == last_pkt_given[w]
<1>1. /\ map \in [Buf -> BOOLEAN] /\ buf \in [Buf -> Pkt]
      /\ Stores(map, buf, e, h2) /\ Prefix(map, e, n)
  BY WantedStored
<1>2. /\ frame_expected[w] = SeqNo(e) /\ too_far[w] = SeqNo(e + NR_BUFS)
      /\ Inc(lg, MaxPkt) = PktNo(e) /\ lg \in Pkt /\ TypeOK
      /\ NR_BUFS \in Nat \ {0} /\ MAX_SEQ \in Nat /\ NR_BUFS <= MAX_SEQ /\ NR_BUFS <= MaxPkt
      /\ MaxPkt \in Nat
  BY Typed, Sizes DEF IInv, ReceiverOK
<1>3. n \in 0 .. NR_BUFS /\ n \in Nat
  <2>1. n \in 0 .. NR_BUFS
    BY <1>1 DEF Prefix
  <2> HIDE DEF n
  <2> QED
    BY <1>2, <2>1
<1>4. /\ in_buf'[w] = buf
      /\ map2 = [b \in Buf |-> map[b] /\ b \notin {Expected(w, i) % NR_BUFS : i \in 0 .. n - 1}]
      /\ last_pkt_given'[w] = Advance(lg, n, MaxPkt)
      /\ frame_expected'[w] = Expected(w, n)
      /\ too_far'[w] = Advance(too_far[w], n, MAX_SEQ)
  <2> HIDE DEF n, map, buf
  <2> QED
    BY <1>2 DEF StoreAndPassOn, TypeOK, WindowTypeOK, LinkTypeOK, n, map, buf
<1> HIDE DEF n, map, buf, map2, lg
<1>5. map2 \in [Buf -> BOOLEAN]
  BY <1>4
<1>6. \A b \in Buf : map2[b] = (map[b] /\ b \notin {BufNo(e + i) : i \in 0 .. n - 1})
  <2>1. \A i \in 0 .. n - 1 : Expected(w, i) % NR_BUFS = BufNo(e + i)
    <3>1. \A i \in 0 .. n - 1 : i \in 0 .. NR_BUFS
      BY <1>2, <1>3
    <3> QED
      BY <1>2, <3>1, ExpectedNumbers
  <2>2. {Expected(w, i) % NR_BUFS : i \in 0 .. n - 1} = {BufNo(e + i) : i \in 0 .. n - 1}
    BY <2>1
  <2> QED
    BY <1>4, <2>2
<1>7. e + n <= h2 /\ ~map2[BufNo(e + n)] /\ Stores(map2, buf, e + n, h2)
  <2>1. e <= h2
    OBVIOUS
  <2> QED
    BY <1>1, <1>5, <1>6, <2>1, WindowAdvances
<1>8. frame_expected'[w] = SeqNo(e + n) /\ e + n \in Nat
  BY <1>2, <1>3, <1>4, ExpectedNumbers
<1>9. too_far'[w] = SeqNo((e + n) + NR_BUFS)
  <2>1. /\ e + NR_BUFS \in Nat /\ (e + n) + NR_BUFS \in Nat
        /\ e + NR_BUFS <= (e + n) + NR_BUFS
        /\ (e + n) + NR_BUFS <= (e + NR_BUFS) + MAX_SEQ
        /\ ((e + n) + NR_BUFS) - (e + NR_BUFS) = n
    BY <1>2, <1>3
  <2> DEFINE x == e + NR_BUFS
             y == (e + n) + NR_BUFS
  <2> HIDE DEF x, y
  <2>2. x \in Nat /\ y \in Nat /\ x <= y /\ y <= x + MAX_SEQ /\ y - x = n
    BY <2>1 DEF x, y
  <2>3. SeqNo(y) = Advance(SeqNo(x), y - x, MAX_SEQ)
    BY <2>2, SeqNumberFromTo
  <2> QED
    BY <1>2, <1>4, <2>2, <2>3 DEF x, y
<1>10. Inc(last_pkt_given'[w], MaxPkt) = PktNo(e + n) /\ last_pkt_given'[w] \in Pkt
  <2>1. n \in 0 .. MaxPkt
    BY <1>2, <1>3
  <2>2. Inc(Advance(lg, n, MaxPkt), MaxPkt) = Advance(PktNo(e), n, MaxPkt)
        /\ Advance(lg, n, MaxPkt) \in Pkt
    BY <1>2, <2>1, IncAdvance
  <2>3. Advance(PktNo(e), n, MaxPkt) = PktNo(e + n)
    BY <1>2, <1>3, ExpectedNumbers
  <2> QED
    BY <1>4, <2>2, <2>3
<1>11. frame_expected'[w] \in SeqNr /\ too_far'[w] \in SeqNr
  <2>1. (e + n) + NR_BUFS \in Nat
    BY <1>2, <1>3
  <2> QED
    BY <1>8, <1>9, <2>1, SeqNumbers
<1>12. ReceiverOK(frame_expected'[w], too_far'[w], last_pkt_given'[w], arrived'[w],
                  in_buf'[w], e + n, h2)
  BY <1>4, <1>7, <1>8, <1>9, <1>10 DEF ReceiverOK, map2
<1>13. map2 = arrived'[w] /\ n = Deliverable(w, r) /\ lg = last_pkt_given[w]
  BY DEF map2, n, lg
<1> QED
  BY <1>1, <1>3, <1>4, <1>5, <1>7, <1>10, <1>11, <1>12, <1>13

(* The direction from the peer to w, when w takes a data frame; a nak it   *)
(* sends is sent before the window advances.                               *)
LEMMA DataReceived ==
  ASSUME IInv, NEW w \in Proc, NEW r, r = Head(chan[w]), chan[w] # <<>>, r.kind = "data",
         chan'[w] = Tail(chan[w]), PeerUntouched(w),
         NEW advances, advances <=> Wanted(w, r) /\ Deliverable(w, r) > 0,
         IF Wanted(w, r) THEN StoreAndPassOn(w, r) ELSE ReceiverUntouched(w),
         NEW kind, NEW nr, NEW info,
         Sent(chan[Peer(w)], chan'[Peer(w)], kind, nr, info, frame_expected[w]),
         no_nak'[w] => no_nak[w] \/ advances,
         kind = "nak" => no_nak[w] /\ (~no_nak'[w] \/ advances)
  PROVE  Direction(Peer(w))'
<1>1. CASE ~Wanted(w, r)
  <2>1. ReceiverUntouched(w) /\ MayTake(w)
    BY <1>1 DEF MayTake
  <2> QED
    BY <1>1, <2>1, ReceiverIdle
<1>2. CASE Wanted(w, r)
  <2> DEFINE q == Peer(w)
             nb == nbuffered[q]
  <2>1. /\ q \in Proc /\ Peer(q) = w /\ chan[q] \in Seq(Frame) /\ nb \in Nat /\ nb <= NR_BUFS
        /\ NR_BUFS \in Nat \ {0} /\ NR_BUFS <= MAX_SEQ /\ MAX_SEQ \in Nat
    <3>1. nb \in 0 .. NR_BUFS /\ NR_BUFS \in Nat /\ q \in Proc /\ chan[q] \in Seq(Frame)
      BY Typed, PeerFacts, Sizes DEF IInv
    <3> QED
      BY <3>1, PeerFacts, Sizes
  <2>2. PICK a \in Nat, e \in Nat, h \in Nat : \E nrs, acks : Numbering(q, a, e, h, nrs, acks)
    BY <2>1 DEF IInv, Direction
  <2>3. PICK nrs, acks : Numbering(q, a, e, h, nrs, acks)
    BY <2>2
  <2>4. /\ ReceiverOK(frame_expected[w], too_far[w], last_pkt_given[w], arrived[w],
                      in_buf[w], e, h)
        /\ frame_expected[w] = SeqNo(e) /\ a <= e /\ e <= h
        /\ AckWindow(chan[q], acks, MAX_SEQ, a, e)
        /\ NaksOK(chan[q], SeqNo(e), no_nak[w])
    BY <2>1, <2>3 DEF Numbering, ReceiverOK
  <2>5. PICK k \in Nat, h2 \in Nat :
          /\ r.seq = SeqNo(k) /\ r.info = PktNo(k)
          /\ e <= k + NR_BUFS /\ k < e + NR_BUFS
          /\ h <= h2 /\ k < h2 /\ h2 <= a + nb
          /\ DataWindow(chan'[w], Tail(nrs), MAX_SEQ, NR_BUFS, a + nb, h2)
    BY <2>3, FrameArrives
  <2>6. PICK n \in Nat :
          /\ e + n <= h2 /\ (advances <=> n > 0)
          /\ ReceiverOK(frame_expected'[w], too_far'[w], last_pkt_given'[w], arrived'[w],
                        in_buf'[w], e + n, h2)
          /\ frame_expected'[w] = SeqNo(e + n)
    <3> DEFINE n == Deliverable(w, r)
    <3>1. StoreAndPassOn(w, r)
      BY <1>2
    <3>2. /\ n \in Nat /\ e + n <= h2
          /\ ReceiverOK(frame_expected'[w], too_far'[w], last_pkt_given'[w], arrived'[w],
                        in_buf'[w], e + n, h2)
      BY <1>2, <2>4, <2>5, <3>1, PassedOnWindow
    <3>3. advances <=> n > 0
      BY <1>2
    <3> HIDE DEF n
    <3> QED
      BY <3>2, <3>3 DEF ReceiverOK
  <2> HIDE DEF nb
  <2>7. PICK acks2 : AckWindow(chan'[q], acks2, MAX_SEQ, a, e)
    BY <2>4, SentAck
  <2>8. AckWindow(chan'[q], acks2, MAX_SEQ, a, e + n)
    BY <2>1, <2>6, <2>7, AckExpected
  <2>9. e + n \in Nat /\ a <= e + n /\ e + n <= a + MAX_SEQ
    <3>1. /\ a \in Nat /\ e \in Nat /\ n \in Nat /\ h2 \in Nat /\ nb \in Nat /\ NR_BUFS \in Nat
          /\ MAX_SEQ \in Nat /\ a <= e /\ e + n <= h2 /\ h2 <= a + nb /\ nb <= NR_BUFS
          /\ NR_BUFS <= MAX_SEQ
      BY <2>1, <2>4, <2>5, <2>6
    <3> QED
      BY ONLY <3>1
  <2>10. NaksOK(chan'[q], SeqNo(e + n), no_nak'[w])
    <3>1. CASE n = 0
      <4>1. /\ no_nak'[w] => no_nak[w]
            /\ kind = "nak" => no_nak[w] /\ ~no_nak'[w]
            /\ e + n = e /\ ~advances
        BY <2>6, <3>1
      <4>2. NaksOK(chan'[q], SeqNo(e), no_nak'[w])
        BY <2>1, <2>4, <4>1, SentNak
      <4> QED
        BY <4>1, <4>2
    <3>2. CASE n # 0
      <4>1. e < e + n
        BY <2>6, <3>2
      <4> QED
        BY <2>7, <2>9, <4>1, NoNakYet
    <3> QED
      BY <3>1, <3>2
  <2>11. /\ ack_expected'[q] = ack_expected[q] /\ next_frame_to_send'[q] = next_frame_to_send[q]
         /\ nbuffered'[q] = nb /\ next_net_pkt'[q] = next_net_pkt[q]
         /\ out_buf'[q] = out_buf[q] /\ seqs'[q] = seqs[q] /\ timers'[q] = timers[q]
    BY DEF PeerUntouched, nb
  <2>12. SenderOK(ack_expected[q], next_frame_to_send[q], nb, out_buf[q], seqs[q],
                  next_net_pkt[q], a) /\ TimersOK(timers[q], a, nb)
    BY <2>3 DEF Numbering, nb
  <2>13. Numbering(q, a, e + n, h2, Tail(nrs), acks2)'
    BY <2>1, <2>5, <2>6, <2>8, <2>9, <2>10, <2>11, <2>12 DEF Numbering
  <2> QED
    BY <2>9, <2>13 DEF Direction
<1> QED
  BY <1>1, <1>2

(* No packet arrives out of order.                                         *)
LEMMA AlwaysInOrder ==
  ASSUME IInv, NEW w \in Proc, chan[w] # <<>>, Head(chan[w]).kind = "data",
         Wanted(w, Head(chan[w]))
  PROVE  /\ InOrder(w, Head(chan[w]))
         /\ StoreAndPassOn(w, Head(chan[w])) =>
              /\ frame_expected'[w] \in SeqNr /\ too_far'[w] \in SeqNr
              /\ last_pkt_given'[w] \in Pkt
              /\ arrived'[w] \in [Buf -> BOOLEAN] /\ in_buf'[w] \in [Buf -> Pkt]
<1> DEFINE q == Peer(w)
           r == Head(chan[w])
<1>1. q \in Proc /\ Peer(q) = w
  BY PeerFacts
<1>2. PICK a \in Nat, e \in Nat, h \in Nat : \E nrs, acks : Numbering(q, a, e, h, nrs, acks)
  BY <1>1 DEF IInv, Direction
<1>3. PICK nrs, acks : Numbering(q, a, e, h, nrs, acks)
  BY <1>2
<1>4. PICK k \in Nat, h2 \in Nat :
        /\ r.seq = SeqNo(k) /\ r.info = PktNo(k)
        /\ e <= k + NR_BUFS /\ k < e + NR_BUFS /\ h <= h2 /\ k < h2
  BY <1>3, FrameArrives
<1>5. /\ ReceiverOK(frame_expected[w], too_far[w], last_pkt_given[w], arrived[w],
                    in_buf[w], e, h)
      /\ e <= h
  BY <1>1, <1>3 DEF Numbering
<1>6. InOrder(w, r)
  BY <1>4, <1>5, WantedStored
<1>7. ASSUME StoreAndPassOn(w, r)
      PROVE  /\ frame_expected'[w] \in SeqNr /\ too_far'[w] \in SeqNr
             /\ last_pkt_given'[w] \in Pkt
             /\ arrived'[w] \in [Buf -> BOOLEAN] /\ in_buf'[w] \in [Buf -> Pkt]
  BY <1>4, <1>5, <1>7, PassedOnWindow
<1> QED
  BY <1>6, <1>7

(* A data frame arrives: stored or not, passed on or not, its              *)
(* acknowledgement handled.                                                *)
LEMMA DataArrivalStep ==
  ASSUME IInv, NEW w \in Proc, DataArrival(w)
  PROVE  IInv'
<1> DEFINE q == Peer(w)
           r == Head(chan[w])
           advances == Wanted(w, r) /\ Deliverable(w, r) > 0
           gap == Gap(w, r)
           kind == IF gap THEN "nak" ELSE "ack"
<1>1. TakesFrame(w) /\ r.kind = "data"
      /\ UNCHANGED <<next_net_pkt, next_frame_to_send, send_vars>>
  BY DEF DataArrival
<1>2. /\ TypeOK /\ q \in Proc /\ q # w /\ Proc = {w, q} /\ phase[w] = "wait" /\ 0 \in SeqNr
      /\ chan \in [Proc -> Seq(Frame)] /\ chan[q] \in Seq(Frame) /\ r \in Frame
      /\ chan[w] # <<>> /\ Tail(chan[w]) \in Seq(Frame) /\ nframes' \in [Proc -> Nat]
  BY <1>1, CountsTaken, Typed, PeerFacts, Sizes DEF IInv
<1>3. Wanted(w, r) => InOrder(w, r)
  BY <1>1, <1>2, AlwaysInOrder
<1>4. /\ IF gap THEN Send(w, "nak", 0, Tail(chan[w])) ELSE SendsNothing(w, Tail(chan[w]))
      /\ aux_timer' = [aux_timer EXCEPT ![w] = ~gap \/ advances]
      /\ no_nak' = [no_nak EXCEPT ![w] = (@ /\ ~gap) \/ advances]
      /\ IF Wanted(w, r) THEN StoreAndPassOn(w, r)
                         ELSE UNCHANGED <<last_pkt_given, frame_expected, receive_vars>>
      /\ HandleAck(w, r, timers[w])
      /\ phase' = [phase EXCEPT ![w] = "queue_frames"]
  BY <1>3 DEF DataArrival, BackToWait
<1>5. gap => no_nak[w]
  BY DEF Gap
<1> HIDE DEF gap
<1>6. /\ no_nak'[w] => no_nak[w] \/ advances
      /\ kind = "nak" => no_nak[w] /\ (~no_nak'[w] \/ advances)
      /\ no_nak'[q] = no_nak[q]
      /\ no_nak' \in [Proc -> BOOLEAN] /\ aux_timer' \in [Proc -> BOOLEAN]
  <2>1. no_nak \in [Proc -> BOOLEAN] /\ aux_timer \in [Proc -> BOOLEAN]
    BY <1>2 DEF TypeOK
  <2> HIDE DEF advances
  <2>2. no_nak'[w] <=> (no_nak[w] /\ ~gap) \/ advances
    BY <1>4, <2>1
  <2>3. /\ no_nak'[q] = no_nak[q]
        /\ no_nak' \in [Proc -> BOOLEAN] /\ aux_timer' \in [Proc -> BOOLEAN]
    <3>1. ((no_nak[w] /\ ~gap) \/ advances) \in BOOLEAN /\ (~gap \/ advances) \in BOOLEAN
      OBVIOUS
    <3> QED
      BY <1>2, <1>4, <2>1, <3>1
  <2> QED
    BY <1>5, <2>2, <2>3
<1>7. /\ chan' \in [Proc -> Seq(Frame)] /\ chan'[w] = Tail(chan[w])
      /\ Len(chan[q]) <= Len(chan'[q])
      /\ Sent(chan[q], chan'[q], kind, 0, out_buf'[w][0 % NR_BUFS], frame_expected[w])
  <2>1. CASE gap
    BY <1>2, <1>4, <2>1, SendStep
  <2>2. CASE ~gap
    <3>1. chan' = [chan EXCEPT ![w] = Tail(chan[w])] /\ Len(chan[q]) \in Nat
      BY <1>2, <1>4, <2>2 DEF SendsNothing
    <3> QED
      BY <1>2, <3>1 DEF Sent
  <2> QED
    BY <2>1, <2>2
<1>8. /\ ReceiverUntouched(q)
      /\ frame_expected' \in [Proc -> SeqNr] /\ too_far' \in [Proc -> SeqNr]
      /\ last_pkt_given' \in [Proc -> Pkt]
      /\ arrived' \in [Proc -> [Buf -> BOOLEAN]] /\ in_buf' \in [Proc -> [Buf -> Pkt]]
      /\ IF Wanted(w, r) THEN StoreAndPassOn(w, r) ELSE ReceiverUntouched(w)
  <2>1. /\ frame_expected \in [Proc -> SeqNr] /\ too_far \in [Proc -> SeqNr]
        /\ last_pkt_given \in [Proc -> Pkt]
        /\ arrived \in [Proc -> [Buf -> BOOLEAN]] /\ in_buf \in [Proc -> [Buf -> Pkt]]
    BY <1>2 DEF TypeOK, WindowTypeOK, LinkTypeOK
  <2>2. CASE Wanted(w, r)
    <3>1. /\ StoreAndPassOn(w, r)
          /\ frame_expected'[w] \in SeqNr /\ too_far'[w] \in SeqNr
          /\ last_pkt_given'[w] \in Pkt
          /\ arrived'[w] \in [Buf -> BOOLEAN] /\ in_buf'[w] \in [Buf -> Pkt]
      BY <1>1, <1>2, <1>4, <2>2, AlwaysInOrder
    <3>2. /\ in_buf' = [in_buf EXCEPT ![w] = in_buf'[w]]
          /\ arrived' = [arrived EXCEPT ![w] = arrived'[w]]
          /\ last_pkt_given' = [last_pkt_given EXCEPT ![w] = last_pkt_given'[w]]
          /\ frame_expected' = [frame_expected EXCEPT ![w] = frame_expected'[w]]
          /\ too_far' = [too_far EXCEPT ![w] = too_far'[w]]
      BY <2>1, <3>1 DEF StoreAndPassOn
    <3> QED
      BY <1>2, <2>1, <2>2, <3>1, <3>2 DEF ReceiverUntouched
  <2>3. CASE ~Wanted(w, r)
    BY <1>4, <2>1, <2>3 DEF ReceiverUntouched, receive_vars
  <2> QED
    BY <2>2, <2>3
<1>9. /\ Direction(w)'
      /\ ack_expected' \in [Proc -> SeqNr] /\ nbuffered' \in [Proc -> 0 .. NR_BUFS]
      /\ timers' \in [Proc -> Seq(SeqNr)]
      /\ ack_expected'[q] = ack_expected[q]
      /\ nbuffered'[q] = nbuffered[q] /\ timers'[q] = timers[q]
  <2>1. kind # "data"
    OBVIOUS
  <2>2. /\ next_frame_to_send'[w] = next_frame_to_send[w] /\ out_buf'[w] = out_buf[w]
        /\ seqs'[w] = seqs[w] /\ next_net_pkt'[w] = next_net_pkt[w]
    BY <1>1 DEF send_vars
  <2> HIDE DEF kind
  <2> QED
    BY <1>2, <1>4, <1>6, <1>7, <1>8, <2>1, <2>2, AckReceived
<1>10. Direction(q)'
  <2>1. PeerUntouched(w)
    BY <1>1, <1>6, <1>8, <1>9 DEF PeerUntouched, ReceiverUntouched, send_vars
  <2> HIDE DEF kind
  <2> QED
    BY <1>1, <1>2, <1>6, <1>7, <1>8, <2>1, DataReceived
<1>11. TypeOK'
  <2>1. \A p \in Proc : nframes'[p] <= Len(chan'[p])
    BY <1>1, <1>2, <1>7, CountsTaken
  <2>2. phase' \in [Proc -> {"start", "queue_frames", "wait", "exited"}]
    BY <1>2, <1>4 DEF TypeOK, WindowTypeOK, LinkTypeOK
  <2> QED
    BY <1>1, <1>2, <1>6, <1>7, <1>8, <1>9, <2>1, <2>2 DEF TypeOK, WindowTypeOK, LinkTypeOK,
                                                          send_vars
<1>12. NoProtocolError'
  BY <1>2, <1>4 DEF IInv, NoProtocolError, TypeOK, WindowTypeOK, LinkTypeOK
<1> QED
  BY <1>2, <1>9, <1>10, <1>11, <1>12 DEF IInv

(* Every step of a worker, of either worker, keeps the invariant.          *)
LEMMA StepInvariant == IInv /\ [Next]_vars => IInv'
<1> SUFFICES ASSUME IInv, [Next]_vars PROVE IInv'
  OBVIOUS
<1>1. ASSUME NEW p \in Proc, NetworkLayerReady(p) PROVE IInv'
  BY <1>1, NetworkLayerReadyStep
<1>2. ASSUME NEW p \in Proc, DataArrival(p) PROVE IInv'
  BY <1>2, DataArrivalStep
<1>3. ASSUME NEW p \in Proc, NakArrival(p) PROVE IInv'
  BY <1>3, NakArrivalStep
<1>4. ASSUME NEW p \in Proc, AckArrival(p) PROVE IInv'
  BY <1>4, AckArrivalStep
<1>5. ASSUME NEW p \in Proc, CksumErr(p) PROVE IInv'
  BY <1>5, CksumErrStep
<1>6. ASSUME NEW p \in Proc, Timeout(p) PROVE IInv'
  BY <1>6, TimeoutStep
<1>7. ASSUME NEW p \in Proc, AckTimeout(p) PROVE IInv'
  BY <1>7, AckTimeoutStep
<1>8. ASSUME NEW p \in Proc, Start(p) \/ Wait(p) PROVE IInv'
  BY <1>8, EventLoopStep
<1>9. CASE UNCHANGED vars
  BY <1>9, StutterKeeps
<1> QED
  BY <1>1, <1>2, <1>3, <1>4, <1>5, <1>6, <1>7, <1>8, <1>9 DEF Next

(* The inductive invariant: in every state of protocol 6 there are counts  *)
(* of packets that explain both windows, both sets of buffers, the frames, *)
(* acknowledgements and naks under way, and the timers.                    *)
THEOREM Invariant == Spec => []IInv
<1>1. Init => IInv
  BY InitInvariant
<1>2. IInv /\ [Next]_vars => IInv'
  BY StepInvariant
<1> QED
  BY <1>1, <1>2, PTL DEF Spec

(* Every variable keeps its type, and no worker ever exits with            *)
(* "Packet delivered out of order".                                        *)
THEOREM TypeCorrect == Spec => [](TypeOK /\ NoProtocolError)
<1>1. IInv => TypeOK /\ NoProtocolError
  BY DEF IInv
<1> QED
  BY <1>1, Invariant, PTL

-----------------------------------------------------------------------------
(* What the counts say about the operators the properties are stated with. *)

(* The counts of the invariant are the distances the properties speak of.  *)
LEMMA CountsExplain ==
  ASSUME IInv, NEW p \in Proc, NEW a \in Nat, NEW e \in Nat, NEW h \in Nat, NEW nrs, NEW acks,
         Numbering(p, a, e, h, nrs, acks)
  PROVE  /\ UnderWay(p) = (a + nbuffered[p]) - e
         /\ PassedOn(p) = e - a
         /\ \A i \in 0 .. NR_BUFS : Outstanding(p, i) = SeqNo(a + i)
         /\ e - a \in 0 .. nbuffered[p]
         /\ a + nbuffered[p] <= e + NR_BUFS
<1> DEFINE nb == nbuffered[p]
<1>1. /\ nb \in Nat /\ nb <= NR_BUFS /\ NR_BUFS \in Nat /\ a <= e /\ e <= h /\ h <= a + nb
      /\ NR_BUFS <= MAX_SEQ /\ MAX_SEQ \in Nat
      /\ Inc(last_pkt_given[Peer(p)], MaxPkt) = PktNo(e)
      /\ next_net_pkt[p] = PktNo(a + nb) /\ ack_expected[p] = SeqNo(a)
  <2>1. nb \in 0 .. NR_BUFS /\ NR_BUFS \in Nat
    BY Typed, Sizes DEF IInv
  <2>2. nb \in Nat /\ nb <= NR_BUFS
    BY <2>1
  <2> QED
    BY <2>1, <2>2, Sizes DEF Numbering, ReceiverOK, SenderOK
<1>2. /\ a + nb \in Nat /\ e <= a + nb /\ a + nb <= e + NR_BUFS /\ a + nb <= e + MAX_SEQ
      /\ nb - ((a + nb) - e) = e - a /\ e - a \in 0 .. nb
  <2> HIDE DEF nb
  <2>1. a \in Nat /\ e \in Nat /\ h \in Nat
    OBVIOUS
  <2> QED
    BY ONLY <1>1, <2>1
<1>3. UnderWay(p) = (a + nb) - e
  <2> HIDE DEF nb
  <2> QED
    BY <1>1, <1>2, SeqNumberFromTo DEF UnderWay
<1>4. PassedOn(p) = e - a
  BY <1>2, <1>3 DEF PassedOn
<1>5. ASSUME NEW i \in 0 .. NR_BUFS
      PROVE  Outstanding(p, i) = SeqNo(a + i)
  <2>1. a + i \in Nat /\ a <= a + i /\ a + i <= a + MAX_SEQ /\ (a + i) - a = i
    BY <1>1
  <2>2. SeqNo(a + i) = Advance(SeqNo(a), i, MAX_SEQ)
    BY <2>1, SeqNumberFromTo
  <2> QED
    BY <1>1, <2>2 DEF Outstanding
<1> QED
  BY <1>2, <1>3, <1>4, <1>5

(* The two windows agree in every state.                                   *)
LEMMA WindowsFollow == IInv => WindowsAgree
<1> SUFFICES ASSUME IInv PROVE WindowsAgree
  OBVIOUS
<1>1. ASSUME NEW p \in Proc
      PROVE  /\ EdgesAgree(p)
             /\ next_frame_to_send[p] = Outstanding(p, nbuffered[p])
             /\ \A i \in 0 .. nbuffered[p] - 1 :
                  Distance(out_buf[p][Outstanding(p, i) % NR_BUFS], next_net_pkt[p], MaxPkt)
                    = nbuffered[p] - i
  <2> DEFINE nb == nbuffered[p]
  <2>1. /\ nb \in Nat /\ nb \in 0 .. NR_BUFS /\ nb <= NR_BUFS /\ NR_BUFS \in Nat
        /\ MAX_SEQ \in Nat /\ NR_BUFS <= MAX_SEQ
    <3>1. nb \in 0 .. NR_BUFS /\ NR_BUFS \in Nat
      BY Typed, Sizes DEF IInv
    <3> QED
      BY <3>1, Sizes
  <2>2. PICK a \in Nat, e \in Nat, h \in Nat : \E nrs, acks : Numbering(p, a, e, h, nrs, acks)
    BY DEF IInv, Direction
  <2>3. PICK nrs, acks : Numbering(p, a, e, h, nrs, acks)
    BY <2>2
  <2>4. /\ UnderWay(p) = (a + nb) - e
        /\ PassedOn(p) = e - a
        /\ \A i \in 0 .. NR_BUFS : Outstanding(p, i) = SeqNo(a + i)
        /\ e - a \in 0 .. nb
    BY <2>3, CountsExplain
  <2>5. /\ frame_expected[Peer(p)] = SeqNo(e) /\ a <= e
        /\ next_frame_to_send[p] = SeqNo(a + nb)
        /\ next_net_pkt[p] = PktNo(a + nb)
        /\ \A k \in a .. (a + nb) - 1 : out_buf[p][BufNo(k)] = PktNo(k)
    BY <2>3 DEF Numbering, SenderOK, ReceiverOK
  <2> HIDE DEF nb
  <2>6. EdgesAgree(p)
    <3>1. (a + nb) - e <= nb /\ e - a \in 0 .. NR_BUFS /\ a + (e - a) = e
      BY <2>1, <2>4, <2>5
    <3> QED
      BY <2>4, <2>5, <3>1 DEF EdgesAgree, nb
  <2>7. next_frame_to_send[p] = Outstanding(p, nb)
    BY <2>1, <2>4, <2>5
  <2>8. ASSUME NEW i \in 0 .. nb - 1
        PROVE  Distance(out_buf[p][Outstanding(p, i) % NR_BUFS], next_net_pkt[p], MaxPkt)
                 = nb - i
    <3>1. /\ i \in 0 .. NR_BUFS /\ a + i \in a .. (a + nb) - 1
          /\ a + i \in Nat /\ a + nb \in Nat /\ a + i <= a + nb
          /\ a + nb <= (a + i) + MAX_SEQ /\ (a + nb) - (a + i) = nb - i
      BY <2>1
    <3>2. Outstanding(p, i) % NR_BUFS = BufNo(a + i)
      BY <2>4, <3>1, BufNumbers
    <3>3. out_buf[p][BufNo(a + i)] = PktNo(a + i)
      BY <2>5, <3>1
    <3>4. Distance(PktNo(a + i), PktNo(a + nb), MaxPkt) = (a + nb) - (a + i)
      BY <3>1, SeqNumberFromTo
    <3> QED
      BY <2>5, <3>1, <3>2, <3>3, <3>4
  <2> QED
    BY <2>6, <2>7, <2>8 DEF nb
<1>2. ASSUME NEW p \in Proc
      PROVE  too_far[p] = Expected(p, NR_BUFS)
  <2>1. Peer(p) \in Proc /\ Peer(Peer(p)) = p /\ NR_BUFS \in 0 .. NR_BUFS
    BY PeerFacts, Sizes
  <2>2. PICK a \in Nat, e \in Nat, h \in Nat :
          \E nrs, acks : Numbering(Peer(p), a, e, h, nrs, acks)
    BY <2>1 DEF IInv, Direction
  <2>3. frame_expected[p] = SeqNo(e) /\ too_far[p] = SeqNo(e + NR_BUFS)
    BY <2>1, <2>2 DEF Numbering, ReceiverOK
  <2> QED
    BY <2>1, <2>3, ExpectedNumbers
<1> QED
  BY <1>1, <1>2 DEF WindowsAgree, IInv

(* The two ends agree about the window, the width of both windows is what  *)
(* the code relies on, and out_buf holds every packet a timer or a nak may *)
(* ask for, while frames, acknowledgements and naks are lost and damaged.  *)
THEOREM WindowsAgreeTheorem == Spec => []WindowsAgree
BY WindowsFollow, Invariant, PTL

(* A frame that falls into the receiver's window is of that packet, so it  *)
(* and the buffers hold what they should.                                  *)
LEMMA FramesFollow == IInv => FramesUnambiguous
<1> SUFFICES ASSUME IInv, NEW p \in Proc
             PROVE  LET window == {Expected(p, i) : i \in 0 .. NR_BUFS - 1}
                    IN /\ \A i \in DOMAIN chan[p] :
                            LET r == chan[p][i]
                            IN r.kind = "data" /\ r.seq \in window
                                 => CarriesPacketOf(p, r.seq, r.info)
                       /\ \A nr \in window :
                            arrived[p][nr % NR_BUFS]
                              => CarriesPacketOf(p, nr, in_buf[p][nr % NR_BUFS])
                       /\ ~arrived[p][frame_expected[p] % NR_BUFS]
  BY DEF FramesUnambiguous
<1> DEFINE q == Peer(p)
           nb == nbuffered[q]
           window == {Expected(p, i) : i \in 0 .. NR_BUFS - 1}
<1>1. /\ q \in Proc /\ Peer(q) = p /\ chan[p] \in Seq(Frame) /\ nb \in Nat
      /\ NR_BUFS \in Nat \ {0} /\ NR_BUFS + NR_BUFS = MAX_SEQ + 1 /\ MAX_SEQ \in Nat
      /\ NR_BUFS <= MAX_SEQ
  BY PeerFacts, Typed, Sizes DEF IInv
<1>2. PICK a \in Nat, e \in Nat, h \in Nat : \E nrs, acks : Numbering(q, a, e, h, nrs, acks)
  BY <1>1 DEF IInv, Direction
<1>3. PICK nrs, acks : Numbering(q, a, e, h, nrs, acks)
  BY <1>2
<1>4. /\ frame_expected[p] = SeqNo(e) /\ Inc(last_pkt_given[p], MaxPkt) = PktNo(e)
      /\ ~arrived[p][BufNo(e)] /\ Stores(arrived[p], in_buf[p], e, h) /\ e <= h
      /\ DataWindow(chan[p], nrs, MAX_SEQ, NR_BUFS, a + nb, h)
  BY <1>1, <1>3 DEF Numbering, ReceiverOK
<1>5. a + nb <= e + NR_BUFS
  BY <1>1, <1>3, CountsExplain
<1> HIDE DEF nb
<1>6. ASSUME NEW j \in 0 .. NR_BUFS - 1
      PROVE  /\ Expected(p, j) = SeqNo(e + j) /\ Expected(p, j) % NR_BUFS = BufNo(e + j)
             /\ e + j \in Nat /\ CarriesPacketOf(p, SeqNo(e + j), PktNo(e + j))
  <2>1. /\ j \in 0 .. NR_BUFS /\ e + j \in Nat /\ e <= e + j /\ e + j <= e + MAX_SEQ
        /\ (e + j) - e = j
    BY <1>1
  <2>2. Distance(SeqNo(e), SeqNo(e + j), MAX_SEQ) = j
    BY <2>1, SeqNumberFromTo
  <2>3. /\ Expected(p, j) = SeqNo(e + j) /\ Expected(p, j) % NR_BUFS = BufNo(e + j)
        /\ Advance(PktNo(e), j, MaxPkt) = PktNo(e + j)
    BY <1>4, <2>1, ExpectedNumbers
  <2> QED
    BY <1>4, <2>1, <2>2, <2>3 DEF CarriesPacketOf
<1>7. ASSUME NEW i \in DOMAIN chan[p], chan[p][i].kind = "data", chan[p][i].seq \in window
      PROVE  CarriesPacketOf(p, chan[p][i].seq, chan[p][i].info)
  <2> DEFINE k == nrs[i]
  <2>1. /\ k \in Nat /\ chan[p][i].seq = SeqNo(k) /\ chan[p][i].info = PktNo(k)
        /\ k < a + nb /\ h <= k + NR_BUFS
    <3>1. i \in 1 .. Len(chan[p])
      BY <1>1
    <3>2. nrs \in Seq(Nat) /\ i \in 1 .. Len(nrs)
      BY <1>4, <3>1 DEF DataWindow
    <3> QED
      BY <1>4, <1>7, <3>1, <3>2 DEF DataWindow, SeqNo, PktNo
  <2>2. PICK j \in 0 .. NR_BUFS - 1 : chan[p][i].seq = Expected(p, j)
    BY <1>7
  <2> HIDE DEF k
  <2>3. SeqNo(k) = SeqNo(e + j) /\ e + j \in Nat
    BY <1>6, <2>1, <2>2
  <2>4. k <= (e + j) + MAX_SEQ /\ e + j <= k + MAX_SEQ
    <3>1. /\ k \in Nat /\ e \in Nat /\ h \in Nat /\ a + nb \in Nat /\ j \in 0 .. NR_BUFS - 1
          /\ k < a + nb /\ a + nb <= e + NR_BUFS /\ h <= k + NR_BUFS /\ e <= h
          /\ NR_BUFS \in Nat \ {0} /\ NR_BUFS + NR_BUFS = MAX_SEQ + 1 /\ MAX_SEQ \in Nat
      BY <1>1, <1>4, <1>5, <2>1
    <3> QED
      BY ONLY <3>1
  <2>5. k = e + j
    BY <2>1, <2>3, <2>4, SeqNumbersApart
  <2> QED
    BY <1>6, <2>1, <2>5
<1>8. ASSUME NEW j \in 0 .. NR_BUFS - 1, arrived[p][Expected(p, j) % NR_BUFS]
      PROVE  CarriesPacketOf(p, Expected(p, j), in_buf[p][Expected(p, j) % NR_BUFS])
  <2>1. e + j \in e .. (e + NR_BUFS) - 1
    BY <1>1
  <2>2. in_buf[p][BufNo(e + j)] = PktNo(e + j)
    BY <1>4, <1>6, <1>8, <2>1 DEF Stores
  <2> QED
    BY <1>6, <2>2
<1>9. ~arrived[p][frame_expected[p] % NR_BUFS]
  BY <1>4, BufNumbers
<1> QED
  BY <1>7, <1>8, <1>9

(* Twice NR_BUFS sequence numbers are enough: neither a late frame nor a   *)
(* buffer marked in the bit map is ever taken for another packet.          *)
THEOREM FramesUnambiguousTheorem == Spec => []FramesUnambiguous
BY FramesFollow, Invariant, PTL

(* The timers of the invariant are those the property speaks of.           *)
LEMMA TimersFollow == IInv => TimersMatchWindow
<1> SUFFICES ASSUME IInv, NEW p \in Proc
             PROVE  /\ ToSet(timers[p]) = {Outstanding(p, i) : i \in 0 .. nbuffered[p] - 1}
                    /\ IsInjective(timers[p])
                    /\ \A k \in ToSet(timers[p]) : seqs[p][k] = k
  BY DEF TimersMatchWindow
<1> DEFINE nb == nbuffered[p]
<1>1. nb \in Nat /\ nb <= NR_BUFS /\ NR_BUFS \in Nat
  <2>1. nb \in 0 .. NR_BUFS /\ NR_BUFS \in Nat
    BY Typed, Sizes DEF IInv
  <2> QED
    BY <2>1
<1>2. PICK a \in Nat, e \in Nat, h \in Nat : \E nrs, acks : Numbering(p, a, e, h, nrs, acks)
  BY DEF IInv, Direction
<1>3. PICK nrs, acks : Numbering(p, a, e, h, nrs, acks)
  BY <1>2
<1>4. /\ ToSet(timers[p]) = {SeqNo(k) : k \in a .. (a + nb) - 1}
      /\ IsInjective(timers[p])
      /\ \A k \in a .. (a + nb) - 1 : seqs[p][SeqNo(k)] = SeqNo(k)
  BY <1>3 DEF Numbering, TimersOK, SenderOK
<1>5. \A i \in 0 .. NR_BUFS : Outstanding(p, i) = SeqNo(a + i)
  BY <1>3, CountsExplain
<1> HIDE DEF nb
<1>6. \A k \in a .. (a + nb) - 1 : k - a \in 0 .. nb - 1 /\ k - a \in 0 .. NR_BUFS /\ a + (k - a) = k
  BY <1>1
<1>7. \A i \in 0 .. nb - 1 : a + i \in a .. (a + nb) - 1 /\ i \in 0 .. NR_BUFS
  BY <1>1
<1>8. {SeqNo(k) : k \in a .. (a + nb) - 1} = {Outstanding(p, i) : i \in 0 .. nb - 1}
  <2>1. \A k \in a .. (a + nb) - 1 : \E i \in 0 .. nb - 1 : SeqNo(k) = Outstanding(p, i)
    <3> SUFFICES ASSUME NEW k \in a .. (a + nb) - 1
                 PROVE  \E i \in 0 .. nb - 1 : SeqNo(k) = Outstanding(p, i)
      OBVIOUS
    <3>1. Outstanding(p, k - a) = SeqNo(k) /\ k - a \in 0 .. nb - 1
      BY <1>5, <1>6
    <3> QED
      BY <3>1
  <2>2. \A i \in 0 .. nb - 1 : \E k \in a .. (a + nb) - 1 : SeqNo(k) = Outstanding(p, i)
    BY <1>5, <1>7
  <2> QED
    BY <2>1, <2>2
<1> QED
  BY <1>4, <1>8 DEF nb

(* The running timers are those of the outstanding frames, one each, and   *)
(* the number recorded for a timer is that of its frame.                   *)
THEOREM TimersMatchWindowTheorem == Spec => []TimersMatchWindow
BY TimersFollow, Invariant, PTL

(* The naks of the invariant are those the property counts.                *)
LEMMA OneNakFollows == IInv => OneNak
<1> SUFFICES ASSUME IInv, NEW p \in Proc
             PROVE  LET naks == {i \in DOMAIN chan[Peer(p)] :
                                  /\ chan[Peer(p)][i].kind = "nak"
                                  /\ Missing(chan[Peer(p)][i]) = frame_expected[p]}
                    IN Cardinality(naks) <= 1 /\ (naks # {} => ~no_nak[p])
  BY DEF OneNak
<1> DEFINE q == Peer(p)
           frames == chan[q]
           naks == {i \in DOMAIN frames : /\ frames[i].kind = "nak"
                                          /\ Missing(frames[i]) = frame_expected[p]}
<1>1. q \in Proc /\ Peer(q) = p /\ frames \in Seq(Frame)
  BY PeerFacts, Typed DEF IInv
<1>2. PICK a \in Nat, e \in Nat, h \in Nat : \E nrs, acks : Numbering(q, a, e, h, nrs, acks)
  BY <1>1 DEF IInv, Direction
<1>3. PICK nrs, acks : Numbering(q, a, e, h, nrs, acks)
  BY <1>2
<1>4. AckWindow(frames, acks, MAX_SEQ, a, e) /\ NaksOK(frames, frame_expected[p], no_nak[p])
  BY <1>1, <1>3 DEF Numbering
<1>5. \A i \in naks : i \in 1 .. Len(frames) /\ AsksFor(frames[i], frame_expected[p])
  <2> SUFFICES ASSUME NEW i \in naks
               PROVE  i \in 1 .. Len(frames) /\ AsksFor(frames[i], frame_expected[p])
    OBVIOUS
  <2>1. i \in 1 .. Len(frames) /\ frames[i] \in Frame
    BY <1>1
  <2>2. frames[i].ack \in 0 .. MAX_SEQ
    BY <1>4, <2>1 DEF AckWindow
  <2>3. Missing(frames[i]) = Inc(frames[i].ack, MAX_SEQ)
    BY <2>1, <2>2, MissingNumber
  <2> QED
    BY <2>1, <2>3 DEF AsksFor
<1>6. \A i, j \in naks : i = j
  BY <1>4, <1>5 DEF NaksOK
<1>7. naks # {} => ~no_nak[p]
  BY <1>4, <1>5 DEF NaksOK
<1>8. Cardinality(naks) <= 1
  <2> HIDE DEF naks
  <2>1. CASE naks = {}
    BY <2>1, FS_EmptySet
  <2>2. CASE naks # {}
    <3>1. PICK i : i \in naks
      BY <2>2
    <3>2. naks = {i}
      BY <1>6, <3>1
    <3> QED
      BY <3>2, FS_Singleton
  <2> QED
    BY <2>1, <2>2
<1> QED
  BY <1>7, <1>8

(* "One nak per frame, please."                                            *)
THEOREM OneNakTheorem == Spec => []OneNak
BY OneNakFollows, Invariant, PTL

-----------------------------------------------------------------------------
(* Protocol 6 implements PacketStream.                                     *)

(* PacketStream counts with the same arithmetic.                           *)
LEMMA StreamCounts ==
  ASSUME NEW p \in Proc
  PROVE  /\ Stream!UnderWay(p) = UnderWay(p)
         /\ \A k, n : Stream!Advance(k, n, MaxPkt) = Advance(k, n, MaxPkt)
         /\ \A k : Stream!Inc(k, MaxPkt) = Inc(k, MaxPkt)
         /\ Stream!Peer(p) = Peer(p)
         /\ Stream!Proc = Proc
  BY DEF UnderWay, Stream!UnderWay, Stream!Distance, Stream!Inc, Stream!Advance, Stream!Peer,
         Stream!Proc, Distance, Inc, Advance, Peer, Proc

(* A worker fetches a packet only when fewer than NR_BUFS are under way.   *)
LEMMA FetchIsFetch ==
  ASSUME IInv, NEW p \in Proc, NetworkLayerReady(p)
  PROVE  Stream!Turn(p)
<1> DEFINE nb == nbuffered[p]
<1>1. PICK a \in Nat, e \in Nat, h \in Nat : \E nrs, acks : Numbering(p, a, e, h, nrs, acks)
  BY DEF IInv, Direction
<1>2. PICK nrs, acks : Numbering(p, a, e, h, nrs, acks)
  BY <1>1
<1>3. UnderWay(p) = (a + nb) - e /\ a <= e
  BY <1>2, CountsExplain DEF Numbering
<1>4. nb < NR_BUFS /\ nb \in Nat /\ NR_BUFS \in Nat
  BY Typed, Sizes DEF IInv, NetworkLayerReady, NetworkLayerEnabled
<1>5. Stream!UnderWay(p) < NR_BUFS
  <2>1. (a + nb) - e < NR_BUFS
    <3> HIDE DEF nb
    <3>1. nb < NR_BUFS /\ nb \in Nat /\ NR_BUFS \in Nat /\ a <= e /\ a \in Nat /\ e \in Nat
      BY <1>3, <1>4
    <3> QED
      BY ONLY <3>1
  <2> QED
    BY <1>3, <2>1, StreamCounts
<1>6. Stream!Fetch(p)
  <2>1. next_net_pkt' = [next_net_pkt EXCEPT ![p] = Inc(@, MaxPkt)]
    BY DEF NetworkLayerReady
  <2> QED
    BY <1>5, <2>1, StreamCounts DEF Stream!Fetch
<1>7. UNCHANGED last_pkt_given
  BY DEF NetworkLayerReady
<1> QED
  BY <1>6, <1>7 DEF Stream!Turn

(* A worker hands the network layer the next packets of its peer, or none. *)
LEMMA ArrivalIsGive ==
  ASSUME IInv, NEW p \in Proc, DataArrival(p)
  PROVE  Stream!Turn(p)
<1> DEFINE q == Peer(p)
           r == Head(chan[p])
           nb == nbuffered[q]
           n == Deliverable(p, r)
           lg == last_pkt_given[p]
<1>1. /\ TakesFrame(p) /\ r.kind = "data" /\ UNCHANGED next_net_pkt
      /\ q \in Proc /\ Peer(q) = p /\ last_pkt_given \in [Proc -> Pkt] /\ lg \in Pkt
      /\ nb \in Nat /\ MaxPkt \in Nat
  BY PeerFacts, Typed, Sizes DEF DataArrival, IInv, TypeOK, WindowTypeOK, LinkTypeOK
<1>2. chan[p] # <<>>
  BY <1>1, CountsTaken
<1>3. /\ Wanted(p, r) => InOrder(p, r)
      /\ ~Wanted(p, r) => UNCHANGED last_pkt_given
      /\ Wanted(p, r) => StoreAndPassOn(p, r)
  <2>1. Wanted(p, r) => InOrder(p, r)
    BY <1>1, <1>2, AlwaysInOrder
  <2> QED
    BY <2>1 DEF DataArrival
<1>4. CASE ~Wanted(p, r)
  BY <1>1, <1>3, <1>4 DEF Stream!Turn
<1>5. CASE Wanted(p, r)
  <2>1. PICK a \in Nat, e \in Nat, h \in Nat : \E nrs, acks : Numbering(q, a, e, h, nrs, acks)
    BY <1>1 DEF IInv, Direction
  <2>2. PICK nrs, acks : Numbering(q, a, e, h, nrs, acks)
    BY <2>1
  <2>3. /\ ReceiverOK(frame_expected[p], too_far[p], lg, arrived[p], in_buf[p], e, h)
        /\ e <= h /\ UnderWay(q) = (a + nb) - e
    BY <1>1, <2>2, CountsExplain DEF Numbering
  <2>4. PICK k \in Nat, h2 \in Nat :
          /\ r.seq = SeqNo(k) /\ r.info = PktNo(k)
          /\ e <= k + NR_BUFS /\ k < e + NR_BUFS
          /\ h <= h2 /\ k < h2 /\ h2 <= a + nb
    BY <1>1, <1>2, <2>2, FrameArrives
  <2>5. n \in Nat /\ e + n <= h2
    BY <1>3, <1>5, <2>3, <2>4, PassedOnWindow
  <2>6. last_pkt_given' = [last_pkt_given EXCEPT ![p] = Advance(lg, n, MaxPkt)]
    BY <1>1, <1>3, <1>5 DEF StoreAndPassOn
  <2> HIDE DEF n, nb, lg
  <2>7. n <= UnderWay(q) /\ UnderWay(q) \in Nat
    <3>1. /\ a \in Nat /\ e \in Nat /\ n \in Nat /\ h2 \in Nat /\ nb \in Nat
          /\ e + n <= h2 /\ h2 <= a + nb
      BY <1>1, <2>4, <2>5
    <3>2. n <= (a + nb) - e /\ (a + nb) - e \in Nat
      BY ONLY <3>1
    <3> QED
      BY <2>3, <3>2
  <2>8. CASE n = 0
    <3>1. Advance(lg, n, MaxPkt) = lg
      BY <1>1, <2>8, Sizes DEF Advance
    <3> QED
      BY <1>1, <2>6, <3>1 DEF Stream!Turn, lg
  <2>9. CASE n # 0
    <3>1. n \in 1 .. Stream!UnderWay(Stream!Peer(p))
      BY <1>1, <2>5, <2>7, <2>9, StreamCounts
    <3>2. Stream!Advance(lg, n, MaxPkt) = Advance(lg, n, MaxPkt)
      BY StreamCounts
    <3>3. Stream!Give(p)
      BY <2>6, <3>1, <3>2 DEF Stream!Give, lg
    <3> QED
      BY <1>1, <3>3 DEF Stream!Turn
  <2> QED
    BY <2>8, <2>9
<1> QED
  BY <1>4, <1>5

(* Every step is one of PacketStream or none.                              *)
LEMMA StreamStep ==
  ASSUME IInv, [Next]_vars
  PROVE  [Stream!Next]_(Stream!stream_vars)
<1> USE DEF Stream!stream_vars
<1>1. ASSUME NEW p \in Proc, NetworkLayerReady(p) \/ DataArrival(p)
      PROVE  Stream!Turn(p)
  BY <1>1, FetchIsFetch, ArrivalIsGive
<1>2. ASSUME NEW p \in Proc,
             Start(p) \/ NakArrival(p) \/ AckArrival(p) \/ CksumErr(p) \/ Timeout(p)
               \/ AckTimeout(p) \/ Wait(p)
      PROVE  UNCHANGED <<next_net_pkt, last_pkt_given>>
  BY <1>2 DEF Start, EntersLoop, NakArrival, AckArrival, CksumErr, Timeout, AckTimeout, Wait,
              QueueFrames, NoEvent
<1>3. CASE UNCHANGED vars
  BY <1>3 DEF vars, link_vars
<1> QED
  BY <1>1, <1>2, <1>3, StreamCounts DEF Next, Stream!Next

(* Every behaviour of protocol 6 is one of PacketStream with a window of   *)
(* NR_BUFS packets: in order, each exactly once, in both directions.       *)
THEOREM DeliversStreamTheorem == Spec => DeliversStream
<1>1. Init => Stream!Init
  BY DEF Init, WindowInit, LinkInit, Stream!Init, Stream!Proc, Proc
<1>2. IInv /\ [Next]_vars => [Stream!Next]_(Stream!stream_vars)
  BY StreamStep
<1> QED
  BY <1>1, <1>2, Invariant, PTL DEF Spec, DeliversStream, Stream!Spec
=============================================================================
