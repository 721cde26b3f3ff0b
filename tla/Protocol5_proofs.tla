-------------------------- MODULE Protocol5_proofs --------------------------
(***************************************************************************)
(* Proofs about protocol 5, for every number of sequence numbers, every    *)
(* range of packet numbers and any number of frames under way.             *)
(*                                                                         *)
(* The argument counts packets without wrapping.  Of the packets of worker *)
(* p the first a have been acknowledged, its peer has passed on the first  *)
(* e, and p has fetched the first a + nbuffered[p]; packet k travels in a  *)
(* frame with number k modulo MAX_SEQ + 1.  These counts exist in no       *)
(* variable: the invariant says that in every state there are some that    *)
(* explain all of the sender, the receiver, the frames under way and the   *)
(* timers.                                                                 *)
(***************************************************************************)
EXTENDS Protocol5, DataLink_proofs

SeqNo(k) == Wrapped(k, MAX_SEQ)
PktNo(k) == Wrapped(k, MaxPkt)

(* The sender's variables when its first outstanding packet is number a.   *)
SenderOK(ae, nf, nb, lf, buf, nn, a) ==
  /\ ae = SeqNo(a) /\ lf <= nb /\ nf = SeqNo((a + nb) - lf) /\ nn = PktNo(a + nb)
  /\ \A k \in a .. (a + nb) - 1 : buf[SeqNo(k)] = PktNo(k)

(* The receiver's variables when it expects packet number e.               *)
ReceiverOK(fe, lg, e) == fe = SeqNo(e) /\ Inc(lg, MaxPkt) = PktNo(e)

(* The timers of nb outstanding frames from number a on, lf of which are   *)
(* to be sent again; the timer that has gone off is not there until its    *)
(* frame has been sent.                                                    *)
Missing(nb, lf) == IF lf = nb /\ nb > 0 THEN 1 ELSE 0

TimerOf(i, a, nb, lf) ==
  IF i + Missing(nb, lf) <= lf
  THEN (a + (nb - lf) + Missing(nb, lf) + i) - 1
  ELSE (a + (i + Missing(nb, lf)) - lf) - 1

TimersOK(ts, a, nb, lf) ==
  /\ Len(ts) = nb - Missing(nb, lf)
  /\ \A i \in 1 .. Len(ts) : ts[i] = SeqNo(TimerOf(i, a, nb, lf))

Numbering(p, a, e, nrs, acks) ==
  /\ SenderOK(ack_expected[p], next_frame_to_send[p], nbuffered[p], left[p],
              buffer[p], next_net_pkt[p], a)
  /\ ReceiverOK(frame_expected[Peer(p)], last_pkt_given[Peer(p)], e)
  /\ a <= e /\ e <= a + nbuffered[p]
  /\ DataWindow(chan[Peer(p)], nrs, MAX_SEQ, MAX_SEQ, a + nbuffered[p], e)
  /\ AckWindow(chan[p], acks, MAX_SEQ, a, e)
  /\ TimersOK(timers[p], a, nbuffered[p], left[p])

Direction(p) == \E a, e \in Nat : \E nrs, acks : Numbering(p, a, e, nrs, acks)

OnlyData == \A p \in Proc : \A i \in 1 .. Len(chan[p]) : chan[p][i].kind = "data"

(* Nothing else happens in a worker while it sends its window again.       *)
InTimeoutLoop == \A p \in Proc : left[p] > 0 => phase[p] = "queue_frames"

IInv ==
  /\ TypeOK
  /\ NoProtocolError
  /\ OnlyData
  /\ InTimeoutLoop
  /\ \A p \in Proc : Direction(p)

-----------------------------------------------------------------------------
(* Numbers.                                                                *)

(* The sizes of the sets of numbers.                                       *)
LEMMA Sizes ==
  /\ MAX_SEQ \in Nat \ {0} /\ MaxPkt \in Nat \ {0} /\ MAX_SEQ <= MaxPkt
  /\ SeqNr = 0 .. MAX_SEQ /\ Pkt = 0 .. MaxPkt
BY MaxSeqAssumption, DataLinkAssumption DEF SeqNr, Pkt

(* A worker and its peer, and nobody else.                                 *)
LEMMA PeerFacts ==
  ASSUME NEW p \in Proc
  PROVE  Peer(p) \in Proc /\ Peer(p) # p /\ Peer(Peer(p)) = p /\ Proc = {p, Peer(p)}
BY DEF Proc, Peer

(* inc on the numbers of packet k gives those of packet k + 1.             *)
LEMMA SeqNumbers ==
  ASSUME NEW k \in Nat
  PROVE  /\ SeqNo(k) \in SeqNr /\ Inc(SeqNo(k), MAX_SEQ) = SeqNo(k + 1)
         /\ PktNo(k) \in Pkt /\ Inc(PktNo(k), MaxPkt) = PktNo(k + 1)
BY Sizes, WrappedNext DEF SeqNo, PktNo

(* Numbers of packets at most a window apart, as distances.                *)
LEMMA SeqNumberFromTo ==
  ASSUME NEW k \in Nat, NEW l \in Nat, k <= l, l <= k + MAX_SEQ
  PROVE  /\ SeqNo(l) = Advance(SeqNo(k), l - k, MAX_SEQ)
         /\ Distance(SeqNo(k), SeqNo(l), MAX_SEQ) = l - k
         /\ Distance(PktNo(k), PktNo(l), MaxPkt) = l - k
<1>1. l <= k + MaxPkt /\ MAX_SEQ \in Nat /\ MaxPkt \in Nat
  BY Sizes
<1> QED
  BY <1>1, WrappedFromTo DEF SeqNo, PktNo

(* Packets at most MAX_SEQ apart have different numbers.                   *)
LEMMA SeqNumbersApart ==
  ASSUME NEW k \in Nat, NEW l \in Nat, k <= l + MAX_SEQ, l <= k + MAX_SEQ,
         SeqNo(k) = SeqNo(l)
  PROVE  k = l
BY Sizes, WrappedApart DEF SeqNo

(* The acknowledgement a frame carries.                                    *)
LEMMA LastAcceptedNumber ==
  ASSUME NEW fe \in SeqNr
  PROVE  LET ack == (fe + MAX_SEQ) % (MAX_SEQ + 1)
         IN ack \in 0 .. MAX_SEQ /\ Inc(ack, MAX_SEQ) = fe
<1>1. MAX_SEQ \in Nat \ {0} /\ fe \in 0 .. MAX_SEQ
  BY Sizes
<1>2. CASE fe = 0
  <2>1. MAX_SEQ % (MAX_SEQ + 1) = MAX_SEQ
    BY <1>1
  <2> QED
    BY <1>1, <1>2, <2>1 DEF Inc
<1>3. CASE fe # 0
  <2>1. PICK x \in 0 .. MAX_SEQ : fe = x + 1 /\ x < MAX_SEQ
    BY <1>1, <1>3
  <2>2. x + (MAX_SEQ + 1) = fe + MAX_SEQ
    BY <1>1, <2>1
  <2>3. (MAX_SEQ + 1) * 1 + x = fe + MAX_SEQ /\ MAX_SEQ + 1 \in Nat \ {0}
    BY <1>1, <2>2
  <2>4. (fe + MAX_SEQ) % (MAX_SEQ + 1) = x
    BY <1>1, <2>1, <2>3, Remainder
  <2> QED
    BY <1>1, <2>1, <2>4 DEF Inc
<1> QED
  BY <1>2, <1>3

-----------------------------------------------------------------------------
(* Timers.                                                                 *)

(* Which frames the timers belong to: outstanding ones, each at most once. *)
LEMMA TimerNumbers ==
  ASSUME NEW a \in Nat, NEW nb \in Nat, NEW lf \in Nat, lf <= nb
  PROVE  /\ Missing(nb, lf) \in {0, 1} /\ Missing(nb, lf) <= nb
         /\ \A i \in 1 .. nb - Missing(nb, lf) :
              TimerOf(i, a, nb, lf) \in a .. (a + nb) - 1
         /\ \A i, j \in 1 .. nb - Missing(nb, lf) :
              TimerOf(i, a, nb, lf) = TimerOf(j, a, nb, lf) => i = j
BY DEF TimerOf, Missing

(* No timer runs twice.                                                    *)
LEMMA TimersDiffer ==
  ASSUME NEW a \in Nat, NEW nb \in Nat, nb <= MAX_SEQ, NEW lf \in Nat, lf <= nb,
         NEW ts, TimersOK(ts, a, nb, lf)
  PROVE  \A i, j \in 1 .. Len(ts) : ts[i] = ts[j] => i = j
<1> SUFFICES ASSUME NEW i \in 1 .. Len(ts), NEW j \in 1 .. Len(ts), ts[i] = ts[j]
             PROVE  i = j
  OBVIOUS
<1> DEFINE k == TimerOf(i, a, nb, lf)
           l == TimerOf(j, a, nb, lf)
<1>1. /\ k \in a .. (a + nb) - 1 /\ l \in a .. (a + nb) - 1
      /\ k = l => i = j
  BY TimerNumbers DEF TimersOK
<1>2. SeqNo(k) = SeqNo(l)
  BY DEF TimersOK
<1> HIDE DEF k, l
<1>3. k \in Nat /\ l \in Nat /\ k <= l + MAX_SEQ /\ l <= k + MAX_SEQ
  BY <1>1, Sizes
<1> QED
  BY <1>1, <1>2, <1>3, SeqNumbersApart

(* The timer of a packet that is not outstanding does not run.             *)
LEMMA TimersAbsent ==
  ASSUME NEW a \in Nat, NEW nb \in Nat, NEW lf \in Nat, lf <= nb,
         NEW ts, TimersOK(ts, a, nb, lf), NEW k \in Nat,
         a <= k + MAX_SEQ, k <= a + MAX_SEQ, (a + nb) - 1 <= k + MAX_SEQ,
         \A i \in 1 .. Len(ts) : TimerOf(i, a, nb, lf) # k
  PROVE  \A i \in 1 .. Len(ts) : ts[i] # SeqNo(k)
<1> SUFFICES ASSUME NEW i \in 1 .. Len(ts), ts[i] = SeqNo(k)
             PROVE  FALSE
  OBVIOUS
<1> DEFINE l == TimerOf(i, a, nb, lf)
<1>1. l \in a .. (a + nb) - 1 /\ l # k
  BY TimerNumbers DEF TimersOK
<1>2. SeqNo(k) = SeqNo(l)
  BY DEF TimersOK
<1> HIDE DEF l
<1>3. l \in Nat /\ k <= l + MAX_SEQ /\ l <= k + MAX_SEQ
  BY <1>1, Sizes
<1> QED
  BY <1>1, <1>2, <1>3, SeqNumbersApart

(* A new frame is sent: its timer is the last to go off.                   *)
LEMMA TimerStarts ==
  ASSUME NEW a \in Nat, NEW nb \in Nat, nb < MAX_SEQ,
         NEW ts \in Seq(SeqNr), TimersOK(ts, a, nb, 0)
  PROVE  LET us == StartTimer(ts, SeqNo(a + nb))
         IN us \in Seq(SeqNr) /\ TimersOK(us, a, nb + 1, 0)
<1> DEFINE us == Append(ts, SeqNo(a + nb))
<1>1. Missing(nb, 0) = 0 /\ Missing(nb + 1, 0) = 0 /\ Len(ts) = nb
  BY DEF Missing, TimersOK
<1>2. \A i \in 1 .. Len(ts) : TimerOf(i, a, nb, 0) = a + i - 1
  BY <1>1 DEF TimerOf
<1>3. \A i \in 1 .. Len(ts) : ts[i] # SeqNo(a + nb)
  <2>1. \A i \in 1 .. Len(ts) : TimerOf(i, a, nb, 0) # a + nb
    BY <1>1, <1>2
  <2>2. /\ a + nb \in Nat /\ a <= (a + nb) + MAX_SEQ /\ a + nb <= a + MAX_SEQ
        /\ (a + nb) - 1 <= (a + nb) + MAX_SEQ /\ 0 <= nb /\ 0 \in Nat
    BY Sizes
  <2> QED
    BY <2>1, <2>2, TimersAbsent
<1>4. StartTimer(ts, SeqNo(a + nb)) = us
  BY <1>3 DEF StartTimer, StopTimer
<1>5. /\ us \in Seq(SeqNr) /\ Len(us) = nb + 1
      /\ \A i \in 1 .. nb : us[i] = ts[i]
      /\ us[nb + 1] = SeqNo(a + nb)
  <2>1. SeqNo(a + nb) \in SeqNr
    BY SeqNumbers, a + nb \in Nat
  <2>2. \A k \in SeqNr :
          /\ Append(ts, k) \in Seq(SeqNr) /\ Len(Append(ts, k)) = Len(ts) + 1
          /\ \A i \in 1 .. Len(ts) : Append(ts, k)[i] = ts[i]
          /\ Append(ts, k)[Len(ts) + 1] = k
    BY AppendIndex
  <2> QED
    BY <1>1, <2>1, <2>2
<1> HIDE DEF us
<1>6. \A i \in 1 .. nb + 1 : TimerOf(i, a, nb + 1, 0) = a + i - 1
  BY <1>1 DEF TimerOf
<1>7. ASSUME NEW i \in 1 .. nb + 1
      PROVE  us[i] = SeqNo(a + i - 1)
  <2>1. CASE i = nb + 1
    <3>1. a + i - 1 = a + nb
      BY <2>1
    <3> QED
      BY <1>5, <2>1, <3>1
  <2>2. CASE i # nb + 1
    <3>1. i \in 1 .. nb
      BY <2>2
    <3> QED
      BY <1>1, <1>2, <1>5, <3>1 DEF TimersOK
  <2> QED
    BY <2>1, <2>2
<1>8. TimersOK(us, a, nb + 1, 0)
  BY <1>1, <1>5, <1>6, <1>7 DEF TimersOK
<1> QED
  BY <1>4, <1>5, <1>8

(* The timer of the oldest frame goes off.                                 *)
LEMMA TimerFires ==
  ASSUME NEW a \in Nat, NEW nb \in Nat,
         NEW ts \in Seq(SeqNr), ts # <<>>, TimersOK(ts, a, nb, 0)
  PROVE  Tail(ts) \in Seq(SeqNr) /\ TimersOK(Tail(ts), a, nb, nb)
<1>1. /\ Tail(ts) \in Seq(SeqNr) /\ Len(ts) \in Nat \ {0} /\ Len(Tail(ts)) = Len(ts) - 1
      /\ \A i \in 1 .. Len(Tail(ts)) : Tail(ts)[i] = ts[i + 1] /\ i + 1 \in 1 .. Len(ts)
  BY TailIndex
<1>2. Missing(nb, 0) = 0 /\ Len(ts) = nb /\ Missing(nb, nb) = 1
  BY <1>1 DEF Missing, TimersOK
<1>3. \A i \in 1 .. nb - 1 : TimerOf(i + 1, a, nb, 0) = a + i /\ TimerOf(i, a, nb, nb) = a + i
  BY <1>2 DEF TimerOf
<1> QED
  BY <1>1, <1>2, <1>3 DEF TimersOK

(* A frame is sent again: its timer, which is next to go off or has gone   *)
(* off, becomes the last.                                                  *)
LEMMA TimerRestarts ==
  ASSUME NEW a \in Nat, NEW nb \in Nat, nb <= MAX_SEQ, NEW lf \in 1 .. nb,
         NEW ts \in Seq(SeqNr), TimersOK(ts, a, nb, lf)
  PROVE  LET us == StartTimer(ts, SeqNo((a + nb) - lf))
         IN us \in Seq(SeqNr) /\ TimersOK(us, a, nb, lf - 1)
<1> DEFINE k == (a + nb) - lf
           vs == StopTimer(ts, SeqNo(k))
           us == Append(vs, SeqNo(k))
<1>1. k \in Nat /\ lf \in Nat /\ lf <= nb /\ lf - 1 \in Nat
  OBVIOUS
<1>2. Missing(nb, lf - 1) = 0 /\ Len(ts) = nb - Missing(nb, lf) /\ Len(ts) \in Nat
  BY DEF Missing, TimersOK
<1>3. /\ vs \in Seq(SeqNr) /\ Len(vs) = nb - 1
      /\ \A i \in 1 .. nb - 1 : vs[i] = SeqNo(TimerOf(i, a, nb, lf - 1))
  <2>1. CASE lf = nb
    <3>1. Missing(nb, lf) = 1 /\ Len(ts) = nb - 1 /\ k = a
      BY <2>1, <1>2 DEF Missing
    <3>2. \A i \in 1 .. nb - 1 :
            TimerOf(i, a, nb, lf) = a + i /\ TimerOf(i, a, nb, lf - 1) = a + i
      BY <2>1, <3>1, <1>2 DEF TimerOf
    <3>3. \A i \in 1 .. Len(ts) : TimerOf(i, a, nb, lf) # k
      BY <3>1, <3>2
    <3>4. a <= k + MAX_SEQ /\ k <= a + MAX_SEQ /\ (a + nb) - 1 <= k + MAX_SEQ
      BY <3>1, Sizes
    <3>5. \A i \in 1 .. Len(ts) : ts[i] # SeqNo(k)
      <4> HIDE DEF k
      <4> QED
        BY <1>1, <3>3, <3>4, TimersAbsent
    <3>6. vs = ts
      BY <3>5 DEF StopTimer
    <3> QED
      BY <3>1, <3>2, <3>6 DEF TimersOK
  <2>2. CASE lf # nb
    <3>1. Missing(nb, lf) = 0 /\ Len(ts) = nb /\ 1 \in 1 .. Len(ts)
      BY <2>2, <1>2 DEF Missing
    <3>2. TimerOf(1, a, nb, lf) = k
      BY <3>1 DEF TimerOf
    <3>3. ts[1] = SeqNo(k) /\ ts # <<>>
      BY <3>1, <3>2 DEF TimersOK
    <3>4. \A i \in 2 .. Len(ts) : ts[i] # ts[1]
      <4>1. \A i, j \in 1 .. Len(ts) : ts[i] = ts[j] => i = j
        BY <1>1, TimersDiffer
      <4> QED
        BY <3>1, <4>1
    <3>5. vs = Tail(ts)
      BY <3>3, <3>4, StopHead
    <3>6. /\ Tail(ts) \in Seq(SeqNr) /\ Len(Tail(ts)) = Len(ts) - 1
          /\ \A i \in 1 .. Len(Tail(ts)) : Tail(ts)[i] = ts[i + 1] /\ i + 1 \in 1 .. Len(ts)
      BY <3>3, TailIndex
    <3>7. \A i \in 1 .. nb - 1 : TimerOf(i + 1, a, nb, lf) = TimerOf(i, a, nb, lf - 1)
      BY <3>1, <1>2 DEF TimerOf
    <3>8. ASSUME NEW i \in 1 .. nb - 1
          PROVE  Tail(ts)[i] = SeqNo(TimerOf(i, a, nb, lf - 1))
      <4>1. Tail(ts)[i] = ts[i + 1] /\ i + 1 \in 1 .. Len(ts)
        BY <3>1, <3>6
      <4>2. ts[i + 1] = SeqNo(TimerOf(i + 1, a, nb, lf))
        BY <4>1 DEF TimersOK
      <4> QED
        BY <3>7, <4>1, <4>2
    <3> HIDE DEF vs
    <3> QED
      BY <3>1, <3>5, <3>6, <3>8
  <2> QED
    BY <2>1, <2>2
<1>4. SeqNo(k) \in SeqNr
  BY <1>1, SeqNumbers
<1>5. StartTimer(ts, SeqNo((a + nb) - lf)) = us
  BY DEF StartTimer
<1> HIDE DEF k, vs
<1>6. /\ us \in Seq(SeqNr) /\ Len(us) = nb
      /\ \A i \in 1 .. nb - 1 : us[i] = vs[i]
      /\ us[nb] = SeqNo(k)
  <2>1. \A j \in SeqNr :
          /\ Append(vs, j) \in Seq(SeqNr) /\ Len(Append(vs, j)) = Len(vs) + 1
          /\ \A i \in 1 .. Len(vs) : Append(vs, j)[i] = vs[i]
          /\ Append(vs, j)[Len(vs) + 1] = j
    BY <1>3, AppendIndex
  <2> QED
    BY <1>1, <1>3, <1>4, <2>1
<1> HIDE DEF us
<1>7. TimerOf(nb, a, nb, lf - 1) = k
  BY <1>1, <1>2 DEF TimerOf, k
<1>8. ASSUME NEW i \in 1 .. nb
      PROVE  us[i] = SeqNo(TimerOf(i, a, nb, lf - 1))
  <2>1. CASE i = nb
    BY <1>6, <1>7, <2>1
  <2>2. CASE i # nb
    BY <1>3, <1>6, <2>2
  <2> QED
    BY <2>1, <2>2
<1> QED
  BY <1>2, <1>5, <1>6, <1>8 DEF TimersOK

(* An acknowledgement stops the timers of the n oldest frames.             *)
LEMMA TimersAcked ==
  ASSUME NEW a \in Nat, NEW nb \in Nat, nb <= MAX_SEQ, NEW n \in 0 .. nb,
         NEW ts \in Seq(SeqNr), TimersOK(ts, a, nb, 0)
  PROVE  LET us == StopTimers(ts, [i \in 1 .. n |-> Advance(SeqNo(a), i - 1, MAX_SEQ)])
         IN us \in Seq(SeqNr) /\ TimersOK(us, a + n, nb - n, 0)
<1> DEFINE slots == [i \in 1 .. n |-> Advance(SeqNo(a), i - 1, MAX_SEQ)]
           us == SubSeq(ts, n + 1, Len(ts))
<1>1. Missing(nb, 0) = 0 /\ Len(ts) = nb /\ Missing(nb - n, 0) = 0 /\ 0 \in Nat
  BY DEF Missing, TimersOK
<1>2. \A i \in 1 .. nb : TimerOf(i, a, nb, 0) = a + i - 1
  BY <1>1 DEF TimerOf
<1>3. ASSUME NEW i \in 1 .. n
      PROVE  slots[i] = ts[i]
  <2>1. /\ (a + i) - 1 \in Nat /\ a <= (a + i) - 1 /\ (a + i) - 1 <= a + MAX_SEQ
        /\ ((a + i) - 1) - a = i - 1
    BY Sizes
  <2>2. SeqNo((a + i) - 1) = Advance(SeqNo(a), i - 1, MAX_SEQ)
    BY <2>1, SeqNumberFromTo
  <2>3. ts[i] = SeqNo((a + i) - 1)
    BY <1>1, <1>2 DEF TimersOK
  <2> QED
    BY <2>2, <2>3
<1>4. \A i, j \in 1 .. Len(ts) : ts[i] = ts[j] => i = j
  BY TimersDiffer, 0 \in Nat, 0 <= nb
<1>5. Len(slots) = n /\ n \in 0 .. Len(ts)
  BY <1>1
<1> HIDE DEF slots
<1>6. StopTimers(ts, slots) = us
  BY <1>3, <1>4, <1>5, StopFirst
<1>7. us \in Seq(SeqNr) /\ Len(us) = nb - n /\ \A i \in 1 .. Len(us) : us[i] = ts[n + i]
  BY <1>1, <1>5, StopFirstIndex
<1> HIDE DEF us
<1>8. \A i \in 1 .. nb - n : TimerOf(i, a + n, nb - n, 0) = (a + n) + i - 1
  BY <1>1 DEF TimerOf
<1>9. \A i \in 1 .. nb - n : n + i \in 1 .. nb /\ a + (n + i) - 1 = (a + n) + i - 1
  BY <1>1
<1>10. ASSUME NEW i \in 1 .. nb - n
       PROVE  us[i] = SeqNo(TimerOf(i, a + n, nb - n, 0))
  <2>1. ts[n + i] = SeqNo(TimerOf(n + i, a, nb, 0)) /\ us[i] = ts[n + i]
    BY <1>1, <1>7, <1>9 DEF TimersOK
  <2> QED
    BY <1>2, <1>8, <1>9, <2>1
<1>11. TimersOK(us, a + n, nb - n, 0)
  BY <1>1, <1>7, <1>10 DEF TimersOK
<1> QED
  BY <1>6, <1>7, <1>11 DEF slots

-----------------------------------------------------------------------------
(* The sender.                                                             *)

(* The sender's variables after it fetched and sent one more packet.       *)
LEMMA SenderFetches ==
  ASSUME NEW a \in Nat, NEW nb \in Nat, nb < MAX_SEQ, NEW ae, NEW nf, NEW nn,
         NEW buf \in [SeqNr -> Pkt], SenderOK(ae, nf, nb, 0, buf, nn, a)
  PROVE  /\ nf = SeqNo(a + nb) /\ nn = PktNo(a + nb)
         /\ SenderOK(ae, Inc(nf, MAX_SEQ), nb + 1, 0, [buf EXCEPT ![nf] = nn],
                     Inc(nn, MaxPkt), a)
<1> DEFINE buf2 == [buf EXCEPT ![nf] = nn]
<1>1. /\ a + nb \in Nat /\ (a + nb) - 0 = a + nb /\ (a + (nb + 1)) - 0 = (a + nb) + 1
      /\ a + (nb + 1) = (a + nb) + 1
  OBVIOUS
<1>2. nf = SeqNo(a + nb) /\ nn = PktNo(a + nb)
  BY <1>1 DEF SenderOK
<1>3. /\ Inc(nf, MAX_SEQ) = SeqNo((a + nb) + 1) /\ Inc(nn, MaxPkt) = PktNo((a + nb) + 1)
      /\ nf \in SeqNr
  BY <1>1, <1>2, SeqNumbers
<1>4. ASSUME NEW k \in a .. (a + (nb + 1)) - 1
      PROVE  buf2[SeqNo(k)] = PktNo(k)
  <2>1. SeqNo(k) \in SeqNr /\ k \in Nat
    BY SeqNumbers
  <2>2. CASE k = a + nb
    BY <1>2, <1>3, <2>2
  <2>3. CASE k # a + nb
    <3>1. k \in a .. (a + nb) - 1 /\ k <= (a + nb) + MAX_SEQ /\ a + nb <= k + MAX_SEQ
      BY <2>3, Sizes
    <3>2. SeqNo(k) # nf
      BY <1>1, <1>2, <2>1, <2>3, <3>1, SeqNumbersApart
    <3> QED
      BY <2>1, <3>1, <3>2 DEF SenderOK
  <2> QED
    BY <2>2, <2>3
<1>5. ae = SeqNo(a) /\ 0 <= nb + 1
  BY DEF SenderOK
<1> HIDE DEF buf2
<1>6. SenderOK(ae, Inc(nf, MAX_SEQ), nb + 1, 0, buf2, Inc(nn, MaxPkt), a)
  BY <1>1, <1>3, <1>4, <1>5 DEF SenderOK
<1> QED
  BY <1>2, <1>6 DEF buf2

(* The sender's variables after one step of the retransmission.            *)
LEMMA SenderRepeats ==
  ASSUME NEW a \in Nat, NEW nb \in Nat, NEW lf \in 1 .. nb, NEW ae, NEW nf, NEW nn,
         NEW buf, SenderOK(ae, nf, nb, lf, buf, nn, a)
  PROVE  /\ nf = SeqNo((a + nb) - lf) /\ buf[nf] = PktNo((a + nb) - lf)
         /\ SenderOK(ae, Inc(nf, MAX_SEQ), nb, lf - 1, buf, nn, a)
<1>1. /\ (a + nb) - lf \in a .. (a + nb) - 1 /\ (a + nb) - lf \in Nat
      /\ ((a + nb) - lf) + 1 = (a + nb) - (lf - 1) /\ lf - 1 <= nb
  OBVIOUS
<1>2. nf = SeqNo((a + nb) - lf)
  BY DEF SenderOK
<1>3. Inc(nf, MAX_SEQ) = SeqNo((a + nb) - (lf - 1))
  BY <1>1, <1>2, SeqNumbers
<1> QED
  BY <1>1, <1>2, <1>3 DEF SenderOK

(* The sender's variables when it goes back to its oldest frame.           *)
LEMMA SenderGoesBack ==
  ASSUME NEW a \in Nat, NEW nb \in Nat, NEW ae, NEW nf, NEW nn,
         NEW buf, SenderOK(ae, nf, nb, 0, buf, nn, a)
  PROVE  SenderOK(ae, ae, nb, nb, buf, nn, a)
<1>1. (a + nb) - nb = a /\ nb <= nb
  OBVIOUS
<1> QED
  BY <1>1 DEF SenderOK

(* The sender's variables after n frames were acknowledged.                *)
LEMMA SenderAcked ==
  ASSUME NEW a \in Nat, NEW nb \in Nat, nb <= MAX_SEQ, NEW n \in 0 .. nb,
         NEW ae, NEW nf, NEW nn,
         NEW buf, SenderOK(ae, nf, nb, 0, buf, nn, a)
  PROVE  SenderOK(Advance(ae, n, MAX_SEQ), nf, nb - n, 0, buf, nn, a + n)
<1>1. /\ (a + n) + (nb - n) = a + nb /\ ((a + n) + (nb - n)) - 0 = (a + nb) - 0
      /\ 0 <= nb - n /\ a + n \in Nat
      /\ a <= a + n /\ a + n <= a + MAX_SEQ /\ (a + n) - a = n
  BY Sizes
<1>2. Advance(ae, n, MAX_SEQ) = SeqNo(a + n)
  BY <1>1, SeqNumberFromTo DEF SenderOK
<1>3. \A k \in a + n .. ((a + n) + (nb - n)) - 1 : k \in a .. (a + nb) - 1
  BY <1>1
<1> QED
  BY <1>1, <1>2, <1>3 DEF SenderOK

-----------------------------------------------------------------------------
(* The invariant.                                                          *)

(* What TypeOK says of one worker.                                         *)
LEMMA Typed ==
  ASSUME TypeOK, NEW p \in Proc
  PROVE  /\ phase[p] \in {"start", "queue_frames", "wait", "exited"}
         /\ chan \in [Proc -> Seq(Frame)] /\ chan[p] \in Seq(Frame)
         /\ nframes[p] \in Nat /\ nframes[p] <= Len(chan[p])
         /\ timers \in [Proc -> Seq(SeqNr)] /\ timers[p] \in Seq(SeqNr)
         /\ next_net_pkt[p] \in Pkt /\ last_pkt_given[p] \in Pkt
         /\ ack_expected[p] \in SeqNr /\ next_frame_to_send[p] \in SeqNr
         /\ nbuffered[p] \in 0 .. MAX_SEQ /\ nbuffered[p] \in Nat
         /\ frame_expected[p] \in SeqNr
         /\ buffer[p] \in [SeqNr -> Pkt]
         /\ left[p] \in 0 .. MAX_SEQ /\ left[p] \in Nat
<1>1. /\ phase[p] \in {"start", "queue_frames", "wait", "exited"}
      /\ chan \in [Proc -> Seq(Frame)] /\ chan[p] \in Seq(Frame)
      /\ nframes[p] \in Nat /\ nframes[p] <= Len(chan[p])
      /\ timers \in [Proc -> Seq(SeqNr)] /\ timers[p] \in Seq(SeqNr)
      /\ next_net_pkt[p] \in Pkt /\ last_pkt_given[p] \in Pkt
  BY DEF TypeOK, WindowTypeOK, LinkTypeOK
<1>2. /\ ack_expected[p] \in SeqNr /\ next_frame_to_send[p] \in SeqNr
      /\ nbuffered[p] \in 0 .. MAX_SEQ
      /\ frame_expected[p] \in SeqNr
      /\ buffer[p] \in [SeqNr -> Pkt]
      /\ left[p] \in 0 .. MAX_SEQ
  BY DEF TypeOK, WindowTypeOK
<1>3. nbuffered[p] \in Nat /\ left[p] \in Nat
  BY <1>2, Sizes
<1> QED
  BY <1>1, <1>2, <1>3

(* Init establishes the invariant.                                         *)
LEMMA InitInvariant == Init => IInv
<1> SUFFICES ASSUME Init PROVE IInv
  OBVIOUS
<1> USE DEF Init, WindowInit, LinkInit
<1>1. <<>> \in Seq(Frame) /\ <<>> \in Seq(SeqNr) /\ <<>> \in Seq(Nat) /\ Len(<<>>) = 0
  OBVIOUS
<1>2. TypeOK
  BY <1>1, Sizes DEF TypeOK, WindowTypeOK, LinkTypeOK
<1>3. NoProtocolError /\ OnlyData /\ InTimeoutLoop
  BY <1>1 DEF NoProtocolError, OnlyData, InTimeoutLoop
<1>4. ASSUME NEW p \in Proc PROVE Direction(p)
  <2>1. SeqNo(0) = 0 /\ PktNo(0) = 0
    BY Sizes DEF SeqNo, PktNo, Wrapped
  <2>2. Peer(p) \in Proc
    BY PeerFacts
  <2>3. Inc(MaxPkt, MaxPkt) = 0
    BY Sizes DEF Inc
  <2>4. SenderOK(0, 0, 0, 0, [n \in SeqNr |-> 0], 0, 0)
    BY <2>1 DEF SenderOK
  <2>5. ReceiverOK(0, MaxPkt, 0)
    BY <2>1, <2>3 DEF ReceiverOK
  <2>6. DataWindow(<<>>, <<>>, MAX_SEQ, MAX_SEQ, 0 + 0, 0) /\ AckWindow(<<>>, <<>>, MAX_SEQ, 0, 0)
    BY <1>1 DEF DataWindow, AckWindow
  <2>7. TimersOK(<<>>, 0, 0, 0)
    BY <1>1 DEF TimersOK, Missing
  <2>8. Numbering(p, 0, 0, <<>>, <<>>)
    BY <2>2, <2>4, <2>5, <2>6, <2>7 DEF Numbering
  <2> QED
    BY <2>8 DEF Direction
<1> QED
  BY <1>2, <1>3, <1>4 DEF IInv

-----------------------------------------------------------------------------
(* The steps.                                                              *)

(* What worker w may not touch: all that its peer keeps.                   *)
PeerUntouched(w) ==
  LET q == Peer(w)
  IN /\ ack_expected'[q] = ack_expected[q]
     /\ next_frame_to_send'[q] = next_frame_to_send[q]
     /\ nbuffered'[q] = nbuffered[q] /\ left'[q] = left[q]
     /\ buffer'[q] = buffer[q] /\ next_net_pkt'[q] = next_net_pkt[q]
     /\ timers'[q] = timers[q]
     /\ frame_expected'[q] = frame_expected[q]
     /\ last_pkt_given'[q] = last_pkt_given[q]

(* Worker w writes a data frame, which may be lost.                        *)
LEMMA SendDataStep ==
  ASSUME IInv, NEW w \in Proc, NEW nr \in SeqNr, NEW running, SendData(w, nr, running),
         buffer'[w][nr] \in Pkt
  PROVE  LET q == Peer(w)
         IN /\ chan' \in [Proc -> Seq(Frame)] /\ chan'[w] = chan[w]
            /\ \A p \in Proc : Len(chan[p]) <= Len(chan'[p])
            /\ OnlyData'
            /\ \A acks : \A a, e \in Nat :
                 AckWindow(chan[q], acks, MAX_SEQ, a, e) /\ a <= e
                   /\ frame_expected[w] = SeqNo(e)
                 => \E acks2 : AckWindow(chan'[q], acks2, MAX_SEQ, a, e)
            /\ \A nrs : \A top, e, k \in Nat :
                 DataWindow(chan[q], nrs, MAX_SEQ, MAX_SEQ, top, e)
                   /\ top <= k + MAX_SEQ /\ e <= k + MAX_SEQ /\ k < top
                   /\ nr = SeqNo(k) /\ buffer'[w][nr] = PktNo(k)
                 => \E nrs2 : DataWindow(chan'[q], nrs2, MAX_SEQ, MAX_SEQ, top, e)
<1> DEFINE q == Peer(w)
           f == [kind |-> "data", seq |-> nr, ack |-> LastAccepted(w), info |-> buffer'[w][nr]]
<1>1. PICK lost \in LossOutcomes : chan' = [chan EXCEPT ![q] = Transmit(@, f, lost)]
  BY DEF SendData
<1>2. /\ chan \in [Proc -> Seq(Frame)] /\ chan[q] \in Seq(Frame) /\ frame_expected[w] \in SeqNr
      /\ q \in Proc /\ q # w /\ Proc = {w, q} /\ w \in Proc
  BY Typed, PeerFacts DEF IInv
<1>3. LastAccepted(w) \in 0 .. MAX_SEQ /\ Inc(LastAccepted(w), MAX_SEQ) = frame_expected[w]
  BY <1>2, LastAcceptedNumber DEF LastAccepted
<1>4. /\ f \in Frame /\ f.kind = "data" /\ f.seq = nr /\ f.info = buffer'[w][nr]
      /\ f.ack = LastAccepted(w)
  <2>1. nr \in Nat /\ LastAccepted(w) \in Nat
    BY <1>3, Sizes
  <2> QED
    BY <2>1 DEF Frame
<1> HIDE DEF f, q
<1>5. chan'[w] = chan[w] /\ chan'[q] = Transmit(chan[q], f, lost)
  BY <1>1, <1>2
<1>6. /\ chan'[q] \in Seq(Frame) /\ Len(chan[q]) <= Len(chan'[q])
      /\ \A i \in 1 .. Len(chan'[q]) : chan'[q][i] = f \/ (i \in 1 .. Len(chan[q])
                                                         /\ chan'[q][i] = chan[q][i])
  <2>1. CASE chan'[q] = chan[q]
    BY <1>2, <2>1
  <2>2. CASE chan'[q] = Append(chan[q], f)
    <3>1. /\ Append(chan[q], f) \in Seq(Frame) /\ Len(chan[q]) \in Nat
          /\ Len(Append(chan[q], f)) = Len(chan[q]) + 1
          /\ \A i \in 1 .. Len(chan[q]) : Append(chan[q], f)[i] = chan[q][i]
          /\ Append(chan[q], f)[Len(chan[q]) + 1] = f
      BY <1>2, <1>4, AppendIndex
    <3> QED
      BY <2>2, <3>1
  <2> QED
    BY <1>5, <2>1, <2>2 DEF Transmit
<1>7. chan' \in [Proc -> Seq(Frame)]
  BY <1>1, <1>2, <1>5, <1>6
<1>8. \A p \in Proc : Len(chan[p]) <= Len(chan'[p])
  BY <1>2, <1>5, <1>6
<1>9. OnlyData'
  <2>1. \A p \in Proc : \A i \in 1 .. Len(chan[p]) : chan[p][i].kind = "data"
    BY DEF IInv, OnlyData
  <2>2. ASSUME NEW p \in Proc, NEW i \in 1 .. Len(chan'[p])
        PROVE  chan'[p][i].kind = "data"
    <3>1. CASE p = w
      BY <1>5, <2>1, <3>1
    <3>2. CASE p = q
      <4>1. chan'[q][i] = f \/ (i \in 1 .. Len(chan[q]) /\ chan'[q][i] = chan[q][i])
        BY <1>6, <3>2
      <4> QED
        BY <1>2, <1>4, <2>1, <3>2, <4>1
    <3> QED
      BY <1>2, <3>1, <3>2
  <2> QED
    BY <2>2 DEF OnlyData
<1>10. ASSUME NEW acks, NEW a \in Nat, NEW e \in Nat,
              AckWindow(chan[q], acks, MAX_SEQ, a, e), a <= e, frame_expected[w] = SeqNo(e)
       PROVE  \E acks2 : AckWindow(chan'[q], acks2, MAX_SEQ, a, e)
  <2>1. f.ack \in 0 .. MAX_SEQ /\ Inc(f.ack, MAX_SEQ) = Wrapped(e, MAX_SEQ)
    BY <1>3, <1>4, <1>10 DEF SeqNo
  <2>2. MAX_SEQ \in Nat
    BY Sizes
  <2>3. \E acks2 : AckWindow(Transmit(chan[q], f, lost), acks2, MAX_SEQ, a, e)
    BY <1>4, <1>10, <2>1, <2>2, AckTransmitted
  <2> QED
    BY <1>5, <2>3
<1>11. ASSUME NEW nrs, NEW top \in Nat, NEW e \in Nat, NEW k \in Nat,
              DataWindow(chan[q], nrs, MAX_SEQ, MAX_SEQ, top, e),
              top <= k + MAX_SEQ, e <= k + MAX_SEQ, k < top,
              nr = SeqNo(k), buffer'[w][nr] = PktNo(k)
       PROVE  \E nrs2 : DataWindow(chan'[q], nrs2, MAX_SEQ, MAX_SEQ, top, e)
  <2>1. f.seq = Wrapped(k, MAX_SEQ) /\ f.info = Wrapped(k, MaxPkt)
    BY <1>4, <1>11 DEF SeqNo, PktNo
  <2>2. MAX_SEQ \in Nat
    BY Sizes
  <2>3. \E nrs2 : DataWindow(Transmit(chan[q], f, lost), nrs2, MAX_SEQ, MAX_SEQ, top, e)
    BY <1>4, <1>11, <2>1, <2>2, DataTransmitted
  <2> QED
    BY <1>5, <2>3
<1> QED
  BY <1>5, <1>7, <1>8, <1>9, <1>10, <1>11 DEF q

(* The other direction, when w writes a frame and accepts none.            *)
LEMMA PeerWhenSending ==
  ASSUME IInv, NEW w \in Proc, PeerUntouched(w),
         chan'[w] = chan[w],
         frame_expected'[w] = frame_expected[w], last_pkt_given'[w] = last_pkt_given[w],
         \A acks : \A a, e \in Nat :
           AckWindow(chan[Peer(w)], acks, MAX_SEQ, a, e) /\ a <= e
             /\ frame_expected[w] = SeqNo(e)
           => \E acks2 : AckWindow(chan'[Peer(w)], acks2, MAX_SEQ, a, e)
  PROVE  Direction(Peer(w))'
<1> DEFINE q == Peer(w)
<1>1. q \in Proc /\ Peer(q) = w
  BY PeerFacts
<1>2. PICK a \in Nat, e \in Nat : \E nrs, acks : Numbering(q, a, e, nrs, acks)
  BY <1>1 DEF IInv, Direction
<1>3. PICK nrs, acks : Numbering(q, a, e, nrs, acks)
  BY <1>2
<1>4. AckWindow(chan[q], acks, MAX_SEQ, a, e) /\ a <= e /\ frame_expected[w] = SeqNo(e)
  BY <1>1, <1>3 DEF Numbering, ReceiverOK
<1>5. PICK acks2 : AckWindow(chan'[q], acks2, MAX_SEQ, a, e)
  BY <1>4
<1>6. Numbering(q, a, e, nrs, acks2)'
  BY <1>1, <1>3, <1>5 DEF Numbering, PeerUntouched
<1> QED
  BY <1>6 DEF Direction

(* A worker fetches a packet and sends it.                                 *)
LEMMA NetworkLayerReadyStep ==
  ASSUME IInv, NEW w \in Proc, NetworkLayerReady(w)
  PROVE  IInv'
<1> DEFINE q == Peer(w)
           nb == nbuffered[w]
           nf == next_frame_to_send[w]
           nn == next_net_pkt[w]
<1>1. /\ phase[w] = "wait" /\ nb < MAX_SEQ
      /\ buffer' = [buffer EXCEPT ![w][nf] = nn]
      /\ next_net_pkt' = [next_net_pkt EXCEPT ![w] = Inc(nn, MaxPkt)]
      /\ nbuffered' = [nbuffered EXCEPT ![w] = nb + 1]
      /\ next_frame_to_send' = [next_frame_to_send EXCEPT ![w] = Inc(nf, MAX_SEQ)]
      /\ SendData(w, nf, timers[w])
      /\ timers' = [timers EXCEPT ![w] = StartTimer(timers[w], nf)]
      /\ phase' = [phase EXCEPT ![w] = "queue_frames"]
      /\ UNCHANGED <<nframes, last_pkt_given, ack_expected, left, frame_expected>>
  BY DEF NetworkLayerReady, NetworkLayerEnabled, SendData, BackToWait
<1>2. /\ TypeOK /\ q \in Proc /\ q # w /\ Proc = {w, q} /\ Peer(q) = w
      /\ nb \in Nat /\ nf \in SeqNr /\ nn \in Pkt /\ buffer[w] \in [SeqNr -> Pkt]
      /\ timers[w] \in Seq(SeqNr) /\ nb \in 0 .. MAX_SEQ
  BY Typed, PeerFacts DEF IInv
<1>3. left[w] = 0
  <2>1. left[w] \in Nat /\ ~(left[w] > 0)
    BY <1>1, Typed DEF IInv, InTimeoutLoop
  <2> QED
    BY <2>1
<1>4. /\ buffer'[w] = [buffer[w] EXCEPT ![nf] = nn] /\ buffer'[w][nf] = nn
      /\ buffer' \in [Proc -> [SeqNr -> Pkt]]
  BY <1>1, <1>2 DEF TypeOK
<1> DEFINE buf2 == [buffer[w] EXCEPT ![nf] = nn]
<1>5. PICK a \in Nat, e \in Nat : \E nrs, acks : Numbering(w, a, e, nrs, acks)
  BY DEF IInv, Direction
<1>6. PICK nrs, acks : Numbering(w, a, e, nrs, acks)
  BY <1>5
<1>7. SenderOK(ack_expected[w], nf, nb, 0, buffer[w], nn, a)
  BY <1>3, <1>6 DEF Numbering
<1>8. /\ nf = SeqNo(a + nb) /\ nn = PktNo(a + nb)
      /\ SenderOK(ack_expected[w], Inc(nf, MAX_SEQ), nb + 1, 0, buffer'[w],
                  Inc(nn, MaxPkt), a)
  <2> HIDE DEF nb, nf, nn
  <2>1. /\ nf = SeqNo(a + nb) /\ nn = PktNo(a + nb)
        /\ SenderOK(ack_expected[w], Inc(nf, MAX_SEQ), nb + 1, 0, buf2,
                    Inc(nn, MaxPkt), a)
    BY <1>1, <1>2, <1>7, SenderFetches
  <2> QED
    BY <1>4, <2>1
<1>9. /\ StartTimer(timers[w], nf) \in Seq(SeqNr)
      /\ TimersOK(StartTimer(timers[w], nf), a, nb + 1, 0)
  <2>1. TimersOK(timers[w], a, nb, 0)
    BY <1>3, <1>6 DEF Numbering
  <2> QED
    BY <1>1, <1>2, <1>8, <2>1, TimerStarts
<1>10. /\ chan' \in [Proc -> Seq(Frame)] /\ chan'[w] = chan[w]
       /\ \A p \in Proc : Len(chan[p]) <= Len(chan'[p])
       /\ OnlyData'
       /\ \A ks : \A i, j \in Nat :
            AckWindow(chan[q], ks, MAX_SEQ, i, j) /\ i <= j
              /\ frame_expected[w] = SeqNo(j)
            => \E ks2 : AckWindow(chan'[q], ks2, MAX_SEQ, i, j)
       /\ \A ks : \A top, j, k \in Nat :
            DataWindow(chan[q], ks, MAX_SEQ, MAX_SEQ, top, j)
              /\ top <= k + MAX_SEQ /\ j <= k + MAX_SEQ /\ k < top
              /\ nf = SeqNo(k) /\ buffer'[w][nf] = PktNo(k)
            => \E ks2 : DataWindow(chan'[q], ks2, MAX_SEQ, MAX_SEQ, top, j)
  BY <1>1, <1>2, <1>4, SendDataStep
<1>11. Direction(w)'
  <2>1. DataWindow(chan[q], nrs, MAX_SEQ, MAX_SEQ, (a + nb) + 1, e)
    <3>1. DataWindow(chan[q], nrs, MAX_SEQ, MAX_SEQ, a + nb, e) /\ a + nb \in Nat
          /\ MAX_SEQ \in Nat
      BY <1>2, <1>6, Sizes DEF Numbering
    <3> QED
      BY <3>1, DataNumbered
  <2>2. a <= e /\ e <= a + nb
    BY <1>6 DEF Numbering
  <2>3. /\ (a + nb) + 1 \in Nat /\ a + nb \in Nat
        /\ (a + nb) + 1 <= (a + nb) + MAX_SEQ /\ e <= (a + nb) + MAX_SEQ
        /\ a + nb < (a + nb) + 1 /\ e <= a + (nb + 1) /\ (a + nb) + 1 = a + (nb + 1)
    <3> HIDE DEF nb
    <3>1. MAX_SEQ \in Nat /\ 1 <= MAX_SEQ
      BY Sizes
    <3>2. a \in Nat /\ e \in Nat /\ nb \in Nat
      BY <1>2
    <3> QED
      BY ONLY <2>2, <3>1, <3>2
  <2>4. PICK nrs2 : DataWindow(chan'[q], nrs2, MAX_SEQ, MAX_SEQ, (a + nb) + 1, e)
    BY <1>4, <1>8, <1>10, <2>1, <2>3
  <2>5. /\ ack_expected'[w] = ack_expected[w] /\ left'[w] = 0 /\ nbuffered'[w] = nb + 1
        /\ next_frame_to_send'[w] = Inc(nf, MAX_SEQ) /\ next_net_pkt'[w] = Inc(nn, MaxPkt)
        /\ timers'[w] = StartTimer(timers[w], nf)
        /\ frame_expected'[q] = frame_expected[q] /\ last_pkt_given'[q] = last_pkt_given[q]
    BY <1>1, <1>2, <1>3 DEF TypeOK, WindowTypeOK, LinkTypeOK
  <2>6. Numbering(w, a, e, nrs2, acks)'
    BY <1>6, <1>8, <1>9, <1>10, <2>2, <2>3, <2>4, <2>5 DEF Numbering
  <2> QED
    BY <2>6 DEF Direction
<1>12. Direction(q)'
  <2>1. PeerUntouched(w)
    BY <1>1, <1>2 DEF PeerUntouched, TypeOK, WindowTypeOK, LinkTypeOK
  <2>2. frame_expected'[w] = frame_expected[w] /\ last_pkt_given'[w] = last_pkt_given[w]
    BY <1>1
  <2> QED
    BY <1>10, <2>1, <2>2, PeerWhenSending
<1>13. TypeOK'
  <2>1. Inc(nf, MAX_SEQ) \in SeqNr /\ Inc(nn, MaxPkt) \in Pkt /\ nb + 1 \in 0 .. MAX_SEQ
    <3> HIDE DEF nb, nf, nn
    <3>1. a + nb \in Nat /\ (a + nb) + 1 \in Nat /\ nb + 1 \in 0 .. MAX_SEQ
      <4>1. a \in Nat /\ nb \in Nat /\ nb < MAX_SEQ /\ MAX_SEQ \in Nat
        BY <1>1, <1>2, Sizes
      <4> QED
        BY ONLY <4>1
    <3> QED
      BY <1>8, <3>1, SeqNumbers
  <2>2. LinkTypeOK(SeqNr)'
    <3>1. \A p \in Proc : nframes'[p] <= Len(chan'[p])
      <4> TAKE p \in Proc
      <4>1. /\ nframes[p] \in Nat /\ nframes[p] <= Len(chan[p]) /\ nframes'[p] = nframes[p]
            /\ Len(chan[p]) <= Len(chan'[p]) /\ Len(chan[p]) \in Nat /\ Len(chan'[p]) \in Nat
        BY <1>1, <1>2, <1>10, Typed
      <4> QED
        BY <4>1
    <3> QED
      BY <1>1, <1>2, <1>9, <1>10, <2>1, <3>1 DEF TypeOK, WindowTypeOK, LinkTypeOK
  <2> QED
    BY <1>1, <1>2, <1>4, <2>1, <2>2 DEF TypeOK, WindowTypeOK
<1>14. NoProtocolError' /\ InTimeoutLoop'
  BY <1>1, <1>2 DEF IInv, NoProtocolError, InTimeoutLoop, TypeOK, WindowTypeOK, LinkTypeOK
<1> QED
  BY <1>2, <1>10, <1>11, <1>12, <1>13, <1>14 DEF IInv

(* One step of the retransmission.                                         *)
LEMMA ResendStep ==
  ASSUME IInv, NEW w \in Proc, Resend(w)
  PROVE  IInv'
<1> DEFINE q == Peer(w)
           nb == nbuffered[w]
           nf == next_frame_to_send[w]
           nn == next_net_pkt[w]
           lf == left[w]
<1>1. /\ lf > 0
      /\ left' = [left EXCEPT ![w] = lf - 1]
      /\ next_frame_to_send' = [next_frame_to_send EXCEPT ![w] = Inc(nf, MAX_SEQ)]
      /\ SendData(w, nf, timers[w])
      /\ timers' = [timers EXCEPT ![w] = StartTimer(timers[w], nf)]
      /\ UNCHANGED <<phase, nframes, next_net_pkt, last_pkt_given, ack_expected,
                     buffer, nbuffered, frame_expected>>
  BY DEF Resend, SendData
<1>2. /\ TypeOK /\ q \in Proc /\ q # w /\ Proc = {w, q} /\ Peer(q) = w
      /\ nb \in Nat /\ nb \in 0 .. MAX_SEQ /\ nf \in SeqNr /\ nn \in Pkt
      /\ buffer[w] \in [SeqNr -> Pkt] /\ timers[w] \in Seq(SeqNr)
      /\ lf \in Nat /\ lf \in 0 .. MAX_SEQ /\ MAX_SEQ \in Nat /\ 1 <= MAX_SEQ
  BY Typed, PeerFacts, Sizes DEF IInv
<1>3. PICK a \in Nat, e \in Nat : \E nrs, acks : Numbering(w, a, e, nrs, acks)
  BY DEF IInv, Direction
<1>4. PICK nrs, acks : Numbering(w, a, e, nrs, acks)
  BY <1>3
<1>5. /\ SenderOK(ack_expected[w], nf, nb, lf, buffer[w], nn, a)
      /\ lf <= nb /\ a <= e /\ e <= a + nb
      /\ TimersOK(timers[w], a, nb, lf)
      /\ DataWindow(chan[q], nrs, MAX_SEQ, MAX_SEQ, a + nb, e)
  BY <1>4 DEF Numbering, SenderOK
<1> DEFINE k == (a + nb) - lf
<1>6. /\ lf \in 1 .. nb /\ lf - 1 \in 0 .. MAX_SEQ
      /\ k \in Nat /\ a + nb \in Nat /\ a + nb <= k + MAX_SEQ /\ e <= k + MAX_SEQ
      /\ k < a + nb
  <2> HIDE DEF nb, lf
  <2>1. a \in Nat /\ e \in Nat
    OBVIOUS
  <2> QED
    BY ONLY <1>1, <1>2, <1>5, <2>1
<1>7. /\ nf = SeqNo(k) /\ buffer[w][nf] = PktNo(k)
      /\ SenderOK(ack_expected[w], Inc(nf, MAX_SEQ), nb, lf - 1, buffer[w], nn, a)
  <2> HIDE DEF nb, nf, nn, lf
  <2> QED
    BY <1>2, <1>5, <1>6, SenderRepeats
<1>8. /\ StartTimer(timers[w], nf) \in Seq(SeqNr)
      /\ TimersOK(StartTimer(timers[w], nf), a, nb, lf - 1)
  <2> HIDE DEF nb, nf, lf
  <2>1. nb <= MAX_SEQ
    BY <1>2
  <2> QED
    BY <1>2, <1>5, <1>6, <1>7, <2>1, TimerRestarts
<1>9. buffer'[w][nf] \in Pkt /\ buffer'[w][nf] = PktNo(k)
  BY <1>1, <1>2, <1>7
<1>10. /\ chan' \in [Proc -> Seq(Frame)] /\ chan'[w] = chan[w]
       /\ \A p \in Proc : Len(chan[p]) <= Len(chan'[p])
       /\ OnlyData'
       /\ \A ks : \A i, j \in Nat :
            AckWindow(chan[q], ks, MAX_SEQ, i, j) /\ i <= j
              /\ frame_expected[w] = SeqNo(j)
            => \E ks2 : AckWindow(chan'[q], ks2, MAX_SEQ, i, j)
       /\ \A ks : \A top, j, x \in Nat :
            DataWindow(chan[q], ks, MAX_SEQ, MAX_SEQ, top, j)
              /\ top <= x + MAX_SEQ /\ j <= x + MAX_SEQ /\ x < top
              /\ nf = SeqNo(x) /\ buffer'[w][nf] = PktNo(x)
            => \E ks2 : DataWindow(chan'[q], ks2, MAX_SEQ, MAX_SEQ, top, j)
  BY <1>1, <1>2, <1>9, SendDataStep
<1>11. Direction(w)'
  <2>1. PICK nrs2 : DataWindow(chan'[q], nrs2, MAX_SEQ, MAX_SEQ, a + nb, e)
    <3> HIDE DEF nb, nf, lf, k
    <3> QED
      BY <1>5, <1>6, <1>7, <1>9, <1>10
  <2>2. /\ ack_expected'[w] = ack_expected[w] /\ left'[w] = lf - 1 /\ nbuffered'[w] = nb
        /\ next_frame_to_send'[w] = Inc(nf, MAX_SEQ) /\ next_net_pkt'[w] = nn
        /\ timers'[w] = StartTimer(timers[w], nf) /\ buffer'[w] = buffer[w]
        /\ frame_expected'[q] = frame_expected[q] /\ last_pkt_given'[q] = last_pkt_given[q]
    BY <1>1, <1>2 DEF TypeOK, WindowTypeOK, LinkTypeOK
  <2>3. Numbering(w, a, e, nrs2, acks)'
    <3> HIDE DEF nb, nf, lf, nn
    <3> QED
      BY <1>4, <1>5, <1>7, <1>8, <1>10, <2>1, <2>2 DEF Numbering
  <2> QED
    BY <2>3 DEF Direction
<1>12. Direction(q)'
  <2>1. PeerUntouched(w)
    BY <1>1, <1>2 DEF PeerUntouched, TypeOK, WindowTypeOK, LinkTypeOK
  <2>2. frame_expected'[w] = frame_expected[w] /\ last_pkt_given'[w] = last_pkt_given[w]
    BY <1>1
  <2> QED
    BY <1>10, <2>1, <2>2, PeerWhenSending
<1>13. TypeOK'
  <2>1. Inc(nf, MAX_SEQ) \in SeqNr
    <3> HIDE DEF nf, k
    <3> QED
      BY <1>6, <1>7, SeqNumbers
  <2>2. LinkTypeOK(SeqNr)'
    <3>1. \A p \in Proc : nframes'[p] <= Len(chan'[p])
      <4> TAKE p \in Proc
      <4>1. /\ nframes[p] \in Nat /\ nframes[p] <= Len(chan[p]) /\ nframes'[p] = nframes[p]
            /\ Len(chan[p]) <= Len(chan'[p]) /\ Len(chan[p]) \in Nat /\ Len(chan'[p]) \in Nat
        BY <1>1, <1>2, <1>10, Typed
      <4> QED
        BY <4>1
    <3> QED
      BY <1>1, <1>2, <1>8, <1>10, <3>1 DEF TypeOK, WindowTypeOK, LinkTypeOK
  <2> QED
    BY <1>1, <1>2, <1>6, <2>1, <2>2 DEF TypeOK, WindowTypeOK
<1>14. NoProtocolError' /\ InTimeoutLoop'
  <2>1. NoProtocolError'
    BY <1>1 DEF IInv, NoProtocolError
  <2>2. \A p \in Proc : left'[p] > 0 => left[p] > 0
    BY <1>1, <1>2 DEF TypeOK
  <2> QED
    BY <1>1, <2>1, <2>2 DEF IInv, InTimeoutLoop
<1> QED
  BY <1>2, <1>10, <1>11, <1>12, <1>13, <1>14 DEF IInv

(* A worker goes back to its oldest frame.                                 *)
LEMMA TimeoutStep ==
  ASSUME IInv, NEW w \in Proc, Timeout(w)
  PROVE  IInv'
<1> DEFINE q == Peer(w)
           nb == nbuffered[w]
<1>1. /\ phase[w] = "wait" /\ timers[w] # <<>>
      /\ timers' = [timers EXCEPT ![w] = Tail(timers[w])]
      /\ next_frame_to_send' = [next_frame_to_send EXCEPT ![w] = ack_expected[w]]
      /\ left' = [left EXCEPT ![w] = nb]
      /\ phase' = [phase EXCEPT ![w] = "queue_frames"]
      /\ UNCHANGED <<chan, nframes, next_net_pkt, last_pkt_given, ack_expected, buffer,
                     nbuffered, frame_expected>>
  BY DEF Timeout, TimerGoesOff, BackToWait
<1>2. /\ TypeOK /\ q \in Proc /\ q # w /\ Proc = {w, q} /\ Peer(q) = w
      /\ nb \in Nat /\ nb \in 0 .. MAX_SEQ /\ timers[w] \in Seq(SeqNr)
      /\ ack_expected[w] \in SeqNr
  BY Typed, PeerFacts DEF IInv
<1>3. left[w] = 0
  <2>1. left[w] \in Nat /\ ~(left[w] > 0)
    BY <1>1, Typed DEF IInv, InTimeoutLoop
  <2> QED
    BY <2>1
<1>4. PICK a \in Nat, e \in Nat : \E nrs, acks : Numbering(w, a, e, nrs, acks)
  BY DEF IInv, Direction
<1>5. PICK nrs, acks : Numbering(w, a, e, nrs, acks)
  BY <1>4
<1>6. /\ SenderOK(ack_expected[w], next_frame_to_send[w], nb, 0, buffer[w], next_net_pkt[w], a)
      /\ TimersOK(timers[w], a, nb, 0)
  BY <1>3, <1>5 DEF Numbering
<1>7. SenderOK(ack_expected[w], ack_expected[w], nb, nb, buffer[w], next_net_pkt[w], a)
  BY <1>2, <1>6, SenderGoesBack
<1>8. Tail(timers[w]) \in Seq(SeqNr) /\ TimersOK(Tail(timers[w]), a, nb, nb)
  BY <1>1, <1>2, <1>6, TimerFires
<1>9. Direction(w)'
  <2>1. /\ left'[w] = nb /\ next_frame_to_send'[w] = ack_expected[w]
        /\ timers'[w] = Tail(timers[w])
    BY <1>1, <1>2 DEF TypeOK, WindowTypeOK, LinkTypeOK
  <2>2. Numbering(w, a, e, nrs, acks)'
    BY <1>1, <1>5, <1>7, <1>8, <2>1 DEF Numbering
  <2> QED
    BY <2>2 DEF Direction
<1>10. Direction(q)'
  <2>1. left'[q] = left[q] /\ next_frame_to_send'[q] = next_frame_to_send[q]
        /\ timers'[q] = timers[q]
    BY <1>1, <1>2 DEF TypeOK, WindowTypeOK, LinkTypeOK
  <2>2. PICK x \in Nat, y \in Nat : \E ks, ls : Numbering(q, x, y, ks, ls)
    BY <1>2 DEF IInv, Direction
  <2>3. PICK ks, ls : Numbering(q, x, y, ks, ls)
    BY <2>2
  <2>4. Numbering(q, x, y, ks, ls)'
    BY <1>1, <1>2, <2>1, <2>3 DEF Numbering
  <2> QED
    BY <2>4 DEF Direction
<1>11. TypeOK'
  <2>1. LinkTypeOK(SeqNr)'
    BY <1>1, <1>2, <1>8 DEF TypeOK, WindowTypeOK, LinkTypeOK
  <2> QED
    BY <1>1, <1>2, <2>1 DEF TypeOK, WindowTypeOK
<1>12. NoProtocolError' /\ OnlyData' /\ InTimeoutLoop'
  BY <1>1, <1>2 DEF IInv, NoProtocolError, OnlyData, InTimeoutLoop, TypeOK, WindowTypeOK, LinkTypeOK
<1> QED
  BY <1>2, <1>9, <1>10, <1>11, <1>12 DEF IInv

(* Worker w takes the first frame that has reached it.                     *)
LEMMA TakesFrameStep ==
  ASSUME IInv, NEW w \in Proc, TakesFrame(w), chan' = [chan EXCEPT ![w] = Tail(@)]
  PROVE  /\ left[w] = 0
         /\ chan[w] # <<>> /\ Head(chan[w]) \in Frame /\ Head(chan[w]).kind = "data"
         /\ chan' \in [Proc -> Seq(Frame)]
         /\ chan'[w] = Tail(chan[w]) /\ chan'[Peer(w)] = chan[Peer(w)]
         /\ nframes' \in [Proc -> Nat] /\ \A p \in Proc : nframes'[p] <= Len(chan'[p])
         /\ OnlyData'
<1> DEFINE q == Peer(w)
<1>1. /\ TypeOK /\ LinkTypeOK(SeqNr) /\ q \in Proc /\ q # w /\ Proc = {w, q}
      /\ chan \in [Proc -> Seq(Frame)] /\ chan[w] \in Seq(Frame)
  BY Typed, PeerFacts DEF IInv, TypeOK, WindowTypeOK
<1>2. /\ phase[w] = "wait"
      /\ chan[w] # <<>> /\ Tail(chan[w]) \in Seq(Frame) /\ Head(chan[w]) \in Frame
      /\ nframes' = [nframes EXCEPT ![w] = nframes'[w]]
      /\ nframes'[w] \in Nat /\ nframes'[w] <= Len(Tail(chan[w]))
  BY <1>1, TakeFrame
<1>3. left[w] = 0
  <2>1. left[w] \in Nat /\ ~(left[w] > 0)
    BY <1>1, <1>2, Typed DEF IInv, InTimeoutLoop
  <2> QED
    BY <2>1
<1>4. /\ chan' \in [Proc -> Seq(Frame)]
      /\ chan'[w] = Tail(chan[w]) /\ chan'[q] = chan[q]
  BY <1>1, <1>2
<1>5. nframes' \in [Proc -> Nat] /\ \A p \in Proc : nframes'[p] <= Len(chan'[p])
  <2>1. nframes \in [Proc -> Nat] /\ nframes[q] <= Len(chan[q])
    BY <1>1 DEF LinkTypeOK
  <2>2. nframes'[q] = nframes[q]
    BY <1>1, <1>2, <2>1
  <2> QED
    BY <1>1, <1>2, <1>4, <2>1, <2>2
<1>6. /\ Head(chan[w]) = chan[w][1] /\ 1 \in 1 .. Len(chan[w])
      /\ \A i \in 1 .. Len(Tail(chan[w])) :
           Tail(chan[w])[i] = chan[w][i + 1] /\ i + 1 \in 1 .. Len(chan[w])
  <2>1. /\ Head(chan[w]) = chan[w][1] /\ Len(chan[w]) \in Nat \ {0}
        /\ \A i \in 1 .. Len(Tail(chan[w])) :
             Tail(chan[w])[i] = chan[w][i + 1] /\ i + 1 \in 1 .. Len(chan[w])
    BY <1>1, <1>2, TailIndex
  <2> QED
    BY <2>1
<1>7. Head(chan[w]).kind = "data" /\ OnlyData'
  <2>1. \A p \in Proc : \A i \in 1 .. Len(chan[p]) : chan[p][i].kind = "data"
    BY DEF IInv, OnlyData
  <2>2. \A i \in 1 .. Len(chan'[w]) : chan'[w][i].kind = "data"
    BY <1>4, <1>6, <2>1
  <2>3. \A i \in 1 .. Len(chan'[q]) : chan'[q][i].kind = "data"
    BY <1>1, <1>4, <2>1
  <2> QED
    BY <1>1, <1>6, <2>1, <2>2, <2>3 DEF OnlyData
<1> QED
  BY <1>2, <1>3, <1>4, <1>5, <1>7 DEF q

(* The frame as a data frame: the direction from the peer to w.            *)
LEMMA DataReceived ==
  ASSUME IInv, NEW w \in Proc, chan[w] # <<>>, Head(chan[w]).kind = "data"
  PROVE  LET q == Peer(w)
             r == Head(chan[w])
             taken == chan'[w] = Tail(chan[w]) /\ chan'[q] = chan[q]
         IN /\ CarriesExpected(w, r) => InSequence(w, r.info)
            /\ PeerUntouched(w) /\ taken /\ AcceptPacket(w, r) => Direction(q)'
            /\ PeerUntouched(w) /\ taken /\ UNCHANGED <<frame_expected, last_pkt_given>>
               => Direction(q)'
<1> DEFINE q == Peer(w)
           r == Head(chan[w])
           taken == chan'[w] = Tail(chan[w]) /\ chan'[q] = chan[q]
           nb == nbuffered[q]
<1>1. /\ TypeOK /\ q \in Proc /\ q # w /\ Proc = {w, q} /\ Peer(q) = w
      /\ nb \in Nat /\ nb \in 0 .. MAX_SEQ /\ MAX_SEQ \in Nat
  BY Typed, PeerFacts, Sizes DEF IInv
<1>2. PICK a \in Nat, e \in Nat : \E nrs, acks : Numbering(q, a, e, nrs, acks)
  BY <1>1 DEF IInv, Direction
<1>3. PICK nrs, acks : Numbering(q, a, e, nrs, acks)
  BY <1>2
<1>4. /\ ReceiverOK(frame_expected[w], last_pkt_given[w], e)
      /\ a <= e /\ e <= a + nb
      /\ DataWindow(chan[w], nrs, MAX_SEQ, MAX_SEQ, a + nb, e)
      /\ AckWindow(chan[q], acks, MAX_SEQ, a, e)
  BY <1>1, <1>3 DEF Numbering
<1>5. a + nb \in Nat /\ a + nb <= e + MAX_SEQ /\ MAX_SEQ <= MAX_SEQ /\ e + 1 \in Nat
  <2> HIDE DEF nb
  <2>1. a \in Nat /\ e \in Nat
    OBVIOUS
  <2> QED
    BY ONLY <1>1, <1>4, <2>1
<1>6. DataWindow(Tail(chan[w]), Tail(nrs), MAX_SEQ, MAX_SEQ, a + nb, e)
  <2> HIDE DEF nb
  <2> QED
    BY <1>1, <1>4, <1>5, DataDropped
<1>7. CarriesExpected(w, r) =>
        /\ e < a + nb
        /\ r.info = PktNo(e)
        /\ DataWindow(Tail(chan[w]), Tail(nrs), MAX_SEQ, MAX_SEQ, a + nb, e + 1)
  <2> SUFFICES ASSUME CarriesExpected(w, r)
               PROVE  /\ e < a + nb
                      /\ r.info = PktNo(e)
                      /\ DataWindow(Tail(chan[w]), Tail(nrs), MAX_SEQ, MAX_SEQ, a + nb, e + 1)
    OBVIOUS
  <2>1. Head(chan[w]).seq = Wrapped(e, MAX_SEQ)
    BY <1>4 DEF CarriesExpected, ReceiverOK, SeqNo
  <2>2. /\ e < a + nb
        /\ Head(chan[w]).info = Wrapped(e, MaxPkt)
        /\ DataWindow(Tail(chan[w]), Tail(nrs), MAX_SEQ, MAX_SEQ, a + nb, e + 1)
    <3> HIDE DEF nb
    <3> QED
      BY <1>1, <1>4, <1>5, <2>1, DataAccepted
  <2> QED
    BY <2>2 DEF PktNo
<1>8. CarriesExpected(w, r) => InSequence(w, r.info)
  BY <1>4, <1>7 DEF InSequence, ReceiverOK
<1>9. ASSUME PeerUntouched(w), taken, frame_expected'[w] = frame_expected[w],
             last_pkt_given'[w] = last_pkt_given[w]
      PROVE  Direction(q)'
  <2>1. Numbering(q, a, e, Tail(nrs), acks)'
    BY <1>1, <1>3, <1>6, <1>9 DEF Numbering, PeerUntouched
  <2> QED
    BY <2>1 DEF Direction
<1>10. ASSUME PeerUntouched(w), taken, AcceptPacket(w, r), CarriesExpected(w, r)
       PROVE  Direction(q)'
  <2>1. frame_expected'[w] = Inc(frame_expected[w], MAX_SEQ) /\ last_pkt_given'[w] = r.info
    BY <1>1, <1>10 DEF AcceptPacket, TypeOK, WindowTypeOK, LinkTypeOK
  <2>2. ReceiverOK(frame_expected'[w], last_pkt_given'[w], e + 1)
    BY <1>4, <1>7, <1>10, <2>1, SeqNumbers DEF ReceiverOK
  <2>3. AckWindow(chan[q], acks, MAX_SEQ, a, e + 1)
    BY <1>1, <1>4, AckExpected
  <2>4. a <= e + 1 /\ e + 1 <= a + nb
    BY <1>1, <1>4, <1>7, <1>10
  <2>5. Numbering(q, a, e + 1, Tail(nrs), acks)'
    BY <1>1, <1>3, <1>7, <1>10, <2>2, <2>3, <2>4 DEF Numbering, PeerUntouched
  <2> QED
    BY <1>5, <2>5 DEF Direction
<1>11. ~CarriesExpected(w, r) /\ AcceptPacket(w, r) =>
         frame_expected'[w] = frame_expected[w] /\ last_pkt_given'[w] = last_pkt_given[w]
  BY DEF AcceptPacket
<1>12. PeerUntouched(w) /\ taken /\ AcceptPacket(w, r) => Direction(q)'
  BY <1>9, <1>10, <1>11
<1>13. PeerUntouched(w) /\ taken /\ UNCHANGED <<frame_expected, last_pkt_given>> => Direction(q)'
  BY <1>9
<1> QED
  BY <1>8, <1>12, <1>13

(* The acknowledgement the frame carries: the direction from w to the      *)
(* peer.                                                                   *)
LEMMA AckReceived ==
  ASSUME IInv, NEW w \in Proc, left[w] = 0, chan[w] # <<>>,
         HandleAck(w, Head(chan[w]), timers[w]),
         chan'[w] = Tail(chan[w]), chan'[Peer(w)] = chan[Peer(w)],
         UNCHANGED <<next_net_pkt, next_frame_to_send, buffer, left>>,
         frame_expected'[Peer(w)] = frame_expected[Peer(w)],
         last_pkt_given'[Peer(w)] = last_pkt_given[Peer(w)]
  PROVE  /\ Direction(w)'
         /\ ack_expected' \in [Proc -> SeqNr] /\ nbuffered' \in [Proc -> 0 .. MAX_SEQ]
         /\ timers' \in [Proc -> Seq(SeqNr)]
         /\ ack_expected'[Peer(w)] = ack_expected[Peer(w)]
         /\ nbuffered'[Peer(w)] = nbuffered[Peer(w)] /\ timers'[Peer(w)] = timers[Peer(w)]
<1> DEFINE q == Peer(w)
           r == Head(chan[w])
           nb == nbuffered[w]
           ae == ack_expected[w]
           nf == next_frame_to_send[w]
           nn == next_net_pkt[w]
           n == Cardinality(Acked(w, r))
           stopped == StopTimers(timers[w], [i \in 1 .. n |-> Advance(ae, i - 1, MAX_SEQ)])
<1>1. /\ TypeOK /\ q \in Proc /\ q # w /\ Proc = {w, q}
      /\ nb \in Nat /\ nb \in 0 .. MAX_SEQ /\ MAX_SEQ \in Nat \ {0}
      /\ timers[w] \in Seq(SeqNr) /\ SeqNr = 0 .. MAX_SEQ
  BY Typed, PeerFacts, Sizes DEF IInv
<1>2. /\ nbuffered' = [nbuffered EXCEPT ![w] = nb - n]
      /\ ack_expected' = [ack_expected EXCEPT ![w] = Advance(ae, n, MAX_SEQ)]
      /\ timers' = [timers EXCEPT ![w] = stopped]
  BY <1>1 DEF HandleAck, TypeOK, WindowTypeOK, LinkTypeOK
<1>3. PICK a \in Nat, e \in Nat : \E nrs, acks : Numbering(w, a, e, nrs, acks)
  BY DEF IInv, Direction
<1>4. PICK nrs, acks : Numbering(w, a, e, nrs, acks)
  BY <1>3
<1>5. /\ SenderOK(ae, nf, nb, 0, buffer[w], nn, a)
      /\ ae = SeqNo(a) /\ nf = SeqNo((a + nb) - 0)
      /\ a <= e /\ e <= a + nb
      /\ TimersOK(timers[w], a, nb, 0)
      /\ AckWindow(chan[w], acks, MAX_SEQ, a, e)
      /\ DataWindow(chan[q], nrs, MAX_SEQ, MAX_SEQ, a + nb, e)
      /\ ReceiverOK(frame_expected[q], last_pkt_given[q], e)
  BY <1>4 DEF Numbering, SenderOK
<1> DEFINE l == acks[1]
<1>6. /\ l \in Nat /\ a <= l /\ l <= e
      /\ r.ack \in 0 .. MAX_SEQ /\ Inc(r.ack, MAX_SEQ) = Wrapped(l, MAX_SEQ)
      /\ AckWindow(Tail(chan[w]), Tail(acks), MAX_SEQ, l, e)
  BY <1>1, <1>5, AckTaken
<1> HIDE DEF nb, ae, nf, nn, l, stopped
<1>7. /\ a + nb \in Nat /\ l <= a + nb /\ a + nb <= a + MAX_SEQ /\ nf = SeqNo(a + nb)
      /\ l - a \in 0 .. nb /\ nb - (l - a) \in 0 .. MAX_SEQ
      /\ a + (l - a) = l /\ l + (nb - (l - a)) = a + nb /\ nb <= MAX_SEQ
  <2>1. a \in Nat /\ e \in Nat /\ (a + nb) - 0 = a + nb
    BY <1>1
  <2>2. /\ a + nb \in Nat /\ l <= a + nb /\ a + nb <= a + MAX_SEQ
        /\ l - a \in 0 .. nb /\ nb - (l - a) \in 0 .. MAX_SEQ
        /\ a + (l - a) = l /\ l + (nb - (l - a)) = a + nb /\ nb <= MAX_SEQ
    BY ONLY <1>1, <1>5, <1>6, <2>1
  <2> QED
    BY <1>5, <2>1, <2>2
<1>8. n = l - a
  <2>1. Acked(w, r) = AckedBy(Wrapped(a, MAX_SEQ), r.ack, Wrapped(a + nb, MAX_SEQ), MAX_SEQ)
    BY <1>1, <1>5, <1>7 DEF Acked, AckedBy, SeqNo, ae, nf
  <2>2. Cardinality(AckedBy(Wrapped(a, MAX_SEQ), r.ack, Wrapped(a + nb, MAX_SEQ), MAX_SEQ))
          = l - a
    <3> DEFINE b == a + nb
               ack == r.ack
    <3>1. /\ MAX_SEQ \in Nat \ {0} /\ a \in Nat /\ l \in Nat /\ b \in Nat
          /\ a <= l /\ l <= b /\ b <= a + MAX_SEQ
          /\ ack \in 0 .. MAX_SEQ /\ Inc(ack, MAX_SEQ) = Wrapped(l, MAX_SEQ)
      BY <1>1, <1>6, <1>7
    <3> HIDE DEF b, ack
    <3>2. Cardinality(AckedBy(Wrapped(a, MAX_SEQ), ack, Wrapped(b, MAX_SEQ), MAX_SEQ)) = l - a
      BY ONLY <3>1, AckedCount
    <3> QED
      BY <3>2 DEF b, ack
  <2> QED
    BY <2>1, <2>2
<1> HIDE DEF n
<1>9. SenderOK(Advance(ae, n, MAX_SEQ), nf, nb - n, 0, buffer[w], nn, a + n)
  BY <1>1, <1>5, <1>7, <1>8, SenderAcked
<1>10. stopped \in Seq(SeqNr) /\ TimersOK(stopped, a + n, nb - n, 0)
  <2>1. \A m \in 0 .. nb :
          LET us == StopTimers(timers[w], [i \in 1 .. m |-> Advance(SeqNo(a), i - 1, MAX_SEQ)])
          IN us \in Seq(SeqNr) /\ TimersOK(us, a + m, nb - m, 0)
    BY <1>1, <1>5, <1>7, TimersAcked
  <2> QED
    BY <1>5, <1>7, <1>8, <2>1 DEF stopped
<1>11. /\ ack_expected'[w] = Advance(ae, n, MAX_SEQ) /\ nbuffered'[w] = nb - n
       /\ timers'[w] = stopped
       /\ ack_expected'[q] = ack_expected[q] /\ nbuffered'[q] = nbuffered[q]
       /\ timers'[q] = timers[q]
  BY <1>1, <1>2 DEF TypeOK, WindowTypeOK, LinkTypeOK
<1>12. Direction(w)'
  <2>1. /\ next_frame_to_send'[w] = nf /\ buffer'[w] = buffer[w] /\ left'[w] = 0
        /\ next_net_pkt'[w] = nn
    BY DEF nf, nn
  <2>2. a + n = l
    BY <1>7, <1>8
  <2>3. Numbering(w, l, e, nrs, Tail(acks))'
    BY <1>5, <1>6, <1>7, <1>8, <1>9, <1>10, <1>11, <2>1, <2>2 DEF Numbering, q
  <2> QED
    BY <1>6, <2>3 DEF Direction
<1>13. Advance(ae, n, MAX_SEQ) \in SeqNr
  <2>1. Advance(ae, n, MAX_SEQ) = SeqNo(a + n) /\ a + n \in Nat
    BY <1>6, <1>7, <1>8, <1>9 DEF SenderOK
  <2> QED
    BY <2>1, SeqNumbers
<1>14. /\ ack_expected' \in [Proc -> SeqNr] /\ nbuffered' \in [Proc -> 0 .. MAX_SEQ]
       /\ timers' \in [Proc -> Seq(SeqNr)]
  BY <1>1, <1>2, <1>7, <1>8, <1>10, <1>13 DEF TypeOK, WindowTypeOK, LinkTypeOK
<1> QED
  BY <1>11, <1>12, <1>14 DEF q

(* The frame is damaged: its acknowledgement is not looked at.             *)
LEMMA AckIgnored ==
  ASSUME IInv, NEW w \in Proc, chan[w] # <<>>,
         chan'[w] = Tail(chan[w]), chan'[Peer(w)] = chan[Peer(w)],
         UNCHANGED <<timers, next_net_pkt, last_pkt_given, window_vars, buffer, left>>
  PROVE  Direction(w)'
<1>1. PICK a \in Nat, e \in Nat : \E nrs, acks : Numbering(w, a, e, nrs, acks)
  BY DEF IInv, Direction
<1>2. PICK nrs, acks : Numbering(w, a, e, nrs, acks)
  BY <1>1
<1>3. AckWindow(Tail(chan[w]), Tail(acks), MAX_SEQ, a, e)
  <2>1. MAX_SEQ \in Nat /\ AckWindow(chan[w], acks, MAX_SEQ, a, e)
    BY <1>2, Sizes DEF Numbering
  <2> QED
    BY <2>1, AckTaken
<1>4. Numbering(w, a, e, nrs, Tail(acks))'
  BY <1>2, <1>3 DEF Numbering, window_vars
<1> QED
  BY <1>4 DEF Direction

(* A frame arrives: its packet, perhaps, and its acknowledgement.          *)
LEMMA FrameArrivalStep ==
  ASSUME IInv, NEW w \in Proc, FrameArrival(w)
  PROVE  IInv'
<1> DEFINE q == Peer(w)
           r == Head(chan[w])
<1>1. /\ TypeOK /\ q \in Proc /\ q # w /\ Proc = {w, q}
      /\ TakesFrame(w)
      /\ UNCHANGED <<next_net_pkt, next_frame_to_send, buffer, left>>
  BY PeerFacts DEF FrameArrival, IInv
<1>2. chan[w] # <<>> /\ r.kind = "data"
  <2>1. chan[w] # <<>>
    BY <1>1, TakeFrame DEF TypeOK, WindowTypeOK
  <2>2. chan[w] \in Seq(Frame)
    BY <1>1, Typed
  <2>3. r = chan[w][1] /\ 1 \in 1 .. Len(chan[w])
    <3>1. r = chan[w][1] /\ Len(chan[w]) \in Nat \ {0}
      BY <2>1, <2>2, TailIndex
    <3> QED
      BY <3>1
  <2> QED
    BY <2>1, <2>3 DEF IInv, OnlyData
<1>3. CarriesExpected(w, r) => InSequence(w, r.info)
  BY <1>2, DataReceived
<1>4. /\ AcceptPacket(w, r)
      /\ HandleAck(w, r, timers[w])
      /\ chan' = [chan EXCEPT ![w] = Tail(@)]
      /\ phase' = [phase EXCEPT ![w] = "queue_frames"]
  BY <1>3 DEF FrameArrival, BackToWait
<1>5. /\ left[w] = 0 /\ r \in Frame
      /\ chan' \in [Proc -> Seq(Frame)]
      /\ chan'[w] = Tail(chan[w]) /\ chan'[q] = chan[q]
      /\ nframes' \in [Proc -> Nat] /\ \A p \in Proc : nframes'[p] <= Len(chan'[p])
      /\ OnlyData'
  BY <1>1, <1>4, TakesFrameStep
<1>6. /\ frame_expected'[q] = frame_expected[q] /\ last_pkt_given'[q] = last_pkt_given[q]
      /\ frame_expected' \in [Proc -> SeqNr] /\ last_pkt_given' \in [Proc -> Pkt]
  <2>1. CASE CarriesExpected(w, r)
    <3>1. /\ last_pkt_given' = [last_pkt_given EXCEPT ![w] = r.info]
          /\ frame_expected' = [frame_expected EXCEPT ![w] = Inc(@, MAX_SEQ)]
      BY <1>4, <2>1 DEF AcceptPacket
    <3>2. r.info \in Pkt /\ frame_expected[w] \in SeqNr
      BY <1>1, <1>5, Typed DEF Frame
    <3>3. Inc(frame_expected[w], MAX_SEQ) \in SeqNr
      BY <3>2, Sizes DEF Inc
    <3> QED
      BY <1>1, <3>1, <3>2, <3>3 DEF TypeOK, WindowTypeOK, LinkTypeOK
  <2>2. CASE ~CarriesExpected(w, r)
    BY <1>1, <1>4, <2>2 DEF AcceptPacket, TypeOK, WindowTypeOK, LinkTypeOK
  <2> QED
    BY <2>1, <2>2
<1>7. /\ Direction(w)'
      /\ ack_expected' \in [Proc -> SeqNr] /\ nbuffered' \in [Proc -> 0 .. MAX_SEQ]
      /\ timers' \in [Proc -> Seq(SeqNr)]
      /\ ack_expected'[q] = ack_expected[q]
      /\ nbuffered'[q] = nbuffered[q] /\ timers'[q] = timers[q]
  BY <1>1, <1>2, <1>4, <1>5, <1>6, AckReceived
<1>8. Direction(q)'
  <2>1. PeerUntouched(w)
    BY <1>1, <1>6, <1>7 DEF PeerUntouched
  <2> QED
    BY <1>2, <1>4, <1>5, <2>1, DataReceived
<1>9. TypeOK'
  <2>1. LinkTypeOK(SeqNr)'
    BY <1>1, <1>4, <1>5, <1>6, <1>7 DEF TypeOK, WindowTypeOK, LinkTypeOK
  <2> QED
    BY <1>1, <1>6, <1>7, <2>1 DEF TypeOK, WindowTypeOK
<1>10. NoProtocolError' /\ InTimeoutLoop'
  BY <1>1, <1>4 DEF IInv, NoProtocolError, InTimeoutLoop, TypeOK, WindowTypeOK, LinkTypeOK
<1> QED
  BY <1>1, <1>5, <1>7, <1>8, <1>9, <1>10 DEF IInv

(* A damaged frame is ignored.                                             *)
LEMMA CksumErrStep ==
  ASSUME IInv, NEW w \in Proc, CksumErr(w)
  PROVE  IInv'
<1> DEFINE q == Peer(w)
<1>1. /\ TypeOK /\ q \in Proc /\ q # w /\ Proc = {w, q}
      /\ TakesFrame(w)
      /\ chan' = [chan EXCEPT ![w] = Tail(@)]
      /\ phase' = [phase EXCEPT ![w] = "queue_frames"]
      /\ UNCHANGED <<timers, next_net_pkt, last_pkt_given, window_vars, buffer, left>>
  BY PeerFacts DEF CksumErr, BackToWait, IInv
<1>2. /\ chan[w] # <<>> /\ Head(chan[w]).kind = "data"
      /\ chan' \in [Proc -> Seq(Frame)]
      /\ chan'[w] = Tail(chan[w]) /\ chan'[q] = chan[q]
      /\ nframes' \in [Proc -> Nat] /\ \A p \in Proc : nframes'[p] <= Len(chan'[p])
      /\ OnlyData'
  BY <1>1, TakesFrameStep
<1>3. Direction(w)'
  BY <1>1, <1>2, AckIgnored
<1>4. Direction(q)'
  <2>1. PeerUntouched(w) /\ UNCHANGED <<frame_expected, last_pkt_given>>
    BY <1>1 DEF PeerUntouched, window_vars
  <2> QED
    BY <1>2, <2>1, DataReceived
<1>5. TypeOK'
  BY <1>1, <1>2 DEF TypeOK, WindowTypeOK, LinkTypeOK, window_vars
<1>6. NoProtocolError' /\ InTimeoutLoop'
  BY <1>1 DEF IInv, NoProtocolError, InTimeoutLoop, TypeOK, WindowTypeOK, LinkTypeOK
<1> QED
  BY <1>1, <1>2, <1>3, <1>4, <1>5, <1>6 DEF IInv

(* The steps that only move the event loop on.                             *)
LEMMA EventLoopStep ==
  ASSUME IInv, NEW w \in Proc, Start(w) \/ Wait(w)
  PROVE  IInv'
<1>1. /\ TypeOK /\ w \in Proc
      /\ UNCHANGED <<chan, timers, next_net_pkt, last_pkt_given, window_vars, buffer, left>>
      /\ \/ phase[w] = "start" /\ phase' = [phase EXCEPT ![w] = "queue_frames"]
            /\ UNCHANGED nframes
         \/ phase[w] = "queue_frames" /\ phase' = [phase EXCEPT ![w] = "wait"] /\ left[w] = 0
            /\ nframes' = [nframes EXCEPT ![w] = Len(chan[w])]
         \/ phase[w] = "wait" /\ UNCHANGED phase
            /\ nframes' = [nframes EXCEPT ![w] = Len(chan[w])]
  BY DEF Start, Wait, EntersLoop, BackToWait, QueueFrames, NoEvent, IInv
<1>2. TypeOK'
  <2>1. Len(chan[w]) \in Nat /\ Len(chan[w]) <= Len(chan[w])
    <3>1. chan[w] \in Seq(Frame)
      BY <1>1, Typed
    <3> QED
      BY <3>1
  <2> QED
    BY <1>1, <2>1 DEF TypeOK, WindowTypeOK, LinkTypeOK, window_vars
<1>3. NoProtocolError' /\ OnlyData' /\ InTimeoutLoop'
  <2>1. left[w] \in Nat
    BY <1>1, Typed
  <2> QED
    BY <1>1, <2>1 DEF IInv, NoProtocolError, OnlyData, InTimeoutLoop, TypeOK, WindowTypeOK,
                      LinkTypeOK
<1>4. ASSUME NEW p \in Proc PROVE Direction(p)'
  <2>1. PICK a \in Nat, e \in Nat : \E nrs, acks : Numbering(p, a, e, nrs, acks)
    BY DEF IInv, Direction
  <2>2. PICK nrs, acks : Numbering(p, a, e, nrs, acks)
    BY <2>1
  <2>3. Numbering(p, a, e, nrs, acks)'
    BY <1>1, <2>2 DEF Numbering, window_vars
  <2> QED
    BY <2>3 DEF Direction
<1> QED
  BY <1>2, <1>3, <1>4 DEF IInv

(* Steps of others.                                                        *)
LEMMA StutterKeeps ==
  ASSUME IInv, UNCHANGED vars
  PROVE  IInv'
<1>1. /\ UNCHANGED <<phase, chan, nframes, timers, next_net_pkt, last_pkt_given>>
      /\ UNCHANGED <<window_vars, buffer, left>>
  BY DEF vars, link_vars
<1>2. TypeOK'
  BY <1>1 DEF IInv, TypeOK, WindowTypeOK, LinkTypeOK, window_vars
<1>3. NoProtocolError' /\ OnlyData' /\ InTimeoutLoop'
  BY <1>1 DEF IInv, NoProtocolError, OnlyData, InTimeoutLoop
<1>4. ASSUME NEW p \in Proc PROVE Direction(p)'
  <2>1. PICK a \in Nat, e \in Nat : \E nrs, acks : Numbering(p, a, e, nrs, acks)
    BY DEF IInv, Direction
  <2>2. PICK nrs, acks : Numbering(p, a, e, nrs, acks)
    BY <2>1
  <2>3. Numbering(p, a, e, nrs, acks)'
    BY <1>1, <2>2 DEF Numbering, window_vars
  <2> QED
    BY <2>3 DEF Direction
<1> QED
  BY <1>2, <1>3, <1>4 DEF IInv

(* Every step of a worker, of either worker, keeps the invariant.          *)
LEMMA StepInvariant == IInv /\ [Next]_vars => IInv'
<1> SUFFICES ASSUME IInv, [Next]_vars PROVE IInv'
  OBVIOUS
<1>1. ASSUME NEW p \in Proc, NetworkLayerReady(p) PROVE IInv'
  BY <1>1, NetworkLayerReadyStep
<1>2. ASSUME NEW p \in Proc, FrameArrival(p) PROVE IInv'
  BY <1>2, FrameArrivalStep
<1>3. ASSUME NEW p \in Proc, CksumErr(p) PROVE IInv'
  BY <1>3, CksumErrStep
<1>4. ASSUME NEW p \in Proc, Timeout(p) PROVE IInv'
  BY <1>4, TimeoutStep
<1>5. ASSUME NEW p \in Proc, Resend(p) PROVE IInv'
  BY <1>5, ResendStep
<1>6. ASSUME NEW p \in Proc, Start(p) \/ Wait(p) PROVE IInv'
  BY <1>6, EventLoopStep
<1>7. CASE UNCHANGED vars
  BY <1>7, StutterKeeps
<1> QED
  BY <1>1, <1>2, <1>3, <1>4, <1>5, <1>6, <1>7 DEF Next

(* The inductive invariant: in every state of protocol 5 there are counts  *)
(* of packets that explain both windows, the frames under way and the      *)
(* timers, and no worker has stopped.                                      *)
THEOREM Invariant == Spec => []IInv
<1>1. Init => IInv
  BY InitInvariant
<1>2. IInv /\ [Next]_vars => IInv'
  BY StepInvariant
<1> QED
  BY <1>1, <1>2, PTL DEF Spec

(* Type correctness.                                                       *)
THEOREM TypeCorrect == Spec => []TypeOK
<1>1. IInv => TypeOK
  BY DEF IInv
<1> QED
  BY <1>1, Invariant, PTL

(* to_network_layer never finds a packet out of order.                     *)
THEOREM NeverProtocolError == Spec => []NoProtocolError
<1>1. IInv => NoProtocolError
  BY DEF IInv
<1> QED
  BY <1>1, Invariant, PTL

-----------------------------------------------------------------------------
(* What the counts say about the operators the properties are stated with. *)

(* The counts of the invariant are the distances the properties speak of.  *)
LEMMA CountsExplain ==
  ASSUME IInv, NEW p \in Proc, NEW a \in Nat, NEW e \in Nat, NEW nrs, NEW acks,
         Numbering(p, a, e, nrs, acks)
  PROVE  /\ UnderWay(p) = (a + nbuffered[p]) - e
         /\ PassedOn(p) = e - a
         /\ \A i \in 0 .. MAX_SEQ : Outstanding(p, i) = SeqNo(a + i)
         /\ e - a \in 0 .. nbuffered[p]
         /\ a + nbuffered[p] <= e + MAX_SEQ
<1> DEFINE nb == nbuffered[p]
<1>1. /\ nb \in Nat /\ nb <= MAX_SEQ /\ MAX_SEQ \in Nat /\ a <= e /\ e <= a + nb
      /\ Inc(last_pkt_given[Peer(p)], MaxPkt) = PktNo(e)
      /\ next_net_pkt[p] = PktNo(a + nb) /\ ack_expected[p] = SeqNo(a)
  <2>1. nb \in 0 .. MAX_SEQ /\ MAX_SEQ \in Nat
    BY Typed, Sizes DEF IInv
  <2>2. nb \in Nat /\ nb <= MAX_SEQ
    BY <2>1
  <2> QED
    BY <2>1, <2>2 DEF Numbering, ReceiverOK, SenderOK
<1>2. /\ a + nb \in Nat /\ e <= a + nb /\ a + nb <= e + MAX_SEQ
      /\ nb - ((a + nb) - e) = e - a /\ e - a \in 0 .. nb
  <2> HIDE DEF nb
  <2>1. a \in Nat /\ e \in Nat
    OBVIOUS
  <2> QED
    BY ONLY <1>1, <2>1
<1>3. UnderWay(p) = (a + nb) - e
  <2> HIDE DEF nb
  <2> QED
    BY <1>1, <1>2, SeqNumberFromTo DEF UnderWay
<1>4. PassedOn(p) = e - a
  BY <1>2, <1>3 DEF PassedOn
<1>5. ASSUME NEW i \in 0 .. MAX_SEQ
      PROVE  Outstanding(p, i) = SeqNo(a + i)
  <2>1. a + i \in Nat /\ a <= a + i /\ a + i <= a + MAX_SEQ /\ (a + i) - a = i
    BY <1>1
  <2>2. SeqNo(a + i) = Advance(SeqNo(a), i, MAX_SEQ)
    BY <2>1, SeqNumberFromTo
  <2> QED
    BY <1>1, <2>2 DEF Outstanding
<1> QED
  BY <1>2, <1>3, <1>4, <1>5

(* The two windows agree in every state.                                   *)
LEMMA WindowsFollow == IInv => WindowsAgree
<1> SUFFICES ASSUME IInv PROVE WindowsAgree
  OBVIOUS
<1>1. ASSUME NEW p \in Proc
      PROVE  /\ EdgesAgree(p)
             /\ next_frame_to_send[p] = Outstanding(p, nbuffered[p] - left[p])
             /\ \A i \in 0 .. nbuffered[p] - 1 :
                  Distance(buffer[p][Outstanding(p, i)], next_net_pkt[p], MaxPkt)
                    = nbuffered[p] - i
  <2> DEFINE nb == nbuffered[p]
             lf == left[p]
  <2>1. /\ nb \in Nat /\ nb <= MAX_SEQ /\ MAX_SEQ \in Nat /\ lf \in Nat
    <3>1. nb \in 0 .. MAX_SEQ /\ MAX_SEQ \in Nat /\ lf \in Nat
      BY Typed, Sizes DEF IInv
    <3> QED
      BY <3>1
  <2>2. PICK a \in Nat, e \in Nat : \E nrs, acks : Numbering(p, a, e, nrs, acks)
    BY DEF IInv, Direction
  <2>3. PICK nrs, acks : Numbering(p, a, e, nrs, acks)
    BY <2>2
  <2>4. /\ UnderWay(p) = (a + nb) - e
        /\ PassedOn(p) = e - a
        /\ \A i \in 0 .. MAX_SEQ : Outstanding(p, i) = SeqNo(a + i)
        /\ e - a \in 0 .. nb
    BY <2>3, CountsExplain
  <2>5. /\ frame_expected[Peer(p)] = SeqNo(e) /\ a <= e
        /\ lf <= nb /\ next_frame_to_send[p] = SeqNo((a + nb) - lf)
        /\ next_net_pkt[p] = PktNo(a + nb)
        /\ \A k \in a .. (a + nb) - 1 : buffer[p][SeqNo(k)] = PktNo(k)
    BY <2>3 DEF Numbering, SenderOK, ReceiverOK
  <2> HIDE DEF nb, lf
  <2>6. EdgesAgree(p)
    <3>1. (a + nb) - e <= nb /\ e - a \in 0 .. MAX_SEQ /\ a + (e - a) = e
      BY <2>1, <2>4, <2>5
    <3> QED
      BY <2>4, <2>5, <3>1 DEF EdgesAgree, nb
  <2>7. next_frame_to_send[p] = Outstanding(p, nb - lf)
    <3>1. nb - lf \in 0 .. MAX_SEQ /\ a + (nb - lf) = (a + nb) - lf
      BY <2>1, <2>5
    <3> QED
      BY <2>4, <2>5, <3>1
  <2>8. ASSUME NEW i \in 0 .. nb - 1
        PROVE  Distance(buffer[p][Outstanding(p, i)], next_net_pkt[p], MaxPkt) = nb - i
    <3>1. /\ i \in 0 .. MAX_SEQ /\ a + i \in a .. (a + nb) - 1
          /\ a + i \in Nat /\ a + nb \in Nat /\ a + i <= a + nb
          /\ a + nb <= (a + i) + MAX_SEQ /\ (a + nb) - (a + i) = nb - i
      BY <2>1
    <3>2. buffer[p][Outstanding(p, i)] = PktNo(a + i)
      BY <2>4, <2>5, <3>1
    <3>3. Distance(PktNo(a + i), PktNo(a + nb), MaxPkt) = (a + nb) - (a + i)
      BY <3>1, SeqNumberFromTo
    <3> QED
      BY <2>5, <3>1, <3>2, <3>3
  <2> QED
    BY <2>6, <2>7, <2>8 DEF nb, lf
<1> QED
  BY <1>1 DEF WindowsAgree, IInv

(* The two ends agree about the window, while frames are lost, damaged and *)
(* repeated, and also in the middle of a retransmission.                   *)
THEOREM WindowsAgreeTheorem == Spec => []WindowsAgree
BY WindowsFollow, Invariant, PTL

(* A frame with the expected number lies within a window of the expected   *)
(* packet, so it carries that one.                                         *)
LEMMA FramesFollow == IInv => FramesUnambiguous
<1> SUFFICES ASSUME IInv, NEW p \in Proc, NEW i \in DOMAIN chan[p],
                    CarriesExpected(p, chan[p][i])
             PROVE  InSequence(p, chan[p][i].info)
  BY DEF FramesUnambiguous
<1> DEFINE q == Peer(p)
           nb == nbuffered[q]
<1>1. /\ q \in Proc /\ Peer(q) = p /\ chan[p] \in Seq(Frame) /\ i \in 1 .. Len(chan[p])
  <2>1. chan[p] \in Seq(Frame)
    BY Typed DEF IInv
  <2> QED
    BY <2>1, PeerFacts
<1>2. PICK a \in Nat, e \in Nat : \E nrs, acks : Numbering(q, a, e, nrs, acks)
  BY <1>1 DEF IInv, Direction
<1>3. PICK nrs, acks : Numbering(q, a, e, nrs, acks)
  BY <1>2
<1>4. /\ frame_expected[p] = SeqNo(e) /\ Inc(last_pkt_given[p], MaxPkt) = PktNo(e)
      /\ DataWindow(chan[p], nrs, MAX_SEQ, MAX_SEQ, a + nb, e)
  BY <1>1, <1>3 DEF Numbering, ReceiverOK
<1>5. a + nb <= e + MAX_SEQ /\ nb \in Nat /\ MAX_SEQ \in Nat
  BY <1>1, <1>3, CountsExplain, Typed, Sizes DEF IInv
<1>6. /\ nrs[i] \in Nat /\ chan[p][i].seq = SeqNo(nrs[i]) /\ chan[p][i].info = PktNo(nrs[i])
      /\ nrs[i] < a + nb /\ e <= nrs[i] + MAX_SEQ
  <2>1. chan[p][i].kind = "data"
    BY <1>1 DEF IInv, OnlyData
  <2>2. nrs \in Seq(Nat) /\ i \in 1 .. Len(nrs)
    BY <1>1, <1>4 DEF DataWindow
  <2> QED
    BY <1>1, <1>4, <2>1, <2>2 DEF DataWindow, SeqNo, PktNo
<1>7. SeqNo(nrs[i]) = SeqNo(e)
  BY <1>4, <1>6 DEF CarriesExpected
<1>8. nrs[i] <= e + MAX_SEQ
  <2> DEFINE k == nrs[i]
  <2> HIDE DEF k, nb
  <2>1. k \in Nat /\ k < a + nb
    BY <1>6 DEF k
  <2> QED
    BY <1>5, <2>1 DEF k
<1>9. nrs[i] = e
  BY <1>6, <1>7, <1>8, SeqNumbersApart
<1> QED
  BY <1>4, <1>6, <1>9 DEF InSequence

(* MAX_SEQ + 1 numbers are enough for MAX_SEQ outstanding frames: a frame  *)
(* with the number its receiver expects carries the packet it expects.     *)
THEOREM FramesUnambiguousTheorem == Spec => []FramesUnambiguous
BY FramesFollow, Invariant, PTL

(* An acknowledgement that falls into the window is of a packet passed on. *)
LEMMA AcksFollow == IInv => AcksAreTrue
<1> SUFFICES ASSUME IInv, NEW p \in Proc, NEW i \in DOMAIN chan[p],
                    Distance(ack_expected[p], chan[p][i].ack, MAX_SEQ) < nbuffered[p]
             PROVE  Distance(ack_expected[p], chan[p][i].ack, MAX_SEQ) < PassedOn(p)
  BY DEF AcksAreTrue
<1>1. /\ chan[p] \in Seq(Frame) /\ i \in 1 .. Len(chan[p])
      /\ nbuffered[p] \in Nat /\ nbuffered[p] <= MAX_SEQ /\ MAX_SEQ \in Nat
  <2>1. chan[p] \in Seq(Frame) /\ nbuffered[p] \in 0 .. MAX_SEQ /\ MAX_SEQ \in Nat
    BY Typed, Sizes DEF IInv
  <2> QED
    BY <2>1
<1>2. PICK a \in Nat, e \in Nat : \E nrs, acks : Numbering(p, a, e, nrs, acks)
  BY DEF IInv, Direction
<1>3. PICK nrs, acks : Numbering(p, a, e, nrs, acks)
  BY <1>2
<1>4. PassedOn(p) = e - a /\ e <= a + MAX_SEQ /\ a <= e
  <2>1. PassedOn(p) = e - a /\ e - a \in 0 .. nbuffered[p]
    BY <1>3, CountsExplain
  <2>2. a <= e
    BY <1>3 DEF Numbering
  <2> QED
    BY <1>1, <2>1, <2>2
<1> DEFINE l == acks[i]
           ack == chan[p][i].ack
           ae == ack_expected[p]
<1>5. /\ l \in Nat /\ a <= l /\ l <= e /\ ack \in 0 .. MAX_SEQ /\ Inc(ack, MAX_SEQ) = SeqNo(l)
      /\ ae = SeqNo(a)
  <2>1. AckWindow(chan[p], acks, MAX_SEQ, a, e) /\ ae = SeqNo(a)
    BY <1>3 DEF Numbering, SenderOK
  <2>2. acks \in Seq(Nat) /\ i \in 1 .. Len(acks)
    BY <1>1, <2>1 DEF AckWindow
  <2> QED
    BY <1>1, <2>1, <2>2 DEF AckWindow, SeqNo
<1>6. ae \in 0 .. MAX_SEQ /\ SeqNo(l) \in 0 .. MAX_SEQ
      /\ Distance(ae, SeqNo(l), MAX_SEQ) = l - a
  <2>1. l <= a + MAX_SEQ
    <3> HIDE DEF l
    <3> QED
      BY <1>1, <1>4, <1>5
  <2> QED
    BY <1>5, <2>1, SeqNumbers, SeqNumberFromTo, Sizes
<1> HIDE DEF ack, ae, l
<1>7. Distance(ae, ack, MAX_SEQ) < nbuffered[p]
  BY DEF ae, ack
<1>8. CASE l = a
  <2>1. Distance(ae, SeqNo(l), MAX_SEQ) = 0
    BY <1>6, <1>8
  <2>2. Distance(ae, ack, MAX_SEQ) = MAX_SEQ
    BY <1>1, <1>5, <1>6, <2>1, DistanceBefore
  <2> QED
    BY <1>1, <1>7, <2>2
<1>9. CASE l # a
  <2>1. l - a > 0 /\ l - a \in Nat
    BY <1>5, <1>9
  <2>2. Distance(ae, ack, MAX_SEQ) = (l - a) - 1
    <3>1. Distance(ae, SeqNo(l), MAX_SEQ) # 0
      BY <1>6, <2>1
    <3> QED
      BY <1>1, <1>5, <1>6, <3>1, DistanceBefore
  <2>3. (l - a) - 1 < e - a
    BY <1>5
  <2> QED
    BY <1>4, <2>2, <2>3 DEF ae, ack
<1> QED
  BY <1>8, <1>9

(* A late acknowledgement is never taken for that of a newer frame.        *)
THEOREM AcksAreTrueTheorem == Spec => []AcksAreTrue
BY AcksFollow, Invariant, PTL

(* The timers of the invariant, as the property lists them.                *)
LEMMA TimersFollow == IInv => TimersMatchWindow
<1> SUFFICES ASSUME IInv, NEW p \in Proc
             PROVE  LET n == nbuffered[p]
                        behind == n - left[p]
                        old == [i \in 1 .. left[p] |-> Outstanding(p, behind + i - 1)]
                        new == [i \in 1 .. behind |-> Outstanding(p, i - 1)]
                    IN timers[p] = (IF behind = 0 /\ n > 0 THEN Tail(old) ELSE old) \o new
  BY DEF TimersMatchWindow
<1> DEFINE n == nbuffered[p]
           lf == left[p]
           behind == n - lf
           old == [i \in 1 .. lf |-> Outstanding(p, behind + i - 1)]
           new == [i \in 1 .. behind |-> Outstanding(p, i - 1)]
           first == IF behind = 0 /\ n > 0 THEN Tail(old) ELSE old
           m == Missing(n, lf)
<1>1. /\ n \in Nat /\ n <= MAX_SEQ /\ MAX_SEQ \in Nat /\ lf \in Nat
      /\ timers[p] \in Seq(SeqNr)
  <2>1. n \in 0 .. MAX_SEQ /\ MAX_SEQ \in Nat /\ lf \in Nat /\ timers[p] \in Seq(SeqNr)
    BY Typed, Sizes DEF IInv
  <2> QED
    BY <2>1
<1>2. PICK a \in Nat, e \in Nat : \E nrs, acks : Numbering(p, a, e, nrs, acks)
  BY DEF IInv, Direction
<1>3. PICK nrs, acks : Numbering(p, a, e, nrs, acks)
  BY <1>2
<1>4. TimersOK(timers[p], a, n, lf) /\ lf <= n
  BY <1>3 DEF Numbering, SenderOK
<1>5. \A i \in 0 .. MAX_SEQ : Outstanding(p, i) = SeqNo(a + i) /\ SeqNo(a + i) \in SeqNr
  <2>1. \A i \in 0 .. MAX_SEQ : Outstanding(p, i) = SeqNo(a + i)
    BY <1>3, CountsExplain
  <2>2. \A i \in 0 .. MAX_SEQ : a + i \in Nat
    BY <1>1
  <2> QED
    BY <2>1, <2>2, SeqNumbers
<1> HIDE DEF n, lf
<1>6. /\ behind \in Nat /\ behind <= n /\ behind + lf = n
      /\ m = (IF behind = 0 /\ n > 0 THEN 1 ELSE 0) /\ m \in {0, 1} /\ m <= lf
  BY <1>1, <1>4 DEF Missing
<1>7. /\ new \in Seq(SeqNr) /\ Len(new) = behind
      /\ \A i \in 1 .. behind : new[i] = SeqNo(a + (i - 1))
  <2>1. \A i \in 1 .. behind : i - 1 \in 0 .. MAX_SEQ
    BY <1>1, <1>6
  <2>2. \A i \in 1 .. behind : Outstanding(p, i - 1) = SeqNo(a + (i - 1))
                               /\ Outstanding(p, i - 1) \in SeqNr
    BY <1>5, <2>1
  <2> HIDE DEF behind
  <2> QED
    BY <1>6, <2>2
<1>8. /\ old \in Seq(SeqNr) /\ Len(old) = lf
      /\ \A i \in 1 .. lf : old[i] = SeqNo(a + (behind + i - 1))
  <2>1. \A i \in 1 .. lf : behind + i - 1 \in 0 .. MAX_SEQ
    BY <1>1, <1>6
  <2>2. \A i \in 1 .. lf : Outstanding(p, behind + i - 1) = SeqNo(a + (behind + i - 1))
                           /\ Outstanding(p, behind + i - 1) \in SeqNr
    BY <1>5, <2>1
  <2> HIDE DEF behind
  <2> QED
    BY <1>1, <2>2
<1>9. /\ first \in Seq(SeqNr) /\ Len(first) = lf - m
      /\ \A i \in 1 .. lf - m : first[i] = SeqNo(a + (behind + m + i - 1))
  <2>1. CASE m = 0
    <3>1. first = old /\ lf - m = lf
      BY <1>1, <1>6, <2>1
    <3>2. \A i \in 1 .. lf : behind + m + i - 1 = behind + i - 1
      BY <1>6, <2>1
    <3> HIDE DEF first, old, behind, m
    <3> QED
      BY <1>8, <3>1, <3>2
  <2>2. CASE m = 1
    <3>1. first = Tail(old) /\ lf \in Nat \ {0} /\ old # <<>>
      <4>1. lf \in Nat \ {0}
        BY <1>1, <1>6, <2>2
      <4>2. first = Tail(old)
        <5>1. behind = 0 /\ n > 0
          <6> HIDE DEF behind, m
          <6> QED
            BY <1>6, <2>2
        <5> HIDE DEF behind, old
        <5> QED
          BY <5>1
      <4>3. old # <<>>
        <5>1. Len(<<>>) = 0
          OBVIOUS
        <5> HIDE DEF old
        <5> QED
          BY <1>8, <4>1, <5>1
      <4> QED
        BY <4>1, <4>2, <4>3
    <3> HIDE DEF old, first
    <3>2. /\ Tail(old) \in Seq(SeqNr) /\ Len(Tail(old)) = Len(old) - 1
          /\ \A i \in 1 .. Len(Tail(old)) : Tail(old)[i] = old[i + 1] /\ i + 1 \in 1 .. Len(old)
      BY <1>8, <3>1, TailIndex
    <3>3. \A i \in 1 .. lf - m : behind + m + i - 1 = behind + (i + 1) - 1
      BY <1>6, <2>2
    <3>4. Len(Tail(old)) = lf - m
      BY <1>8, <2>2, <3>2
    <3> HIDE DEF behind, m
    <3>5. ASSUME NEW i \in 1 .. lf - m
          PROVE  first[i] = SeqNo(a + (behind + m + i - 1))
      <4>1. first[i] = old[i + 1] /\ i + 1 \in 1 .. lf
        BY <1>8, <3>1, <3>2, <3>4
      <4>2. old[i + 1] = SeqNo(a + (behind + (i + 1) - 1))
        BY <1>8, <4>1
      <4> QED
        BY <3>3, <4>1, <4>2
    <3> QED
      BY <3>1, <3>2, <3>4, <3>5
  <2> QED
    BY <1>6, <2>1, <2>2
<1>10. /\ first \o new \in Seq(SeqNr) /\ Len(first \o new) = n - m
       /\ \A i \in 1 .. n - m :
            (first \o new)[i] = IF i <= lf - m THEN first[i] ELSE new[i - (lf - m)]
  <2>1. (lf - m) + behind = n - m
    BY <1>1, <1>6
  <2> HIDE DEF first, new, behind, m
  <2>2. /\ first \o new \in Seq(SeqNr) /\ Len(first \o new) = Len(first) + Len(new)
        /\ \A i \in 1 .. Len(first) + Len(new) :
             (first \o new)[i] = IF i <= Len(first) THEN first[i] ELSE new[i - Len(first)]
    BY <1>7, <1>9, ConcatProperties
  <2> QED
    BY <1>7, <1>9, <2>1, <2>2
<1>11. Len(timers[p]) = n - m /\ \A i \in 1 .. n - m : timers[p][i] = SeqNo(TimerOf(i, a, n, lf))
  BY <1>4 DEF TimersOK
<1>12. ASSUME NEW i \in 1 .. n - m
       PROVE  timers[p][i] = (first \o new)[i]
  <2>1. CASE i <= lf - m
    <3>1. i \in 1 .. lf - m /\ TimerOf(i, a, n, lf) = a + (behind + m + i - 1)
      BY <1>1, <1>4, <1>6, <2>1 DEF TimerOf
    <3> HIDE DEF first, new, behind, m
    <3> QED
      BY <1>9, <1>10, <1>11, <2>1, <3>1
  <2>2. CASE ~(i <= lf - m)
    <3>1. /\ i - (lf - m) \in 1 .. behind
          /\ TimerOf(i, a, n, lf) = a + ((i - (lf - m)) - 1)
      BY <1>1, <1>4, <1>6, <2>2 DEF TimerOf
    <3> HIDE DEF first, new, behind, m
    <3> QED
      BY <1>7, <1>10, <1>11, <2>2, <3>1
  <2> QED
    BY <2>1, <2>2
<1>13. timers[p] = first \o new
  <2> HIDE DEF first, new, behind, m
  <2> QED
    BY <1>1, <1>10, <1>11, <1>12, SeqEqual
<1> QED
  BY <1>13 DEF n, lf

(* The running timers are those of the outstanding frames, in the order of *)
(* their numbers, so that go back n always goes back to the oldest.        *)
THEOREM TimersMatchWindowTheorem == Spec => []TimersMatchWindow
BY TimersFollow, Invariant, PTL

-----------------------------------------------------------------------------
(* Protocol 5 implements PacketStream.                                     *)

(* PacketStream counts with the same arithmetic.                           *)
LEMMA StreamCounts ==
  ASSUME NEW p \in Proc
  PROVE  /\ Stream!UnderWay(p) = UnderWay(p)
         /\ \A k, n : Stream!Advance(k, n, MaxPkt) = Advance(k, n, MaxPkt)
         /\ \A k : Stream!Inc(k, MaxPkt) = Inc(k, MaxPkt)
         /\ Stream!Peer(p) = Peer(p)
         /\ Stream!Proc = Proc
  BY DEF UnderWay, Stream!UnderWay, Stream!Distance, Stream!Inc, Stream!Advance, Stream!Peer,
         Stream!Proc, Distance, Inc, Advance, Peer, Proc

(* A worker fetches a packet only when fewer than MAX_SEQ are under way.   *)
LEMMA FetchIsFetch ==
  ASSUME IInv, NEW p \in Proc, NetworkLayerReady(p)
  PROVE  Stream!Turn(p)
<1>1. PICK a \in Nat, e \in Nat : \E nrs, acks : Numbering(p, a, e, nrs, acks)
  BY DEF IInv, Direction
<1>2. PICK nrs, acks : Numbering(p, a, e, nrs, acks)
  BY <1>1
<1>3. UnderWay(p) = (a + nbuffered[p]) - e /\ a <= e
  BY <1>2, CountsExplain DEF Numbering
<1>4. nbuffered[p] < MAX_SEQ /\ nbuffered[p] \in Nat /\ MAX_SEQ \in Nat
  BY Typed, Sizes DEF IInv, NetworkLayerReady, NetworkLayerEnabled
<1>5. Stream!UnderWay(p) < MAX_SEQ
  <2> DEFINE nb == nbuffered[p]
  <2>1. (a + nb) - e < MAX_SEQ
    <3> HIDE DEF nb
    <3>1. nb < MAX_SEQ /\ nb \in Nat /\ MAX_SEQ \in Nat /\ a <= e /\ a \in Nat /\ e \in Nat
      BY <1>3, <1>4 DEF nb
    <3> QED
      BY ONLY <3>1
  <2> QED
    BY <1>3, <2>1, StreamCounts
<1>6. Stream!Fetch(p)
  <2>1. next_net_pkt' = [next_net_pkt EXCEPT ![p] = Inc(@, MaxPkt)]
    BY DEF NetworkLayerReady
  <2> QED
    BY <1>5, <2>1, StreamCounts DEF Stream!Fetch
<1>7. UNCHANGED last_pkt_given
  BY DEF NetworkLayerReady
<1> QED
  BY <1>6, <1>7 DEF Stream!Turn

(* A worker hands the network layer the next packet of its peer, or none.  *)
LEMMA ArrivalIsGive ==
  ASSUME IInv, NEW p \in Proc, FrameArrival(p)
  PROVE  Stream!Turn(p)
<1> DEFINE q == Peer(p)
           r == Head(chan[p])
           nb == nbuffered[q]
<1>1. /\ TakesFrame(p) /\ UNCHANGED next_net_pkt /\ q \in Proc /\ Peer(q) = p
      /\ chan[p] \in Seq(Frame) /\ nb \in Nat /\ MAX_SEQ \in Nat /\ last_pkt_given[p] \in Pkt
  BY PeerFacts, Typed, Sizes DEF FrameArrival, IInv
<1>2. chan[p] # <<>> /\ r.kind = "data"
  <2>1. chan[p] # <<>>
    BY <1>1, TakeFrame DEF TypeOK, WindowTypeOK, IInv
  <2>2. r = chan[p][1] /\ 1 \in 1 .. Len(chan[p])
    <3>1. r = chan[p][1] /\ Len(chan[p]) \in Nat \ {0}
      BY <1>1, <2>1, TailIndex
    <3> QED
      BY <3>1
  <2> QED
    BY <2>1, <2>2 DEF IInv, OnlyData
<1>3. CarriesExpected(p, r) => InSequence(p, r.info)
  BY <1>2, DataReceived
<1>4. AcceptPacket(p, r)
  BY <1>3 DEF FrameArrival
<1>5. CASE ~CarriesExpected(p, r)
  BY <1>1, <1>4, <1>5 DEF AcceptPacket, Stream!Turn
<1>6. CASE CarriesExpected(p, r)
  <2>1. PICK a \in Nat, e \in Nat : \E nrs, acks : Numbering(q, a, e, nrs, acks)
    BY <1>1 DEF IInv, Direction
  <2>2. PICK nrs, acks : Numbering(q, a, e, nrs, acks)
    BY <2>1
  <2>3. /\ frame_expected[p] = SeqNo(e)
        /\ DataWindow(chan[p], nrs, MAX_SEQ, MAX_SEQ, a + nb, e)
        /\ UnderWay(q) = (a + nb) - e /\ a + nb <= e + MAX_SEQ
    BY <1>1, <2>2, CountsExplain DEF Numbering, ReceiverOK
  <2>4. e < a + nb
    <3>1. r.seq = Wrapped(e, MAX_SEQ) /\ a + nb \in Nat /\ MAX_SEQ <= MAX_SEQ
      BY <1>1, <1>6, <2>3 DEF CarriesExpected, SeqNo
    <3> HIDE DEF nb
    <3> QED
      BY <1>1, <1>2, <2>3, <3>1, DataAccepted
  <2>5. UnderWay(q) \in Nat \ {0}
    BY <1>1, <2>3, <2>4
  <2>6. r.info = Inc(last_pkt_given[p], MaxPkt)
    BY <1>3, <1>6 DEF InSequence
  <2>7. last_pkt_given' = [last_pkt_given EXCEPT ![p] = Advance(@, 1, MaxPkt)]
    <3>1. Advance(last_pkt_given[p], 1, MaxPkt) = r.info
      BY <1>1, <2>6, Distances
    <3> QED
      BY <1>4, <1>6, <3>1 DEF AcceptPacket
  <2>8. Stream!Give(p)
    <3>1. 1 \in 1 .. Stream!UnderWay(Stream!Peer(p))
      BY <1>1, <2>5, StreamCounts
    <3>2. Stream!Advance(last_pkt_given[p], 1, MaxPkt) = Advance(last_pkt_given[p], 1, MaxPkt)
      BY StreamCounts
    <3> QED
      BY <2>7, <3>1, <3>2 DEF Stream!Give
  <2> QED
    BY <1>1, <2>8 DEF Stream!Turn
<1> QED
  BY <1>5, <1>6

(* Every step is one of PacketStream or none.                              *)
LEMMA StreamStep ==
  ASSUME IInv, [Next]_vars
  PROVE  [Stream!Next]_(Stream!stream_vars)
<1> USE DEF Stream!stream_vars
<1>1. ASSUME NEW p \in Proc, NetworkLayerReady(p) \/ FrameArrival(p)
      PROVE  Stream!Turn(p)
  BY <1>1, FetchIsFetch, ArrivalIsGive
<1>2. ASSUME NEW p \in Proc, Start(p) \/ CksumErr(p) \/ Timeout(p) \/ Resend(p) \/ Wait(p)
      PROVE  UNCHANGED <<next_net_pkt, last_pkt_given>>
  BY <1>2 DEF Start, EntersLoop, CksumErr, Timeout, Resend, Wait, QueueFrames, NoEvent
<1>3. CASE UNCHANGED vars
  BY <1>3 DEF vars, link_vars
<1> QED
  BY <1>1, <1>2, <1>3, StreamCounts DEF Next, Stream!Next

(* Every behaviour of protocol 5 is one of PacketStream with a window of   *)
(* MAX_SEQ packets: in order, each exactly once, in both directions.       *)
THEOREM DeliversStreamTheorem == Spec => DeliversStream
<1>1. Init => Stream!Init
  BY DEF Init, WindowInit, LinkInit, Stream!Init, Stream!Proc, Proc
<1>2. IInv /\ [Next]_vars => [Stream!Next]_(Stream!stream_vars)
  BY StreamStep
<1> QED
  BY <1>1, <1>2, Invariant, PTL DEF Spec, DeliversStream, Stream!Spec
=============================================================================
