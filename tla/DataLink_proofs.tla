--------------------------- MODULE DataLink_proofs --------------------------
(***************************************************************************)
(* Lemmas the proofs about the protocols share: sequences index by index,  *)
(* numbers that wrap, the event loop of DataLink, its timers, and the two  *)
(* arguments about sequence numbers.  That one bit is enough (protocols 3  *)
(* and 4), and that max + 1 numbers are enough for a window of max frames  *)
(* (protocol 5), is shown for one direction of a link, without naming the  *)
(* workers at its two ends: a relation between what is under way and what  *)
(* the two ends know (LinkOK; DataWindow and AckWindow), and the lemmas    *)
(* that every send and every receive preserves it.                         *)
(***************************************************************************)
EXTENDS DataLink, SequenceTheorems, FiniteSetTheorems, WellFoundedInduction, TLAPS

(* A sequence without its head, index by index.                            *)
LEMMA TailIndex ==
  ASSUME NEW X, NEW s \in Seq(X), s # <<>>
  PROVE  /\ Head(s) = s[1] /\ Head(s) \in X
         /\ Tail(s) \in Seq(X)
         /\ Len(s) \in Nat \ {0}
         /\ Len(Tail(s)) = Len(s) - 1
         /\ \A i \in 1 .. Len(Tail(s)) : Tail(s)[i] = s[i + 1] /\ i + 1 \in 1 .. Len(s)
  BY HeadTailProperties, EmptySeq, SMT

(* A sequence with one more element, index by index.                       *)
LEMMA AppendIndex ==
  ASSUME NEW X, NEW s \in Seq(X), NEW e \in X
  PROVE  /\ Append(s, e) \in Seq(X)
         /\ Len(s) \in Nat
         /\ Len(Append(s, e)) = Len(s) + 1
         /\ \A i \in 1 .. Len(s) : Append(s, e)[i] = s[i]
         /\ Append(s, e)[Len(s) + 1] = e
  BY AppendProperties, LenProperties

(* inc goes round the packet numbers and never stands still.               *)
LEMMA IncType ==
  ASSUME NEW k \in Pkt
  PROVE  Inc(k, MaxPkt) \in Pkt /\ Inc(k, MaxPkt) # k
  BY DataLinkAssumption DEF Inc, Pkt

(* The distances PacketStream counts with.                                 *)
LEMMA Distances ==
  ASSUME NEW k \in Pkt
  PROVE  /\ Distance(k, k, MaxPkt) = 0
         /\ Distance(k, Inc(k, MaxPkt), MaxPkt) = 1
         /\ Advance(k, 1, MaxPkt) = Inc(k, MaxPkt)
  BY DataLinkAssumption DEF Distance, Advance, Inc, Pkt

-----------------------------------------------------------------------------
(* The event loop.                                                         *)

(* Starting, stopping and running out, for the one timer a worker has.     *)
LEMMA OneTimer ==
  ASSUME NEW k
  PROVE  /\ StopTimer(<<>>, k) = <<>> /\ StopTimer(<<k>>, k) = <<>>
         /\ StartTimer(<<>>, k) = <<k>> /\ StartTimer(<<k>>, k) = <<k>>
<1>1. StopTimer(<<>>, k) = <<>>
  BY DEF StopTimer
<1>2. StopTimer(<<k>>, k) = <<>>
  <2>1. (CHOOSE i \in DOMAIN <<k>> : <<k>>[i] = k) = 1
    OBVIOUS
  <2> QED
    BY <2>1 DEF StopTimer, RemoveAt
<1>3. Append(<<>>, k) = <<k>>
  OBVIOUS
<1> QED
  BY <1>1, <1>2, <1>3 DEF StartTimer

(* Taking the first frame of queue[].                                      *)
LEMMA TakeFrame ==
  ASSUME NEW Slots, LinkTypeOK(Slots), NEW p \in Proc, TakesFrame(p)
  PROVE  /\ phase[p] = "wait"
         /\ chan[p] # <<>> /\ Tail(chan[p]) \in Seq(Frame) /\ Head(chan[p]) \in Frame
         /\ nframes' = [nframes EXCEPT ![p] = nframes'[p]]
         /\ nframes'[p] \in Nat /\ nframes'[p] <= Len(Tail(chan[p]))
<1>1. /\ phase[p] = "wait" /\ nframes[p] > 0
      /\ nframes' = [nframes EXCEPT ![p] = nframes[p] - 1]
      /\ chan[p] \in Seq(Frame)
      /\ nframes[p] \in Nat /\ nframes[p] <= Len(chan[p])
  BY DEF TakesFrame, LinkTypeOK
<1>2. nframes'[p] = nframes[p] - 1
  BY <1>1 DEF LinkTypeOK
<1>3. chan[p] # <<>>
  <2>1. Len(<<>>) = 0
    OBVIOUS
  <2> QED
    BY <1>1, <2>1
<1>4. /\ Tail(chan[p]) \in Seq(Frame) /\ Head(chan[p]) \in Frame
      /\ Len(Tail(chan[p])) = Len(chan[p]) - 1 /\ Len(chan[p]) \in Nat
  BY <1>1, <1>3, TailIndex
<1>5. nframes' = [nframes EXCEPT ![p] = nframes'[p]]
  BY <1>1, <1>2
<1>6. nframes'[p] \in Nat /\ nframes'[p] <= Len(Tail(chan[p]))
  BY <1>1, <1>2, <1>4
<1> QED
  BY <1>1, <1>3, <1>4, <1>5, <1>6

-----------------------------------------------------------------------------
(* One bit of sequence number, for one direction of a link.                *)

Bit == 0 .. 1

(* frames and acks are under way to the receiver and to the sender; the    *)
(* sender sends packet buf with number nxt; the receiver expects number    *)
(* exp and last passed on packet last.                                     *)
LinkTyped(frames, acks, nxt, exp, buf, last) ==
  /\ frames \in Seq(Frame) /\ acks \in Seq(Frame)
  /\ nxt \in Bit /\ exp \in Bit /\ buf \in Pkt /\ last \in Pkt

FramesOK(frames, nxt, exp, buf) ==
  \A i \in 1 .. Len(frames) :
    /\ frames[i].seq = nxt => frames[i].info = buf
    /\ \A j \in 1 .. Len(frames) : i < j /\ frames[i].seq = nxt => frames[j].seq = nxt
    /\ exp # nxt => frames[i].seq = nxt

AcksOK(acks, nxt, exp) ==
  \A i \in 1 .. Len(acks) :
    /\ \A j \in 1 .. Len(acks) : i < j /\ acks[i].ack = nxt => acks[j].ack = nxt
    /\ acks[i].ack = nxt => exp # nxt

EndsOK(nxt, exp, buf, last) ==
  buf = IF exp = nxt THEN Inc(last, MaxPkt) ELSE last

LinkOK(frames, acks, nxt, exp, buf, last) ==
  /\ LinkTyped(frames, acks, nxt, exp, buf, last)
  /\ FramesOK(frames, nxt, exp, buf)
  /\ AcksOK(acks, nxt, exp)
  /\ EndsOK(nxt, exp, buf, last)

(* The sender sends its current packet with its current number.            *)
LEMMA FrameSent ==
  ASSUME NEW frames, NEW acks, NEW nxt, NEW exp, NEW buf, NEW last,
         LinkOK(frames, acks, nxt, exp, buf, last),
         NEW f \in Frame, f.seq = nxt, f.info = buf
  PROVE  LinkOK(Append(frames, f), acks, nxt, exp, buf, last)
<1> DEFINE fs == Append(frames, f)
<1>1. frames \in Seq(Frame)
  BY DEF LinkOK, LinkTyped
<1>2. /\ fs \in Seq(Frame) /\ Len(frames) \in Nat /\ Len(fs) = Len(frames) + 1
      /\ \A i \in 1 .. Len(frames) : fs[i] = frames[i]
      /\ fs[Len(frames) + 1] = f
  BY <1>1, AppendIndex
<1> HIDE DEF fs
<1>3. \A i \in 1 .. Len(fs) : i \in 1 .. Len(frames) \/ fs[i] = f
  BY <1>2
<1>4. FramesOK(fs, nxt, exp, buf)
  BY <1>2, <1>3 DEF LinkOK, FramesOK
<1> QED
  BY <1>2, <1>4 DEF LinkOK, LinkTyped, fs

(* The receiver acknowledges the packet it last passed on.                 *)
LEMMA AckSent ==
  ASSUME NEW frames, NEW acks, NEW nxt, NEW exp, NEW buf, NEW last,
         LinkOK(frames, acks, nxt, exp, buf, last),
         NEW a \in Frame, a.ack = 1 - exp
  PROVE  LinkOK(frames, Append(acks, a), nxt, exp, buf, last)
<1> DEFINE ks == Append(acks, a)
<1>1. acks \in Seq(Frame) /\ nxt \in Bit /\ exp \in Bit
  BY DEF LinkOK, LinkTyped
<1>2. /\ ks \in Seq(Frame) /\ Len(acks) \in Nat /\ Len(ks) = Len(acks) + 1
      /\ \A i \in 1 .. Len(acks) : ks[i] = acks[i]
      /\ ks[Len(acks) + 1] = a
  BY <1>1, AppendIndex
<1> HIDE DEF ks
<1>3. \A i \in 1 .. Len(ks) : i \in 1 .. Len(acks) \/ ks[i] = a
  BY <1>2
<1>4. a.ack = nxt <=> exp # nxt
  BY <1>1 DEF Bit
<1>5. AcksOK(ks, nxt, exp)
  BY <1>2, <1>3, <1>4 DEF LinkOK, AcksOK
<1> QED
  BY <1>2, <1>5 DEF LinkOK, LinkTyped, ks

(* A frame is dropped: it was damaged, or its number is not the expected.  *)
LEMMA DropFrame ==
  ASSUME NEW frames, NEW acks, NEW nxt, NEW exp, NEW buf, NEW last,
         LinkOK(frames, acks, nxt, exp, buf, last), frames # <<>>
  PROVE  LinkOK(Tail(frames), acks, nxt, exp, buf, last)
<1> DEFINE fs == Tail(frames)
<1>1. frames \in Seq(Frame)
  BY DEF LinkOK, LinkTyped
<1>2. /\ fs \in Seq(Frame) /\ Len(frames) \in Nat \ {0} /\ Len(fs) = Len(frames) - 1
      /\ \A i \in 1 .. Len(fs) : fs[i] = frames[i + 1] /\ i + 1 \in 1 .. Len(frames)
  BY <1>1, TailIndex
<1> HIDE DEF fs
<1>3. FramesOK(fs, nxt, exp, buf)
  <2>1. \A i \in 1 .. Len(fs), j \in 1 .. Len(fs) :
          i < j => i + 1 < j + 1 /\ i + 1 \in 1 .. Len(frames) /\ j + 1 \in 1 .. Len(frames)
    BY <1>2
  <2> QED
    BY <1>2, <2>1 DEF LinkOK, FramesOK
<1> QED
  BY <1>2, <1>3 DEF LinkOK, LinkTyped, fs

(* An acknowledgement is dropped: it was damaged, or it is an old one.     *)
LEMMA DropAck ==
  ASSUME NEW frames, NEW acks, NEW nxt, NEW exp, NEW buf, NEW last,
         LinkOK(frames, acks, nxt, exp, buf, last), acks # <<>>
  PROVE  LinkOK(frames, Tail(acks), nxt, exp, buf, last)
<1> DEFINE ks == Tail(acks)
<1>1. acks \in Seq(Frame)
  BY DEF LinkOK, LinkTyped
<1>2. /\ ks \in Seq(Frame) /\ Len(acks) \in Nat \ {0} /\ Len(ks) = Len(acks) - 1
      /\ \A i \in 1 .. Len(ks) : ks[i] = acks[i + 1] /\ i + 1 \in 1 .. Len(acks)
  BY <1>1, TailIndex
<1> HIDE DEF ks
<1>3. AcksOK(ks, nxt, exp)
  <2>1. \A i \in 1 .. Len(ks), j \in 1 .. Len(ks) :
          i < j => i + 1 < j + 1 /\ i + 1 \in 1 .. Len(acks) /\ j + 1 \in 1 .. Len(acks)
    BY <1>2
  <2> QED
    BY <1>2, <2>1 DEF LinkOK, AcksOK
<1> QED
  BY <1>2, <1>3 DEF LinkOK, LinkTyped, ks

(* The receiver accepts the frame it expects.  Its packet is the next one, *)
(* and now the receiver is ahead of the sender.                            *)
LEMMA AcceptFrame ==
  ASSUME NEW frames, NEW acks, NEW nxt, NEW exp, NEW buf, NEW last,
         LinkOK(frames, acks, nxt, exp, buf, last), frames # <<>>,
         Head(frames).seq = exp
  PROVE  /\ exp = nxt
         /\ Head(frames).info = Inc(last, MaxPkt)
         /\ LinkOK(Tail(frames), acks, nxt, Inc(exp, 1), buf, Head(frames).info)
<1> DEFINE fs == Tail(frames)
           r == Head(frames)
<1>1. /\ frames \in Seq(Frame) /\ nxt \in Bit /\ exp \in Bit
      /\ buf \in Pkt /\ last \in Pkt
  BY DEF LinkOK, LinkTyped
<1>2. /\ fs \in Seq(Frame) /\ Len(frames) \in Nat \ {0} /\ Len(fs) = Len(frames) - 1
      /\ \A i \in 1 .. Len(fs) : fs[i] = frames[i + 1] /\ i + 1 \in 1 .. Len(frames)
      /\ r = frames[1]
  BY <1>1, TailIndex
<1>3. r.seq = exp
  OBVIOUS
<1> HIDE DEF fs, r
<1>4. exp = nxt
  BY <1>2, <1>3 DEF LinkOK, FramesOK
<1>5. r.info = buf
  BY <1>2, <1>3, <1>4 DEF LinkOK, FramesOK
<1>6. buf = Inc(last, MaxPkt)
  BY <1>4 DEF LinkOK, EndsOK
<1>7. Inc(exp, 1) \in Bit /\ Inc(exp, 1) # nxt
  BY <1>1, <1>4 DEF Inc, Bit
<1>8. FramesOK(fs, nxt, Inc(exp, 1), buf)
  <2>1. \A i \in 1 .. Len(fs) : fs[i].seq = nxt
    BY <1>2, <1>3, <1>4 DEF LinkOK, FramesOK
  <2> QED
    BY <1>2, <2>1 DEF LinkOK, FramesOK
<1>9. AcksOK(acks, nxt, Inc(exp, 1))
  BY <1>7 DEF LinkOK, AcksOK
<1>10. EndsOK(nxt, Inc(exp, 1), buf, r.info)
  BY <1>5, <1>7 DEF EndsOK
<1>11. LinkTyped(fs, acks, nxt, Inc(exp, 1), buf, r.info)
  BY <1>1, <1>2, <1>5, <1>7 DEF LinkOK, LinkTyped
<1> QED
  BY <1>4, <1>5, <1>6, <1>8, <1>9, <1>10, <1>11 DEF LinkOK, fs, r

(* The sender gets the acknowledgement of its current frame.  The receiver *)
(* has its packet, so the sender may go on to the next one, and nothing    *)
(* that is under way will be mistaken for it or for its acknowledgement.   *)
LEMMA AcceptAck ==
  ASSUME NEW frames, NEW acks, NEW nxt, NEW exp, NEW buf, NEW last,
         LinkOK(frames, acks, nxt, exp, buf, last), acks # <<>>,
         Head(acks).ack = nxt
  PROVE  /\ exp # nxt /\ last = buf
         /\ LinkOK(frames, Tail(acks), Inc(nxt, 1), exp, Inc(buf, MaxPkt), last)
<1> DEFINE ks == Tail(acks)
           nxt2 == Inc(nxt, 1)
           buf2 == Inc(buf, MaxPkt)
<1>1. /\ acks \in Seq(Frame) /\ frames \in Seq(Frame) /\ nxt \in Bit /\ exp \in Bit
      /\ buf \in Pkt /\ last \in Pkt
  BY DEF LinkOK, LinkTyped
<1>2. /\ ks \in Seq(Frame) /\ Len(acks) \in Nat \ {0} /\ Len(ks) = Len(acks) - 1
      /\ \A i \in 1 .. Len(ks) : ks[i] = acks[i + 1] /\ i + 1 \in 1 .. Len(acks)
      /\ acks[1].ack = nxt
  BY <1>1, TailIndex
<1> HIDE DEF ks
<1>3. exp # nxt
  BY <1>2 DEF LinkOK, AcksOK
<1>4. last = buf
  BY <1>3 DEF LinkOK, EndsOK
<1>5. nxt2 \in Bit /\ nxt2 # nxt /\ exp = nxt2
  BY <1>1, <1>3 DEF Inc, Bit
<1>6. buf2 \in Pkt
  BY <1>1, IncType
<1> HIDE DEF nxt2
<1>7. FramesOK(frames, nxt2, exp, buf2)
  BY <1>3, <1>5 DEF LinkOK, FramesOK
<1>8. AcksOK(ks, nxt2, exp)
  <2>1. \A i \in 1 .. Len(ks) : ks[i].ack = nxt
    BY <1>2 DEF LinkOK, AcksOK
  <2> QED
    BY <1>5, <2>1 DEF AcksOK
<1>9. EndsOK(nxt2, exp, buf2, last)
  BY <1>4, <1>5 DEF EndsOK
<1>10. LinkTyped(frames, ks, nxt2, exp, buf2, last)
  BY <1>1, <1>2, <1>5, <1>6 DEF LinkTyped
<1> QED
  BY <1>3, <1>4, <1>7, <1>8, <1>9, <1>10 DEF LinkOK, ks, nxt2

-----------------------------------------------------------------------------
(* Sequence numbers and packet numbers as what is left of numbers that do  *)
(* not wrap: a protocol can be reasoned about as if it counted for ever.   *)

Wrapped(k, max) == k % (max + 1)

(* Division with remainder.                                                *)
LEMMA Quotient ==
  ASSUME NEW w \in Nat \ {0}, NEW k \in Nat
  PROVE  /\ k % w \in 0 .. w - 1
         /\ \E q \in Nat : k = w * q + (k % w)
<1>1. k \div w \in Nat /\ k = w * (k \div w) + (k % w)
  OBVIOUS
<1>2. k % w \in 0 .. w - 1
  OBVIOUS
<1> QED
  BY <1>1, <1>2

(* The remainder of a number given by its quotient.                        *)
LEMMA Remainder ==
  ASSUME NEW w \in Nat \ {0}, NEW q \in Nat, NEW x \in 0 .. w - 1
  PROVE  (w * q + x) % w = x
OBVIOUS

(* The wrapped numbers of k and of d packets later are d apart.            *)
LEMMA WrappedAhead ==
  ASSUME NEW max \in Nat, NEW k \in Nat, NEW d \in 0 .. max
  PROVE  /\ Wrapped(k, max) \in 0 .. max
         /\ Wrapped(k + d, max) = Advance(Wrapped(k, max), d, max)
         /\ Distance(Wrapped(k, max), Wrapped(k + d, max), max) = d
<1> DEFINE w == max + 1
           r == k % w
<1>1. w \in Nat \ {0} /\ d < w
  OBVIOUS
<1> HIDE DEF w
<1>2. PICK q \in Nat : k = w * q + r
  BY <1>1, Quotient
<1>3. r \in 0 .. w - 1
  BY <1>1, Quotient
<1> HIDE DEF r
<1>4. r + d < w => (k + d) % w = r + d
  <2> SUFFICES ASSUME r + d < w PROVE (k + d) % w = r + d
    OBVIOUS
  <2>1. k + d = w * q + (r + d) /\ r + d \in 0 .. w - 1
    BY <1>1, <1>2, <1>3
  <2> QED
    BY <1>1, <2>1, Remainder
<1>5. ~(r + d < w) => (k + d) % w = (r + d) - w
  <2> SUFFICES ASSUME ~(r + d < w) PROVE (k + d) % w = (r + d) - w
    OBVIOUS
  <2>1. w * (q + 1) = w * q + w
    BY <1>1
  <2>2. k + d = w * (q + 1) + ((r + d) - w) /\ (r + d) - w \in 0 .. w - 1 /\ q + 1 \in Nat
    BY <1>1, <1>2, <1>3, <2>1
  <2> QED
    BY <1>1, <2>2, Remainder
<1>6. /\ Wrapped(k, max) = r /\ r \in 0 .. max /\ w = max + 1
      /\ Wrapped(k + d, max) = (k + d) % w
  BY <1>3 DEF Wrapped, w, r
<1> QED
  BY <1>4, <1>5, <1>6 DEF Advance, Distance

(* The same for two numbers at most max apart.                             *)
LEMMA WrappedFromTo ==
  ASSUME NEW max \in Nat, NEW k \in Nat, NEW l \in Nat, k <= l, l <= k + max
  PROVE  /\ Wrapped(k, max) \in 0 .. max /\ Wrapped(l, max) \in 0 .. max
         /\ l - k \in 0 .. max
         /\ Wrapped(l, max) = Advance(Wrapped(k, max), l - k, max)
         /\ Distance(Wrapped(k, max), Wrapped(l, max), max) = l - k
<1>1. PICK d \in 0 .. max : l = k + d /\ l - k = d
  <2>1. l - k \in 0 .. max /\ l = k + (l - k)
    OBVIOUS
  <2> QED
    BY <2>1
<1>2. /\ Wrapped(k, max) \in 0 .. max
      /\ Wrapped(k + d, max) = Advance(Wrapped(k, max), d, max)
      /\ Distance(Wrapped(k, max), Wrapped(k + d, max), max) = d
  BY WrappedAhead
<1>3. Wrapped(l, max) \in 0 .. max
  BY 0 \in 0 .. max, WrappedAhead
<1> QED
  BY <1>1, <1>2, <1>3

(* inc on a wrapped number is the wrapped next number.                     *)
LEMMA WrappedNext ==
  ASSUME NEW max \in Nat \ {0}, NEW k \in Nat
  PROVE  /\ Wrapped(k, max) \in 0 .. max
         /\ Inc(Wrapped(k, max), max) = Wrapped(k + 1, max)
<1>1. /\ Wrapped(k, max) \in 0 .. max
      /\ Wrapped(k + 1, max) = Advance(Wrapped(k, max), 1, max)
  BY WrappedAhead
<1> QED
  BY <1>1 DEF Advance, Inc

(* The distance to the number before another one.                          *)
LEMMA DistanceBefore ==
  ASSUME NEW max \in Nat, NEW x \in 0 .. max, NEW y \in 0 .. max
  PROVE  Distance(x, y, max) = IF Distance(x, Inc(y, max), max) = 0
                               THEN max ELSE Distance(x, Inc(y, max), max) - 1
BY DEF Distance, Inc

(* Numbers at most max apart are told apart.                               *)
LEMMA WrappedApart ==
  ASSUME NEW max \in Nat, NEW k \in Nat, NEW l \in Nat,
         k <= l + max, l <= k + max, Wrapped(k, max) = Wrapped(l, max)
  PROVE  k = l
<1>1. CASE k <= l
  BY <1>1, WrappedFromTo DEF Distance
<1>2. CASE l <= k
  BY <1>2, WrappedFromTo DEF Distance
<1> QED
  BY <1>1, <1>2

(* max + 1 numbers further the number is the same.                         *)
LEMMA WrappedRound ==
  ASSUME NEW max \in Nat, NEW k \in Nat
  PROVE  Wrapped(k + (max + 1), max) = Wrapped(k, max)
<1> DEFINE w == max + 1
           r == k % w
<1>1. w \in Nat \ {0}
  OBVIOUS
<1> HIDE DEF w
<1>2. PICK q \in Nat : k = w * q + r
  BY <1>1, Quotient
<1>3. r \in 0 .. w - 1
  BY <1>1, Quotient
<1> HIDE DEF r
<1>4. k + w = w * (q + 1) + r /\ q + 1 \in Nat
  <2>1. w * (q + 1) = w * q + w
    BY <1>1
  <2> QED
    BY <1>1, <1>2, <1>3, <2>1
<1>5. (k + w) % w = r
  BY <1>1, <1>3, <1>4, Remainder
<1> QED
  BY <1>5 DEF Wrapped, w, r

(* Half of max + 1 numbers, when max is odd.                               *)
LEMMA WrappedHalf ==
  ASSUME NEW w \in Nat \ {0}, NEW k \in Nat
  PROVE  Wrapped(k, 2 * w - 1) % w = Wrapped(k, w - 1)
<1> DEFINE v == 2 * w
           r == k % v
           s == r % w
<1>1. v \in Nat \ {0} /\ v = w + w
  OBVIOUS
<1> HIDE DEF v
<1>2. PICK q \in Nat : k = v * q + r
  BY <1>1, Quotient
<1>3. r \in 0 .. v - 1
  BY <1>1, Quotient
<1> HIDE DEF r
<1>4. r \in Nat
  BY <1>1, <1>3
<1>5. s \in 0 .. w - 1 /\ \E c \in Nat : r = w * c + s
  BY <1>4, Quotient
<1> HIDE DEF s
<1> PICK c \in Nat : r = w * c + s
  BY <1>5
<1>6. k = w * ((q + q) + c) + s /\ (q + q) + c \in Nat
  <2>1. v * q = w * (q + q)
    BY <1>1
  <2>2. w * ((q + q) + c) = w * (q + q) + w * c
    OBVIOUS
  <2>3. w * (q + q) \in Nat /\ w * c \in Nat
    OBVIOUS
  <2> QED
    BY <1>2, <1>5, <2>1, <2>2, <2>3
<1>7. k % w = s
  BY <1>5, <1>6, Remainder
<1>8. Wrapped(k, 2 * w - 1) = r /\ Wrapped(k, w - 1) = k % w
  <2>1. (2 * w - 1) + 1 = v /\ (w - 1) + 1 = w
    BY DEF v
  <2> QED
    BY <2>1 DEF Wrapped, r
<1> QED
  BY <1>7, <1>8 DEF s

(* What between means, and the two ways round.                             *)
LEMMA BetweenIsCloser ==
  ASSUME NEW max \in Nat, NEW a \in 0 .. max, NEW b \in 0 .. max, NEW c \in 0 .. max
  PROVE  Between(a, b, c) <=> Distance(a, b, max) < Distance(a, c, max)
BY DEF Between, Distance

(* There and back is once round the numbers.                               *)
LEMMA DistanceAround ==
  ASSUME NEW max \in Nat, NEW a \in 0 .. max, NEW b \in 0 .. max, a # b
  PROVE  Distance(a, b, max) = (max + 1) - Distance(b, a, max)
BY DEF Distance

-----------------------------------------------------------------------------
(* A window of w frames, for one direction of a link.  Frame i under way   *)
(* to the receiver is the nrs[i]-th of all, counted without wrapping; its  *)
(* sequence number is that number wrapped at max and its packet is that    *)
(* number wrapped at MaxPkt.  The next frame the sender would number is    *)
(* `top`, the receiver expects `expected`.                                 *)
(*                                                                         *)
(* What makes w numbers enough is the last two lines: when a frame was     *)
(* sent it was in the window, so frames before it in the channel, and the  *)
(* receiver once it has taken them all, are less than a window ahead.      *)
DataWindow(frames, nrs, max, w, top, expected) ==
  /\ frames \in Seq(Frame) /\ nrs \in Seq(Nat) /\ Len(nrs) = Len(frames)
  /\ \A i \in 1 .. Len(frames) :
       frames[i].kind = "data" =>
         /\ frames[i].seq = Wrapped(nrs[i], max)
         /\ frames[i].info = Wrapped(nrs[i], MaxPkt)
         /\ nrs[i] < top
         /\ expected <= nrs[i] + w
         /\ \A j \in 1 .. Len(frames) :
              i < j /\ frames[j].kind = "data" => nrs[i] < nrs[j] + w

(* The acknowledgements under way to the sender, whose oldest outstanding  *)
(* frame is `oldest`: the i-th was sent when the receiver expected         *)
(* acks[i].                                                                *)
AckWindow(frames, acks, max, oldest, expected) ==
  /\ frames \in Seq(Frame) /\ acks \in Seq(Nat) /\ Len(acks) = Len(frames)
  /\ \A i \in 1 .. Len(frames) :
       /\ frames[i].ack \in 0 .. max
       /\ Inc(frames[i].ack, max) = Wrapped(acks[i], max)
       /\ oldest <= acks[i] /\ acks[i] <= expected
       /\ \A j \in 1 .. Len(frames) : i < j => acks[i] <= acks[j]

(* The sender sends frame k of its window.                                 *)
LEMMA DataSent ==
  ASSUME NEW frames, NEW nrs, NEW max \in Nat, NEW w \in Nat,
         NEW top \in Nat, NEW expected \in Nat,
         DataWindow(frames, nrs, max, w, top, expected),
         NEW f \in Frame, NEW k \in Nat, top <= k + w, expected <= k + w, k < top,
         f.kind = "data" => f.seq = Wrapped(k, max) /\ f.info = Wrapped(k, MaxPkt)
  PROVE  DataWindow(Append(frames, f), Append(nrs, k), max, w, top, expected)
<1> DEFINE fs == Append(frames, f)
           ks == Append(nrs, k)
<1>1. frames \in Seq(Frame) /\ nrs \in Seq(Nat) /\ Len(nrs) = Len(frames)
  BY DEF DataWindow
<1>2. /\ fs \in Seq(Frame) /\ Len(frames) \in Nat /\ Len(fs) = Len(frames) + 1
      /\ \A i \in 1 .. Len(frames) : fs[i] = frames[i]
      /\ fs[Len(frames) + 1] = f
  BY <1>1, AppendIndex
<1>3. /\ ks \in Seq(Nat) /\ Len(ks) = Len(nrs) + 1
      /\ \A i \in 1 .. Len(nrs) : ks[i] = nrs[i] /\ nrs[i] \in Nat
      /\ ks[Len(nrs) + 1] = k
  BY <1>1, AppendIndex
<1> HIDE DEF fs, ks
<1>4. ASSUME NEW i \in 1 .. Len(fs), fs[i].kind = "data"
      PROVE  /\ fs[i].seq = Wrapped(ks[i], max)
             /\ fs[i].info = Wrapped(ks[i], MaxPkt)
             /\ ks[i] < top
             /\ expected <= ks[i] + w
             /\ \A j \in 1 .. Len(fs) :
                  i < j /\ fs[j].kind = "data" => ks[i] < ks[j] + w
  <2>1. CASE i = Len(fs)
    <3>1. fs[i] = f /\ ks[i] = k /\ \A j \in 1 .. Len(fs) : ~(i < j)
      BY <1>1, <1>2, <1>3, <2>1
    <3> QED
      BY <1>4, <3>1
  <2>2. CASE i # Len(fs)
    <3>1. i \in 1 .. Len(frames) /\ i \in 1 .. Len(nrs)
      BY <1>1, <1>2, <2>2
    <3>2. fs[i] = frames[i] /\ ks[i] = nrs[i] /\ nrs[i] \in Nat
      BY <1>2, <1>3, <3>1
    <3>3. /\ fs[i].seq = Wrapped(ks[i], max)
          /\ fs[i].info = Wrapped(ks[i], MaxPkt)
          /\ ks[i] < top
          /\ expected <= ks[i] + w
      BY <1>4, <3>1, <3>2 DEF DataWindow
    <3>4. ASSUME NEW j \in 1 .. Len(fs), i < j, fs[j].kind = "data"
          PROVE  ks[i] < ks[j] + w
      <4>1. CASE j = Len(fs)
        BY <1>1, <1>2, <1>3, <3>2, <3>3, <4>1
      <4>2. CASE j # Len(fs)
        <5>1. j \in 1 .. Len(frames) /\ j \in 1 .. Len(nrs)
          BY <1>1, <1>2, <4>2
        <5> QED
          BY <1>2, <1>3, <1>4, <3>1, <3>2, <3>4, <5>1 DEF DataWindow
      <4> QED
        BY <4>1, <4>2
    <3> QED
      BY <3>3, <3>4
  <2> QED
    BY <2>1, <2>2
<1> QED
  BY <1>1, <1>2, <1>3, <1>4 DEF DataWindow, fs, ks

(* The same when the frame may be lost.                                    *)
LEMMA DataTransmitted ==
  ASSUME NEW frames, NEW nrs, NEW max \in Nat, NEW w \in Nat,
         NEW top \in Nat, NEW expected \in Nat,
         DataWindow(frames, nrs, max, w, top, expected),
         NEW f \in Frame, NEW k \in Nat, top <= k + w, expected <= k + w, k < top,
         f.kind = "data" => f.seq = Wrapped(k, max) /\ f.info = Wrapped(k, MaxPkt),
         NEW lost
  PROVE  \E nrs2 : DataWindow(Transmit(frames, f, lost), nrs2, max, w, top, expected)
<1>1. DataWindow(Append(frames, f), Append(nrs, k), max, w, top, expected)
  BY DataSent
<1>2. Transmit(frames, f, lost) = frames \/ Transmit(frames, f, lost) = Append(frames, f)
  BY DEF Transmit
<1> QED
  BY <1>1, <1>2

(* The sender numbers another frame.                                       *)
LEMMA DataNumbered ==
  ASSUME NEW frames, NEW nrs, NEW max \in Nat, NEW w \in Nat,
         NEW top \in Nat, NEW expected \in Nat,
         DataWindow(frames, nrs, max, w, top, expected)
  PROVE  DataWindow(frames, nrs, max, w, top + 1, expected)
<1>1. \A i \in 1 .. Len(frames) : nrs[i] \in Nat
  BY DEF DataWindow
<1>2. \A i \in 1 .. Len(frames) : nrs[i] < top => nrs[i] < top + 1
  BY <1>1
<1> QED
  BY <1>2 DEF DataWindow

(* A frame leaves the channel.                                             *)
LEMMA DataDropped ==
  ASSUME NEW frames, NEW nrs, NEW max \in Nat, NEW w \in Nat,
         NEW top \in Nat, NEW expected \in Nat,
         DataWindow(frames, nrs, max, w, top, expected), frames # <<>>
  PROVE  DataWindow(Tail(frames), Tail(nrs), max, w, top, expected)
<1> DEFINE fs == Tail(frames)
           ks == Tail(nrs)
<1>1. frames \in Seq(Frame) /\ nrs \in Seq(Nat) /\ Len(nrs) = Len(frames)
  BY DEF DataWindow
<1>2. /\ fs \in Seq(Frame) /\ Len(frames) \in Nat \ {0} /\ Len(fs) = Len(frames) - 1
      /\ \A i \in 1 .. Len(fs) : fs[i] = frames[i + 1] /\ i + 1 \in 1 .. Len(frames)
  BY <1>1, TailIndex
<1>3. nrs # <<>>
  BY <1>1, <1>2
<1>4. /\ ks \in Seq(Nat) /\ Len(ks) = Len(nrs) - 1
      /\ \A i \in 1 .. Len(ks) : ks[i] = nrs[i + 1]
  BY <1>1, <1>3, TailIndex
<1> HIDE DEF fs, ks
<1>5. \A i \in 1 .. Len(fs), j \in 1 .. Len(fs) : i < j => i + 1 < j + 1
  BY <1>2
<1>6. \A i \in 1 .. Len(fs) : ks[i] = nrs[i + 1]
  BY <1>1, <1>2, <1>4
<1>7. /\ fs \in Seq(Frame) /\ ks \in Seq(Nat) /\ Len(ks) = Len(fs)
  BY <1>1, <1>2, <1>4
<1> QED
  BY <1>2, <1>5, <1>6, <1>7 DEF DataWindow, fs, ks

(* A frame of another kind is sent.                                        *)
LEMMA OtherSent ==
  ASSUME NEW frames, NEW nrs, NEW max \in Nat, NEW w \in Nat,
         NEW top \in Nat, NEW expected \in Nat,
         DataWindow(frames, nrs, max, w, top, expected),
         NEW f \in Frame, f.kind # "data", NEW lost
  PROVE  \E nrs2 : DataWindow(Transmit(frames, f, lost), nrs2, max, w, top, expected)
<1> DEFINE fs == Append(frames, f)
           ks == Append(nrs, 0)
<1>1. frames \in Seq(Frame) /\ nrs \in Seq(Nat) /\ Len(nrs) = Len(frames)
  BY DEF DataWindow
<1>2. /\ fs \in Seq(Frame) /\ Len(frames) \in Nat /\ Len(fs) = Len(frames) + 1
      /\ \A i \in 1 .. Len(frames) : fs[i] = frames[i]
      /\ fs[Len(frames) + 1] = f
  BY <1>1, AppendIndex
<1>3. /\ ks \in Seq(Nat) /\ Len(ks) = Len(fs)
      /\ \A i \in 1 .. Len(frames) : ks[i] = nrs[i]
  BY <1>1, <1>2, AppendIndex
<1> HIDE DEF fs, ks
<1>4. \A i \in 1 .. Len(fs) : fs[i].kind = "data" => i \in 1 .. Len(frames)
  BY <1>2
<1>5. DataWindow(fs, ks, max, w, top, expected)
  BY <1>2, <1>3, <1>4 DEF DataWindow
<1>6. Transmit(frames, f, lost) = frames \/ Transmit(frames, f, lost) = fs
  BY DEF Transmit, fs
<1> QED
  BY <1>5, <1>6

(* The receiver takes a data frame: it is one of the last w before the     *)
(* expected one or of those from there on, and the frames behind it are    *)
(* recent enough for a receiver that expects the next one.                 *)
LEMMA DataTaken ==
  ASSUME NEW frames, NEW nrs, NEW max \in Nat, NEW w \in Nat,
         NEW top \in Nat, NEW expected \in Nat,
         DataWindow(frames, nrs, max, w, top, expected), frames # <<>>,
         Head(frames).kind = "data"
  PROVE  /\ nrs[1] \in Nat /\ nrs[1] < top /\ expected <= nrs[1] + w
         /\ Head(frames).seq = Wrapped(nrs[1], max)
         /\ Head(frames).info = Wrapped(nrs[1], MaxPkt)
         /\ DataWindow(Tail(frames), Tail(nrs), max, w, top, nrs[1] + 1)
<1> DEFINE fs == Tail(frames)
           ks == Tail(nrs)
<1>1. frames \in Seq(Frame) /\ nrs \in Seq(Nat) /\ Len(nrs) = Len(frames)
  BY DEF DataWindow
<1>2. /\ fs \in Seq(Frame) /\ Len(frames) \in Nat \ {0} /\ Len(fs) = Len(frames) - 1
      /\ \A i \in 1 .. Len(fs) : fs[i] = frames[i + 1] /\ i + 1 \in 1 .. Len(frames)
      /\ Head(frames) = frames[1]
  BY <1>1, TailIndex
<1>3. nrs # <<>>
  BY <1>1, <1>2
<1>4. /\ Len(ks) = Len(nrs) - 1
      /\ \A i \in 1 .. Len(ks) : ks[i] = nrs[i + 1]
  BY <1>1, <1>3, TailIndex
<1>5. DataWindow(fs, ks, max, w, top, expected)
  BY DataDropped
<1> HIDE DEF fs, ks
<1>6. 1 \in 1 .. Len(frames) /\ nrs[1] \in Nat
  BY <1>1, <1>2
<1>7. /\ frames[1].kind = "data"
      /\ frames[1].seq = Wrapped(nrs[1], max)
      /\ frames[1].info = Wrapped(nrs[1], MaxPkt)
      /\ nrs[1] < top /\ expected <= nrs[1] + w
  BY <1>2, <1>6 DEF DataWindow
<1>8. ASSUME NEW i \in 1 .. Len(fs), fs[i].kind = "data"
      PROVE  nrs[1] + 1 <= ks[i] + w
  <2> Len(ks) = Len(fs)
    BY <1>1, <1>2, <1>4
  <2>1. /\ i + 1 \in 1 .. Len(frames) /\ 1 < i + 1 /\ fs[i] = frames[i + 1]
        /\ i \in 1 .. Len(ks)
    BY <1>2
  <2>2. ks[i] = nrs[i + 1] /\ nrs[i + 1] \in Nat
    BY <1>1, <1>4, <2>1
  <2>3. nrs[1] < nrs[i + 1] + w
    BY <1>6, <1>7, <1>8, <2>1 DEF DataWindow
  <2> QED
    BY <1>6, <2>2, <2>3
<1> QED
  BY <1>2, <1>5, <1>6, <1>7, <1>8 DEF DataWindow, fs, ks

(* The receiver accepts the frame it expects: it carries the next packet.  *)
LEMMA DataAccepted ==
  ASSUME NEW frames, NEW nrs, NEW max \in Nat, NEW w \in Nat, w <= max,
         NEW top \in Nat, NEW expected \in Nat, top <= expected + w,
         DataWindow(frames, nrs, max, w, top, expected), frames # <<>>,
         Head(frames).kind = "data", Head(frames).seq = Wrapped(expected, max)
  PROVE  /\ expected < top
         /\ Head(frames).info = Wrapped(expected, MaxPkt)
         /\ DataWindow(Tail(frames), Tail(nrs), max, w, top, expected + 1)
<1>1. /\ nrs[1] \in Nat /\ nrs[1] < top /\ expected <= nrs[1] + w
      /\ Head(frames).seq = Wrapped(nrs[1], max)
      /\ Head(frames).info = Wrapped(nrs[1], MaxPkt)
      /\ DataWindow(Tail(frames), Tail(nrs), max, w, top, nrs[1] + 1)
  BY DataTaken
<1>2. nrs[1] <= expected + max /\ expected <= nrs[1] + max
  BY <1>1
<1>3. nrs[1] = expected
  BY <1>1, <1>2, WrappedApart
<1> QED
  BY <1>1, <1>3

(* The receiver sends a frame, which acknowledges what came before the one *)
(* it expects.                                                             *)
LEMMA AckAdded ==
  ASSUME NEW frames, NEW acks, NEW max \in Nat, NEW oldest \in Nat, NEW expected \in Nat,
         AckWindow(frames, acks, max, oldest, expected), oldest <= expected,
         NEW f \in Frame, f.ack \in 0 .. max, Inc(f.ack, max) = Wrapped(expected, max)
  PROVE  AckWindow(Append(frames, f), Append(acks, expected), max, oldest, expected)
<1> DEFINE fs == Append(frames, f)
           ks == Append(acks, expected)
<1>1. frames \in Seq(Frame) /\ acks \in Seq(Nat) /\ Len(acks) = Len(frames)
  BY DEF AckWindow
<1>2. /\ fs \in Seq(Frame) /\ Len(frames) \in Nat /\ Len(fs) = Len(frames) + 1
      /\ \A i \in 1 .. Len(frames) : fs[i] = frames[i]
      /\ fs[Len(frames) + 1] = f
  BY <1>1, AppendIndex
<1>3. /\ ks \in Seq(Nat) /\ Len(ks) = Len(acks) + 1
      /\ \A i \in 1 .. Len(acks) : ks[i] = acks[i] /\ acks[i] \in Nat
      /\ ks[Len(acks) + 1] = expected
  BY <1>1, AppendIndex
<1> HIDE DEF fs, ks
<1>4. ASSUME NEW i \in 1 .. Len(fs)
      PROVE  /\ fs[i].ack \in 0 .. max
             /\ Inc(fs[i].ack, max) = Wrapped(ks[i], max)
             /\ oldest <= ks[i] /\ ks[i] <= expected
             /\ \A j \in 1 .. Len(fs) : i < j => ks[i] <= ks[j]
  <2>1. CASE i = Len(fs)
    <3>1. fs[i] = f /\ ks[i] = expected /\ \A j \in 1 .. Len(fs) : ~(i < j)
      BY <1>1, <1>2, <1>3, <2>1
    <3> QED
      BY <3>1
  <2>2. CASE i # Len(fs)
    <3>1. i \in 1 .. Len(frames) /\ i \in 1 .. Len(acks)
      BY <1>1, <1>2, <2>2
    <3>2. fs[i] = frames[i] /\ ks[i] = acks[i]
      BY <1>2, <1>3, <3>1
    <3>3. /\ fs[i].ack \in 0 .. max
          /\ Inc(fs[i].ack, max) = Wrapped(ks[i], max)
          /\ oldest <= ks[i] /\ ks[i] <= expected
      BY <3>1, <3>2 DEF AckWindow
    <3>4. ASSUME NEW j \in 1 .. Len(fs), i < j
          PROVE  ks[i] <= ks[j]
      <4>1. CASE j = Len(fs)
        BY <1>1, <1>2, <1>3, <3>3, <4>1
      <4>2. CASE j # Len(fs)
        <5>1. j \in 1 .. Len(frames) /\ j \in 1 .. Len(acks)
          BY <1>1, <1>2, <4>2
        <5> QED
          BY <1>3, <3>1, <3>4, <5>1 DEF AckWindow
      <4> QED
        BY <4>1, <4>2
    <3> QED
      BY <3>3, <3>4
  <2> QED
    BY <2>1, <2>2
<1> QED
  BY <1>1, <1>2, <1>3, <1>4 DEF AckWindow, fs, ks

(* The same when the frame may be lost.                                    *)
LEMMA AckTransmitted ==
  ASSUME NEW frames, NEW acks, NEW max \in Nat, NEW oldest \in Nat, NEW expected \in Nat,
         AckWindow(frames, acks, max, oldest, expected), oldest <= expected,
         NEW f \in Frame, f.ack \in 0 .. max, Inc(f.ack, max) = Wrapped(expected, max),
         NEW lost
  PROVE  \E acks2 : AckWindow(Transmit(frames, f, lost), acks2, max, oldest, expected)
<1>1. AckWindow(Append(frames, f), Append(acks, expected), max, oldest, expected)
  BY AckAdded
<1>2. Transmit(frames, f, lost) = frames \/ Transmit(frames, f, lost) = Append(frames, f)
  BY DEF Transmit
<1> QED
  BY <1>1, <1>2

(* The receiver expects a later frame.                                     *)
LEMMA AckExpected ==
  ASSUME NEW frames, NEW acks, NEW max \in Nat, NEW oldest \in Nat, NEW expected \in Nat,
         AckWindow(frames, acks, max, oldest, expected), NEW n \in Nat
  PROVE  AckWindow(frames, acks, max, oldest, expected + n)
<1>1. \A i \in 1 .. Len(frames) : acks[i] \in Nat
  BY DEF AckWindow
<1>2. \A i \in 1 .. Len(frames) : acks[i] <= expected => acks[i] <= expected + n
  BY <1>1
<1> QED
  BY <1>2 DEF AckWindow

(* The sender takes a frame.  If it handles the acknowledgement its window *)
(* starts at acks[1] then; the frame may also have been damaged.           *)
LEMMA AckTaken ==
  ASSUME NEW frames, NEW acks, NEW max \in Nat, NEW oldest \in Nat, NEW expected \in Nat,
         AckWindow(frames, acks, max, oldest, expected), frames # <<>>
  PROVE  /\ acks[1] \in Nat /\ oldest <= acks[1] /\ acks[1] <= expected
         /\ Head(frames).ack \in 0 .. max
         /\ Inc(Head(frames).ack, max) = Wrapped(acks[1], max)
         /\ AckWindow(Tail(frames), Tail(acks), max, oldest, expected)
         /\ AckWindow(Tail(frames), Tail(acks), max, acks[1], expected)
<1> DEFINE fs == Tail(frames)
           ks == Tail(acks)
<1>1. frames \in Seq(Frame) /\ acks \in Seq(Nat) /\ Len(acks) = Len(frames)
  BY DEF AckWindow
<1>2. /\ fs \in Seq(Frame) /\ Len(frames) \in Nat \ {0} /\ Len(fs) = Len(frames) - 1
      /\ \A i \in 1 .. Len(fs) : fs[i] = frames[i + 1] /\ i + 1 \in 1 .. Len(frames)
      /\ Head(frames) = frames[1]
  BY <1>1, TailIndex
<1>3. acks # <<>>
  BY <1>1, <1>2
<1>4. /\ ks \in Seq(Nat) /\ Len(ks) = Len(acks) - 1
      /\ \A i \in 1 .. Len(ks) : ks[i] = acks[i + 1]
  BY <1>1, <1>3, TailIndex
<1> HIDE DEF fs, ks
<1>5. \A i \in 1 .. Len(fs), j \in 1 .. Len(fs) : i < j => i + 1 < j + 1 /\ 1 < j + 1
  BY <1>2
<1>6. \A i \in 1 .. Len(fs) : ks[i] = acks[i + 1] /\ 1 < i + 1
  BY <1>1, <1>2, <1>4
<1>7. /\ fs \in Seq(Frame) /\ ks \in Seq(Nat) /\ Len(ks) = Len(fs)
      /\ 1 \in 1 .. Len(frames)
  BY <1>1, <1>2, <1>4
<1>8. /\ acks[1] \in Nat /\ oldest <= acks[1] /\ acks[1] <= expected
      /\ Head(frames).ack \in 0 .. max
      /\ Inc(Head(frames).ack, max) = Wrapped(acks[1], max)
  BY <1>1, <1>2, <1>7 DEF AckWindow
<1>9. AckWindow(fs, ks, max, oldest, expected)
  BY <1>2, <1>5, <1>6, <1>7 DEF AckWindow
<1>10. \A i \in 1 .. Len(fs) : acks[1] <= ks[i]
  BY <1>2, <1>6, <1>7 DEF AckWindow
<1>11. AckWindow(fs, ks, max, acks[1], expected)
  BY <1>9, <1>10 DEF AckWindow
<1> QED
  BY <1>8, <1>9, <1>11 DEF fs, ks

(* The frames from number a on that acknowledgement `ack` counts for, if b *)
(* is the next number the sender will use.                                 *)
AckedBy(a, ack, b, max) ==
  {n \in 0 .. max : Between(a, ack, b) /\ Distance(a, n, max) <= Distance(a, ack, max)}

(* They are as many as the sender's window is behind the receiver when it  *)
(* sent the acknowledgement.                                               *)
LEMMA AckedCount ==
  ASSUME NEW max \in Nat \ {0}, NEW a \in Nat, NEW l \in Nat, NEW b \in Nat,
         a <= l, l <= b, b <= a + max,
         NEW ack \in 0 .. max, Inc(ack, max) = Wrapped(l, max)
  PROVE  Cardinality(AckedBy(Wrapped(a, max), ack, Wrapped(b, max), max)) = l - a
<1> DEFINE wa == Wrapped(a, max)
           wl == Wrapped(l, max)
           wb == Wrapped(b, max)
           acked == AckedBy(wa, ack, wb, max)
           passed == a .. l - 1
<1>1. /\ wa \in 0 .. max /\ wl \in 0 .. max /\ wb \in 0 .. max
      /\ Distance(wa, wl, max) = l - a /\ Distance(wa, wb, max) = b - a
  BY WrappedFromTo, a <= b, b <= a + max, l <= a + max
<1>2. Inc(ack, max) = wl
  OBVIOUS
<1> HIDE DEF wa, wl, wb
<1>3. Between(wa, ack, wb) <=> a < l
  BY <1>1, <1>2 DEF Between, Distance, Inc
<1>4. CASE a = l
  <2>1. acked = {}
    BY <1>1, <1>3, <1>4 DEF AckedBy
  <2> QED
    BY <1>4, <2>1, FS_EmptySet DEF wa, wb
<1>5. CASE a < l
  <2>1. Distance(wa, ack, max) = (l - a) - 1
    BY <1>1, <1>2, <1>5 DEF Distance, Inc
  <2>2. acked = {n \in 0 .. max : Distance(wa, n, max) < l - a}
    <3>1. \A n \in 0 .. max : Distance(wa, n, max) \in Nat
      BY <1>1 DEF Distance
    <3> QED
      BY <1>3, <1>5, <2>1, <3>1 DEF AckedBy
  <2>3. IsFiniteSet(passed) /\ Cardinality(passed) = l - a
    <3>1. /\ IsFiniteSet(a .. l - 1)
          /\ Cardinality(a .. l - 1) = IF a > l - 1 THEN 0 ELSE (l - 1) - a + 1
      BY FS_Interval
    <3> QED
      BY <1>5, <3>1
  <2>4. ExistsBijection(passed, acked)
    <3> DEFINE f == [k \in passed |-> Wrapped(k, max)]
    <3>1. ASSUME NEW k \in passed
          PROVE  /\ k \in Nat /\ k - a \in 0 .. max /\ k - a < l - a
                 /\ Wrapped(k, max) \in 0 .. max /\ Distance(wa, Wrapped(k, max), max) = k - a
      <4>1. k \in Nat /\ a <= k /\ k <= a + max /\ k - a < l - a
        OBVIOUS
      <4> QED
        BY <4>1, WrappedFromTo DEF wa
    <3>2. f \in [passed -> acked]
      BY <2>2, <3>1
    <3>3. ASSUME NEW k \in passed, NEW j \in passed, f[k] = f[j]
          PROVE  k = j
      <4>1. k - a = j - a
        BY <3>1, <3>3
      <4> QED
        BY <3>1, <4>1
    <3>4. ASSUME NEW n \in acked
          PROVE  \E k \in passed : f[k] = n
      <4> DEFINE k == a + Distance(wa, n, max)
      <4>1. n \in 0 .. max /\ Distance(wa, n, max) < l - a
        BY <2>2
      <4>2. Distance(wa, n, max) \in 0 .. max /\ n = Advance(wa, Distance(wa, n, max), max)
        BY <1>1, <4>1 DEF Distance, Advance
      <4>3. k \in passed
        BY <4>1, <4>2
      <4>4. Wrapped(k, max) = n
        BY <4>2, WrappedAhead DEF wa
      <4> QED
        BY <4>3, <4>4
    <3>5. f \in Bijection(passed, acked)
      <4> HIDE DEF f, acked, passed
      <4> QED
        BY <3>2, <3>3, <3>4 DEF Bijection, Injection, Surjection, IsInjective
    <3> QED
      BY <3>5 DEF ExistsBijection
  <2>5. Cardinality(acked) = l - a
    BY <2>3, <2>4, FS_Bijection
  <2> QED
    BY <2>5 DEF wa, wb
<1> QED
  BY <1>4, <1>5

-----------------------------------------------------------------------------
(* Many timers.                                                            *)

(* A set of natural numbers that is not empty has a smallest one.          *)
LEMMA Smallest ==
  ASSUME NEW T, T \subseteq Nat, T # {}
  PROVE  \E x \in T : \A y \in T : x <= y
<1> DEFINE Less == {ss \in Nat \X Nat : ss[1] < ss[2]}
<1>1. IsWellFoundedOn(Less, Nat)
  BY NatLessThanWellFounded, Zenon DEF OpToRel
<1>2. PICK x \in T : \A y \in T : <<y, x>> \notin Less
  BY <1>1, WFMin, Zenon
<1>3. ASSUME NEW y \in T PROVE x <= y
  <2>1. x \in Nat /\ y \in Nat /\ <<y, x>> \in Nat \X Nat
    OBVIOUS
  <2>2. ~ (<<y, x>>[1] < <<y, x>>[2])
    BY <1>2, <2>1
  <2> QED
    BY <2>1, <2>2
<1> QED
  BY <1>3

(* The recursion of StopTimers is well defined: there is a sequence of     *)
(* timer queues, each with one slot less, and the last one is the result.  *)
StoppedInTurn(f, ts, slots) ==
  /\ f[0] = ts
  /\ \A i \in 1 .. Len(slots) : f[i] = StopTimer(f[i - 1], slots[i])
  /\ StopTimers(ts, slots) = f[Len(slots)]

(* The loop of StopTimers has a result: its recursive function exists.     *)
LEMMA StopTimersLoop ==
  ASSUME NEW ts, NEW slots, Len(slots) \in Nat
  PROVE  \E f : StoppedInTurn(f, ts, slots)
<1> DEFINE Loop(f, n) ==
             f = [i \in 0 .. n |-> IF i = 0 THEN ts ELSE StopTimer(f[i - 1], slots[i])]
           Bad == {n \in Nat : ~ \E f : Loop(f, n)}
<1>1. ASSUME NEW n \in Nat, NEW f, Loop(f, n)
      PROVE  \E g : Loop(g, n + 1)
  <2> DEFINE g == [i \in 0 .. n + 1 |->
                     IF i = n + 1 THEN StopTimer(f[n], slots[n + 1]) ELSE f[i]]
  <2>1. ASSUME NEW i \in 0 .. n + 1
        PROVE  g[i] = IF i = 0 THEN ts ELSE StopTimer(g[i - 1], slots[i])
    <3>1. CASE i = n + 1
      <4>1. g[i] = StopTimer(f[n], slots[n + 1]) /\ g[n] = f[n] /\ i - 1 = n /\ i # 0
        BY <3>1
      <4> QED
        BY <3>1, <4>1
    <3>2. CASE i # n + 1 /\ i # 0
      <4>1. i \in 0 .. n /\ i - 1 \in 0 .. n /\ i - 1 # n + 1
        BY <3>2
      <4>2. g[i] = f[i] /\ g[i - 1] = f[i - 1]
        BY <3>2, <4>1
      <4>3. f[i] = StopTimer(f[i - 1], slots[i])
        BY <1>1, <3>2, <4>1
      <4> QED
        BY <3>2, <4>2, <4>3
    <3>3. CASE i = 0
      BY <1>1, <3>3
    <3> QED
      BY <3>1, <3>2, <3>3
  <2>2. Loop(g, n + 1)
    BY <2>1
  <2> QED
    BY <2>2
<1>2. Loop([i \in 0 .. 0 |-> ts], 0)
  OBVIOUS
<1>3. Bad = {}
  <2> SUFFICES ASSUME Bad # {} PROVE FALSE
    OBVIOUS
  <2> HIDE DEF Loop
  <2>1. PICK m \in Bad : \A k \in Bad : m <= k
    BY Smallest
  <2>2. m \in Nat /\ m # 0
    BY <1>2
  <2>3. m - 1 \in Nat /\ (m - 1) + 1 = m /\ m - 1 \notin Bad
    BY <2>1, <2>2
  <2>4. PICK f : Loop(f, m - 1)
    BY <2>3
  <2>5. \E g : Loop(g, (m - 1) + 1)
    BY <1>1, <2>3, <2>4
  <2> QED
    BY <2>3, <2>5
<1>4. \E f : Loop(f, Len(slots))
  <2> HIDE DEF Loop
  <2> QED
    BY <1>3
<1> DEFINE h == CHOOSE f : Loop(f, Len(slots))
<1>5. Loop(h, Len(slots))
  BY <1>4, Zenon
<1>6. StopTimers(ts, slots) = h[Len(slots)]
  BY DEF StopTimers
<1>7. /\ h[0] = ts
      /\ \A i \in 1 .. Len(slots) : h[i] = StopTimer(h[i - 1], slots[i])
  <2>1. h = [i \in 0 .. Len(slots) |-> IF i = 0 THEN ts ELSE StopTimer(h[i - 1], slots[i])]
    BY <1>5
  <2> HIDE DEF h
  <2> QED
    BY <2>1
<1> QED
  BY <1>6, <1>7 DEF StoppedInTurn

(* Stopping the timer that would go off next.                              *)
LEMMA StopHead ==
  ASSUME NEW X, NEW ts \in Seq(X), ts # <<>>, \A i \in 2 .. Len(ts) : ts[i] # ts[1]
  PROVE  StopTimer(ts, ts[1]) = Tail(ts)
<1>1. Len(ts) \in Nat \ {0} /\ DOMAIN ts = 1 .. Len(ts)
  BY EmptySeq
<1>2. (CHOOSE i \in DOMAIN ts : ts[i] = ts[1]) = 1
  <2>1. 1 \in DOMAIN ts /\ \A i \in DOMAIN ts : ts[i] = ts[1] => i = 1
    BY <1>1
  <2> QED
    BY <2>1
<1>3. StopTimer(ts, ts[1]) = SubSeq(ts, 1, 0) \o SubSeq(ts, 2, Len(ts))
  <2>1. \E i \in DOMAIN ts : ts[i] = ts[1]
    BY <1>1
  <2>2. StopTimer(ts, ts[1]) = RemoveAt(ts, 1)
    BY <1>2, <2>1 DEF StopTimer
  <2> QED
    BY <2>2 DEF RemoveAt
<1>4. SubSeq(ts, 1, 0) = <<>>
  BY SubSeqEmpty
<1>5. SubSeq(ts, 2, Len(ts)) = Tail(ts) /\ Tail(ts) \in Seq(X)
  BY TailIsSubSeq, HeadTailProperties
<1> QED
  BY <1>3, <1>4, <1>5, ConcatEmptySeq

(* Stopping the first n timers, one after the other.                       *)
LEMMA StopFirst ==
  ASSUME NEW X, NEW ts \in Seq(X), NEW n \in 0 .. Len(ts),
         \A i, j \in 1 .. Len(ts) : ts[i] = ts[j] => i = j,
         NEW slots, Len(slots) = n, \A i \in 1 .. n : slots[i] = ts[i]
  PROVE  StopTimers(ts, slots) = SubSeq(ts, n + 1, Len(ts))
<1>1. PICK f : StoppedInTurn(f, ts, slots)
  <2>1. Len(slots) \in Nat
    BY LenProperties
  <2>2. \A us, ks : Len(ks) \in Nat => \E f : StoppedInTurn(f, us, ks)
    BY StopTimersLoop
  <2> QED
    BY <2>1, <2>2
<1> USE DEF StoppedInTurn
<1> DEFINE Rest(i) == SubSeq(ts, i + 1, Len(ts))
           Bad == {i \in 0 .. n : f[i] # Rest(i)}
<1>2. f[0] = Rest(0)
  BY <1>1, SubSeqFull
<1>3. ASSUME NEW i \in 1 .. n, f[i - 1] = Rest(i - 1)
      PROVE  f[i] = Rest(i)
  <2> DEFINE us == SubSeq(ts, i, Len(ts))
  <2>1. /\ i \in 1 .. Len(ts) /\ Len(ts) \in i .. Len(ts) /\ Len(ts) \in Nat
        /\ (i - 1) + 1 = i
    OBVIOUS
  <2>2. f[i - 1] = us
    BY <1>3, <2>1
  <2>3. /\ us \in Seq(X) /\ Len(us) = Len(ts) - i + 1
        /\ \A j \in 1 .. Len(ts) - i + 1 : us[j] = ts[i + j - 1]
    <3>1. \A j \in i .. Len(ts) : ts[j] \in X
      BY <2>1
    <3> QED
      BY <2>1, <3>1, SubSeqProperties
  <2>4. Tail(us) = Rest(i)
    BY <2>1, HeadTailOfSubSeq
  <2> HIDE DEF us
  <2>5. us # <<>> /\ us[1] = ts[i]
    BY <2>1, <2>3
  <2>6. \A j \in 2 .. Len(us) : us[j] # us[1]
    <3> SUFFICES ASSUME NEW j \in 2 .. Len(us) PROVE us[j] # us[1]
      OBVIOUS
    <3>1. us[j] = ts[i + j - 1] /\ i + j - 1 \in 1 .. Len(ts) /\ i + j - 1 # i
      BY <2>1, <2>3
    <3> QED
      BY <2>1, <2>5, <3>1
  <2>7. StopTimer(us, us[1]) = Tail(us)
    BY <2>3, <2>5, <2>6, StopHead
  <2>8. slots[i] = us[1]
    BY <2>5
  <2>9. f[i] = StopTimer(f[i - 1], slots[i])
    BY <1>1
  <2> QED
    BY <2>2, <2>4, <2>7, <2>8, <2>9
<1>4. Bad = {}
  <2> SUFFICES ASSUME Bad # {} PROVE FALSE
    OBVIOUS
  <2> HIDE DEF Rest
  <2>1. PICK m \in Bad : \A k \in Bad : m <= k
    BY Smallest, Bad \subseteq Nat
  <2>2. m \in 1 .. n
    BY <1>2
  <2>3. m - 1 \in 0 .. n /\ m - 1 \notin Bad
    BY <2>1, <2>2
  <2> QED
    BY <1>3, <2>2, <2>3
<1>5. n \in 0 .. n
  OBVIOUS
<1> QED
  BY <1>1, <1>4, <1>5

(* The queue that is left, timer by timer.                                 *)
LEMMA StopFirstIndex ==
  ASSUME NEW X, NEW ts \in Seq(X), NEW n \in 0 .. Len(ts)
  PROVE  LET us == SubSeq(ts, n + 1, Len(ts))
         IN /\ us \in Seq(X) /\ Len(us) = Len(ts) - n
            /\ \A i \in 1 .. Len(us) : us[i] = ts[n + i]
<1>1. Len(ts) \in Nat /\ \A j \in n + 1 .. Len(ts) : ts[j] \in X
  OBVIOUS
<1>2. LET us == SubSeq(ts, n + 1, Len(ts))
      IN /\ us \in Seq(X)
         /\ Len(us) = IF n + 1 <= Len(ts) THEN Len(ts) - (n + 1) + 1 ELSE 0
         /\ \A i \in 1 .. Len(ts) - (n + 1) + 1 : us[i] = ts[(n + 1) + i - 1]
  BY <1>1, SubSeqProperties
<1> QED
  BY <1>1, <1>2

(* A sequence without one of its elements, index by index.                 *)
LEMMA RemoveAtIndex ==
  ASSUME NEW X, NEW ts \in Seq(X), NEW i \in 1 .. Len(ts)
  PROVE  /\ RemoveAt(ts, i) \in Seq(X) /\ Len(RemoveAt(ts, i)) = Len(ts) - 1
         /\ \A j \in 1 .. Len(ts) - 1 : RemoveAt(ts, i)[j] = IF j < i THEN ts[j] ELSE ts[j + 1]
<1> DEFINE us == SubSeq(ts, 1, i - 1)
           vs == SubSeq(ts, i + 1, Len(ts))
<1>1. /\ us \in Seq(X) /\ Len(us) = i - 1
      /\ \A j \in 1 .. i - 1 : us[j] = ts[j]
  <2>1. 1 \in Int /\ i - 1 \in Int /\ \A j \in 1 .. i - 1 : ts[j] \in X
    OBVIOUS
  <2>2. /\ us \in Seq(X) /\ Len(us) = IF 1 <= i - 1 THEN (i - 1) - 1 + 1 ELSE 0
        /\ \A j \in 1 .. (i - 1) - 1 + 1 : us[j] = ts[1 + j - 1]
    BY <2>1, SubSeqProperties
  <2> HIDE DEF us
  <2> QED
    BY <2>2
<1>2. /\ vs \in Seq(X) /\ Len(vs) = Len(ts) - i
      /\ \A j \in 1 .. Len(ts) - i : vs[j] = ts[i + j]
  <2>1. i \in 0 .. Len(ts)
    OBVIOUS
  <2> QED
    BY <2>1, StopFirstIndex
<1>3. RemoveAt(ts, i) = us \o vs
  BY DEF RemoveAt
<1> HIDE DEF us, vs
<1>4. /\ us \o vs \in Seq(X) /\ Len(us \o vs) = Len(us) + Len(vs)
      /\ \A j \in 1 .. Len(us) + Len(vs) :
           (us \o vs)[j] = IF j <= Len(us) THEN us[j] ELSE vs[j - Len(us)]
  BY <1>1, <1>2, ConcatProperties
<1>5. Len(us) + Len(vs) = Len(ts) - 1
  BY <1>1, <1>2
<1>6. ASSUME NEW j \in 1 .. Len(ts) - 1
      PROVE  (us \o vs)[j] = IF j < i THEN ts[j] ELSE ts[j + 1]
  <2>1. (us \o vs)[j] = IF j <= i - 1 THEN us[j] ELSE vs[j - (i - 1)]
    BY <1>1, <1>4, <1>5
  <2>2. CASE j < i
    <3>1. j <= i - 1 /\ j \in 1 .. i - 1
      BY <2>2
    <3> QED
      BY <1>1, <2>1, <2>2, <3>1
  <2>3. CASE ~(j < i)
    <3>1. ~(j <= i - 1) /\ j - (i - 1) \in 1 .. Len(ts) - i /\ i + (j - (i - 1)) = j + 1
      BY <2>3
    <3> QED
      BY <1>2, <2>1, <2>3, <3>1
  <2> QED
    BY <2>2, <2>3
<1> QED
  BY <1>3, <1>4, <1>5, <1>6

(* stop_timer takes one slot out of the running timers.                    *)
LEMMA StopOne ==
  ASSUME NEW X, NEW ts \in Seq(X), IsInjective(ts), NEW k
  PROVE  /\ StopTimer(ts, k) \in Seq(X) /\ IsInjective(StopTimer(ts, k))
         /\ ToSet(StopTimer(ts, k)) = ToSet(ts) \ {k}
<1>1. DOMAIN ts = 1 .. Len(ts) /\ Len(ts) \in Nat
  BY LenProperties
<1>2. CASE ~ \E i \in DOMAIN ts : ts[i] = k
  BY <1>2 DEF StopTimer, ToSet
<1>3. CASE \E i \in DOMAIN ts : ts[i] = k
  <2> DEFINE i == CHOOSE i \in DOMAIN ts : ts[i] = k
             us == RemoveAt(ts, i)
  <2>1. i \in 1 .. Len(ts) /\ ts[i] = k
    BY <1>1, <1>3
  <2>2. StopTimer(ts, k) = us
    BY <1>3 DEF StopTimer
  <2> HIDE DEF i
  <2>3. /\ us \in Seq(X) /\ Len(us) = Len(ts) - 1
        /\ \A j \in 1 .. Len(ts) - 1 : us[j] = IF j < i THEN ts[j] ELSE ts[j + 1]
    BY <2>1, RemoveAtIndex
  <2>4. DOMAIN us = 1 .. Len(ts) - 1
    BY <2>3, LenProperties
  <2> HIDE DEF us
  <2> DEFINE old(j) == IF j < i THEN j ELSE j + 1
  <2>5. \A j \in 1 .. Len(ts) - 1 : old(j) \in 1 .. Len(ts) /\ old(j) # i /\ us[j] = ts[old(j)]
    BY <1>1, <2>1, <2>3
  <2>6. \A j, l \in 1 .. Len(ts) - 1 : old(j) = old(l) => j = l
    BY <1>1, <2>1
  <2>7. \A j \in 1 .. Len(ts) : j # i => \E l \in 1 .. Len(ts) - 1 : old(l) = j
    <3> SUFFICES ASSUME NEW j \in 1 .. Len(ts), j # i
                 PROVE  \E l \in 1 .. Len(ts) - 1 : old(l) = j
      OBVIOUS
    <3>1. CASE j < i
      <4>1. j \in 1 .. Len(ts) - 1 /\ old(j) = j
        BY <1>1, <2>1, <3>1
      <4> QED
        BY <4>1
    <3>2. CASE i < j
      <4>1. j - 1 \in 1 .. Len(ts) - 1 /\ old(j - 1) = j
        BY <1>1, <2>1, <3>2
      <4> QED
        BY <4>1
    <3> QED
      BY <1>1, <2>1, <3>1, <3>2
  <2> HIDE DEF old
  <2>8. IsInjective(us)
    <3> SUFFICES ASSUME NEW j \in 1 .. Len(ts) - 1, NEW l \in 1 .. Len(ts) - 1, us[j] = us[l]
                 PROVE  j = l
      BY <2>4 DEF IsInjective
    <3>1. old(j) = old(l)
      BY <1>1, <2>5 DEF IsInjective
    <3> QED
      BY <2>6, <3>1
  <2>9. ToSet(us) = ToSet(ts) \ {k}
    <3>1. ASSUME NEW x \in ToSet(us) PROVE x \in ToSet(ts) \ {k}
      <4>1. PICK j \in 1 .. Len(ts) - 1 : x = us[j]
        BY <2>4 DEF ToSet
      <4>2. x = ts[old(j)] /\ old(j) \in DOMAIN ts /\ old(j) # i
        BY <1>1, <2>5, <4>1
      <4> QED
        BY <1>1, <2>1, <4>2 DEF ToSet, IsInjective
    <3>2. ASSUME NEW x \in ToSet(ts), x # k PROVE x \in ToSet(us)
      <4>1. PICK j \in 1 .. Len(ts) : x = ts[j]
        BY <1>1 DEF ToSet
      <4>2. PICK l \in 1 .. Len(ts) - 1 : old(l) = j
        BY <2>1, <2>7, <3>2, <4>1
      <4>3. us[l] = x
        BY <2>5, <4>1, <4>2
      <4> QED
        BY <2>4, <4>3 DEF ToSet
    <3> QED
      BY <3>1, <3>2
  <2> QED
    BY <2>2, <2>3, <2>8, <2>9
<1> QED
  BY <1>2, <1>3

(* Stopping one slot after the other takes all of them out.                *)
LEMMA StopMany ==
  ASSUME NEW X, NEW ts \in Seq(X), IsInjective(ts), NEW slots, Len(slots) \in Nat
  PROVE  LET us == StopTimers(ts, slots)
         IN /\ us \in Seq(X) /\ IsInjective(us)
            /\ ToSet(us) = ToSet(ts) \ {slots[i] : i \in 1 .. Len(slots)}
<1>1. PICK f : StoppedInTurn(f, ts, slots)
  BY StopTimersLoop
<1>2. /\ f[0] = ts
      /\ \A i \in 1 .. Len(slots) : f[i] = StopTimer(f[i - 1], slots[i])
      /\ StopTimers(ts, slots) = f[Len(slots)]
  BY <1>1 DEF StoppedInTurn
<1> DEFINE Good(i) == /\ f[i] \in Seq(X) /\ IsInjective(f[i])
                      /\ ToSet(f[i]) = ToSet(ts) \ {slots[j] : j \in 1 .. i}
           Bad == {i \in 0 .. Len(slots) : ~Good(i)}
<1>3. Good(0)
  BY <1>2
<1>4. ASSUME NEW i \in 1 .. Len(slots), Good(i - 1)
      PROVE  Good(i)
  <2>1. f[i] = StopTimer(f[i - 1], slots[i])
    BY <1>2
  <2>2. /\ f[i] \in Seq(X) /\ IsInjective(f[i])
        /\ ToSet(f[i]) = ToSet(f[i - 1]) \ {slots[i]}
    BY <1>4, <2>1, StopOne
  <2>3. {slots[j] : j \in 1 .. i} = {slots[j] : j \in 1 .. i - 1} \cup {slots[i]}
    <3>1. \A j \in 1 .. i : j \in 1 .. i - 1 \/ j = i
      OBVIOUS
    <3>2. \A j \in 1 .. i - 1 : j \in 1 .. i
      OBVIOUS
    <3> QED
      BY <3>1, <3>2
  <2>4. ToSet(f[i]) = ToSet(ts) \ {slots[j] : j \in 1 .. i}
    BY <1>4, <2>2, <2>3
  <2> QED
    BY <2>2, <2>4
<1> HIDE DEF Good
<1>5. Bad = {}
  <2> SUFFICES ASSUME Bad # {} PROVE FALSE
    OBVIOUS
  <2>1. PICK m \in Bad : \A k \in Bad : m <= k
    BY Smallest, Bad \subseteq Nat
  <2>2. m \in 1 .. Len(slots)
    BY <1>3
  <2>3. m - 1 \in 0 .. Len(slots) /\ m - 1 \notin Bad
    BY <2>1, <2>2
  <2> QED
    BY <1>4, <2>2, <2>3
<1>6. Good(Len(slots))
  BY <1>5
<1> QED
  BY <1>2, <1>6 DEF Good

(* start_timer adds one slot to the running timers.                        *)
LEMMA StartOne ==
  ASSUME NEW X, NEW ts \in Seq(X), IsInjective(ts), NEW k \in X
  PROVE  /\ StartTimer(ts, k) \in Seq(X) /\ IsInjective(StartTimer(ts, k))
         /\ ToSet(StartTimer(ts, k)) = ToSet(ts) \cup {k}
<1> DEFINE us == StopTimer(ts, k)
           vs == Append(us, k)
<1>1. us \in Seq(X) /\ IsInjective(us) /\ ToSet(us) = ToSet(ts) \ {k}
  BY StopOne
<1>2. StartTimer(ts, k) = vs
  BY DEF StartTimer
<1> HIDE DEF us
<1>3. /\ vs \in Seq(X) /\ Len(us) \in Nat /\ Len(vs) = Len(us) + 1
      /\ \A i \in 1 .. Len(us) : vs[i] = us[i]
      /\ vs[Len(us) + 1] = k
  BY <1>1, AppendIndex
<1>4. DOMAIN us = 1 .. Len(us) /\ DOMAIN vs = 1 .. Len(vs)
  BY <1>1, <1>3, LenProperties
<1> HIDE DEF vs
<1>5. \A i \in 1 .. Len(us) : us[i] # k
  BY <1>1, <1>4 DEF ToSet
<1>6. \A i \in 1 .. Len(vs) : i \in 1 .. Len(us) \/ i = Len(us) + 1
  BY <1>3
<1>7. IsInjective(vs)
  BY <1>1, <1>3, <1>4, <1>5, <1>6 DEF IsInjective
<1>8. ToSet(vs) = ToSet(us) \cup {k}
  <2>1. \A i \in 1 .. Len(us) : i \in 1 .. Len(vs)
    BY <1>3
  <2>2. Len(us) + 1 \in 1 .. Len(vs)
    BY <1>3
  <2> QED
    BY <1>3, <1>4, <1>6, <2>1, <2>2 DEF ToSet
<1> QED
  BY <1>1, <1>2, <1>3, <1>7, <1>8
=============================================================================
