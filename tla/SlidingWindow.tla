--------------------------- MODULE SlidingWindow ----------------------------
(***************************************************************************)
(* What protocol 5 (p5.c) and protocol 6 (p6.c) have in common: a worker   *)
(* has up to a window of frames outstanding, every frame it sends carries  *)
(* the number of the last frame it accepted in order, and an               *)
(* acknowledgement counts for all earlier frames.                          *)
(***************************************************************************)
EXTENDS DataLink, FiniteSets

CONSTANT MAX_SEQ  \* the largest sequence number, 7 in the code

(* 7 sequence numbers are fewer than 2^32 packet numbers.                  *)
ASSUME MaxSeqAssumption == MAX_SEQ \in Nat \ {0} /\ MAX_SEQ <= MaxPkt

VARIABLES
  ack_expected,        \* oldest frame as yet unacknowledged
  next_frame_to_send,  \* upper edge of the sender's window + 1
  nbuffered,           \* output buffers currently in use
  frame_expected       \* next frame expected on inbound stream

window_vars == <<ack_expected, next_frame_to_send, nbuffered, frame_expected>>

SeqNr == 0 .. MAX_SEQ

WindowTypeOK(window) ==
  /\ LinkTypeOK(SeqNr)
  /\ ack_expected \in [Proc -> SeqNr]
  /\ next_frame_to_send \in [Proc -> SeqNr]
  /\ nbuffered \in [Proc -> 0 .. window]
  /\ frame_expected \in [Proc -> SeqNr]

WindowInit ==
  /\ LinkInit
  /\ ack_expected = [p \in Proc |-> 0]
  /\ next_frame_to_send = [p \in Proc |-> 0]
  /\ nbuffered = [p \in Proc |-> 0]
  /\ frame_expected = [p \in Proc |-> 0]

LastAccepted_Expected(p) == frame_expected[p]

(* The acknowledgement every frame carries.                                *)
LastAccepted(p) == (frame_expected[p] + MAX_SEQ) % (MAX_SEQ + 1)

Acked_AnyNumber(p, r) ==
  LET age(n) == Distance(ack_expected[p], n, MAX_SEQ)
  IN {n \in SeqNr : age(n) < nbuffered[p] /\ age(n) <= age(r.ack)}

Acked_OneByOne(p, r) ==
  {n \in {r.ack} : n = ack_expected[p] /\ n # next_frame_to_send[p]}

(* The frames the loop over ack_expected passes: ack n acknowledges every  *)
(* outstanding frame up to and including n, if n is outstanding.           *)
Acked(p, r) ==
  LET age(n) == Distance(ack_expected[p], n, MAX_SEQ)
  IN {n \in SeqNr : /\ Between(ack_expected[p], r.ack, next_frame_to_send[p])
                    /\ age(n) <= age(r.ack)}

HandleAck_TimersRun(p, r, running) ==
  LET acked == Acked(p, r)
  IN /\ nbuffered' = [nbuffered EXCEPT ![p] = @ - Cardinality(acked)]
     /\ ack_expected' =
          [ack_expected EXCEPT ![p] = Advance(@, Cardinality(acked), MAX_SEQ)]
     /\ timers' = [timers EXCEPT ![p] = running]

(* The loop body: one buffer freed and one timer stopped for each of them. *)
(* `running` are the timers before the loop.                               *)
HandleAck(p, r, running) ==
  LET n == Cardinality(Acked(p, r))
      acked == [i \in 1 .. n |-> Advance(ack_expected[p], i - 1, MAX_SEQ)]
  IN /\ nbuffered' = [nbuffered EXCEPT ![p] = @ - n]
     /\ ack_expected' = [ack_expected EXCEPT ![p] = Advance(@, n, MAX_SEQ)]
     /\ timers' = [timers EXCEPT ![p] = StopTimers(running, acked)]

(* Before the loop of the protocol: the network layer is enabled.          *)
EntersLoop(p) ==
  /\ phase[p] = "start"
  /\ BackToWait(p)
  /\ UNCHANGED <<chan, nframes, timers, next_net_pkt, last_pkt_given, window_vars>>

-----------------------------------------------------------------------------
(* For properties.  The i-th outstanding frame of p, counted from 0; the   *)
(* packets p has fetched that its peer has not passed on yet; the number   *)
(* of outstanding frames whose packets the peer has passed on.             *)

Outstanding(p, i) == Advance(ack_expected[p], i, MAX_SEQ)

UnderWay(p) ==
  Distance(Inc(last_pkt_given[Peer(p)], MaxPkt), next_net_pkt[p], MaxPkt)

PassedOn(p) == nbuffered[p] - UnderWay(p)

(* The peer expects the frame after the ones it has passed on.             *)
EdgesAgree(p) ==
  /\ UnderWay(p) <= nbuffered[p]
  /\ frame_expected[Peer(p)] = Outstanding(p, PassedOn(p))

(* An acknowledgement under way that falls into the window of p, as large  *)
(* as it is now or will be again after a retransmission, is for a frame    *)
(* whose packet the peer has passed on.  A late one is never taken for     *)
(* that of a newer frame.                                                  *)
AcksAreTrue ==
  \A p \in Proc : \A i \in DOMAIN chan[p] :
    LET age == Distance(ack_expected[p], chan[p][i].ack, MAX_SEQ)
    IN age < nbuffered[p] => age < PassedOn(p)
=============================================================================
