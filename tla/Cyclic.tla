------------------------------- MODULE Cyclic -------------------------------
(***************************************************************************)
(* The two things every module of the project shares: the two workers of   *)
(* the simulator, and the numbers that wrap.  Sequence numbers wrap at     *)
(* MAX_SEQ, packet numbers wrap at the top of an unsigned int.             *)
(***************************************************************************)
EXTENDS Naturals

(* M0 and M1, the two workers start_simulator forks, and the other one.    *)
Proc == {0, 1}

Peer(p) == 1 - p

(* The macro inc(k): increment k circularly.  `x + 1` on an unsigned int   *)
(* is the same with max = 2^32 - 1.                                        *)
Inc(k, max) == IF k < max THEN k + 1 ELSE 0

(* The function between of protocols 5 and 6: a <= b < c circularly.       *)
Between(a, b, c) ==
  \/ a <= b /\ b < c
  \/ c < a /\ a <= b
  \/ b < c /\ c < a

(* How many increments lead from `from` to `to`.                           *)
Distance(from, to, max) == IF from <= to THEN to - from ELSE to + max + 1 - from

(* n increments of k, for n at most max.                                   *)
Advance(k, n, max) == IF k + n <= max THEN k + n ELSE k + n - max - 1
=============================================================================
