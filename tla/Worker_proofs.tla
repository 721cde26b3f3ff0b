---------------------------- MODULE Worker_proofs ---------------------------
(***************************************************************************)
(* Proofs about the two things simulator.c keeps for a protocol in every   *)
(* worker: its clock (module Timers) and its incoming frames (module       *)
(* FrameQueue).                                                            *)
(*                                                                         *)
(* The clock, for every number of timers, every interval and every         *)
(* protocol that starts at most DELTA timers in one handler (MaxStarts:    *)
(* DELTA is 10, and a timeout of protocol 5 starts seven); it ends with    *)
(* the refinement of TimerQueue.                                           *)
(*                                                                         *)
(* The circular buffer queue[], for every size of the buffer and of the    *)
(* pipe.  A protocol that starts the auxiliary timer (protocol 6) may      *)
(* leave a full buffer as it is at a go-ahead, and the next read           *)
(* overwrites it (run queue_overrun); for such a protocol the theorems     *)
(* need fewer frames under way than the buffer has slots (FewFrames).  It  *)
(* ends with the refinement of FrameFifo.                                  *)
(***************************************************************************)
EXTENDS Timers, FrameQueue, SequenceTheorems, FiniteSetTheorems,
        WellFoundedInduction, TLAPS

(* lowest_timer is up to date: recalc_timers ran after every change, or no *)
(* timer has been started or stopped yet.                                  *)
LowestKnown ==
  \/ lowest_timer = RecalcTimers(ack_timer)
  \/ lowest_timer = 0

(* The inductive invariant.                                                *)
IInv == TypeOK /\ UniqueTimers /\ LowestKnown /\ NeverImpossible

-----------------------------------------------------------------------------
(* Numbers.                                                                *)

(* Min finds the least element.                                            *)
LEMMA LeastElement ==
  ASSUME NEW T \in SUBSET Nat, T # {}
  PROVE  Min(T) \in T /\ \A y \in T : Min(T) <= y
<1> DEFINE Less == {ss \in Nat \X Nat : ss[1] < ss[2]}
<1>1. IsWellFoundedOn(Less, Nat)
  BY NatLessThanWellFounded, Zenon DEF OpToRel
<1>2. \E x \in T : \A y \in T : x <= y
  <2>1. PICK x \in T : \A y \in T : <<y, x>> \notin Less
    BY <1>1, WFMin, Zenon
  <2>2. ASSUME NEW y \in T PROVE x <= y
    <3>1. x \in Nat /\ y \in Nat /\ <<y, x>> \in Nat \X Nat
      OBVIOUS
    <3>2. ~ (<<y, x>>[1] < <<y, x>>[2])
      BY <2>1, <3>1
    <3> QED
      BY <3>1, <3>2
  <2> QED
    BY <2>2
<1> QED
  BY <1>2 DEF Min

(* Different multiples of d are at least d apart.                          *)
LEMMA Multiples ==
  ASSUME NEW d \in Nat \ {0}, NEW m \in Nat, NEW n \in Nat, m * d > n * d
  PROVE  m * d >= n * d + d
<1>1. m > n
  OBVIOUS
<1>2. PICK k \in Nat : m = n + 1 + k
  <2>1. m - n - 1 \in Nat /\ m = n + 1 + (m - n - 1)
    BY <1>1
  <2> QED
    BY <2>1
<1>3. m * d = n * d + d + k * d
  BY <1>2
<1>4. k * d >= 0
  OBVIOUS
<1> QED
  BY <1>3, <1>4

(* Ticks are numbers up to the last one.                                   *)
LEMMA TicksInRange ==
  ASSUME NEW t \in Ticks
  PROVE  t \in Nat /\ t <= LastTick
<1> USE TimersAssumption
<1>1. PICK n \in 0 .. LastTick \div DELTA : t = n * DELTA
  BY DEF Ticks
<1>2. LastTick \div DELTA \in Nat /\ (LastTick \div DELTA) * DELTA <= LastTick
  OBVIOUS
<1> QED
  BY <1>1, <1>2

(* A later tick is at least one event later.                               *)
LEMMA NextTick ==
  ASSUME NEW t \in Ticks, NEW u \in Ticks, u > t
  PROVE  u >= t + DELTA
<1> USE TimersAssumption
<1>1. PICK m \in Nat : t = m * DELTA
  BY DEF Ticks
<1>2. PICK n \in Nat : u = n * DELTA
  <2>1. PICK n \in 0 .. LastTick \div DELTA : u = n * DELTA
    BY DEF Ticks
  <2> QED
    BY <2>1
<1> QED
  BY <1>1, <1>2, Multiples

(* recalc_timers finds the value of a running timer, or UINT_MAX.          *)
LEMMA Recalculated ==
  ASSUME NEW timers \in [Timer -> Nat]
  PROVE  /\ RecalcTimers(timers) \in Nat
         /\ \/ RecalcTimers(timers) = UINT_MAX
            \/ \E k \in Timer : timers[k] = RecalcTimers(timers)
<1> DEFINE T == {UINT_MAX} \cup {timers[k] : k \in Running(timers)}
<1>1. T \in SUBSET Nat /\ T # {}
  BY TimersAssumption DEF Running
<1>2. Min(T) \in T
  BY <1>1, LeastElement
<1> QED
  BY <1>1, <1>2 DEF RecalcTimers, Running

-----------------------------------------------------------------------------
(* The steps.                                                              *)

(* The types the steps need, taken out of the invariant.                   *)
LEMMA Clock ==
  ASSUME IInv
  PROVE  /\ tick \in Nat /\ tick <= LastTick /\ offset \in Nat /\ offset <= DELTA
         /\ timeout_interval \in Nat /\ DELTA \in Nat \ {0}
         /\ ack_timer \in [Timer -> Nat]
         /\ lowest_timer \in Nat /\ aux_timer \in Nat
BY TicksInRange, TimersAssumption DEF IInv, TypeOK

(* Setting a timer to a value no running timer has, below a new bound, or  *)
(* to 0.                                                                   *)
LEMMA TimerSet ==
  ASSUME IInv, NEW k \in Timer, NEW value \in Nat, SetTimer(k, value),
         NEW bound \in Nat,
         \A j \in Running(ack_timer) : ack_timer[j] < bound /\ ack_timer[j] # value,
         value < bound \/ value = 0
  PROVE  /\ ack_timer' \in [Timer -> Nat] /\ lowest_timer' \in Nat
         /\ LowestKnown'
         /\ \A i, j \in Running(ack_timer') : i # j => ack_timer'[i] # ack_timer'[j]
         /\ \A j \in Running(ack_timer') : ack_timer'[j] < bound
<1>1. /\ ack_timer \in [Timer -> Nat]
      /\ \A i, j \in Running(ack_timer) : i # j => ack_timer[i] # ack_timer[j]
  BY Clock DEF IInv, UniqueTimers
<1>2. /\ ack_timer' = [ack_timer EXCEPT ![k] = value]
      /\ lowest_timer' = RecalcTimers(ack_timer')
  BY DEF SetTimer
<1>3. ack_timer' \in [Timer -> Nat]
  BY <1>1, <1>2
<1>4. \A j \in Running(ack_timer') :
        \/ j = k /\ ack_timer'[j] = value /\ value > 0
        \/ j # k /\ j \in Running(ack_timer) /\ ack_timer'[j] = ack_timer[j]
  BY <1>1, <1>2 DEF Running
<1>5. lowest_timer' \in Nat /\ LowestKnown'
  BY <1>2, <1>3, Recalculated DEF LowestKnown
<1> QED
  BY <1>1, <1>3, <1>4, <1>5

(* Init establishes the invariant.                                         *)
LEMMA InitInvariant == Init => IInv
<1> SUFFICES ASSUME Init PROVE IInv
  OBVIOUS
<1> USE TimersAssumption DEF Init
<1>1. 0 \in Ticks
  <2>1. 0 \in 0 .. LastTick \div DELTA /\ 0 = 0 * DELTA
    OBVIOUS
  <2> QED
    BY <2>1 DEF Ticks
<1>2. TypeOK
  BY <1>1 DEF TypeOK
<1>3. UniqueTimers
  BY DEF UniqueTimers, Running
<1> QED
  BY <1>2, <1>3 DEF IInv, LowestKnown, NeverImpossible

(* start_timer gives the timer a value no other one has.                   *)
LEMMA StartTimerStep ==
  ASSUME IInv, NEW k \in Timer, StartTimer(k)
  PROVE  IInv'
<1> DEFINE value == tick + timeout_interval + offset
<1>1. /\ phase = "handler" /\ phase' = "handler" /\ offset < MaxStarts
      /\ SetTimer(k, value) /\ offset' = offset + 1
      /\ tick' = tick
  BY DEF StartTimer
<1>2. value \in Nat /\ value + 1 \in Nat
  BY Clock
<1>3. \A j \in Running(ack_timer) : ack_timer[j] < value + 1 /\ ack_timer[j] # value
  <2> TAKE j \in Running(ack_timer)
  <2>1. ack_timer[j] < tick + timeout_interval + offset /\ ack_timer[j] \in Nat
    BY <1>1, Clock DEF IInv, UniqueTimers, Running
  <2> QED
    BY <1>2, <2>1
<1>4. /\ ack_timer' \in [Timer -> Nat] /\ lowest_timer' \in Nat
      /\ LowestKnown'
      /\ \A i, j \in Running(ack_timer') : i # j => ack_timer'[i] # ack_timer'[j]
      /\ \A j \in Running(ack_timer') : ack_timer'[j] < value + 1
  <2> HIDE DEF value
  <2>1. value < value + 1
    BY <1>2
  <2> QED
    BY <1>1, <1>2, <1>3, <2>1, TimerSet
<1>5. UniqueTimers'
  <2>1. value + 1 = tick' + timeout_interval + offset'
    BY <1>1, Clock
  <2> QED
    BY <1>1, <1>4, <2>1 DEF UniqueTimers
<1>6. TypeOK'
  BY <1>1, <1>4, TimersAssumption DEF IInv, TypeOK, StartTimer
<1> QED
  BY <1>1, <1>4, <1>5, <1>6 DEF IInv, NeverImpossible

(* stop_timer takes one value away.                                        *)
LEMMA StopTimerStep ==
  ASSUME IInv, NEW k \in Timer, StopTimer(k)
  PROVE  IInv'
<1> DEFINE bound == tick + timeout_interval + offset
<1>1. /\ phase = "handler" /\ phase' = "handler"
      /\ SetTimer(k, 0) /\ offset' = offset
      /\ tick' = tick
  BY DEF StopTimer
<1>2. bound \in Nat
  BY Clock
<1>3. \A j \in Running(ack_timer) : ack_timer[j] < bound /\ ack_timer[j] # 0
  BY <1>1, Clock DEF IInv, UniqueTimers, Running
<1>4. /\ ack_timer' \in [Timer -> Nat] /\ lowest_timer' \in Nat
      /\ LowestKnown'
      /\ \A i, j \in Running(ack_timer') : i # j => ack_timer'[i] # ack_timer'[j]
      /\ \A j \in Running(ack_timer') : ack_timer'[j] < bound
  <2> HIDE DEF bound
  <2> QED
    BY <1>1, <1>2, <1>3, TimerSet
<1>5. UniqueTimers'
  BY <1>1, <1>4 DEF UniqueTimers
<1>6. TypeOK'
  BY <1>1, <1>4 DEF IInv, TypeOK, StopTimer
<1> QED
  BY <1>1, <1>4, <1>5, <1>6 DEF IInv, NeverImpossible

(* The steps that change no data frame timer: the clock may go on, and the *)
(* worker may start to wait.                                               *)
LEMMA TimersKept ==
  ASSUME IInv, TypeOK', UNCHANGED <<ack_timer, lowest_timer>>,
         \/ tick' = tick /\ phase' = phase /\ offset' >= offset
         \/ tick' = tick /\ phase = "handler" /\ phase' = "waiting"
         \/ tick' > tick /\ phase = "waiting" /\ phase' \in {"waiting", "handler"},
         phase' # "exited"
  PROVE  IInv'
<1>1. /\ tick \in Nat /\ tick' \in Nat /\ offset \in Nat /\ offset <= DELTA /\ offset' \in Nat
      /\ timeout_interval \in Nat /\ DELTA \in Nat \ {0}
      /\ ack_timer \in [Timer -> Nat]
  BY Clock, TicksInRange, TimersAssumption DEF TypeOK
<1>2. ASSUME NEW k \in Running(ack_timer)
      PROVE  ack_timer[k] < tick' + timeout_interval
                              + (IF phase' = "handler" THEN offset' ELSE DELTA)
  <2>1. /\ ack_timer[k] \in Nat
        /\ ack_timer[k] < tick + timeout_interval
                            + (IF phase = "handler" THEN offset ELSE DELTA)
    BY <1>1 DEF IInv, UniqueTimers, Running
  <2>2. CASE tick' = tick /\ phase' = phase /\ offset' >= offset
    BY <1>1, <2>1, <2>2
  <2>3. CASE tick' = tick /\ phase = "handler" /\ phase' = "waiting"
    BY <1>1, <2>1, <2>3
  <2>4. CASE tick' > tick /\ phase = "waiting" /\ phase' \in {"waiting", "handler"}
    <3>1. tick' >= tick + DELTA
      BY <2>4, NextTick DEF IInv, TypeOK
    <3> QED
      BY <1>1, <2>1, <2>4, <3>1
  <2> QED
    BY <2>2, <2>3, <2>4
<1>3. UniqueTimers'
  BY <1>2 DEF IInv, UniqueTimers
<1> QED
  BY <1>3 DEF IInv, LowestKnown, NeverImpossible

(* The steps of a handler that leave the data frame timers alone.          *)
LEMMA OtherHandlerStep ==
  ASSUME IInv,
         StartAckTimer \/ StopAckTimer \/ WaitForEvent
           \/ \E status \in {0, 1} : SetNetworkLayer(status)
  PROVE  IInv'
<1> USE TimersAssumption
<1>1. CASE StartAckTimer
  <2>1. aux_timer' \in Nat
    BY <1>1, Clock DEF StartAckTimer
  <2>2. TypeOK'
    BY <1>1, <2>1 DEF IInv, TypeOK, StartAckTimer
  <2>3. tick' = tick /\ phase' = phase /\ phase = "handler" /\ offset' >= offset
    BY <1>1, Clock DEF StartAckTimer
  <2> QED
    BY <1>1, <2>2, <2>3, TimersKept DEF StartAckTimer
<1>2. CASE StopAckTimer
  <2>1. TypeOK'
    BY <1>2 DEF IInv, TypeOK, StopAckTimer
  <2>2. tick' = tick /\ phase' = phase /\ phase = "handler" /\ offset' >= offset
    BY <1>2, Clock DEF StopAckTimer
  <2> QED
    BY <1>2, <2>1, <2>2, TimersKept DEF StopAckTimer
<1>3. CASE WaitForEvent
  <2>1. TypeOK'
    BY <1>3 DEF IInv, TypeOK, WaitForEvent, timer_vars
  <2> QED
    BY <1>3, <2>1, TimersKept DEF WaitForEvent, timer_vars
<1>4. CASE \E status \in {0, 1} : SetNetworkLayer(status)
  <2>1. TypeOK'
    BY <1>4 DEF IInv, TypeOK, SetNetworkLayer, timer_vars
  <2>2. tick' = tick /\ phase' = phase /\ phase = "handler" /\ offset' >= offset
    BY <1>4, Clock DEF SetNetworkLayer
  <2> QED
    BY <1>4, <2>1, <2>2, TimersKept DEF SetNetworkLayer, timer_vars
<1> QED
  BY <1>1, <1>2, <1>3, <1>4

(* A go-ahead that does not make a data frame timer go off.                *)
LEMMA OtherTurnStep ==
  ASSUME IInv, AckTimeout \/ FrameEvent \/ NetworkLayerReady \/ NoEvent
  PROVE  IInv'
<1>1. /\ phase = "waiting" /\ phase' \in {"waiting", "handler"}
      /\ tick' \in Ticks /\ tick' > tick
      /\ UNCHANGED <<ack_timer, lowest_timer>>
  BY DEF AckTimeout, FrameEvent, NetworkLayerReady, NoEvent, GoAhead, Returns, timer_vars
<1>2. TypeOK'
  <2>1. CASE AckTimeout
    BY <1>1, <2>1 DEF IInv, TypeOK, AckTimeout, Returns
  <2>2. CASE FrameEvent \/ NetworkLayerReady
    BY <1>1, <2>2 DEF IInv, TypeOK, FrameEvent, NetworkLayerReady, Returns, timer_vars
  <2>3. CASE NoEvent
    BY <1>1, <2>3 DEF IInv, TypeOK, NoEvent, Word, timer_vars
  <2> QED
    BY <2>1, <2>2, <2>3
<1> QED
  BY <1>1, <1>2, TimersKept

(* When the lowest timer has run out it belongs to a slot.                 *)
LEMMA TimerFound ==
  ASSUME IInv, NEW t \in Ticks, lowest_timer # 0, t >= lowest_timer
  PROVE  \E k \in Timer : ack_timer[k] = lowest_timer
<1>1. lowest_timer = RecalcTimers(ack_timer)
  BY DEF IInv, LowestKnown
<1>2. \/ RecalcTimers(ack_timer) = UINT_MAX
      \/ \E k \in Timer : ack_timer[k] = RecalcTimers(ack_timer)
  BY Clock, Recalculated
<1>3. t < UINT_MAX /\ t \in Nat
  BY TicksInRange, TimersAssumption
<1> QED
  BY <1>1, <1>2, <1>3, TimersAssumption

(* The lowest timer goes off.                                              *)
LEMMA TimeoutStep ==
  ASSUME IInv, Timeout
  PROVE  IInv'
<1> DEFINE hits == {k \in Timer : ack_timer[k] = lowest_timer}
           bound == tick + timeout_interval + DELTA
<1>1. /\ phase = "waiting" /\ tick' \in Ticks /\ tick' > tick
      /\ lowest_timer # 0 /\ tick' >= lowest_timer
  BY DEF Timeout, GoAhead, TimerExpired
<1>2. hits # {}
  BY <1>1, TimerFound
<1>3. Min(hits) \in Timer
  <2>1. hits \in SUBSET Nat
    BY TimersAssumption DEF Timer
  <2> QED
    BY <1>2, <2>1, LeastElement
<1>4. SetTimer(Min(hits), 0) /\ Returns("timeout") /\ aux_timer' = aux_timer
  BY <1>2 DEF Timeout
<1>5. bound \in Nat /\ \A j \in Running(ack_timer) : ack_timer[j] < bound /\ ack_timer[j] # 0
  BY <1>1, Clock DEF IInv, UniqueTimers, Running
<1>6. /\ ack_timer' \in [Timer -> Nat] /\ lowest_timer' \in Nat
      /\ LowestKnown'
      /\ \A i, j \in Running(ack_timer') : i # j => ack_timer'[i] # ack_timer'[j]
      /\ \A j \in Running(ack_timer') : ack_timer'[j] < bound
  <2> HIDE DEF bound, hits
  <2> QED
    BY <1>3, <1>4, <1>5, TimerSet
<1>7. TypeOK'
  BY <1>1, <1>4, <1>6 DEF IInv, TypeOK, Returns
<1>8. UniqueTimers'
  <2>1. /\ tick' >= tick + DELTA /\ tick' \in Nat /\ offset' \in Nat /\ phase' = "handler"
    BY <1>1, <1>4, Clock, NextTick, TicksInRange DEF IInv, TypeOK, Returns
  <2>2. \A j \in Running(ack_timer') : ack_timer'[j] < tick' + timeout_interval + offset'
    <3> TAKE j \in Running(ack_timer')
    <3>1. ack_timer'[j] < bound /\ ack_timer'[j] \in Nat
      BY <1>6 DEF Running
    <3> QED
      BY <2>1, <3>1, Clock
  <2> QED
    BY <1>6, <2>1, <2>2 DEF UniqueTimers
<1> QED
  BY <1>4, <1>6, <1>7, <1>8 DEF IInv, NeverImpossible, Returns

(* Every step keeps the invariant.                                         *)
LEMMA StepInvariant == IInv /\ [Next]_vars => IInv'
<1> SUFFICES ASSUME IInv, [Next]_vars PROVE IInv'
  OBVIOUS
<1>1. CASE Handler
  BY <1>1, StartTimerStep, StopTimerStep, OtherHandlerStep DEF Handler
<1>2. CASE Turn
  BY <1>2, OtherTurnStep, TimeoutStep DEF Turn
<1>3. CASE UNCHANGED vars
  BY <1>3 DEF IInv, TypeOK, UniqueTimers, LowestKnown, NeverImpossible, vars, timer_vars
<1> QED
  BY <1>1, <1>2, <1>3 DEF Next

(* The inductive invariant holds whatever the protocol does in its         *)
(* handlers and whenever main gives the worker a turn.                     *)
THEOREM Invariant == Spec => []IInv
<1>1. Init => IInv
  BY InitInvariant
<1> QED
  BY <1>1, StepInvariant, PTL DEF Spec

(* Type correctness of the timers.                                         *)
THEOREM TypeCorrect == Spec => []TypeOK
<1>1. IInv => TypeOK
  BY DEF IInv
<1> QED
  BY <1>1, Invariant, PTL

(* The claim of check_timers: no two running timers have the same value,   *)
(* and the next timer that is started goes off after all that run.         *)
THEOREM UniqueTimersTheorem == Spec => []UniqueTimers
<1>1. IInv => UniqueTimers
  BY DEF IInv
<1> QED
  BY <1>1, Invariant, PTL

(* check_timers never prints "Impossible": when the lowest timer has run   *)
(* out, there is a slot with that value.                                   *)
THEOREM NeverImpossibleTheorem == Spec => []NeverImpossible
<1>1. IInv => NeverImpossible
  BY DEF IInv
<1> QED
  BY <1>1, Invariant, PTL

-----------------------------------------------------------------------------
(* The refinement of TimerQueue.  InOrder is a CHOOSE, which needs a       *)
(* sequence to choose; that there is one is carried along as an invariant, *)
(* and that there is only one follows because no two values are the same.  *)

(* The running timers in the order of their values, each once.             *)
Arranged(ts, timers) ==
  /\ ts \in Seq(Running(timers))
  /\ \A k \in Running(timers) : \E i \in 1 .. Len(ts) : ts[i] = k
  /\ \A i, j \in 1 .. Len(ts) : i < j => timers[ts[i]] < timers[ts[j]]

(* What Arranged says of single positions.                                 *)
LEMMA ArrangedAt ==
  ASSUME NEW timers \in [Timer -> Nat], NEW ts, Arranged(ts, timers)
  PROVE  /\ Len(ts) \in Nat /\ DOMAIN ts = 1 .. Len(ts)
         /\ \A i \in 1 .. Len(ts) : /\ ts[i] \in Running(timers) /\ ts[i] \in Timer
                                    /\ timers[ts[i]] \in Nat
         /\ \A i, j \in 1 .. Len(ts) : ts[i] = ts[j] => i = j
<1>1. ts \in Seq(Running(timers)) /\ Running(timers) \subseteq Timer
  BY DEF Arranged, Running
<1>2. Len(ts) \in Nat /\ DOMAIN ts = 1 .. Len(ts)
  BY <1>1, LenProperties
<1>3. \A i \in 1 .. Len(ts) : ts[i] \in Running(timers) /\ ts[i] \in Timer /\ timers[ts[i]] \in Nat
  BY <1>1
<1>4. ASSUME NEW i \in 1 .. Len(ts), NEW j \in 1 .. Len(ts), ts[i] = ts[j]
      PROVE  i = j
  <2>1. timers[ts[i]] \in Nat /\ timers[ts[i]] = timers[ts[j]]
    BY <1>3, <1>4
  <2>2. \A m, n \in 1 .. Len(ts) : m < n => timers[ts[m]] < timers[ts[n]]
    BY DEF Arranged
  <2>3. ~(timers[ts[i]] < timers[ts[j]]) /\ ~(timers[ts[j]] < timers[ts[i]])
    BY <2>1
  <2>4. ~(i < j) /\ ~(j < i)
    BY <2>2, <2>3
  <2> QED
    BY <1>2, <2>4
<1> QED
  BY <1>2, <1>3, <1>4

(* Two arrangements agree wherever both are defined: at the first place    *)
(* where they differ each would have a smaller value than the other.       *)
LEMMA ArrangedAgree ==
  ASSUME NEW timers \in [Timer -> Nat], NEW ss, NEW ts,
         Arranged(ss, timers), Arranged(ts, timers)
  PROVE  \A i \in 1 .. Len(ss) : i <= Len(ts) => ss[i] = ts[i]
<1> DEFINE D == {i \in 1 .. Len(ss) : i <= Len(ts) /\ ss[i] # ts[i]}
<1> SUFFICES ASSUME D # {} PROVE FALSE
  OBVIOUS
<1>1. /\ Len(ss) \in Nat /\ Len(ts) \in Nat
      /\ \A i \in 1 .. Len(ss) : ss[i] \in Running(timers) /\ timers[ss[i]] \in Nat
      /\ \A i \in 1 .. Len(ts) : ts[i] \in Running(timers) /\ timers[ts[i]] \in Nat
      /\ \A i, j \in 1 .. Len(ss) : ss[i] = ss[j] => i = j
      /\ \A i, j \in 1 .. Len(ts) : ts[i] = ts[j] => i = j
  BY ArrangedAt
<1>2. PICK i \in D : \A j \in D : i <= j
  <2>1. D \in SUBSET Nat
    BY <1>1
  <2> QED
    BY <2>1, LeastElement
<1>3. i \in 1 .. Len(ss) /\ i \in 1 .. Len(ts) /\ ss[i] # ts[i]
  BY <1>1
<1>4. \A j \in 1 .. Len(ss) : j < i => j \in 1 .. Len(ts) /\ ss[j] = ts[j]
  BY <1>1, <1>2, <1>3
<1>5. PICK j \in 1 .. Len(ts) : ts[j] = ss[i]
  BY <1>1, <1>3 DEF Arranged
<1>6. PICK k \in 1 .. Len(ss) : ss[k] = ts[i]
  BY <1>1, <1>3 DEF Arranged
<1>7. i < j
  <2>1. j # i
    BY <1>3, <1>5
  <2>2. ~(j < i)
    <3> SUFFICES ASSUME j < i PROVE FALSE
      OBVIOUS
    <3>1. j \in 1 .. Len(ss)
      BY <1>1, <1>3
    <3>2. ss[j] = ss[i]
      BY <1>4, <1>5, <3>1
    <3> QED
      BY <1>1, <1>3, <3>1, <3>2
  <2> QED
    BY <1>1, <1>3, <2>1, <2>2
<1>8. i < k
  <2>1. k # i
    BY <1>3, <1>6
  <2>2. ~(k < i)
    <3> SUFFICES ASSUME k < i PROVE FALSE
      OBVIOUS
    <3>1. k \in 1 .. Len(ts) /\ ts[k] = ts[i]
      BY <1>4, <1>6
    <3> QED
      BY <1>1, <1>3, <3>1
  <2> QED
    BY <1>1, <1>3, <2>1, <2>2
<1>9. timers[ts[i]] < timers[ts[j]] /\ timers[ss[i]] < timers[ss[k]]
  BY <1>3, <1>7, <1>8 DEF Arranged
<1>10. timers[ts[i]] < timers[ss[i]] /\ timers[ss[i]] < timers[ts[i]]
  BY <1>5, <1>6, <1>9
<1> QED
  BY <1>1, <1>3, <1>10

(* There is at most one arrangement.                                       *)
LEMMA ArrangedOnce ==
  ASSUME NEW timers \in [Timer -> Nat], NEW ss, NEW ts,
         Arranged(ss, timers), Arranged(ts, timers)
  PROVE  ss = ts
<1>1. ASSUME NEW xs, NEW ys, Arranged(xs, timers), Arranged(ys, timers)
      PROVE  ~(Len(xs) < Len(ys))
  <2> SUFFICES ASSUME Len(xs) < Len(ys) PROVE FALSE
    OBVIOUS
  <2> DEFINE n == Len(xs) + 1
  <2>1. /\ Len(xs) \in Nat /\ Len(ys) \in Nat
        /\ \A i \in 1 .. Len(ys) : ys[i] \in Running(timers)
        /\ \A i, j \in 1 .. Len(ys) : ys[i] = ys[j] => i = j
    BY <1>1, ArrangedAt
  <2>2. n \in 1 .. Len(ys)
    BY <2>1
  <2>3. PICK j \in 1 .. Len(xs) : xs[j] = ys[n]
    BY <1>1, <2>1, <2>2 DEF Arranged
  <2>4. j \in 1 .. Len(ys) /\ j <= Len(ys)
    BY <2>1
  <2>5. xs[j] = ys[j]
    BY <1>1, <2>4, ArrangedAgree
  <2> HIDE DEF n
  <2>6. j = n
    BY <2>1, <2>2, <2>3, <2>4, <2>5
  <2> QED
    BY <2>1, <2>6 DEF n
<1>2. /\ Len(ss) \in Nat /\ Len(ts) \in Nat
      /\ ss \in Seq(Running(timers)) /\ ts \in Seq(Running(timers))
  BY ArrangedAt DEF Arranged
<1>3. Len(ss) = Len(ts)
  <2>1. ~(Len(ss) < Len(ts)) /\ ~(Len(ts) < Len(ss))
    BY <1>1
  <2> QED
    BY <1>2, <2>1
<1>4. \A i \in 1 .. Len(ss) : ss[i] = ts[i]
  <2>1. \A i \in 1 .. Len(ss) : i <= Len(ts) => ss[i] = ts[i]
    BY ArrangedAgree
  <2> QED
    BY <1>2, <1>3, <2>1
<1> QED
  BY <1>2, <1>3, <1>4, SeqEqual

(* So InOrder chooses the arrangement when there is one.                   *)
LEMMA InOrderIs ==
  ASSUME NEW timers \in [Timer -> Nat], NEW ts, Arranged(ts, timers),
         \A j, k \in Running(timers) : j # k => timers[j] # timers[k]
  PROVE  InOrder(timers) = ts
<1> DEFINE R == Running(timers)
           n == Cardinality(R)
           Ordered(us) == \A i, j \in DOMAIN us :
                            i < j => us[i] # us[j] /\ timers[us[i]] <= timers[us[j]]
<1>1. /\ Len(ts) \in Nat /\ DOMAIN ts = 1 .. Len(ts)
      /\ \A i \in 1 .. Len(ts) : ts[i] \in R /\ timers[ts[i]] \in Nat
      /\ \A i, j \in 1 .. Len(ts) : ts[i] = ts[j] => i = j
  BY ArrangedAt
<1>2. IsFiniteSet(R)
  <2>1. IsFiniteSet(Timer)
    BY FS_Interval, TimersAssumption DEF Timer
  <2>2. R \in SUBSET Timer
    BY DEF Running
  <2> QED
    BY <2>1, <2>2, FS_Subset
<1>3. n = Len(ts)
  <2>1. ts \in Bijection(1 .. Len(ts), R)
    <3>1. ts \in [1 .. Len(ts) -> R]
      BY <1>1 DEF Arranged
    <3> QED
      BY <1>1, <3>1 DEF Arranged, Bijection, Injection, Surjection, IsInjective
  <2> QED
    BY <1>1, <2>1, FS_CountingElements DEF ExistsBijection
<1>4. ts \in [1 .. n -> R] /\ Ordered(ts)
  BY <1>1, <1>3 DEF Arranged
<1>5. ASSUME NEW us \in [1 .. n -> R], Ordered(us)
      PROVE  Arranged(us, timers)
  <2>1. n \in Nat /\ DOMAIN us = 1 .. n /\ us \in Seq(R) /\ Len(us) = n
    BY <1>1, <1>3
  <2>2. \A i, j \in 1 .. n : us[i] = us[j] => i = j
    BY <1>5, <2>1
  <2>3. us \in Injection(1 .. n, R)
    BY <2>2 DEF Injection, IsInjective
  <2>4. Cardinality(1 .. n) = n
    BY <2>1, FS_Interval
  <2>5. us \in Surjection(1 .. n, R)
    BY <1>2, <2>3, <2>4, FS_Injection
  <2>6. \A k \in R : \E i \in 1 .. n : us[i] = k
    BY <2>5 DEF Surjection
  <2>7. ASSUME NEW i \in 1 .. n, NEW j \in 1 .. n, i < j
        PROVE  timers[us[i]] < timers[us[j]]
    <3>1. us[i] \in R /\ us[j] \in R /\ us[i] # us[j] /\ timers[us[i]] <= timers[us[j]]
      BY <1>5, <2>1, <2>7
    <3>2. timers[us[i]] \in Nat /\ timers[us[j]] \in Nat
      BY <3>1 DEF Running
    <3> QED
      BY <3>1, <3>2
  <2> QED
    BY <2>1, <2>6, <2>7 DEF Arranged
<1>6. InOrder(timers) = CHOOSE us \in [1 .. n -> R] : Ordered(us)
  BY DEF InOrder
<1> HIDE DEF R, n, Ordered
<1>7. InOrder(timers) \in [1 .. n -> R] /\ Ordered(InOrder(timers))
  BY <1>4, <1>6
<1> QED
  BY <1>5, <1>7, ArrangedOnce

(* A sequence without one of its elements, index by index.                 *)
LEMMA RemoveAtIndex ==
  ASSUME NEW X, NEW ts \in Seq(X), NEW i \in 1 .. Len(ts)
  PROVE  /\ RemoveAt(ts, i) \in Seq(X) /\ Len(RemoveAt(ts, i)) = Len(ts) - 1
         /\ \A j \in 1 .. Len(ts) - 1 : RemoveAt(ts, i)[j] = IF j < i THEN ts[j] ELSE ts[j + 1]
<1> DEFINE us == SubSeq(ts, 1, i - 1)
           vs == SubSeq(ts, i + 1, Len(ts))
<1>1. /\ us \in Seq(X) /\ Len(us) = i - 1
      /\ \A j \in 1 .. i - 1 : us[j] = ts[j]
  <2>1. 1 \in Int /\ i - 1 \in Int /\ \A j \in 1 .. i - 1 : ts[j] \in X
    OBVIOUS
  <2>2. /\ us \in Seq(X) /\ Len(us) = IF 1 <= i - 1 THEN (i - 1) - 1 + 1 ELSE 0
        /\ \A j \in 1 .. (i - 1) - 1 + 1 : us[j] = ts[1 + j - 1]
    BY <2>1, SubSeqProperties
  <2> HIDE DEF us
  <2> QED
    BY <2>2
<1>2. /\ vs \in Seq(X) /\ Len(vs) = Len(ts) - i
      /\ \A j \in 1 .. Len(ts) - i : vs[j] = ts[i + j]
  <2>1. i + 1 \in Int /\ Len(ts) \in Nat /\ \A j \in i + 1 .. Len(ts) : ts[j] \in X
    OBVIOUS
  <2>2. /\ vs \in Seq(X) /\ Len(vs) = IF i + 1 <= Len(ts) THEN Len(ts) - (i + 1) + 1 ELSE 0
        /\ \A j \in 1 .. Len(ts) - (i + 1) + 1 : vs[j] = ts[(i + 1) + j - 1]
    BY <2>1, SubSeqProperties
  <2> HIDE DEF vs
  <2> QED
    BY <2>1, <2>2
<1>3. RemoveAt(ts, i) = us \o vs
  BY DEF RemoveAt
<1> HIDE DEF us, vs
<1>4. /\ us \o vs \in Seq(X) /\ Len(us \o vs) = Len(us) + Len(vs)
      /\ \A j \in 1 .. Len(us) + Len(vs) :
           (us \o vs)[j] = IF j <= Len(us) THEN us[j] ELSE vs[j - Len(us)]
  BY <1>1, <1>2, ConcatProperties
<1>5. Len(us) + Len(vs) = Len(ts) - 1
  BY <1>1, <1>2
<1>6. ASSUME NEW j \in 1 .. Len(ts) - 1
      PROVE  (us \o vs)[j] = IF j < i THEN ts[j] ELSE ts[j + 1]
  <2>1. (us \o vs)[j] = IF j <= i - 1 THEN us[j] ELSE vs[j - (i - 1)]
    BY <1>1, <1>4, <1>5
  <2>2. CASE j < i
    <3>1. j <= i - 1 /\ j \in 1 .. i - 1
      BY <2>2
    <3> QED
      BY <1>1, <2>1, <2>2, <3>1
  <2>3. CASE ~(j < i)
    <3>1. ~(j <= i - 1) /\ j - (i - 1) \in 1 .. Len(ts) - i /\ i + (j - (i - 1)) = j + 1
      BY <2>3
    <3> QED
      BY <1>2, <2>1, <2>3, <3>1
  <2> QED
    BY <2>2, <2>3
<1> QED
  BY <1>3, <1>4, <1>5, <1>6

(* stop_timer on slot k: the others stay in their order.                   *)
LEMMA StopArranged ==
  ASSUME NEW timers \in [Timer -> Nat], NEW ts, Arranged(ts, timers), NEW k \in Timer
  PROVE  Arranged(Queue!StopTimer(ts, k), [timers EXCEPT ![k] = 0])
<1> DEFINE stopped == [timers EXCEPT ![k] = 0]
<1>1. /\ stopped \in [Timer -> Nat]
      /\ Running(stopped) = Running(timers) \ {k}
      /\ \A j \in Running(stopped) : stopped[j] = timers[j]
  BY DEF Running
<1>2. /\ Len(ts) \in Nat /\ DOMAIN ts = 1 .. Len(ts)
      /\ \A i \in 1 .. Len(ts) : ts[i] \in Running(timers)
      /\ \A i, j \in 1 .. Len(ts) : ts[i] = ts[j] => i = j
  BY ArrangedAt
<1>3. /\ ts \in Seq(Running(timers))
      /\ \A j \in Running(timers) : \E i \in 1 .. Len(ts) : ts[i] = j
      /\ \A i, j \in 1 .. Len(ts) : i < j => timers[ts[i]] < timers[ts[j]]
  BY DEF Arranged
<1> HIDE DEF stopped
<1>4. CASE k \notin Running(timers)
  <2>1. ~ \E i \in DOMAIN ts : ts[i] = k
    BY <1>2, <1>4
  <2>2. Queue!StopTimer(ts, k) = ts
    BY <2>1 DEF Queue!StopTimer, Queue!RemoveAt, RemoveAt
  <2>3. Running(stopped) = Running(timers)
    BY <1>1, <1>4
  <2>4. \A i, j \in 1 .. Len(ts) : i < j => stopped[ts[i]] < stopped[ts[j]]
    BY <1>1, <1>2, <1>3, <2>3
  <2> QED
    BY <1>3, <2>2, <2>3, <2>4 DEF Arranged, stopped
<1>5. CASE k \in Running(timers)
  <2> DEFINE i == CHOOSE i \in DOMAIN ts : ts[i] = k
             us == RemoveAt(ts, i)
  <2>1. \E m \in DOMAIN ts : ts[m] = k
    BY <1>2, <1>3, <1>5
  <2>2. i \in 1 .. Len(ts) /\ ts[i] = k
    BY <1>2, <2>1
  <2>3. Queue!StopTimer(ts, k) = us
    BY <2>1 DEF Queue!StopTimer, Queue!RemoveAt, RemoveAt
  <2> HIDE DEF i
  <2>4. /\ us \in Seq(Running(timers)) /\ Len(us) = Len(ts) - 1
        /\ \A j \in 1 .. Len(ts) - 1 : us[j] = IF j < i THEN ts[j] ELSE ts[j + 1]
    BY <1>3, <2>2, RemoveAtIndex
  <2> HIDE DEF us
  <2> DEFINE old(j) == IF j < i THEN j ELSE j + 1
  <2>5. \A j \in 1 .. Len(ts) - 1 : old(j) \in 1 .. Len(ts) /\ old(j) # i /\ us[j] = ts[old(j)]
    BY <1>2, <2>2, <2>4
  <2>6. \A j, l \in 1 .. Len(ts) - 1 : j < l => old(j) < old(l)
    BY <1>2, <2>2
  <2>7. \A j \in 1 .. Len(ts) : j # i => \E l \in 1 .. Len(ts) - 1 : old(l) = j
    <3> SUFFICES ASSUME NEW j \in 1 .. Len(ts), j # i
                 PROVE  \E l \in 1 .. Len(ts) - 1 : old(l) = j
      OBVIOUS
    <3>1. CASE j < i
      <4>1. j \in 1 .. Len(ts) - 1 /\ old(j) = j
        BY <1>2, <2>2, <3>1
      <4> QED
        BY <4>1
    <3>2. CASE i < j
      <4>1. j - 1 \in 1 .. Len(ts) - 1 /\ old(j - 1) = j
        BY <1>2, <2>2, <3>2
      <4> QED
        BY <4>1
    <3> QED
      BY <1>2, <2>2, <3>1, <3>2
  <2> HIDE DEF old
  <2>8. \A j \in 1 .. Len(us) : us[j] \in Running(stopped)
    BY <1>1, <1>2, <2>2, <2>4, <2>5
  <2>9. us \in Seq(Running(stopped))
    BY <2>4, <2>8
  <2>10. ASSUME NEW j \in Running(stopped)
         PROVE  \E l \in 1 .. Len(us) : us[l] = j
    <3>1. PICK m \in 1 .. Len(ts) : ts[m] = j
      BY <1>1, <1>3
    <3>2. m # i
      BY <1>1, <2>2, <3>1
    <3>3. PICK l \in 1 .. Len(ts) - 1 : old(l) = m
      BY <2>7, <3>2
    <3> QED
      BY <2>4, <2>5, <3>1, <3>3
  <2>11. ASSUME NEW j \in 1 .. Len(us), NEW l \in 1 .. Len(us), j < l
         PROVE  stopped[us[j]] < stopped[us[l]]
    <3>1. /\ old(j) < old(l) /\ old(j) \in 1 .. Len(ts) /\ old(l) \in 1 .. Len(ts)
          /\ us[j] = ts[old(j)] /\ us[l] = ts[old(l)]
      BY <2>4, <2>5, <2>6, <2>11
    <3>2. timers[us[j]] < timers[us[l]]
      BY <1>3, <3>1
    <3>3. stopped[us[j]] = timers[us[j]] /\ stopped[us[l]] = timers[us[l]]
      BY <1>1, <2>8
    <3> QED
      BY <3>2, <3>3
  <2> QED
    BY <2>3, <2>9, <2>10, <2>11 DEF Arranged, stopped
<1> QED
  BY <1>4, <1>5

(* start_timer with a value above all others: slot k goes to the back.     *)
LEMMA StartArranged ==
  ASSUME NEW timers \in [Timer -> Nat], NEW ts, Arranged(ts, timers),
         NEW k \in Timer, NEW value \in Nat \ {0},
         \A j \in Running(timers) : timers[j] < value
  PROVE  Arranged(Queue!StartTimer(ts, k), [timers EXCEPT ![k] = value])
<1> DEFINE stopped == [timers EXCEPT ![k] = 0]
           started == [timers EXCEPT ![k] = value]
           us == Queue!StopTimer(ts, k)
           vs == Append(us, k)
<1>1. Arranged(us, stopped) /\ stopped \in [Timer -> Nat]
  BY StopArranged
<1>2. /\ started \in [Timer -> Nat]
      /\ Running(started) = Running(stopped) \cup {k} /\ k \notin Running(stopped)
      /\ started[k] = value
      /\ \A j \in Running(stopped) : started[j] = stopped[j] /\ started[j] < value
  BY DEF Running
<1>3. Queue!StartTimer(ts, k) = vs
  BY DEF Queue!StartTimer
<1> HIDE DEF stopped, started, us
<1>4. /\ us \in Seq(Running(stopped)) /\ Len(us) \in Nat
      /\ \A i \in 1 .. Len(us) : us[i] \in Running(stopped)
      /\ \A j \in Running(stopped) : \E i \in 1 .. Len(us) : us[i] = j
      /\ \A i, j \in 1 .. Len(us) : i < j => stopped[us[i]] < stopped[us[j]]
  BY <1>1, ArrangedAt DEF Arranged
<1>5. us \in Seq(Running(started)) /\ k \in Running(started)
  BY <1>2, <1>4
<1>6. /\ vs \in Seq(Running(started)) /\ Len(vs) = Len(us) + 1
      /\ \A i \in 1 .. Len(us) : vs[i] = us[i]
      /\ vs[Len(us) + 1] = k
  BY <1>5, AppendProperties
<1> HIDE DEF vs
<1>7. ASSUME NEW j \in Running(started)
      PROVE  \E i \in 1 .. Len(vs) : vs[i] = j
  <2>1. CASE j = k
    BY <1>4, <1>6, <2>1
  <2>2. CASE j # k
    <3>1. PICK i \in 1 .. Len(us) : us[i] = j
      BY <1>2, <1>4, <2>2
    <3> QED
      BY <1>4, <1>6, <3>1
  <2> QED
    BY <2>1, <2>2
<1>8. ASSUME NEW i \in 1 .. Len(vs), NEW j \in 1 .. Len(vs), i < j
      PROVE  started[vs[i]] < started[vs[j]]
  <2>1. i \in 1 .. Len(us) /\ vs[i] = us[i] /\ us[i] \in Running(stopped)
    BY <1>4, <1>6, <1>8
  <2>2. CASE j = Len(vs)
    BY <1>2, <1>4, <1>6, <2>1, <2>2
  <2>3. CASE j # Len(vs)
    <3>1. j \in 1 .. Len(us) /\ vs[j] = us[j] /\ us[j] \in Running(stopped)
      BY <1>4, <1>6, <2>3
    <3> QED
      BY <1>2, <1>4, <1>8, <2>1, <3>1
  <2> QED
    BY <2>2, <2>3
<1> QED
  BY <1>3, <1>6, <1>7, <1>8 DEF Arranged, started

(* The lowest timer goes off: it is the head, and the rest stays.          *)
LEMMA GoOffArranged ==
  ASSUME NEW timers \in [Timer -> Nat], NEW ts, Arranged(ts, timers), ts # <<>>
  PROVE  Arranged(Tail(ts), [timers EXCEPT ![ts[1]] = 0])
<1> DEFINE k == ts[1]
           n == Len(ts)
           stopped == [timers EXCEPT ![k] = 0]
           us == Tail(ts)
<1>1. /\ n \in Nat \ {0} /\ ts \in Seq(Running(timers))
      /\ us \in Seq(Running(timers)) /\ Len(us) = n - 1
      /\ \A i \in 1 .. n - 1 : us[i] = ts[i + 1]
  BY EmptySeq, LenProperties, HeadTailProperties DEF Arranged
<1>2. /\ \A i \in 1 .. n : ts[i] \in Running(timers) /\ ts[i] \in Timer
      /\ \A i, j \in 1 .. n : ts[i] = ts[j] => i = j
  BY ArrangedAt
<1>3. /\ \A j \in Running(timers) : \E i \in 1 .. n : ts[i] = j
      /\ \A i, j \in 1 .. n : i < j => timers[ts[i]] < timers[ts[j]]
  BY DEF Arranged
<1>4. /\ Running(stopped) = Running(timers) \ {k}
      /\ \A j \in Running(stopped) : stopped[j] = timers[j]
  BY DEF Running
<1>5. k = ts[1] /\ 1 \in 1 .. n
  BY <1>1
<1> HIDE DEF k, n, stopped, us
<1>6. \A i \in 1 .. n - 1 : i + 1 \in 1 .. n /\ i + 1 # 1 /\ us[i] = ts[i + 1]
  BY <1>1
<1>7. \A i \in 1 .. n - 1 : us[i] \in Running(stopped)
  BY <1>2, <1>4, <1>5, <1>6
<1>8. us \in Seq(Running(stopped))
  BY <1>1, <1>7
<1>9. ASSUME NEW j \in Running(stopped)
      PROVE  \E i \in 1 .. Len(us) : us[i] = j
  <2>1. PICK i \in 1 .. n : ts[i] = j
    BY <1>3, <1>4
  <2>2. i # 1
    BY <1>4, <1>5, <2>1
  <2>3. i - 1 \in 1 .. n - 1 /\ (i - 1) + 1 = i
    BY <1>1, <2>2
  <2>4. us[i - 1] = j
    BY <1>6, <2>1, <2>3
  <2> QED
    BY <1>1, <2>3, <2>4
<1>10. ASSUME NEW i \in 1 .. Len(us), NEW j \in 1 .. Len(us), i < j
       PROVE  stopped[us[i]] < stopped[us[j]]
  <2>1. i \in 1 .. n - 1 /\ j \in 1 .. n - 1 /\ i + 1 < j + 1
    BY <1>1, <1>10
  <2>2. timers[us[i]] < timers[us[j]]
    BY <1>3, <1>6, <2>1
  <2> QED
    BY <1>4, <1>7, <2>1, <2>2
<1> QED
  BY <1>8, <1>9, <1>10 DEF Arranged, k, stopped, us

(* What a step does to the arrangement and to what the protocol sees: one  *)
(* step of the queue.                                                      *)
QueueUnchanged(ts, us) == us = ts /\ UNCHANGED <<phase, event>>

HandlerSteps(ts, us) ==
  /\ phase = "handler" /\ UNCHANGED <<phase, event>>
  /\ \E k \in Timer : us = Queue!StartTimer(ts, k) \/ us = Queue!StopTimer(ts, k)

WaitSteps(ts, us) ==
  us = ts /\ phase = "handler" /\ phase' = "waiting" /\ UNCHANGED event

TimeoutSteps(ts, us) ==
  /\ phase = "waiting" /\ event' = "timeout" /\ phase' = "handler"
  /\ ts # <<>> /\ us = Tail(ts)

EventSteps(ts, us) ==
  /\ us = ts /\ phase = "waiting"
  /\ event' \in {"no_event", "frame", "network_layer_ready", "ack_timeout"}
  /\ phase' = IF event' = "no_event" THEN "waiting" ELSE "handler"

QueueSteps(ts, us) ==
  \/ QueueUnchanged(ts, us) \/ HandlerSteps(ts, us) \/ WaitSteps(ts, us)
  \/ TimeoutSteps(ts, us) \/ EventSteps(ts, us)

(* start_timer.  A timer that is started at tick 0 with interval 0 gets    *)
(* the value 0 and does not run, which is the same as stopping it.         *)
LEMMA StartQueues ==
  ASSUME IInv, NEW ts, Arranged(ts, ack_timer), NEW k \in Timer, StartTimer(k)
  PROVE  \E us : Arranged(us, ack_timer') /\ HandlerSteps(ts, us)
<1> DEFINE value == tick + timeout_interval + offset
<1>1. /\ ack_timer' = [ack_timer EXCEPT ![k] = value] /\ phase = "handler"
      /\ UNCHANGED <<phase, event>>
      /\ ack_timer \in [Timer -> Nat] /\ value \in Nat
  BY Clock DEF StartTimer, SetTimer
<1>2. \A j \in Running(ack_timer) : ack_timer[j] < value
  BY <1>1 DEF IInv, UniqueTimers
<1> HIDE DEF value
<1>3. CASE value = 0
  BY <1>1, <1>3, StopArranged DEF HandlerSteps
<1>4. CASE value # 0
  <2>1. value \in Nat \ {0}
    BY <1>1, <1>4
  <2> QED
    BY <1>1, <1>2, <2>1, StartArranged DEF HandlerSteps
<1> QED
  BY <1>3, <1>4

(* A timeout: the timer with the value of lowest_timer is the next one.    *)
LEMMA TimeoutQueues ==
  ASSUME IInv, NEW ts, Arranged(ts, ack_timer), Timeout
  PROVE  \E us : Arranged(us, ack_timer') /\ TimeoutSteps(ts, us)
<1> DEFINE hits == {k \in Timer : ack_timer[k] = lowest_timer}
           k == Min(hits)
           values == {UINT_MAX} \cup {ack_timer[j] : j \in Running(ack_timer)}
<1>1. /\ tick' \in Ticks /\ lowest_timer # 0 /\ tick' >= lowest_timer
      /\ ack_timer \in [Timer -> Nat] /\ lowest_timer \in Nat
  BY Clock DEF Timeout, GoAhead, TimerExpired
<1>2. hits # {}
  BY <1>1, TimerFound
<1>3. k \in hits
  <2>1. hits \in SUBSET Nat
    BY TimersAssumption DEF Timer
  <2> QED
    BY <1>2, <2>1, LeastElement
<1>4. /\ ack_timer' = [ack_timer EXCEPT ![k] = 0]
      /\ phase = "waiting" /\ event' = "timeout" /\ phase' = "handler"
  BY <1>2 DEF Timeout, SetTimer, Returns, GoAhead
<1>5. k \in Running(ack_timer) /\ ack_timer[k] = lowest_timer
  BY <1>1, <1>3 DEF Running
<1>6. \A j \in Running(ack_timer) : lowest_timer <= ack_timer[j]
  <2>1. lowest_timer = Min(values)
    BY <1>1 DEF IInv, LowestKnown, RecalcTimers
  <2>2. values \in SUBSET Nat /\ values # {}
    BY <1>1, TimersAssumption DEF Running
  <2> QED
    BY <2>1, <2>2, LeastElement
<1> HIDE DEF k, hits, values
<1>7. /\ Len(ts) \in Nat
      /\ \A i \in 1 .. Len(ts) : ts[i] \in Running(ack_timer) /\ ack_timer[ts[i]] \in Nat
  BY <1>1, ArrangedAt
<1>8. PICK i \in 1 .. Len(ts) : ts[i] = k
  BY <1>5 DEF Arranged
<1>9. 1 \in 1 .. Len(ts)
  BY <1>7, <1>8
<1>10. ts[1] = k
  <2> SUFFICES ASSUME i # 1 PROVE FALSE
    BY <1>8
  <2>1. 1 < i
    BY <1>7
  <2>2. ack_timer[ts[1]] < ack_timer[ts[i]]
    BY <1>9, <2>1 DEF Arranged
  <2> QED
    BY <1>5, <1>6, <1>7, <1>8, <1>9, <2>2
<1>11. ts # <<>>
  BY <1>9
<1> QED
  BY <1>1, <1>4, <1>10, <1>11, GoOffArranged DEF TimeoutSteps

(* Every step of the worker.                                               *)
LEMMA StepQueues ==
  ASSUME IInv, [Next]_vars, NEW ts, Arranged(ts, ack_timer)
  PROVE  \E us : Arranged(us, ack_timer') /\ QueueSteps(ts, us)
<1>1. CASE \E k \in Timer : StartTimer(k)
  BY <1>1, StartQueues DEF QueueSteps
<1>2. CASE \E k \in Timer : StopTimer(k)
  <2>1. PICK k \in Timer : StopTimer(k)
    BY <1>2
  <2>2. /\ ack_timer' = [ack_timer EXCEPT ![k] = 0] /\ ack_timer \in [Timer -> Nat]
        /\ phase = "handler" /\ UNCHANGED <<phase, event>>
    BY <2>1, Clock DEF StopTimer, SetTimer
  <2> QED
    BY <2>2, StopArranged DEF QueueSteps, HandlerSteps
<1>3. CASE Timeout
  BY <1>3, TimeoutQueues DEF QueueSteps
<1>4. CASE \/ StartAckTimer \/ StopAckTimer
           \/ \E status \in {0, 1} : SetNetworkLayer(status)
  <2>1. UNCHANGED <<ack_timer, phase, event>>
    BY <1>4 DEF StartAckTimer, StopAckTimer, SetNetworkLayer, timer_vars
  <2> QED
    BY <2>1 DEF QueueSteps, QueueUnchanged
<1>5. CASE WaitForEvent
  <2>1. UNCHANGED <<ack_timer, event>> /\ phase = "handler" /\ phase' = "waiting"
    BY <1>5 DEF WaitForEvent, timer_vars
  <2> QED
    BY <2>1 DEF QueueSteps, WaitSteps
<1>6. CASE AckTimeout \/ FrameEvent \/ NetworkLayerReady \/ NoEvent
  <2>1. UNCHANGED ack_timer /\ EventSteps(ts, ts)
    BY <1>6 DEF AckTimeout, FrameEvent, NetworkLayerReady, NoEvent, timer_vars,
                GoAhead, Returns, EventSteps
  <2> QED
    BY <2>1 DEF QueueSteps
<1>7. CASE UNCHANGED vars
  <2>1. UNCHANGED <<ack_timer, phase, event>>
    BY <1>7 DEF vars, timer_vars
  <2> QED
    BY <2>1 DEF QueueSteps, QueueUnchanged
<1> QED
  BY <1>1, <1>2, <1>3, <1>4, <1>5, <1>6, <1>7 DEF Next, Handler, Turn

(* The running timers can always be arranged.                              *)
THEOREM TimersArranged == Spec => [](\E ts : Arranged(ts, ack_timer))
<1>1. Init => \E ts : Arranged(ts, ack_timer)
  <2> SUFFICES ASSUME Init PROVE Arranged(<<>>, ack_timer)
    OBVIOUS
  <2>1. Running(ack_timer) = {}
    BY DEF Init, Running
  <2> QED
    BY <2>1, EmptySeq DEF Arranged
<1>2. IInv /\ (\E ts : Arranged(ts, ack_timer)) /\ [Next]_vars
        => (\E ts : Arranged(ts, ack_timer))'
  BY StepQueues
<1> QED
  BY <1>1, <1>2, Invariant, PTL DEF Spec

(* The arithmetic of start_timer, stop_timer, recalc_timers and            *)
(* check_timers implements a queue of timers: when wait_for_event returns  *)
(* a timeout, exactly the timer that was started longest ago has been      *)
(* turned off, and no other event turns a timer on or off.                 *)
THEOREM Refinement == Spec => ImplementsTimerQueue
<1>1. Init => Queue!Init
  <2> SUFFICES ASSUME Init PROVE Queue!Init
    OBVIOUS
  <2>1. Running(ack_timer) = {} /\ ack_timer \in [Timer -> Nat]
    BY DEF Init, Running
  <2>2. Arranged(<<>>, ack_timer)
    BY <2>1, EmptySeq DEF Arranged
  <2>3. phase = "handler" /\ event = "no_event"
    BY DEF Init
  <2>4. InOrder(ack_timer) = <<>>
    BY <2>1, <2>2, InOrderIs
  <2> QED
    BY <2>3, <2>4 DEF Queue!Init
<1>2. IInv /\ IInv' /\ (\E ts : Arranged(ts, ack_timer)) /\ [Next]_vars
        => [Queue!Next]_(Queue!queue_vars)
  <2> SUFFICES ASSUME IInv, IInv', [Next]_vars, NEW ts, Arranged(ts, ack_timer)
               PROVE  [Queue!Next]_(Queue!queue_vars)
    OBVIOUS
  <2>1. PICK us : Arranged(us, ack_timer') /\ QueueSteps(ts, us)
    BY StepQueues
  <2>2. InOrder(ack_timer) = ts
    BY Clock, InOrderIs DEF IInv, UniqueTimers
  <2>3. ack_timer' \in [Timer -> Nat]
        /\ \A j, k \in Running(ack_timer') : j # k => ack_timer'[j] # ack_timer'[k]
    BY DEF IInv, TypeOK, UniqueTimers
  <2>4. InOrder(ack_timer') = us
    BY <2>1, <2>3, InOrderIs
  <2>5. CASE QueueUnchanged(ts, us)
    BY <2>2, <2>4, <2>5 DEF QueueUnchanged, Queue!queue_vars
  <2>6. CASE HandlerSteps(ts, us)
    BY <2>2, <2>4, <2>6 DEF HandlerSteps, Queue!Next, Queue!Start, Queue!Stop
  <2>7. CASE WaitSteps(ts, us)
    BY <2>2, <2>4, <2>7 DEF WaitSteps, Queue!Next, Queue!Wait
  <2>8. CASE TimeoutSteps(ts, us)
    BY <2>2, <2>4, <2>8 DEF TimeoutSteps, Queue!Next, Queue!GoOff
  <2>9. CASE EventSteps(ts, us)
    <3>1. Queue!OtherEvent(event')
      BY <2>2, <2>4, <2>9 DEF EventSteps, Queue!OtherEvent
    <3> QED
      BY <2>9, <3>1 DEF EventSteps, Queue!Next
  <2> QED
    BY <2>1, <2>5, <2>6, <2>7, <2>8, <2>9 DEF QueueSteps
<1> QED
  BY <1>1, <1>2, Invariant, TimersArranged, PTL DEF Spec, ImplementsTimerQueue, Queue!Spec

-----------------------------------------------------------------------------
(* The incoming frames.                                                    *)

(* What queue_frames can rely on: there is room when it starts, because    *)
(* the last go-ahead took a frame if there was one; and at the second read *)
(* all slots but those from inp up to outp are in use.                     *)
RoomIsKnown ==
  /\ reader = "queue_frames" => nframes < MAX_QUEUE
  /\ reader = "residual" => inp <= outp /\ nframes = MAX_QUEUE - (outp - inp)

(* The inductive invariant.                                                *)
QueueInv == QueueTypeOK /\ CountMatchesPointers /\ RoomIsKnown

(* What a protocol with an auxiliary timer must see to: the frames in the  *)
(* pipe and in queue[] never fill queue[].                                 *)
FewFrames == UsesAckTimer => nframes + Len(pipe) < MAX_QUEUE

-----------------------------------------------------------------------------
(* Arithmetic.                                                             *)

(* One turn of the buffer is all a slot can be off.                        *)
LEMMA OneTurn ==
  ASSUME NEW m \in Nat \ {0}, NEW x \in 0 .. 2 * m - 1
  PROVE  x % m = IF x < m THEN x ELSE x - m
<1>1. CASE x < m
  BY <1>1, SMT
<1>2. CASE x >= m
  BY <1>2, SMT
<1> QED
  BY <1>1, <1>2

(* Min of two numbers, which is how many bytes a read returns.             *)
LEMMA SmallerOf ==
  ASSUME NEW a \in Nat, NEW b \in Nat
  PROVE  Min({a, b}) \in Nat /\ Min({a, b}) <= a /\ Min({a, b}) <= b
<1>1. \E x \in {a, b} : \A y \in {a, b} : x <= y
  OBVIOUS
<1>2. Min({a, b}) \in {a, b} /\ \A y \in {a, b} : Min({a, b}) <= y
  BY <1>1, Zenon DEF Min
<1> QED
  BY <1>2

(* The slot i places after slot o.                                         *)
LEMMA PlacesAfter ==
  ASSUME NEW o \in Slot, NEW i \in 0 .. MAX_QUEUE
  PROVE  /\ (o + i) % MAX_QUEUE = IF o + i < MAX_QUEUE THEN o + i ELSE (o + i) - MAX_QUEUE
         /\ (o + i) % MAX_QUEUE \in Slot
<1>1. o \in 0 .. MAX_QUEUE - 1 /\ MAX_QUEUE \in Nat \ {0}
  BY FrameQueueAssumption DEF Slot
<1>2. o + i \in 0 .. 2 * MAX_QUEUE - 1
  BY <1>1
<1>3. (o + i) % MAX_QUEUE = IF o + i < MAX_QUEUE THEN o + i ELSE (o + i) - MAX_QUEUE
  BY ONLY <1>1, <1>2, OneTurn, Zenon
<1> QED
  BY <1>1, <1>3 DEF Slot

(* The slot of the i-th frame, without the remainder.                      *)
LEMMA OccupiedSlot ==
  ASSUME QueueTypeOK, NEW i \in 0 .. MAX_QUEUE
  PROVE  /\ Occupied(i) = IF outp + i < MAX_QUEUE THEN outp + i ELSE (outp + i) - MAX_QUEUE
         /\ Occupied(i) \in Slot
BY PlacesAfter DEF QueueTypeOK, Occupied

(* What the invariant says of the counters, and of the rest.               *)
LEMMA Counters ==
  ASSUME QueueInv
  PROVE  /\ MAX_QUEUE \in Nat \ {0}
         /\ inp \in 0 .. MAX_QUEUE - 1 /\ outp \in 0 .. MAX_QUEUE - 1
         /\ nframes \in 0 .. MAX_QUEUE
         /\ inp = IF outp + nframes < MAX_QUEUE THEN outp + nframes
                                               ELSE (outp + nframes) - MAX_QUEUE
<1>1. QueueTypeOK /\ inp = Occupied(nframes) /\ nframes \in 0 .. MAX_QUEUE
  BY DEF QueueInv, CountMatchesPointers, QueueTypeOK
<1>2. inp = IF outp + nframes < MAX_QUEUE THEN outp + nframes
                                         ELSE (outp + nframes) - MAX_QUEUE
  BY <1>1, OccupiedSlot
<1> QED
  BY <1>1, <1>2, FrameQueueAssumption DEF QueueTypeOK, Slot

(* The types the steps need, taken out of the invariant.                   *)
LEMMA Contents ==
  ASSUME QueueInv
  PROVE  /\ pipe \in Seq(FrameNr) /\ Len(pipe) \in Nat /\ Len(pipe) <= PipeSize
         /\ queue \in [Slot -> FrameNr]
         /\ next_frame \in FrameNr /\ last_frame \in FrameNr
         /\ reader \in {"queue_frames", "residual", "wait", "exited"}
         /\ QueueTypeOK
  BY LenProperties DEF QueueInv, QueueTypeOK

(* QueueInit establishes the invariant.                                         *)
LEMMA QueueInitInvariant == QueueInit => QueueInv
<1> SUFFICES ASSUME QueueInit PROVE QueueInv
  OBVIOUS
<1> USE FrameQueueAssumption DEF QueueInit
<1>1. QueueTypeOK
  BY EmptySeq DEF QueueTypeOK, Slot, FrameNr
<1>2. CountMatchesPointers
  <2>1. Occupied(0) = 0
    BY <1>1, OccupiedSlot
  <2> QED
    BY <2>1 DEF CountMatchesPointers
<1>3. RoomIsKnown
  BY DEF RoomIsKnown
<1> QED
  BY <1>1, <1>2, <1>3 DEF QueueInv

-----------------------------------------------------------------------------
(* Reading.                                                                *)

(* A read of at most k frames, when there is room for k frames from inp    *)
(* on, puts the first n frames of the pipe behind the queued ones and      *)
(* leaves those alone.                                                     *)
LEMMA ReadIntoRoom ==
  ASSUME QueueInv, NEW k \in Nat, NEW n, Read(k, n),
         inp + k <= MAX_QUEUE, nframes + k <= MAX_QUEUE
  PROVE  /\ n \in 0 .. k /\ n <= Len(pipe)
         /\ pipe' \in Seq(FrameNr) /\ Len(pipe') = Len(pipe) - n
         /\ \A i \in 1 .. Len(pipe) - n : pipe'[i] = pipe[n + i]
         /\ queue' \in [Slot -> FrameNr]
         /\ nframes' = nframes + n
         /\ \A i \in 0 .. nframes - 1 : queue'[Occupied(i)] = queue[Occupied(i)]
         /\ \A i \in 1 .. n : queue'[Occupied(nframes + i - 1)] = pipe[i]
<1>0. /\ MAX_QUEUE \in Nat \ {0}
      /\ inp \in 0 .. MAX_QUEUE - 1 /\ outp \in 0 .. MAX_QUEUE - 1
      /\ nframes \in 0 .. MAX_QUEUE
      /\ inp = IF outp + nframes < MAX_QUEUE THEN outp + nframes
                                            ELSE (outp + nframes) - MAX_QUEUE
  BY Counters
<1>c. /\ pipe \in Seq(FrameNr) /\ Len(pipe) \in Nat
      /\ queue \in [Slot -> FrameNr] /\ QueueTypeOK
  BY Contents
<1>1. n \in 0 .. k /\ n <= Len(pipe) /\ n \in Nat
  BY <1>c, SmallerOf DEF Read
<1>2. /\ pipe' = SubSeq(pipe, n + 1, Len(pipe)) /\ nframes' = nframes + n
      /\ queue' = [s \in Slot |-> IF s \in inp .. inp + n - 1 THEN pipe[s - inp + 1]
                                                             ELSE queue[s]]
  BY DEF Read
<1>3. /\ pipe' \in Seq(FrameNr) /\ Len(pipe') = Len(pipe) - n
      /\ \A i \in 1 .. Len(pipe) - n : pipe'[i] = pipe[n + i]
  <2>1. \A i \in n + 1 .. Len(pipe) : pipe[i] \in FrameNr
    BY <1>1, <1>c, ElementOfSeq
  <2>2. /\ pipe' \in Seq(FrameNr)
        /\ Len(pipe') = IF n + 1 <= Len(pipe) THEN Len(pipe) - (n + 1) + 1 ELSE 0
        /\ \A i \in 1 .. Len(pipe) - (n + 1) + 1 : pipe'[i] = pipe[(n + 1) + i - 1]
    BY <1>1, <1>c, <1>2, <2>1, SubSeqProperties
  <2> QED
    BY ONLY <1>1, <1>c, <2>2, SMT
<1>4. queue' \in [Slot -> FrameNr]
  <2>1. \A s \in inp .. inp + n - 1 : s - inp + 1 \in 1 .. Len(pipe)
    BY ONLY <1>0, <1>1, <1>c, SMT
  <2>2. \A s \in inp .. inp + n - 1 : pipe[s - inp + 1] \in FrameNr
    BY <1>c, <2>1, ElementOfSeq
  <2> QED
    BY <1>c, <1>2, <2>2
<1>5. ASSUME NEW i \in 0 .. nframes - 1
      PROVE  queue'[Occupied(i)] = queue[Occupied(i)]
  <2>1. /\ Occupied(i) = IF outp + i < MAX_QUEUE THEN outp + i ELSE (outp + i) - MAX_QUEUE
        /\ Occupied(i) \in Slot
    <3>1. QueueTypeOK /\ i \in 0 .. MAX_QUEUE
      BY <1>5, <1>c, <1>0
    <3> QED
      BY <3>1, OccupiedSlot
  <2>2. Occupied(i) \notin inp .. inp + n - 1
    BY ONLY <1>0, <1>1, <1>5, <2>1, k \in Nat,
            inp + k <= MAX_QUEUE, nframes + k <= MAX_QUEUE, SMT
  <2> QED
    BY <1>c, <1>2, <2>1, <2>2
<1>6. ASSUME NEW i \in 1 .. n
      PROVE  queue'[Occupied(nframes + i - 1)] = pipe[i]
  <2>1. nframes + i - 1 \in 0 .. MAX_QUEUE
    BY ONLY <1>0, <1>1, <1>6, k \in Nat, nframes + k <= MAX_QUEUE, SMT
  <2>2. /\ Occupied(nframes + i - 1) = IF outp + (nframes + i - 1) < MAX_QUEUE
                                       THEN outp + (nframes + i - 1)
                                       ELSE (outp + (nframes + i - 1)) - MAX_QUEUE
        /\ Occupied(nframes + i - 1) \in Slot
    BY <1>c, <2>1, OccupiedSlot
  <2>3. Occupied(nframes + i - 1) = inp + i - 1
    BY ONLY <1>0, <1>1, <1>6, <2>2, k \in Nat,
            inp + k <= MAX_QUEUE, nframes + k <= MAX_QUEUE, SMT
  <2>4. inp + i - 1 \in inp .. inp + n - 1 /\ (inp + i - 1) - inp + 1 = i
    BY ONLY <1>0, <1>1, <1>6, SMT
  <2> QED
    BY <1>2, <2>2, <2>3, <2>4
<1> QED
  BY <1>1, <1>2, <1>3, <1>4, <1>5, <1>6

(* How much room the two reads have.                                       *)
LEMMA RoomForFirst ==
  ASSUME QueueInv, reader = "queue_frames"
  PROVE  /\ Room \in Nat \ {0} /\ inp + Room <= MAX_QUEUE /\ nframes + Room <= MAX_QUEUE
         /\ outp <= inp => inp + Room = MAX_QUEUE /\ nframes + Room = MAX_QUEUE - outp
         /\ outp > inp => inp + Room = outp /\ nframes + Room = MAX_QUEUE
<1>1. nframes < MAX_QUEUE
  BY DEF QueueInv, RoomIsKnown
<1>2. CASE outp <= inp
  BY ONLY <1>1, <1>2, QueueInv, Counters DEF Room
<1>3. CASE outp > inp
  BY ONLY <1>1, <1>3, QueueInv, Counters DEF Room
<1> QED
  BY <1>2, <1>3, Counters

(* At the second read the room that is left lies between inp and outp.     *)
LEMMA RoomForSecond ==
  ASSUME QueueInv, reader = "residual"
  PROVE  /\ outp - inp \in Nat
         /\ inp + (outp - inp) <= MAX_QUEUE /\ nframes + (outp - inp) = MAX_QUEUE
<1>1. inp <= outp /\ nframes = MAX_QUEUE - (outp - inp)
  BY DEF QueueInv, RoomIsKnown
<1> QED
  BY <1>1, Counters

(* inp is where the count says it is, also after a step.                   *)
LEMMA PointerAfter ==
  ASSUME nframes' \in 0 .. MAX_QUEUE, outp' \in Slot,
         inp' = IF outp' + nframes' < MAX_QUEUE THEN outp' + nframes'
                                              ELSE (outp' + nframes') - MAX_QUEUE
  PROVE  CountMatchesPointers'
<1>1. inp' = (outp' + nframes') % MAX_QUEUE
  BY PlacesAfter
<1> QED
  BY <1>1, FrameQueueAssumption DEF CountMatchesPointers, Occupied

-----------------------------------------------------------------------------
(* The steps.                                                              *)

(* The peer writes a frame.                                                *)
LEMMA WriteStep ==
  ASSUME QueueInv, Write
  PROVE  QueueInv'
<1> USE FrameQueueAssumption
<1>1. next_frame \in FrameNr /\ pipe \in Seq(FrameNr)
  BY Contents
<1>2. pipe' \in Seq(FrameNr) /\ Len(pipe') = Len(pipe) + 1
  BY <1>1, AppendProperties DEF Write
<1>3. next_frame' \in FrameNr
  BY <1>1 DEF Write, FrameNr
<1>4. Len(pipe') <= PipeSize
  BY <1>2, Contents DEF Write
<1>5. QueueTypeOK'
  BY <1>2, <1>3, <1>4 DEF QueueInv, QueueTypeOK, Write, ring_vars
<1>6. CountMatchesPointers' /\ RoomIsKnown'
  BY DEF QueueInv, CountMatchesPointers, RoomIsKnown, Occupied, Write, ring_vars
<1> QED
  BY <1>5, <1>6 DEF QueueInv

(* The first read, up to the end of the array, keeps the invariant.        *)
LEMMA FirstReadStep ==
  ASSUME QueueInv, FirstRead
  PROVE  /\ QueueInv'
         /\ \E n : Read(Room, n)
<1>0. /\ MAX_QUEUE \in Nat \ {0}
      /\ inp \in 0 .. MAX_QUEUE - 1 /\ outp \in 0 .. MAX_QUEUE - 1
      /\ nframes \in 0 .. MAX_QUEUE
      /\ inp = IF outp + nframes < MAX_QUEUE THEN outp + nframes
                                            ELSE (outp + nframes) - MAX_QUEUE
  BY Counters
<1>1. PICK n \in 0 .. Room : /\ Read(Room, n)
                             /\ inp' = Wrap(inp + n)
                             /\ reader' = IF n = Room THEN "residual" ELSE "wait"
  BY DEF FirstRead
<1>2. /\ Room \in Nat \ {0} /\ inp + Room <= MAX_QUEUE /\ nframes + Room <= MAX_QUEUE
      /\ outp <= inp => inp + Room = MAX_QUEUE /\ nframes + Room = MAX_QUEUE - outp
      /\ outp > inp => inp + Room = outp /\ nframes + Room = MAX_QUEUE
  BY RoomForFirst DEF FirstRead
<1>3. /\ n \in 0 .. Room /\ n <= Len(pipe)
      /\ pipe' \in Seq(FrameNr) /\ Len(pipe') = Len(pipe) - n
      /\ queue' \in [Slot -> FrameNr]
      /\ nframes' = nframes + n
  BY <1>1, <1>2, ReadIntoRoom
<1>4. outp' = outp /\ next_frame' = next_frame /\ last_frame' = last_frame
  BY <1>1 DEF Read
<1>5. inp' = IF inp + n = MAX_QUEUE THEN 0 ELSE inp + n
  BY <1>1 DEF Wrap
<1>6. /\ inp' \in 0 .. MAX_QUEUE - 1 /\ nframes' \in 0 .. MAX_QUEUE
      /\ inp' = IF outp + nframes' < MAX_QUEUE THEN outp + nframes'
                                             ELSE (outp + nframes') - MAX_QUEUE
      /\ n = Room => inp' <= outp /\ nframes' = MAX_QUEUE - (outp - inp')
  <2>1. CASE outp <= inp
    BY ONLY <1>0, <1>2, <1>3, <1>5, <2>1, SMT
  <2>2. CASE outp > inp
    BY ONLY <1>0, <1>2, <1>3, <1>5, <2>2, SMT
  <2> QED
    BY <1>0, <2>1, <2>2
<1>7. Len(pipe') <= PipeSize
  BY <1>3, Contents, FrameQueueAssumption
<1>8. QueueTypeOK'
  BY <1>1, <1>3, <1>4, <1>6, <1>7, Contents, SMT DEF QueueTypeOK, Slot
<1>9. CountMatchesPointers'
  <2>1. outp' \in Slot
    BY <1>0, <1>4 DEF Slot
  <2> QED
    BY <1>4, <1>6, <2>1, PointerAfter
<1>10. RoomIsKnown'
  BY <1>1, <1>4, <1>6 DEF RoomIsKnown
<1> QED
  BY <1>1, <1>8, <1>9, <1>10 DEF QueueInv

(* The second read, from the start of the array, keeps the invariant.      *)
LEMMA SecondReadStep ==
  ASSUME QueueInv, SecondRead
  PROVE  /\ QueueInv'
         /\ \E n : Read(outp - inp, n)
<1>0. /\ MAX_QUEUE \in Nat \ {0}
      /\ inp \in 0 .. MAX_QUEUE - 1 /\ outp \in 0 .. MAX_QUEUE - 1
      /\ nframes \in 0 .. MAX_QUEUE
  BY Counters
<1>1. PICK n \in 0 .. outp - inp :
        /\ Read(outp - inp, n)
        /\ inp' = inp + n
        /\ reader' = IF n > 0 /\ n = outp - inp THEN "exited" ELSE "wait"
  BY DEF SecondRead
<1>2. /\ outp - inp \in Nat
      /\ inp + (outp - inp) <= MAX_QUEUE /\ nframes + (outp - inp) = MAX_QUEUE
  BY RoomForSecond DEF SecondRead
<1>3. /\ n \in 0 .. outp - inp /\ n <= Len(pipe)
      /\ pipe' \in Seq(FrameNr) /\ Len(pipe') = Len(pipe) - n
      /\ queue' \in [Slot -> FrameNr]
      /\ nframes' = nframes + n
  <2>1. nframes + (outp - inp) <= MAX_QUEUE
    BY <1>0, <1>2
  <2> QED
    BY <1>1, <1>2, <2>1, ReadIntoRoom
<1>4. outp' = outp /\ next_frame' = next_frame /\ last_frame' = last_frame
  BY <1>1 DEF Read
<1>6. /\ inp' \in 0 .. MAX_QUEUE - 1 /\ nframes' \in 0 .. MAX_QUEUE
      /\ inp' = IF outp + nframes' < MAX_QUEUE THEN outp + nframes'
                                             ELSE (outp + nframes') - MAX_QUEUE
  <2>1. inp' = inp + n
    BY <1>1
  <2> QED
    BY ONLY <1>0, <1>2, <1>3, <2>1, SMT
<1>7. Len(pipe') <= PipeSize
  BY <1>3, Contents, FrameQueueAssumption
<1>8. QueueTypeOK'
  BY <1>1, <1>3, <1>4, <1>6, <1>7, Contents, SMT DEF QueueTypeOK, Slot
<1>9. CountMatchesPointers'
  <2>1. outp' \in Slot
    BY <1>0, <1>4 DEF Slot
  <2> QED
    BY <1>4, <1>6, <2>1, PointerAfter
<1>10. RoomIsKnown'
  BY <1>1 DEF RoomIsKnown
<1> QED
  BY <1>1, <1>8, <1>9, <1>10 DEF QueueInv

(* frametype takes the oldest frame.                                       *)
LEMMA TakeFrameStep ==
  ASSUME QueueInv, TakeFrame
  PROVE  QueueInv'
<1>0. /\ MAX_QUEUE \in Nat \ {0}
      /\ inp \in 0 .. MAX_QUEUE - 1 /\ outp \in 0 .. MAX_QUEUE - 1
      /\ nframes \in 0 .. MAX_QUEUE
      /\ inp = IF outp + nframes < MAX_QUEUE THEN outp + nframes
                                            ELSE (outp + nframes) - MAX_QUEUE
  BY Counters
<1>1. /\ nframes > 0 /\ nframes' = nframes - 1 /\ inp' = inp
      /\ outp' = IF outp + 1 = MAX_QUEUE THEN 0 ELSE outp + 1
  BY DEF TakeFrame, Wrap
<1>2. /\ outp' \in 0 .. MAX_QUEUE - 1 /\ nframes' \in 0 .. MAX_QUEUE /\ nframes' < MAX_QUEUE
      /\ inp' = IF outp' + nframes' < MAX_QUEUE THEN outp' + nframes'
                                              ELSE (outp' + nframes') - MAX_QUEUE
  BY ONLY <1>0, <1>1, SMT
<1>3. last_frame' \in FrameNr
  <2>1. outp \in Slot /\ last_frame' = queue[outp]
    BY <1>0 DEF Slot, TakeFrame
  <2> QED
    BY <2>1, Contents
<1>4. QueueTypeOK'
  BY <1>0, <1>1, <1>2, <1>3, Contents, SMT DEF QueueTypeOK, Slot, TakeFrame
<1>5. CountMatchesPointers'
  BY <1>2, PointerAfter DEF Slot
<1>6. RoomIsKnown'
  BY <1>2 DEF RoomIsKnown, TakeFrame
<1> QED
  BY <1>4, <1>5, <1>6 DEF QueueInv

(* A handler that takes no frame: there is none, because frames go first,  *)
(* or the auxiliary timer goes before a few.                               *)
LEMMA OtherEventStep ==
  ASSUME FewFrames, QueueInv, OtherEvent
  PROVE  QueueInv'
<1>1. nframes \in Nat /\ nframes < MAX_QUEUE
  <2>1. Len(pipe) \in Nat /\ nframes \in Nat /\ MAX_QUEUE \in Nat \ {0}
    BY Contents, FrameQueueAssumption DEF QueueInv, QueueTypeOK
  <2>2. CASE UsesAckTimer
    BY <2>1, <2>2 DEF FewFrames
  <2>3. CASE ~UsesAckTimer
    BY <2>1, <2>3 DEF OtherEvent, TakesNoFrame
  <2> QED
    BY <2>1, <2>2, <2>3
<1> QED
  BY <1>1 DEF QueueInv, QueueTypeOK, CountMatchesPointers, RoomIsKnown, Occupied, OtherEvent, ring_vars

(* Every step keeps the invariant.                                         *)
LEMMA QueueStepInvariant ==
  ASSUME FewFrames, QueueInv, [QueueNext]_queue_vars
  PROVE  QueueInv'
<1>1. CASE Write
  BY <1>1, WriteStep
<1>2. CASE FirstRead
  BY <1>2, FirstReadStep
<1>3. CASE SecondRead
  BY <1>3, SecondReadStep
<1>4. CASE TakeFrame
  BY <1>4, TakeFrameStep
<1>5. CASE OtherEvent
  BY <1>5, OtherEventStep
<1>6. CASE UNCHANGED queue_vars
  BY <1>6 DEF QueueInv, QueueTypeOK, CountMatchesPointers, RoomIsKnown, Occupied, queue_vars, ring_vars
<1> QED
  BY <1>1, <1>2, <1>3, <1>4, <1>5, <1>6 DEF QueueNext

(* The inductive invariant holds: a read always knows how much room there  *)
(* is, so queue[] is never full when queue_frames starts.                  *)
THEOREM QueueInvariant == QueueSpec /\ []FewFrames => []QueueInv
<1>1. QueueInit => QueueInv
  BY QueueInitInvariant
<1>2. FewFrames /\ QueueInv /\ [QueueNext]_queue_vars => QueueInv'
  BY QueueStepInvariant
<1> QED
  BY <1>1, <1>2, PTL DEF QueueSpec

(* The pointers stay within queue[] and the pipe within its capacity.      *)
THEOREM QueueTypeCorrect == QueueSpec /\ []FewFrames => []QueueTypeOK
<1>1. QueueInv => QueueTypeOK
  BY DEF QueueInv
<1> QED
  BY <1>1, QueueInvariant, PTL

(* After any number of wraps, and between the two reads of queue_frames,   *)
(* nframes is the distance from the oldest frame to the next free slot.    *)
THEOREM CountMatchesPointersTheorem == QueueSpec /\ []FewFrames => []CountMatchesPointers
<1>1. QueueInv => CountMatchesPointers
  BY DEF QueueInv
<1> QED
  BY <1>1, QueueInvariant, PTL

-----------------------------------------------------------------------------
(* Reads never overwrite.                                                  *)

(* A read leaves the frames alone that are in queue[] already.             *)
LEMMA ReadKeepsQueued ==
  ASSUME QueueInv, NEW i \in 0 .. nframes - 1, FirstRead \/ SecondRead
  PROVE  queue'[Occupied(i)] = queue[Occupied(i)]
<1>1. CASE FirstRead
  <2>1. PICK n : Read(Room, n)
    BY <1>1, FirstReadStep
  <2>2. Room \in Nat /\ inp + Room <= MAX_QUEUE /\ nframes + Room <= MAX_QUEUE
    BY <1>1, RoomForFirst DEF FirstRead
  <2> QED
    BY <2>1, <2>2, ReadIntoRoom
<1>2. CASE SecondRead
  <2>1. PICK n : Read(outp - inp, n)
    BY <1>2, SecondReadStep
  <2>2. /\ outp - inp \in Nat /\ inp + (outp - inp) <= MAX_QUEUE
        /\ nframes + (outp - inp) <= MAX_QUEUE
    BY <1>2, RoomForSecond, Counters DEF SecondRead
  <2> QED
    BY <2>1, <2>2, ReadIntoRoom
<1> QED
  BY <1>1, <1>2

(* queue_frames never reads into a slot whose frame has not been taken,    *)
(* whatever the peer writes between the two reads.                         *)
THEOREM ReadsIntoRoomTheorem == QueueSpec /\ []FewFrames => ReadsIntoRoom
<1>1. ASSUME QueueInv, [QueueNext]_queue_vars, NEW i \in 0 .. nframes - 1, nframes' >= nframes
      PROVE  queue'[Occupied(i)] = queue[Occupied(i)]
  <2>1. CASE FirstRead \/ SecondRead
    BY <2>1, <1>1, ReadKeepsQueued
  <2>2. CASE Write \/ OtherEvent \/ UNCHANGED queue_vars
    BY <2>2 DEF Write, OtherEvent, queue_vars, ring_vars
  <2>3. CASE TakeFrame
    BY <2>3 DEF TakeFrame
  <2> QED
    BY <1>1, <2>1, <2>2, <2>3 DEF QueueNext
<1>2. QueueInv /\ [QueueNext]_queue_vars
        => [\A i \in 0 .. nframes - 1 :
              nframes' >= nframes => queue'[Occupied(i)] = queue[Occupied(i)]]_queue_vars
  BY <1>1
<1> QED
  BY <1>2, QueueInvariant, PTL DEF QueueSpec, ReadsIntoRoom

-----------------------------------------------------------------------------
(* The pipe and queue[] are a FIFO.                                        *)

(* A buffer of n slots from o on, as a sequence.                           *)
LEMMA RingSequence ==
  ASSUME NEW q \in [Slot -> FrameNr], NEW o \in Slot, NEW n \in 0 .. MAX_QUEUE
  PROVE  /\ [i \in 1 .. n |-> q[(o + (i - 1)) % MAX_QUEUE]] \in Seq(FrameNr)
         /\ Len([i \in 1 .. n |-> q[(o + (i - 1)) % MAX_QUEUE]]) = n
<1>1. n \in Nat
  BY FrameQueueAssumption
<1>2. \A i \in 1 .. n : q[(o + (i - 1)) % MAX_QUEUE] \in FrameNr
  <2> TAKE i \in 1 .. n
  <2>1. i - 1 \in 0 .. MAX_QUEUE
    BY FrameQueueAssumption
  <2> QED
    BY <2>1, PlacesAfter
<1> QED
  BY <1>1, <1>2, IsASeq

(* The frames in queue[] as a sequence, index by index.                    *)
LEMMA QueuedSequence ==
  ASSUME QueueInv
  PROVE  /\ Queued \in Seq(FrameNr) /\ Len(Queued) = nframes /\ nframes \in Nat
         /\ \A i \in 1 .. nframes : Queued[i] = queue[Occupied(i - 1)]
<1>1. queue \in [Slot -> FrameNr] /\ outp \in Slot /\ nframes \in 0 .. MAX_QUEUE
  BY DEF QueueInv, QueueTypeOK
<1>2. Queued = [i \in 1 .. nframes |-> queue[(outp + (i - 1)) % MAX_QUEUE]]
  BY DEF Queued, Occupied
<1> QED
  BY <1>1, <1>2, RingSequence, FrameQueueAssumption DEF Queued

(* The same after a step.                                                  *)
LEMMA QueuedSequenceAfter ==
  ASSUME QueueInv'
  PROVE  /\ Queued' \in Seq(FrameNr) /\ Len(Queued') = nframes' /\ nframes' \in Nat
         /\ \A i \in 1 .. nframes' : Queued'[i] = queue'[(outp' + (i - 1)) % MAX_QUEUE]
<1>1. queue' \in [Slot -> FrameNr] /\ outp' \in Slot /\ nframes' \in 0 .. MAX_QUEUE
  BY DEF QueueInv, QueueTypeOK
<1>2. Queued' = [i \in 1 .. nframes' |-> queue'[(outp' + (i - 1)) % MAX_QUEUE]]
  BY FrameQueueAssumption DEF Queued, Occupied
<1>3. Queued' \in Seq(FrameNr) /\ Len(Queued') = nframes'
  BY <1>1, <1>2, RingSequence
<1>4. nframes' \in Nat
  BY <1>1, FrameQueueAssumption
<1>5. \A i \in 1 .. nframes' : Queued'[i] = queue'[(outp' + (i - 1)) % MAX_QUEUE]
  BY ONLY <1>2
<1> QED
  BY <1>3, <1>4, <1>5

(* Moving the first n elements of p to the end of q makes q2 and p2.       *)
Moved(n, q, p, q2, p2) ==
  /\ n \in 0 .. Len(p) /\ Len(q2) = Len(q) + n /\ Len(p2) = Len(p) - n
  /\ \A i \in 1 .. Len(q) : q2[i] = q[i]
  /\ \A i \in 1 .. n : q2[Len(q) + i] = p[i]
  /\ \A i \in 1 .. Len(p) - n : p2[i] = p[n + i]

(* Moving frames from the front of the pipe to the back of the queue.      *)
LEMMA MovedAlong ==
  ASSUME NEW S, NEW q \in Seq(S), NEW p \in Seq(S), NEW q2 \in Seq(S), NEW p2 \in Seq(S),
         NEW n, Moved(n, q, p, q2, p2)
  PROVE  q2 \o p2 = q \o p
<1> USE DEF Moved
<1>1. /\ Len(q) \in Nat /\ Len(p) \in Nat /\ n \in Nat
  BY LenProperties
<1>2. /\ q \o p \in Seq(S) /\ Len(q \o p) = Len(q) + Len(p)
      /\ \A i \in 1 .. Len(q) + Len(p) :
           (q \o p)[i] = IF i <= Len(q) THEN q[i] ELSE p[i - Len(q)]
  BY ConcatProperties
<1>3. /\ q2 \o p2 \in Seq(S) /\ Len(q2 \o p2) = Len(q2) + Len(p2)
      /\ \A i \in 1 .. Len(q2) + Len(p2) :
           (q2 \o p2)[i] = IF i <= Len(q2) THEN q2[i] ELSE p2[i - Len(q2)]
  BY ConcatProperties
<1>4. Len(q2 \o p2) = Len(q \o p)
  BY <1>1, <1>2, <1>3
<1>5. ASSUME NEW i \in 1 .. Len(q2 \o p2)
      PROVE  (q2 \o p2)[i] = (q \o p)[i]
  <2>1. i \in 1 .. Len(q) + Len(p) /\ i \in 1 .. Len(q2) + Len(p2)
    BY <1>2, <1>3, <1>4
  <2>2. CASE i <= Len(q)
    BY <1>1, <1>2, <1>3, <2>1, <2>2
  <2>3. CASE i > Len(q) /\ i <= Len(q) + n
    <3>1. i - Len(q) \in 1 .. n /\ Len(q) + (i - Len(q)) = i
      BY <1>1, <2>1, <2>3
    <3>2. q2[i] = p[i - Len(q)]
      BY <3>1
    <3> QED
      BY <1>1, <1>2, <1>3, <2>1, <2>3, <3>2
  <2>4. CASE i > Len(q) + n
    <3>1. i - (Len(q) + n) \in 1 .. Len(p) - n /\ n + (i - (Len(q) + n)) = i - Len(q)
      BY <1>1, <2>1, <2>4
    <3>2. p2[i - (Len(q) + n)] = p[i - Len(q)]
      BY <3>1
    <3> QED
      BY <1>1, <1>2, <1>3, <2>1, <2>4, <3>2
  <2> QED
    BY <1>1, <2>1, <2>2, <2>3, <2>4
<1> QED
  BY <1>2, <1>3, <1>4, <1>5, SeqEqual

(* Removing the first element of a non-empty q.                            *)
LEMMA FirstTaken ==
  ASSUME NEW S, NEW q \in Seq(S), NEW p \in Seq(S), NEW q2 \in Seq(S),
         Len(q) > 0, Len(q2) = Len(q) - 1,
         \A i \in 1 .. Len(q) - 1 : q2[i] = q[i + 1]
  PROVE  /\ q \o p # <<>> /\ Head(q \o p) = q[1]
         /\ Tail(q \o p) = q2 \o p
<1>1. Len(q) \in Nat /\ Len(p) \in Nat
  BY LenProperties
<1>2. /\ q \o p \in Seq(S) /\ Len(q \o p) = Len(q) + Len(p)
      /\ \A i \in 1 .. Len(q) + Len(p) :
           (q \o p)[i] = IF i <= Len(q) THEN q[i] ELSE p[i - Len(q)]
  BY ConcatProperties
<1>3. /\ q2 \o p \in Seq(S) /\ Len(q2 \o p) = Len(q2) + Len(p)
      /\ \A i \in 1 .. Len(q2) + Len(p) :
           (q2 \o p)[i] = IF i <= Len(q2) THEN q2[i] ELSE p[i - Len(q2)]
  BY ConcatProperties
<1>4. q \o p # <<>> /\ Head(q \o p) = q[1]
  <2>1. Len(q \o p) > 0
    BY <1>1, <1>2
  <2>2. Head(q \o p) = (q \o p)[1]
    BY <1>2, <2>1
  <2> QED
    BY <1>1, <1>2, <2>1, <2>2
<1>5. /\ Tail(q \o p) \in Seq(S) /\ Len(Tail(q \o p)) = Len(q \o p) - 1
      /\ \A i \in 1 .. Len(Tail(q \o p)) : Tail(q \o p)[i] = (q \o p)[i + 1]
  BY <1>2, <1>4, HeadTailProperties
<1>6. ASSUME NEW i \in 1 .. Len(Tail(q \o p))
      PROVE  Tail(q \o p)[i] = (q2 \o p)[i]
  <2>1. /\ i \in 1 .. Len(q2) + Len(p) /\ i + 1 \in 1 .. Len(q) + Len(p)
        /\ Tail(q \o p)[i] = (q \o p)[i + 1]
    BY <1>1, <1>2, <1>5
  <2>2. CASE i <= Len(q) - 1
    BY <1>1, <1>2, <1>3, <2>1, <2>2
  <2>3. CASE i > Len(q) - 1
    <3>1. (i + 1) - Len(q) = i - Len(q2)
      BY <1>1, <2>1
    <3> QED
      BY <1>1, <1>2, <1>3, <2>1, <2>3, <3>1
  <2> QED
    BY <1>1, <2>1, <2>2, <2>3
<1>7. Len(Tail(q \o p)) = Len(q2 \o p)
  BY <1>1, <1>2, <1>3, <1>5
<1> QED
  BY <1>3, <1>4, <1>5, <1>6, <1>7, SeqEqual

(* To the FIFO a read is no step.                                          *)
LEMMA ReadStutters ==
  ASSUME QueueInv, FirstRead \/ SecondRead
  PROVE  (Queued \o pipe)' = Queued \o pipe
<1>1. QueueInv'
  BY FirstReadStep, SecondReadStep
<1>2a. PICK k \in Nat : /\ \E n : Read(k, n)
                        /\ inp + k <= MAX_QUEUE /\ nframes + k <= MAX_QUEUE
  <2>1. CASE FirstRead
    BY <2>1, FirstReadStep, RoomForFirst DEF FirstRead
  <2>2. CASE SecondRead
    <3>1. PICK n : Read(outp - inp, n)
      BY <2>2, SecondReadStep
    <3>2. /\ outp - inp \in Nat /\ inp + (outp - inp) <= MAX_QUEUE
          /\ nframes + (outp - inp) <= MAX_QUEUE
      BY <2>2, RoomForSecond, Counters DEF SecondRead
    <3> QED
      BY <3>1, <3>2
  <2> QED
    BY <2>1, <2>2
<1>2. PICK n : Read(k, n)
  BY <1>2a
<1>3. /\ n \in 0 .. k /\ n <= Len(pipe)
      /\ pipe' \in Seq(FrameNr) /\ Len(pipe') = Len(pipe) - n
      /\ \A i \in 1 .. Len(pipe) - n : pipe'[i] = pipe[n + i]
      /\ nframes' = nframes + n
      /\ \A i \in 0 .. nframes - 1 : queue'[Occupied(i)] = queue[Occupied(i)]
      /\ \A i \in 1 .. n : queue'[Occupied(nframes + i - 1)] = pipe[i]
  BY <1>2a, <1>2, ReadIntoRoom
<1>4. outp' = outp
  BY <1>2 DEF Read
<1>5. /\ Queued \in Seq(FrameNr) /\ Len(Queued) = nframes /\ nframes \in Nat
      /\ \A i \in 1 .. nframes : Queued[i] = queue[Occupied(i - 1)]
  BY QueuedSequence
<1>6. /\ Queued' \in Seq(FrameNr) /\ Len(Queued') = nframes' /\ nframes' \in Nat
      /\ \A i \in 1 .. nframes' : Queued'[i] = queue'[Occupied(i - 1)]
  BY <1>1, <1>4, QueuedSequenceAfter DEF Occupied
<1>7. \A i \in 1 .. Len(Queued) : Queued'[i] = Queued[i]
  <2> TAKE i \in 1 .. Len(Queued)
  <2>1. i \in 1 .. nframes /\ i \in 1 .. nframes' /\ i - 1 \in 0 .. nframes - 1
    BY <1>3, <1>5
  <2> QED
    BY <1>3, <1>5, <1>6, <2>1
<1>8. \A i \in 1 .. n : Queued'[Len(Queued) + i] = pipe[i]
  <2> TAKE i \in 1 .. n
  <2>1. nframes + i \in 1 .. nframes' /\ (nframes + i) - 1 = nframes + i - 1
    BY <1>3, <1>5
  <2> QED
    BY <1>3, <1>5, <1>6, <2>1
<1>9. n \in 0 .. Len(pipe) /\ Len(Queued') = Len(Queued) + n
  BY <1>2a, <1>3, <1>5, <1>6, Contents
<1>10. pipe \in Seq(FrameNr)
  BY Contents
<1> QED
  <2>1. /\ Queued \in Seq(FrameNr) /\ Queued' \in Seq(FrameNr) /\ pipe' \in Seq(FrameNr)
        /\ Len(pipe') = Len(pipe) - n
        /\ \A i \in 1 .. Len(pipe) - n : pipe'[i] = pipe[n + i]
    BY <1>3, <1>5, <1>6
  <2>2. Moved(n, Queued, pipe, Queued', pipe')
    BY <1>7, <1>8, <1>9, <2>1 DEF Moved
  <2>3. \A q, p, q2, p2 \in Seq(FrameNr) :
          Moved(n, q, p, q2, p2) => q2 \o p2 = q \o p
    BY ONLY MovedAlong, SMT
  <2>4. Queued' \o pipe' = Queued \o pipe
    <3>1. \A p, q2, p2 \in Seq(FrameNr) :
            Moved(n, Queued, p, q2, p2) => q2 \o p2 = Queued \o p
      BY <2>1, <2>3
    <3>2. \A q2, p2 \in Seq(FrameNr) :
            Moved(n, Queued, pipe, q2, p2) => q2 \o p2 = Queued \o pipe
      BY <1>10, <3>1
    <3>3. \A p2 \in Seq(FrameNr) :
            Moved(n, Queued, pipe, Queued', p2) => Queued' \o p2 = Queued \o pipe
      BY <2>1, <3>2
    <3> QED
      BY <2>1, <2>2, <3>3
  <2> QED
    BY <2>4

(* To the FIFO the peer's write puts a frame at its end.                   *)
LEMMA WritePuts ==
  ASSUME QueueInv, Write
  PROVE  /\ next_frame \in FrameNr
         /\ (Queued \o pipe)' = Append(Queued \o pipe, next_frame)
         /\ last_frame' = last_frame
<1>1. /\ pipe \in Seq(FrameNr) /\ next_frame \in FrameNr
      /\ Queued \in Seq(FrameNr)
  BY Contents, QueuedSequence
<1>2. pipe' = Append(pipe, next_frame) /\ Queued' = Queued
  BY DEF Write, ring_vars, Queued, Occupied
<1>3. (Queued \o pipe)' = Queued \o Append(pipe, next_frame)
  BY <1>2
<1>4. Queued \o pipe \in Seq(FrameNr) /\ <<next_frame>> \in Seq(FrameNr)
  BY <1>1, ConcatProperties
<1>5. Queued \o Append(pipe, next_frame) = Queued \o (pipe \o <<next_frame>>)
  BY <1>1, AppendIsConcat
<1>6. Queued \o (pipe \o <<next_frame>>) = (Queued \o pipe) \o <<next_frame>>
  BY <1>1, <1>4, ConcatAssociative
<1>7. (Queued \o pipe) \o <<next_frame>> = Append(Queued \o pipe, next_frame)
  BY <1>1, <1>4, AppendIsConcat
<1> QED
  BY <1>1, <1>3, <1>5, <1>6, <1>7, Zenon DEF Write, ring_vars

(* To the FIFO frametype takes the frame at its head.                      *)
LEMMA TakeTakes ==
  ASSUME QueueInv, TakeFrame
  PROVE  /\ Queued \o pipe # <<>>
         /\ last_frame' = Head(Queued \o pipe)
         /\ (Queued \o pipe)' = Tail(Queued \o pipe)
<1>1. /\ Queued \in Seq(FrameNr) /\ Len(Queued) = nframes /\ nframes \in Nat
      /\ \A i \in 1 .. nframes : Queued[i] = queue[Occupied(i - 1)]
      /\ pipe \in Seq(FrameNr)
  BY QueuedSequence, Contents
<1>2. /\ Queued' \in Seq(FrameNr) /\ Len(Queued') = nframes'
      /\ \A i \in 1 .. nframes' : Queued'[i] = queue'[(outp' + (i - 1)) % MAX_QUEUE]
  BY TakeFrameStep, QueuedSequenceAfter
<1>3. /\ nframes > 0 /\ nframes' = nframes - 1 /\ pipe' = pipe /\ queue' = queue
      /\ outp' = IF outp + 1 = MAX_QUEUE THEN 0 ELSE outp + 1
      /\ last_frame' = queue[outp]
  BY DEF TakeFrame, Wrap
<1>4. /\ MAX_QUEUE \in Nat \ {0} /\ outp \in 0 .. MAX_QUEUE - 1
      /\ nframes \in 0 .. MAX_QUEUE
  BY Counters
<1>5. Queued[1] = queue[outp]
  <2>1. Occupied(0) = outp
    BY <1>4, OccupiedSlot, Contents
  <2> QED
    BY <1>1, <1>3, <2>1
<1>6. \A i \in 1 .. Len(Queued) - 1 : Queued'[i] = Queued[i + 1]
  <2> TAKE i \in 1 .. Len(Queued) - 1
  <2>1. /\ i \in 1 .. nframes' /\ i + 1 \in 1 .. nframes /\ (i + 1) - 1 = i
        /\ i - 1 \in 0 .. MAX_QUEUE /\ i \in 0 .. MAX_QUEUE /\ i < MAX_QUEUE
    BY <1>1, <1>3, <1>4
  <2>2. Queued[i + 1] = queue[Occupied(i)]
    BY <1>1, <2>1
  <2>3. Occupied(i) = IF outp + i < MAX_QUEUE THEN outp + i ELSE (outp + i) - MAX_QUEUE
    BY <2>1, OccupiedSlot, Contents
  <2>4. outp' \in Slot
    BY <1>3, <1>4 DEF Slot
  <2>5. (outp' + (i - 1)) % MAX_QUEUE
          = IF outp' + (i - 1) < MAX_QUEUE THEN outp' + (i - 1)
                                           ELSE (outp' + (i - 1)) - MAX_QUEUE
    BY ONLY <2>1, <2>4, PlacesAfter
  <2>6. (outp' + (i - 1)) % MAX_QUEUE = Occupied(i)
    <3>1. CASE outp + 1 = MAX_QUEUE
      BY ONLY <1>3, <1>4, <2>1, <2>3, <2>5, <3>1, SMT
    <3>2. CASE outp + 1 # MAX_QUEUE
      BY ONLY <1>3, <1>4, <2>1, <2>3, <2>5, <3>2, SMT
    <3> QED
      BY <3>1, <3>2
  <2> QED
    BY <1>2, <1>3, <2>1, <2>2, <2>6
<1>7. /\ Queued \o pipe # <<>> /\ Head(Queued \o pipe) = Queued[1]
      /\ Tail(Queued \o pipe) = Queued' \o pipe
  <2>1. Len(Queued) > 0 /\ Len(Queued') = Len(Queued) - 1
    BY <1>1, <1>2, <1>3
  <2> QED
    BY <1>1, <1>2, <1>6, <2>1, FirstTaken
<1> QED
  BY <1>3, <1>5, <1>7

(* Frames leave the pipe and queue[] in the order in which the peer wrote  *)
(* them, none lost, none overwritten and none twice.                       *)
THEOREM QueueRefinement == QueueSpec /\ []FewFrames => IsFifo
<1>1. QueueInit => Fifo!Init
  <2> SUFFICES ASSUME QueueInit PROVE Fifo!Init
    OBVIOUS
  <2>1. last_frame \in FrameNr
    BY QueueInitInvariant, Contents
  <2>2. Queued = <<>>
    <3>1. Queued \in Seq(FrameNr) /\ Len(Queued) = 0
      BY QueueInitInvariant, QueuedSequence DEF QueueInit
    <3> QED
      BY <3>1, EmptySeq
  <2> QED
    BY <2>1, <2>2 DEF QueueInit, Fifo!Init
<1>2. QueueInv /\ [QueueNext]_queue_vars => [Fifo!Next]_<<Queued \o pipe, last_frame>>
  <2> SUFFICES ASSUME QueueInv, [QueueNext]_queue_vars
               PROVE  [Fifo!Next]_<<Queued \o pipe, last_frame>>
    OBVIOUS
  <2>1. CASE Write
    BY <2>1, WritePuts DEF Fifo!Next, Fifo!Put
  <2>2. CASE FirstRead \/ SecondRead
    <3>1. last_frame' = last_frame
      BY <2>2 DEF FirstRead, SecondRead, Read
    <3> QED
      BY <2>2, <3>1, ReadStutters
  <2>3. CASE TakeFrame
    BY <2>3, TakeTakes DEF Fifo!Next, Fifo!Take
  <2>4. CASE OtherEvent \/ UNCHANGED queue_vars
    BY <2>4 DEF OtherEvent, queue_vars, ring_vars, Queued, Occupied
  <2> QED
    BY <2>1, <2>2, <2>3, <2>4 DEF QueueNext
<1> QED
  BY <1>1, <1>2, QueueInvariant, PTL DEF QueueSpec, IsFifo, Fifo!Spec
=============================================================================
