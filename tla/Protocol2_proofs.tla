-------------------------- MODULE Protocol2_proofs --------------------------
(***************************************************************************)
(* Proofs about protocol 2, main and the handshake between main and the    *)
(* workers, for every packet number range and every timeout.               *)
(***************************************************************************)
EXTENDS Protocol2, SequenceTheorems, WellFoundedInduction, TLAPS

(* The link: a frame on its way to R, or the one that wakes up S, or none, *)
(* before the start or because one was lost.                               *)
Expected == Inc(last_pkt_given[R], MaxPkt)

BeforeStart ==
  phase[S] = "start" /\ chan[R] = <<>> /\ chan[S] = <<>> /\ next_net_pkt[S] = Expected

DataOnTheLink ==
  /\ phase[S] # "start"
  /\ chan[R] = <<Expected>> /\ chan[S] = <<>> /\ next_net_pkt[S] = Inc(Expected, MaxPkt)

DummyOnTheLink ==
  /\ phase[S] # "start"
  /\ chan[R] = <<>> /\ chan[S] = <<0>> /\ next_net_pkt[S] = Expected

NothingOnTheLink == phase[S] # "start" /\ chan[R] = <<>> /\ chan[S] = <<>>

LinkState == BeforeStart \/ DataOnTheLink \/ DummyOnTheLink \/ NothingOnTheLink

(* The handshake with worker p, word by word, also after a run that was    *)
(* not cut short has ended and the workers have been told to stop.         *)
Held(p) == pc = "write" /\ process = p

Told == IF pc = "statistics" THEN <<"stop">> ELSE <<>>

Works(p) ==
  phase[p] \in {"start", "report"} /\ ready[p] = <<>> /\ go[p] = Told /\ ~Held(p)

Reported(p) ==
  /\ phase[p] = "wait" /\ ready[p] \in {<<"OK">>, <<"NOTHING">>}
  /\ go[p] = Told /\ ~Held(p)

IsHeld(p) == phase[p] = "wait" /\ ready[p] = <<>> /\ go[p] = <<>> /\ Held(p)

MayGo(p) ==
  /\ phase[p] = "wait" /\ ready[p] = <<>> /\ ~Held(p)
  /\ go[p] = IF pc = "statistics" THEN <<"go", "stop">> ELSE <<"go">>

Stopped(p) ==
  /\ phase[p] = "exited" /\ pc = "statistics"
  /\ ready[p] \in {<<"OK", "zero", "accepted", "sent">>,
                   <<"NOTHING", "zero", "accepted", "sent">>}

TurnOf(p) == Works(p) \/ Reported(p) \/ IsHeld(p) \/ MayGo(p) \/ Stopped(p)

Turns ==
  verdict = "running" \/ (verdict = "end" /\ pc # "done")
    => \A p \in Proc : TurnOf(p)

(* When main has decided that the run is over.                             *)
Verdicts ==
  /\ verdict = "running" <=> pc \in {"pick", "read", "write"}
  /\ pc # "done" => printed = <<>>

(* The inductive invariant.                                                *)
IInv == TypeOK /\ LinkState /\ Turns /\ Verdicts /\ StatisticsAtEnd

-----------------------------------------------------------------------------
(* Facts about the data.                                                   *)

(* Sequences of one element.                                               *)
LEMMA ShortSequences ==
  ASSUME NEW x
  PROVE  /\ Append(<<>>, x) = <<x>>
         /\ Head(<<x>>) = x /\ Tail(<<x>>) = <<>> /\ Len(<<x>>) = 1 /\ <<x>> # <<>>
<1>1. Tail(<<x>>) = <<>>
  <2>1. <<x>> \in Seq({x})
    OBVIOUS
  <2>2. Tail(<<x>>) \in Seq({x}) /\ Len(Tail(<<x>>)) = 0
    BY <2>1, HeadTailProperties
  <2> QED
    BY <2>2, EmptySeq
<1>2. Append(<<>>, x) = <<x>>
  OBVIOUS
<1> QED
  BY <1>1, <1>2

(* The last go-ahead and the zero word behind it.                          *)
LEMMA StopFollowsGo ==
  /\ Append(<<"go">>, "stop") = <<"go", "stop">>
  /\ Head(<<"go", "stop">>) = "go" /\ Tail(<<"go", "stop">>) = <<"stop">>
<1>1. Append(<<"go">>, "stop") = <<"go", "stop">>
  <2> DEFINE s == <<"go">>
             t == <<"go", "stop">>
             Told2 == {"go", "stop"}
  <2>1. s \in Seq(Told2) /\ t \in Seq(Told2) /\ "stop" \in Told2
    OBVIOUS
  <2>2. Len(s) = 1 /\ s[1] = "go" /\ Len(t) = 2 /\ t[1] = "go" /\ t[2] = "stop"
    OBVIOUS
  <2> HIDE DEF s, t, Told2
  <2>3. /\ Append(s, "stop") \in Seq(Told2) /\ Len(Append(s, "stop")) = 2
        /\ Append(s, "stop")[1] = "go" /\ Append(s, "stop")[2] = "stop"
    <3>1. /\ Append(s, "stop") \in Seq(Told2)
          /\ Len(Append(s, "stop")) = Len(s) + 1
          /\ \A i \in 1 .. Len(s) : Append(s, "stop")[i] = s[i]
          /\ Append(s, "stop")[Len(s) + 1] = "stop"
      BY <2>1, AppendProperties
    <3>2. Len(s) + 1 = 2 /\ 1 \in 1 .. Len(s)
      BY <2>2
    <3> QED
      BY <2>2, <3>1, <3>2
  <2>4. Append(s, "stop") = t
    BY <2>1, <2>2, <2>3, SeqEqual
  <2> QED
    BY <2>4 DEF s, t
<1>2. Tail(<<"go", "stop">>) = <<"stop">>
  <2>1. <<"go", "stop">> \in Seq({"go", "stop"}) /\ <<"stop">> \in Seq({"go", "stop"})
    OBVIOUS
  <2>2. /\ Tail(<<"go", "stop">>) \in Seq({"go", "stop"})
        /\ Len(Tail(<<"go", "stop">>)) = 1
        /\ Tail(<<"go", "stop">>)[1] = "stop"
    BY <2>1, HeadTailProperties
  <2>3. \A i \in 1 .. Len(<<"stop">>) : <<"stop">>[i] = "stop" /\ i = 1
    OBVIOUS
  <2>4. Len(<<"stop">>) = 1
    OBVIOUS
  <2> QED
    BY <2>1, <2>2, <2>3, <2>4, SeqEqual
<1> QED
  BY <1>1, <1>2

(* A last report and the statistics behind it.                             *)
LEMMA ReportThenStatistics ==
  ASSUME NEW w \in Words
  PROVE  <<w>> \o <<"zero", "accepted", "sent">> = <<w, "zero", "accepted", "sent">>
<1> DEFINE v == <<w>>
           t == <<"zero", "accepted", "sent">>
           u == <<w, "zero", "accepted", "sent">>
<1>1. v \in Seq(Words) /\ t \in Seq(Words) /\ u \in Seq(Words)
  BY DEF Words
<1>2. Len(v) = 1 /\ Len(t) = 3 /\ Len(u) = 4
  OBVIOUS
<1>3. \A i \in 1 .. 4 : u[i] = IF i <= 1 THEN v[i] ELSE t[i - 1]
  OBVIOUS
<1> HIDE DEF v, t, u
<1>4. /\ v \o t \in Seq(Words) /\ Len(v \o t) = 4
      /\ \A i \in 1 .. 4 : (v \o t)[i] = IF i <= 1 THEN v[i] ELSE t[i - 1]
  <2>1. /\ v \o t \in Seq(Words) /\ Len(v \o t) = Len(v) + Len(t)
        /\ \A i \in 1 .. Len(v) + Len(t) :
             (v \o t)[i] = IF i <= Len(v) THEN v[i] ELSE t[i - Len(v)]
    BY <1>1, ConcatProperties
  <2>2. Len(v) + Len(t) = 4
    BY <1>2
  <2> QED
    BY <1>2, <2>1, <2>2
<1>5. v \o t = u
  BY <1>1, <1>2, <1>3, <1>4, SeqEqual
<1> QED
  BY <1>5 DEF v, t, u

(* The sender, the receiver and who is whose peer.                         *)
LEMMA TheProcesses ==
  /\ Proc = {0, 1} /\ S \in Proc /\ R \in Proc /\ S # R
  /\ Peer(S) = R /\ Peer(R) = S
  /\ \A p \in Proc : Peer(p) \in Proc /\ Peer(p) # p
BY DEF Proc, Peer, S, R

(* inc stays within the packet numbers.                                    *)
LEMMA IncType == \A k \in Pkt : Inc(k, MaxPkt) \in Pkt
BY Protocol2Assumption DEF Pkt, Inc

(* The types, as the proofs use them.                                      *)
LEMMA Typed ==
  ASSUME IInv
  PROVE  /\ ready \in [Proc -> Seq(Words)] /\ go \in [Proc -> Seq({"go", "stop"})]
         /\ chan \in [Proc -> Seq(Pkt)] /\ last_pkt_given \in [Proc -> Pkt]
         /\ next_net_pkt \in [Proc -> Pkt]
         /\ phase \in [Proc -> {"start", "report", "wait", "exited"}]
         /\ word \in [Proc -> {"OK", "NOTHING"}]
         /\ Expected \in Pkt
BY IncType, TheProcesses DEF IInv, TypeOK, MainTypeOK, Expected

-----------------------------------------------------------------------------
(* Frames.                                                                 *)

(* Sending one frame when there is none on the link.                       *)
LEMMA Sends ==
  ASSUME IInv, NEW p \in Proc, NEW received, NEW info \in Pkt,
         Transmit(p, received, info),
         received = <<>>, chan[Peer(p)] = <<>>
  PROVE  /\ chan' \in [Proc -> Seq(Pkt)]
         /\ chan'[p] = <<>>
         /\ chan'[Peer(p)] \in {<<>>, <<info>>}
<1>1. Peer(p) \in Proc /\ Peer(p) # p
  BY TheProcesses
<1>2. PICK lost \in LossOutcomes :
        chan' = [chan EXCEPT ![p] = received,
                             ![Peer(p)] = IF lost THEN @ ELSE Append(@, info)]
  BY DEF Transmit
<1>3. <<>> \in Seq(Pkt) /\ <<info>> \in Seq(Pkt)
  OBVIOUS
<1>4. chan' = [chan EXCEPT ![p] = <<>>,
                           ![Peer(p)] = IF lost THEN <<>> ELSE <<info>>]
  BY <1>1, <1>2, Typed, ShortSequences
<1>5. (IF lost THEN <<>> ELSE <<info>>) \in {<<>>, <<info>>}
  OBVIOUS
<1> QED
  BY <1>1, <1>3, <1>4, <1>5, Typed

(* sender2 sends the next packet: at the start, or woken up by receiver2.  *)
LEMMA SenderSends ==
  ASSUME IInv, NEW received, SendNext(received), received = <<>>,
         chan[R] = <<>>, next_net_pkt[S] = Expected
  PROVE  /\ chan' \in [Proc -> Seq(Pkt)]
         /\ next_net_pkt' \in [Proc -> Pkt]
         /\ last_pkt_given' = last_pkt_given
         /\ phase' = [phase EXCEPT ![S] = "report"]
         /\ \A q \in Proc : chan'[q] # <<>> => q = R
         /\ LinkState'
<1>1. /\ next_net_pkt' = [next_net_pkt EXCEPT ![S] = Inc(@, MaxPkt)]
      /\ Transmit(S, received, next_net_pkt[S])
      /\ phase' = [phase EXCEPT ![S] = "report"]
      /\ last_pkt_given' = last_pkt_given
  BY DEF SendNext
<1>2. /\ chan' \in [Proc -> Seq(Pkt)] /\ chan'[S] = <<>>
      /\ chan'[R] \in {<<>>, <<Expected>>}
  BY <1>1, Sends, Typed, TheProcesses
<1>3. next_net_pkt' \in [Proc -> Pkt] /\ next_net_pkt'[S] = Inc(Expected, MaxPkt)
  BY <1>1, Typed, IncType, TheProcesses
<1>4. phase'[S] # "start"
  BY <1>1, Typed, TheProcesses
<1>5. Expected' = Expected
  BY <1>1 DEF Expected
<1> QED
  BY <1>1, <1>2, <1>3, <1>4, <1>5, TheProcesses
  DEF LinkState, DataOnTheLink, NothingOnTheLink

(* receiver2 passes on the packet that arrived and sends a dummy frame.    *)
LEMMA ReceiverPassesOn ==
  ASSUME IInv, DataOnTheLink, PassOn(Tail(chan[R]), Head(chan[R]))
  PROVE  /\ chan' \in [Proc -> Seq(Pkt)]
         /\ next_net_pkt' = next_net_pkt
         /\ last_pkt_given' = [last_pkt_given EXCEPT ![R] = Expected]
         /\ phase' = [phase EXCEPT ![R] = "report"]
         /\ \A q \in Proc : chan'[q] # <<>> => q = S
         /\ LinkState'
<1>1. Head(chan[R]) = Expected /\ Tail(chan[R]) = <<>> /\ chan[S] = <<>>
  BY ShortSequences DEF DataOnTheLink
<1>2. /\ next_net_pkt' = next_net_pkt
      /\ last_pkt_given' = [last_pkt_given EXCEPT ![R] = Expected]
      /\ Transmit(R, <<>>, 0)
      /\ phase' = [phase EXCEPT ![R] = "report"]
  BY <1>1 DEF PassOn, Expected
<1>3. 0 \in Pkt
  BY Protocol2Assumption DEF Pkt
<1>4. /\ chan' \in [Proc -> Seq(Pkt)] /\ chan'[R] = <<>>
      /\ chan'[S] \in {<<>>, <<0>>}
  BY <1>1, <1>2, <1>3, Sends, TheProcesses
<1>5. Expected' = Inc(Expected, MaxPkt)
  <2>1. last_pkt_given'[R] = Expected
    BY <1>2, Typed, TheProcesses
  <2> QED
    BY <2>1 DEF Expected
<1>6. phase'[S] # "start" /\ next_net_pkt'[S] = Expected'
  BY <1>2, <1>5, Typed, TheProcesses DEF DataOnTheLink
<1> QED
  BY <1>2, <1>4, <1>6, TheProcesses DEF LinkState, DummyOnTheLink, NothingOnTheLink

(* A worker that takes a frame gets the only one on the link.              *)
LEMMA FrameTaken ==
  ASSUME IInv, NEW p \in Proc, TakeFrame(p)
  PROVE  /\ phase' = [phase EXCEPT ![p] = "report"]
         /\ chan' \in [Proc -> Seq(Pkt)]
         /\ next_net_pkt' \in [Proc -> Pkt] /\ last_pkt_given' \in [Proc -> Pkt]
         /\ nframes' \in [Proc -> Nat]
         /\ \A q \in Proc : nframes'[q] <= Len(chan'[q])
         /\ LinkState'
<1>1. /\ phase[p] = "wait" /\ nframes[p] > 0
      /\ nframes' = [nframes EXCEPT ![p] = @ - 1]
      /\ Handle(p, Tail(chan[p]), Head(chan[p]))
  BY DEF TakeFrame, GoAhead
<1>2. /\ nframes \in [Proc -> Nat] /\ \A q \in Proc : nframes[q] <= Len(chan[q])
      /\ \A q \in Proc : chan[q] \in Seq(Pkt) /\ Len(chan[q]) \in Nat
  BY Typed, LenProperties DEF IInv, TypeOK
<1>3. Len(chan[p]) > 0
  BY <1>1, <1>2
<1>4. Len(<<>>) = 0
  OBVIOUS
<1>5. /\ phase' = [phase EXCEPT ![p] = "report"]
      /\ chan' \in [Proc -> Seq(Pkt)]
      /\ next_net_pkt' \in [Proc -> Pkt] /\ last_pkt_given' \in [Proc -> Pkt]
      /\ \A q \in Proc : chan'[q] # <<>> => q = Peer(p)
      /\ LinkState'
      /\ Len(chan[p]) = 1 /\ chan[Peer(p)] = <<>>
  <2>1. CASE p = S
    <3>1. DummyOnTheLink
      BY <1>1, <1>3, <1>4, <2>1
      DEF IInv, LinkState, BeforeStart, DataOnTheLink, DummyOnTheLink, NothingOnTheLink
    <3>2. SendNext(Tail(chan[p])) /\ Tail(chan[p]) = <<>> /\ Len(chan[p]) = 1
      BY <1>1, <2>1, <3>1, ShortSequences DEF Handle, DummyOnTheLink
    <3> QED
      BY <2>1, <3>1, <3>2, SenderSends, Typed, TheProcesses DEF DummyOnTheLink
  <2>2. CASE p = R
    <3>1. DataOnTheLink
      BY <1>1, <1>3, <1>4, <2>2
      DEF IInv, LinkState, BeforeStart, DataOnTheLink, DummyOnTheLink, NothingOnTheLink
    <3>2. PassOn(Tail(chan[R]), Head(chan[R])) /\ Len(chan[p]) = 1
      BY <1>1, <2>2, <3>1, ShortSequences, TheProcesses DEF Handle, DataOnTheLink
    <3> QED
      BY <2>2, <3>1, <3>2, ReceiverPassesOn, Typed, TheProcesses DEF DataOnTheLink
  <2> QED
    BY <2>1, <2>2, TheProcesses DEF S, R
<1>6. /\ nframes' \in [Proc -> Nat]
      /\ \A q \in Proc : nframes'[q] <= Len(chan'[q])
  <2>1. nframes' \in [Proc -> Nat]
    BY <1>1, <1>2
  <2> SUFFICES ASSUME NEW q \in Proc PROVE nframes'[q] <= Len(chan'[q])
    BY <2>1
  <2>2. nframes'[q] = 0
    <3>1. CASE q = p
      <4>1. nframes[p] = 1
        <5>1. nframes[p] \in Nat /\ nframes[p] > 0 /\ nframes[p] <= Len(chan[p])
          BY <1>1, <1>2
        <5>2. Len(chan[p]) = 1
          BY <1>5
        <5> QED
          BY ONLY <5>1, <5>2
      <4> QED
        BY <1>1, <1>2, <3>1, <4>1
    <3>2. CASE q # p
      <4>1. q = Peer(p)
        BY <3>2 DEF Proc, Peer
      <4> QED
        BY <1>1, <1>2, <1>4, <1>5, <3>2, <4>1
    <3> QED
      BY <3>1, <3>2
  <2>3. Len(chan'[q]) \in Nat
    BY <1>5, LenProperties
  <2> QED
    BY <2>2, <2>3
<1> QED
  BY <1>5, <1>6

(* The workers' side of the link.                                          *)
LEMMA WorkerLink ==
  ASSUME IInv, NEW p \in Proc, Worker(p)
  PROVE  LinkState' /\ TypeOK'
<1>0. UNCHANGED main_vars
  BY DEF Worker
<1>1. CASE Start(p)
  <2>1. /\ phase[p] = "start" /\ ready' = ready /\ go' = go
        /\ word' = word /\ nframes' = nframes
    BY <1>1 DEF Start, pipe_vars
  <2>2. /\ \A q \in Proc : Len(chan'[q]) \in Nat /\ Len(chan'[q]) >= Len(chan[q])
        /\ phase' = [phase EXCEPT ![p] = "report"]
        /\ chan' \in [Proc -> Seq(Pkt)]
        /\ next_net_pkt' \in [Proc -> Pkt] /\ last_pkt_given' \in [Proc -> Pkt]
        /\ LinkState'
    <3>1. CASE p = S
      <4>1. BeforeStart
        BY <2>1, <3>1 DEF IInv, LinkState, BeforeStart, DataOnTheLink,
                          DummyOnTheLink, NothingOnTheLink
      <4>2. SendNext(chan[S]) /\ chan[S] = <<>> /\ chan[R] = <<>>
        BY <1>1, <3>1, <4>1 DEF Start, BeforeStart
      <4>3. /\ phase' = [phase EXCEPT ![p] = "report"]
            /\ chan' \in [Proc -> Seq(Pkt)]
            /\ next_net_pkt' \in [Proc -> Pkt] /\ last_pkt_given' \in [Proc -> Pkt]
            /\ LinkState'
        BY <3>1, <4>1, <4>2, SenderSends, Typed DEF BeforeStart
      <4>4. \A q \in Proc : chan[q] = <<>>
        BY <4>2, TheProcesses DEF S, R
      <4>5. \A q \in Proc : Len(chan'[q]) \in Nat /\ Len(chan[q]) = 0
        BY <4>3, <4>4, LenProperties
      <4> QED
        BY <4>3, <4>5
    <3>2. CASE p # S
      <4>1. /\ phase' = [phase EXCEPT ![p] = "report"] /\ chan' = chan
            /\ next_net_pkt' = next_net_pkt /\ last_pkt_given' = last_pkt_given
        BY <1>1, <3>2 DEF Start
      <4>2. phase'[S] = phase[S]
        BY <3>2, <4>1, Typed, TheProcesses
      <4>3. LinkState'
        BY <4>1, <4>2 DEF IInv, LinkState, BeforeStart, DataOnTheLink, DummyOnTheLink,
                          NothingOnTheLink, Expected
      <4> QED
        BY <4>1, <4>3, Typed, LenProperties
    <3> QED
      BY <3>1, <3>2
  <2>3. \A q \in Proc : nframes[q] \in Nat /\ nframes[q] <= Len(chan[q]) /\ Len(chan[q]) \in Nat
    BY Typed, LenProperties DEF IInv, TypeOK
  <2>4. \A q \in Proc : nframes'[q] <= Len(chan'[q])
    BY <2>1, <2>2, <2>3
  <2>5. phase' \in [Proc -> {"start", "report", "wait", "exited"}]
    BY <2>2, Typed
  <2> QED
    BY <1>0, <2>1, <2>2, <2>4, <2>5 DEF IInv, TypeOK, MainTypeOK, main_vars
<1>2. CASE Report(p)
  <2>1. /\ phase' = [phase EXCEPT ![p] = "wait"]
        /\ ready' = [ready EXCEPT ![p] = Append(@, word[p])]
        /\ nframes' = [nframes EXCEPT ![p] = Len(chan[p])]
        /\ word' = word /\ go' = go /\ chan' = chan
        /\ next_net_pkt' = next_net_pkt /\ last_pkt_given' = last_pkt_given
        /\ phase[p] = "report"
    BY <1>2 DEF Report
  <2>2. ready' \in [Proc -> Seq(Words)]
    <3>1. word[p] \in Words /\ ready[p] \in Seq(Words)
      BY Typed DEF Words
    <3>2. Append(ready[p], word[p]) \in Seq(Words)
      BY <3>1, AppendProperties
    <3> QED
      BY <2>1, <3>2, Typed
  <2>3. \A q \in Proc : nframes'[q] \in Nat /\ nframes'[q] <= Len(chan'[q])
    BY <2>1, Typed, LenProperties DEF IInv, TypeOK
  <2>4. nframes' \in [Proc -> Nat]
    BY <2>1, <2>3 DEF IInv, TypeOK
  <2>5. LinkState'
    <3>1. phase'[S] = "start" <=> phase[S] = "start"
      BY <2>1, Typed, TheProcesses
    <3> QED
      BY <2>1, <3>1 DEF IInv, LinkState, BeforeStart, DataOnTheLink, DummyOnTheLink,
                        NothingOnTheLink, Expected
  <2>6. phase' \in [Proc -> {"start", "report", "wait", "exited"}]
    BY <2>1, Typed
  <2> QED
    BY <1>0, <2>1, <2>2, <2>3, <2>4, <2>5, <2>6 DEF IInv, TypeOK, MainTypeOK, main_vars
<1>3. CASE TakeFrame(p)
  <2>1. /\ ready' = ready /\ word' = [word EXCEPT ![p] = "OK"]
        /\ go' = [go EXCEPT ![p] = Tail(@)] /\ go[p] # <<>>
    BY <1>3 DEF TakeFrame, GoAhead
  <2>2. go' \in [Proc -> Seq({"go", "stop"})]
    <3>1. Tail(go[p]) \in Seq({"go", "stop"})
      BY <2>1, Typed, HeadTailProperties
    <3> QED
      BY <2>1, <3>1, Typed
  <2>3. /\ phase' \in [Proc -> {"start", "report", "wait", "exited"}]
        /\ word' \in [Proc -> {"OK", "NOTHING"}]
    BY <1>3, <2>1, FrameTaken, Typed
  <2> QED
    BY <1>0, <1>3, <2>1, <2>2, <2>3, FrameTaken DEF IInv, TypeOK, MainTypeOK, main_vars
<1>4. CASE NoEvent(p) \/ PrintStatistics(p)
  <2>1. /\ phase[p] = "wait"
        /\ phase' = [phase EXCEPT ![p] = "report"] \/ phase' = [phase EXCEPT ![p] = "exited"]
        /\ ready' = ready \/ ready' = [ready EXCEPT ![p] = @ \o <<"zero", "accepted", "sent">>]
        /\ word' = word \/ word' = [word EXCEPT ![p] = "NOTHING"]
        /\ go' = [go EXCEPT ![p] = Tail(@)] /\ go[p] # <<>>
        /\ chan' = chan /\ nframes' = nframes
        /\ next_net_pkt' = next_net_pkt /\ last_pkt_given' = last_pkt_given
    BY <1>4 DEF NoEvent, PrintStatistics, GoAhead
  <2>2. go' \in [Proc -> Seq({"go", "stop"})]
    <3>1. Tail(go[p]) \in Seq({"go", "stop"})
      BY <2>1, Typed, HeadTailProperties
    <3> QED
      BY <2>1, <3>1, Typed
  <2>3. ready' \in [Proc -> Seq(Words)]
    <3>1. <<"zero", "accepted", "sent">> \in Seq(Words) /\ ready[p] \in Seq(Words)
      BY Typed DEF Words
    <3>2. ready[p] \o <<"zero", "accepted", "sent">> \in Seq(Words)
      BY <3>1, ConcatProperties
    <3> QED
      BY <2>1, <3>2, Typed
  <2>4. /\ phase' \in [Proc -> {"start", "report", "wait", "exited"}]
        /\ word' \in [Proc -> {"OK", "NOTHING"}]
    BY <2>1, Typed
  <2>5. LinkState'
    <3>1. phase'[S] = "start" <=> phase[S] = "start"
      BY <2>1, Typed, TheProcesses
    <3> QED
      BY <2>1, <3>1 DEF IInv, LinkState, BeforeStart, DataOnTheLink, DummyOnTheLink,
                        NothingOnTheLink, Expected
  <2> QED
    BY <1>0, <2>1, <2>2, <2>3, <2>4, <2>5 DEF IInv, TypeOK, MainTypeOK, main_vars
<1> QED
  BY <1>1, <1>2, <1>3, <1>4 DEF Worker

-----------------------------------------------------------------------------
(* The handshake.                                                          *)

(* What happens elsewhere does not change whose turn it is.                *)
LEMMA TurnKept ==
  ASSUME NEW q, TurnOf(q), pc' = pc, process' = process,
         phase'[q] = phase[q], ready'[q] = ready[q], go'[q] = go[q]
  PROVE  TurnOf(q)'
<1>1. Held(q)' <=> Held(q)
  BY DEF Held
<1>2. Told' = Told
  BY DEF Told
<1> QED
  BY <1>1, <1>2 DEF TurnOf, Works, Reported, IsHeld, MayGo, Stopped

(* While main follows the handshake, so do the workers.                    *)
LEMMA WorkerTurn ==
  ASSUME IInv, NEW p \in Proc, Worker(p)
  PROVE  Turns'
<1>0. pc' = pc /\ process' = process /\ verdict' = verdict
  BY DEF Worker, main_vars
<1> SUFFICES ASSUME verdict = "running" \/ (verdict = "end" /\ pc # "done")
             PROVE  \A q \in Proc : TurnOf(q)'
  BY <1>0 DEF Turns
<1>1. \A q \in Proc : TurnOf(q)
  BY DEF IInv, Turns
<1>2. ASSUME NEW q \in Proc, q # p PROVE TurnOf(q)'
  <2>1. \/ phase' = [phase EXCEPT ![p] = "report"]
        \/ phase' = [phase EXCEPT ![p] = "wait"]
        \/ phase' = [phase EXCEPT ![p] = "exited"]
    <3>1. CASE TakeFrame(p)
      BY <3>1, FrameTaken
    <3>2. CASE Start(p)
      BY <3>2 DEF Start, SendNext, S
    <3>3. CASE Report(p) \/ NoEvent(p) \/ PrintStatistics(p)
      BY <3>3 DEF Report, NoEvent, PrintStatistics
    <3> QED
      BY <3>1, <3>2, <3>3 DEF Worker
  <2>2. phase'[q] = phase[q]
    BY <1>2, <2>1, Typed
  <2>3. ready'[q] = ready[q] /\ go'[q] = go[q]
    BY <1>2, Typed
    DEF Worker, Start, Report, TakeFrame, NoEvent, PrintStatistics, GoAhead, pipe_vars
  <2> QED
    BY <1>0, <1>1, <2>2, <2>3, TurnKept
<1>3. TurnOf(p)'
  <2>1. Held(p)' <=> Held(p)
    BY <1>0 DEF Held
  <2>2. Told' = Told /\ Told \in {<<>>, <<"stop">>}
    BY <1>0 DEF Told
  <2>3. CASE Start(p)
    <3>1. phase[p] = "start" /\ ready' = ready /\ go' = go
      BY <2>3 DEF Start, pipe_vars
    <3>2. phase'[p] = "report"
      BY <2>3, Typed DEF Start, SendNext, S
    <3>3. Works(p)
      BY <1>1, <3>1 DEF TurnOf, Works, Reported, IsHeld, MayGo, Stopped
    <3>4. Works(p)'
      BY <2>1, <2>2, <3>1, <3>2, <3>3 DEF Works
    <3> QED
      BY <3>4 DEF TurnOf
  <2>4. CASE Report(p)
    <3>1. /\ phase[p] = "report" /\ phase'[p] = "wait" /\ go' = go
          /\ ready'[p] = Append(ready[p], word[p]) /\ word[p] \in {"OK", "NOTHING"}
      BY <2>4, Typed DEF Report
    <3>2. Works(p)
      BY <1>1, <3>1 DEF TurnOf, Works, Reported, IsHeld, MayGo, Stopped
    <3>3. ready'[p] \in {<<"OK">>, <<"NOTHING">>}
      BY <3>1, <3>2, ShortSequences DEF Works
    <3>4. Reported(p)'
      BY <2>1, <2>2, <3>1, <3>2, <3>3 DEF Works, Reported
    <3> QED
      BY <3>4 DEF TurnOf
  <2>5. CASE TakeFrame(p) \/ NoEvent(p)
    <3>1. /\ phase[p] = "wait" /\ go[p] # <<>> /\ Head(go[p]) = "go"
          /\ go'[p] = Tail(go[p]) /\ ready' = ready
      BY <2>5, Typed DEF TakeFrame, NoEvent, GoAhead
    <3>2. phase'[p] = "report"
      BY <2>5, FrameTaken, Typed DEF NoEvent
    <3>3. MayGo(p)
      <4>1. Told # <<>> => Head(Told) # "go"
        BY <2>2, ShortSequences
      <4> QED
        BY <1>1, <3>1, <4>1 DEF TurnOf, Works, Reported, IsHeld, MayGo, Stopped
    <3>4. go'[p] = Told
      BY <3>1, <3>3, ShortSequences, StopFollowsGo DEF MayGo, Told
    <3>5. Works(p)'
      BY <2>1, <2>2, <3>1, <3>2, <3>3, <3>4 DEF MayGo, Works
    <3> QED
      BY <3>5 DEF TurnOf
  <2>6. CASE PrintStatistics(p)
    <3>1. /\ phase[p] = "wait" /\ go[p] # <<>> /\ Head(go[p]) = "stop"
          /\ phase'[p] = "exited"
          /\ ready'[p] = ready[p] \o <<"zero", "accepted", "sent">>
      BY <2>6, Typed DEF PrintStatistics
    <3>2. Reported(p) /\ pc = "statistics"
      <4>1. Head(<<"go">>) # "stop" /\ Head(<<"go", "stop">>) # "stop"
        BY ShortSequences, StopFollowsGo
      <4> QED
        BY <1>1, <3>1, <4>1 DEF TurnOf, Works, Reported, IsHeld, MayGo, Stopped, Told, Held
    <3>3. ready'[p] \in {<<"OK", "zero", "accepted", "sent">>,
                         <<"NOTHING", "zero", "accepted", "sent">>}
      BY <3>1, <3>2, ReportThenStatistics DEF Reported, Words
    <3>4. Stopped(p)'
      BY <1>0, <3>1, <3>2, <3>3 DEF Stopped
    <3> QED
      BY <3>4 DEF TurnOf
  <2> QED
    BY <2>3, <2>4, <2>5, <2>6 DEF Worker
<1> QED
  BY <1>2, <1>3

(* Every step of a worker keeps the invariant.                             *)
LEMMA WorkerStep ==
  ASSUME IInv, NEW p \in Proc, Worker(p)
  PROVE  IInv'
<1>1. UNCHANGED main_vars
  BY DEF Worker
<1>2. Verdicts' /\ StatisticsAtEnd'
  BY <1>1 DEF IInv, Verdicts, StatisticsAtEnd, StatisticsFound, main_vars
<1> QED
  BY <1>2, WorkerLink, WorkerTurn DEF IInv

-----------------------------------------------------------------------------
(* The steps of main.                                                      *)

(* The steps of main do not touch the link.                                *)
LEMMA MainLink ==
  ASSUME IInv, UNCHANGED worker_vars
  PROVE  LinkState'
BY DEF IInv, LinkState, BeforeStart, DataOnTheLink, DummyOnTheLink, NothingOnTheLink,
       Expected, worker_vars

(* The idle counts stay below the point where main stops.                  *)
LEMMA HangingType ==
  ASSUME IInv, NEW w
  PROVE  Hanging(w) \in [Proc -> 0 .. DEADLOCK]
<1>1. DEADLOCK \in Nat
  BY MainLoopAssumption DEF DEADLOCK
<1>2. hanging \in [Proc -> 0 .. DEADLOCK] /\ process \in Proc
  BY DEF IInv, TypeOK, MainTypeOK
<1>3. CASE w = "OK"
  BY <1>1, <1>2, <1>3 DEF Hanging
<1>4. CASE w = "NOTHING" /\ hanging[process] < DEADLOCK
  <2>1. hanging[process] + 1 \in 0 .. DEADLOCK
    BY <1>1, <1>2, <1>4
  <2> QED
    BY <1>2, <1>4, <2>1 DEF Hanging
<1>5. CASE w # "OK" /\ ~(w = "NOTHING" /\ hanging[process] < DEADLOCK)
  BY <1>2, <1>5 DEF Hanging
<1> QED
  BY <1>3, <1>4, <1>5

(* Main picks a worker, or has reached the last tick.                      *)
LEMMA PickStep ==
  ASSUME IInv, UNCHANGED worker_vars, EndOfSimulation \/ \E p \in Proc : Pick(p)
  PROVE  IInv'
<1>1. /\ pc = "pick" /\ pc' \in {"read", "terminate"} /\ UNCHANGED <<hanging, pipe_vars, printed>>
      /\ process' \in Proc
      /\ \/ pc' = "read" /\ verdict' = verdict
         \/ pc' = "terminate" /\ verdict' = "end"
  BY DEF EndOfSimulation, Pick, IInv, TypeOK, MainTypeOK
<1>2. TypeOK'
  BY <1>1 DEF IInv, TypeOK, MainTypeOK, worker_vars, pipe_vars
<1>3. Turns'
  <2>1. \A p \in Proc : TurnOf(p)
    BY <1>1 DEF IInv, Turns, Verdicts
  <2>2. \A p \in Proc : TurnOf(p)'
    BY <1>1, <2>1 DEF TurnOf, Works, Reported, IsHeld, MayGo, Stopped, Held, Told,
                      worker_vars, pipe_vars
  <2> QED
    BY <2>2 DEF Turns
<1>4. Verdicts' /\ StatisticsAtEnd'
  BY <1>1 DEF IInv, Verdicts, StatisticsAtEnd, StatisticsFound
<1> QED
  BY <1>2, <1>3, <1>4, MainLink DEF IInv

(* Main reads a report and counts idle events.                             *)
LEMMA ReadReportStep ==
  ASSUME IInv, UNCHANGED worker_vars, ReadReport(phase[process] = "exited")
  PROVE  IInv'
<1>1. pc = "read" /\ verdict = "running" /\ process \in Proc
  BY DEF ReadReport, IInv, Verdicts, TypeOK, MainTypeOK
<1>2. \A p \in Proc : TurnOf(p)
  BY <1>1 DEF IInv, Turns
<1>3. phase[process] # "exited"
  BY <1>1, <1>2 DEF TurnOf, Works, Reported, IsHeld, MayGo, Stopped
<1>4. /\ ready[process] # <<>>
      /\ ready' = [ready EXCEPT ![process] = Tail(@)]
      /\ hanging' = Hanging(Head(ready[process]))
      /\ \/ pc' = "terminate" /\ verdict' = "deadlock"
         \/ pc' = "write" /\ verdict' = verdict
      /\ process' = process /\ go' = go /\ printed' = printed
  BY <1>3 DEF ReadReport
<1>5. TypeOK'
  <2>1. Tail(ready[process]) \in Seq(Words)
    BY <1>1, <1>4, Typed, HeadTailProperties
  <2>2. ready' \in [Proc -> Seq(Words)]
    BY <1>4, <2>1, Typed
  <2>3. hanging' \in [Proc -> 0 .. DEADLOCK]' /\ DEADLOCK' = DEADLOCK
    BY <1>4, HangingType DEF DEADLOCK
  <2> QED
    BY <1>4, <2>2, <2>3 DEF IInv, TypeOK, MainTypeOK, worker_vars
<1>6. Turns'
  <2>1. CASE verdict' = "deadlock"
    BY <2>1 DEF Turns
  <2>2. CASE pc' = "write"
    <3>1. ASSUME NEW p \in Proc, p # process PROVE TurnOf(p)'
      BY <1>1, <1>2, <1>4, <2>2, <3>1, Typed
      DEF TurnOf, Works, Reported, IsHeld, MayGo, Stopped, Held, Told, worker_vars
    <3>2. TurnOf(process)'
      <4>1. Reported(process)
        BY <1>1, <1>2, <1>4 DEF TurnOf, Works, Reported, IsHeld, MayGo, Stopped
      <4>2. ready'[process] = <<>>
        BY <1>1, <1>4, <4>1, Typed, ShortSequences DEF Reported
      <4>3. IsHeld(process)'
        BY <1>1, <1>4, <2>2, <4>1, <4>2 DEF Reported, IsHeld, Held, Told, worker_vars
      <4> QED
        BY <4>3 DEF TurnOf
    <3> QED
      BY <1>4, <3>1, <3>2 DEF Turns
  <2> QED
    BY <1>4, <2>1, <2>2
<1>7. Verdicts' /\ StatisticsAtEnd'
  BY <1>1, <1>4 DEF IInv, Verdicts, StatisticsAtEnd, StatisticsFound
<1> QED
  BY <1>5, <1>6, <1>7, MainLink DEF IInv

(* Main gives the go-ahead.                                                *)
LEMMA GiveGoAheadStep ==
  ASSUME IInv, UNCHANGED worker_vars, GiveGoAhead
  PROVE  IInv'
<1>1. /\ pc = "write" /\ pc' = "pick" /\ process \in Proc
      /\ go' = [go EXCEPT ![process] = Append(@, "go")]
      /\ UNCHANGED <<process, hanging, verdict, printed, ready>>
  BY DEF GiveGoAhead, IInv, TypeOK, MainTypeOK
<1>2. TypeOK'
  <2>1. go[process] \in Seq({"go", "stop"}) /\ "go" \in {"go", "stop"}
    BY <1>1, Typed
  <2>2. Append(go[process], "go") \in Seq({"go", "stop"})
    BY <2>1, AppendProperties
  <2>3. go' \in [Proc -> Seq({"go", "stop"})]
    BY <1>1, <2>2, Typed
  <2> QED
    BY <1>1, <2>3 DEF IInv, TypeOK, MainTypeOK, worker_vars
<1>3. Turns'
  <2>1. \A p \in Proc : TurnOf(p)
    BY <1>1 DEF IInv, Turns, Verdicts
  <2>2. ASSUME NEW p \in Proc, p # process PROVE TurnOf(p)'
    BY <1>1, <2>1, <2>2, Typed
    DEF TurnOf, Works, Reported, IsHeld, MayGo, Stopped, Held, Told, worker_vars
  <2>3. TurnOf(process)'
    <3>1. IsHeld(process)
      BY <1>1, <2>1 DEF TurnOf, Works, Reported, IsHeld, MayGo, Stopped, Held
    <3>2. go'[process] = <<"go">>
      BY <1>1, <3>1, Typed, ShortSequences DEF IsHeld
    <3>3. MayGo(process)'
      BY <1>1, <3>1, <3>2 DEF IsHeld, MayGo, Held, worker_vars
    <3> QED
      BY <3>3 DEF TurnOf
  <2> QED
    BY <1>1, <2>2, <2>3 DEF Turns
<1>4. Verdicts' /\ StatisticsAtEnd'
  BY <1>1 DEF IInv, Verdicts, StatisticsAtEnd, StatisticsFound
<1> QED
  BY <1>2, <1>3, <1>4, MainLink DEF IInv

(* terminate sends the zero words.                                         *)
LEMMA StopWorkersStep ==
  ASSUME IInv, UNCHANGED worker_vars, StopWorkers
  PROVE  IInv'
<1>1. /\ pc = "terminate" /\ pc' = "statistics"
      /\ go' = [p \in Proc |-> Append(go[p], "stop")]
      /\ UNCHANGED <<process, hanging, verdict, printed, ready>>
  BY DEF StopWorkers
<1>2. TypeOK'
  <2>1. \A p \in Proc : go[p] \in Seq({"go", "stop"}) /\ "stop" \in {"go", "stop"}
    BY Typed
  <2>2. \A p \in Proc : Append(go[p], "stop") \in Seq({"go", "stop"})
    BY <2>1, AppendProperties
  <2>3. go' \in [Proc -> Seq({"go", "stop"})]
    BY <1>1, <2>2
  <2> QED
    BY <1>1, <2>3 DEF IInv, TypeOK, MainTypeOK, worker_vars
<1>3. Turns'
  <2> SUFFICES ASSUME verdict = "end", NEW p \in Proc PROVE TurnOf(p)'
    BY <1>1 DEF IInv, Turns, Verdicts
  <2>1. TurnOf(p)
    BY <1>1 DEF IInv, Turns
  <2>2. go'[p] = IF go[p] = <<>> THEN <<"stop">> ELSE Append(go[p], "stop")
    BY <1>1, ShortSequences
  <2>3. go[p] = <<"go">> => go'[p] = <<"go", "stop">>
    BY <2>2, ShortSequences, StopFollowsGo
  <2> QED
    BY <1>1, <2>1, <2>2, <2>3
    DEF TurnOf, Works, Reported, IsHeld, MayGo, Stopped, Held, Told, worker_vars
<1>4. Verdicts' /\ StatisticsAtEnd'
  BY <1>1 DEF IInv, Verdicts, StatisticsAtEnd, StatisticsFound
<1> QED
  BY <1>2, <1>3, <1>4, MainLink DEF IInv

-----------------------------------------------------------------------------
(* The end.                                                                *)

(* Every set of numbers that is not empty has a least element.             *)
LEMMA LeastElement ==
  ASSUME NEW T \in SUBSET Nat, T # {}
  PROVE  \E x \in T : \A y \in T : x <= y
<1> DEFINE Less == {ss \in Nat \X Nat : ss[1] < ss[2]}
<1>1. IsWellFoundedOn(Less, Nat)
  BY NatLessThanWellFounded, Zenon DEF OpToRel
<1>2. PICK x \in T : \A y \in T : <<y, x>> \notin Less
  BY <1>1, WFMin, Zenon
<1>3. ASSUME NEW y \in T PROVE x <= y
  <2>1. x \in Nat /\ y \in Nat /\ <<y, x>> \in Nat \X Nat
    OBVIOUS
  <2>2. ~ (<<y, x>>[1] < <<y, x>>[2])
    BY <1>2, <2>1
  <2> QED
    BY <2>1, <2>2
<1> QED
  BY <1>3

(* terminate always finds a zero, if only in the cleared part of the       *)
(* buffer.                                                                 *)
LEMMA ZeroFound ==
  ASSUME NEW res \in Seq(Words)
  PROVE  /\ AfterZero(res) \in 1 .. Len(res) + 1
         /\ WordAt(res, AfterZero(res) - 1) = "zero"
         /\ \A i \in 0 .. AfterZero(res) - 2 : WordAt(res, i) # "zero"
<1> DEFINE T == {k \in 1 .. Len(res) + 1 : WordAt(res, k - 1) = "zero"}
<1>1. Len(res) \in Nat
  BY LenProperties
<1>2. T \in SUBSET Nat
  BY <1>1
<1>3. Len(res) + 1 \in T
  BY <1>1 DEF WordAt
<1>4. PICK x \in T : \A y \in T : x <= y
  BY <1>2, <1>3, LeastElement
<1>5. \A i \in 0 .. x - 2 : WordAt(res, i) # "zero"
  <2> SUFFICES ASSUME NEW i \in 0 .. x - 2, WordAt(res, i) = "zero" PROVE FALSE
    OBVIOUS
  <2>1. i + 1 \in 1 .. Len(res) + 1 /\ (i + 1) - 1 = i /\ ~ (x <= i + 1)
    BY <1>1, <1>4
  <2>2. i + 1 \in T
    BY <2>1
  <2> QED
    BY <1>4, <2>1, <2>2
<1>6. \E k \in 1 .. Len(res) + 1 :
        WordAt(res, k - 1) = "zero" /\ \A i \in 0 .. k - 2 : WordAt(res, i) # "zero"
  BY <1>4, <1>5
<1> QED
  BY <1>6, Zenon DEF AfterZero

(* What terminate reads, also past the end of a pipe, is a word.           *)
LEMMA WordType ==
  ASSUME NEW res \in Seq(Words), NEW i \in Nat
  PROVE  WordAt(res, i) \in Words
<1>1. CASE i < Len(res)
  <2>1. i + 1 \in 1 .. Len(res)
    BY <1>1, LenProperties
  <2>2. res[i + 1] \in Words
    BY <2>1, ElementOfSeq
  <2> QED
    BY <1>1, <2>2 DEF WordAt
<1>2. CASE ~ (i < Len(res))
  BY <1>2 DEF WordAt, Words
<1> QED
  BY <1>1, <1>2

(* The statistics of a worker that reported once and then stopped.         *)
LEMMA StatisticsAfterReport ==
  ASSUME NEW w1 \in {"OK", "NOTHING"}, NEW w2 \in {"OK", "NOTHING"}
  PROVE  Statistics(<<w1, "zero", "accepted", "sent">>, <<w2, "zero", "accepted", "sent">>)
           = <<"accepted", "sent", "accepted", "sent">>
<1> DEFINE u1 == <<w1, "zero", "accepted", "sent">>
           u2 == <<w2, "zero", "accepted", "sent">>
<1>1. /\ u1 \in Seq(Words)
      /\ WordAt(u1, 0) = w1 /\ WordAt(u1, 1) = "zero"
      /\ WordAt(u1, 2) = "accepted" /\ WordAt(u1, 3) = "sent"
  BY DEF Words, WordAt
<1>2. WordAt(u2, 2) = "accepted" /\ WordAt(u2, 3) = "sent"
  BY DEF WordAt
<1>3. Len(u1) = 4 /\ w1 # "zero"
  OBVIOUS
<1> HIDE DEF u1, u2
<1>4. AfterZero(u1) = 2
  <2>1. /\ AfterZero(u1) \in 1 .. 5
        /\ WordAt(u1, AfterZero(u1) - 1) = "zero"
        /\ \A i \in 0 .. AfterZero(u1) - 2 : WordAt(u1, i) # "zero"
    BY <1>1, <1>3, ZeroFound
  <2>2. AfterZero(u1) # 1
    BY <1>1, <1>3, <2>1
  <2>3. ~ (AfterZero(u1) > 2)
    <3>1. AfterZero(u1) > 2 => 1 \in 0 .. AfterZero(u1) - 2
      BY <2>1
    <3> QED
      BY <1>1, <2>1, <3>1
  <2> QED
    BY <2>1, <2>2, <2>3
<1>5. Statistics(u1, u2) = <<"accepted", "sent", "accepted", "sent">>
  <2>1. Statistics(u1, u2) = <<WordAt(u1, 2), WordAt(u1, 2 + 1), WordAt(u2, 2), WordAt(u2, 2 + 1)>>
    BY <1>4 DEF Statistics
  <2> QED
    BY <1>1, <1>2, <2>1
<1> QED
  BY <1>5 DEF u1, u2

(* terminate finds the statistics behind the reports.                      *)
LEMMA ReadStatisticsStep ==
  ASSUME IInv, UNCHANGED worker_vars,
         ReadStatistics(\A p \in Proc : phase[p] = "exited")
  PROVE  IInv'
<1>1. /\ pc = "statistics" /\ pc' = "done" /\ \A p \in Proc : phase[p] = "exited"
      /\ printed' = IF verdict = "broken" THEN <<>> ELSE Statistics(ready[0], ready[1])
      /\ ready' = [p \in Proc |-> <<>>]
      /\ UNCHANGED <<process, hanging, verdict, go>>
  BY DEF ReadStatistics
<1>2. TypeOK'
  <2>1. ready[0] \in Seq(Words) /\ ready[1] \in Seq(Words)
    BY Typed, TheProcesses
  <2>2. AfterZero(ready[0]) \in Nat /\ AfterZero(ready[0]) + 1 \in Nat
    BY <2>1, ZeroFound, LenProperties
  <2>3. Statistics(ready[0], ready[1]) \in Seq(Words)
    <3> DEFINE k == AfterZero(ready[0])
    <3>1. /\ WordAt(ready[0], k) \in Words /\ WordAt(ready[0], k + 1) \in Words
          /\ WordAt(ready[1], k) \in Words /\ WordAt(ready[1], k + 1) \in Words
      BY <2>1, <2>2, WordType
    <3>2. Statistics(ready[0], ready[1])
            = <<WordAt(ready[0], k), WordAt(ready[0], k + 1),
                WordAt(ready[1], k), WordAt(ready[1], k + 1)>>
      BY DEF Statistics
    <3> HIDE DEF k
    <3> QED
      BY <3>1, <3>2
  <2>4. printed' \in Seq(Words)
    BY <1>1, <2>3
  <2> QED
    BY <1>1, <2>4 DEF IInv, TypeOK, MainTypeOK, worker_vars
<1>3. Turns' /\ Verdicts'
  BY <1>1 DEF IInv, Turns, Verdicts
<1>4. StatisticsAtEnd'
  <2> SUFFICES ASSUME verdict = "end"
               PROVE  printed' = <<"accepted", "sent", "accepted", "sent">>
    BY <1>1 DEF StatisticsAtEnd, StatisticsFound
  <2>1. \A p \in Proc : Stopped(p)
    BY <1>1 DEF IInv, Turns, TurnOf, Works, Reported, IsHeld, MayGo
  <2>2. \A p \in Proc : \E w \in {"OK", "NOTHING"} :
          ready[p] = <<w, "zero", "accepted", "sent">>
    BY <2>1 DEF Stopped
  <2>3. PICK w1 \in {"OK", "NOTHING"} : ready[0] = <<w1, "zero", "accepted", "sent">>
    BY <2>2, TheProcesses
  <2>4. PICK w2 \in {"OK", "NOTHING"} : ready[1] = <<w2, "zero", "accepted", "sent">>
    BY <2>2, TheProcesses
  <2>5. printed' = Statistics(ready[0], ready[1])
    BY <1>1
  <2> QED
    BY <2>3, <2>4, <2>5, StatisticsAfterReport
<1> QED
  BY <1>2, <1>3, <1>4, MainLink DEF IInv

-----------------------------------------------------------------------------
(* The invariant.                                                          *)

(* Init establishes the invariant.                                         *)
LEMMA InitInvariant == Init => IInv
<1> SUFFICES ASSUME Init PROVE IInv
  OBVIOUS
<1> USE DEF Init, MainInit
<1>1. MaxPkt \in Pkt /\ 0 \in Pkt /\ DEADLOCK \in Nat
  BY Protocol2Assumption, MainLoopAssumption DEF Pkt, DEADLOCK
<1>2. /\ \A T : <<>> \in Seq(T)
      /\ Len(<<>>) = 0
  OBVIOUS
<1>3. TypeOK
  <2>1. MainTypeOK
    BY <1>1, <1>2, TheProcesses DEF MainTypeOK
  <2> QED
    BY <1>1, <1>2, <2>1 DEF TypeOK
<1>4. LinkState
  <2>1. Expected = 0
    BY <1>1, Protocol2Assumption, TheProcesses DEF Expected, Inc
  <2> QED
    BY <2>1, TheProcesses DEF LinkState, BeforeStart
<1>5. Turns
  BY DEF Turns, TurnOf, Works, Held, Told
<1> QED
  BY <1>3, <1>4, <1>5 DEF IInv, Verdicts, StatisticsAtEnd, StatisticsFound

(* Every step keeps the invariant.                                         *)
LEMMA StepInvariant == IInv /\ [Next]_vars => IInv'
<1> SUFFICES ASSUME IInv, [Next]_vars PROVE IInv'
  OBVIOUS
<1>1. CASE Main
  <2>1. UNCHANGED worker_vars
    BY <1>1 DEF Main
  <2> QED
    BY <1>1, <2>1, PickStep, ReadReportStep, GiveGoAheadStep, StopWorkersStep,
       ReadStatisticsStep
    DEF Main, Loop
<1>2. CASE \E p \in Proc : Worker(p)
  BY <1>2, WorkerStep
<1>3. CASE UNCHANGED vars
  <2>1. TypeOK'
    BY <1>3 DEF IInv, TypeOK, MainTypeOK, vars, main_vars, pipe_vars, worker_vars
  <2>2. LinkState'
    BY <1>3, MainLink DEF vars
  <2>3. Turns'
    BY <1>3 DEF IInv, Turns, TurnOf, Works, Reported, IsHeld, MayGo, Stopped, Held, Told,
                vars, main_vars, pipe_vars, worker_vars
  <2>4. Verdicts' /\ StatisticsAtEnd'
    BY <1>3 DEF IInv, Verdicts, StatisticsAtEnd, StatisticsFound, vars, main_vars
  <2> QED
    BY <2>1, <2>2, <2>3, <2>4 DEF IInv
<1> QED
  BY <1>1, <1>2, <1>3 DEF Next

(* The inductive invariant holds in every run, whatever frames are lost    *)
(* and however main ends it.                                               *)
THEOREM Invariant == Spec => []IInv
<1> QED
  BY InitInvariant, StepInvariant, PTL DEF Spec

(* Type correctness: every pipe holds words of its kind, and the counts    *)
(* stay within their bounds.                                               *)
THEOREM TypeCorrect == Spec => []TypeOK
<1>1. IInv => TypeOK
  BY DEF IInv
<1> QED
  BY <1>1, Invariant, PTL

(* Main and the workers never lose a report or a go-ahead and never wait   *)
(* for each other: each worker is in exactly one state of the handshake.   *)
THEOREM HandshakeTheorem == Spec => []Handshake
<1>1. IInv => Handshake
  <2> SUFFICES ASSUME IInv, verdict = "running", NEW p \in Proc
               PROVE  (IF phase[p] \in {"start", "report"} THEN 1 ELSE 0)
                        + (IF pc = "write" /\ process = p THEN 1 ELSE 0)
                        + Len(ready[p]) + Len(go[p]) = 1
    BY DEF Handshake
  <2>1. TurnOf(p) /\ pc # "statistics"
    BY DEF IInv, Turns, Verdicts
  <2>2. Len(<<>>) = 0 /\ Len(<<"go">>) = 1 /\ Len(<<"OK">>) = 1 /\ Len(<<"NOTHING">>) = 1
    OBVIOUS
  <2>3. CASE Works(p)
    BY <2>1, <2>2, <2>3 DEF Works, Held, Told
  <2>4. CASE Reported(p)
    <3>1. phase[p] = "wait" /\ ~(pc = "write" /\ process = p)
      BY <2>4 DEF Reported, Held
    <3>2. Len(ready[p]) = 1 /\ Len(go[p]) = 0
      BY <2>1, <2>2, <2>4 DEF Reported, Told
    <3> QED
      BY ONLY <3>1, <3>2, SMT
  <2>5. CASE IsHeld(p)
    BY <2>1, <2>2, <2>5 DEF IsHeld, Held
  <2>6. CASE MayGo(p)
    BY <2>1, <2>2, <2>6 DEF MayGo, Held
  <2> QED
    BY <2>1, <2>3, <2>4, <2>5, <2>6 DEF TurnOf, Stopped
<1> QED
  BY <1>1, Invariant, PTL

(* Stop-and-wait: never two frames on the link, and the packet on its way  *)
(* is the one the receiver passes on next.                                 *)
THEOREM OneFrameTheorem == Spec => []OneFrameOnTheLink
<1>1. IInv => OneFrameOnTheLink
  <2> SUFFICES ASSUME IInv PROVE OneFrameOnTheLink
    OBVIOUS
  <2>1. \/ chan[R] = <<>> /\ chan[S] \in {<<>>, <<0>>}
        \/ chan[R] = <<Expected>> /\ chan[S] = <<>>
    BY DEF IInv, LinkState, BeforeStart, DataOnTheLink, DummyOnTheLink, NothingOnTheLink
  <2>2. Len(<<>>) = 0 /\ DOMAIN <<>> = {} /\ Len(<<0>>) = 1
    OBVIOUS
  <2>3. Len(<<Expected>>) = 1 /\ DOMAIN <<Expected>> = {1} /\ <<Expected>>[1] = Expected
    OBVIOUS
  <2>4. Len(chan[S]) + Len(chan[R]) <= 1
    <3>1. CASE Len(chan[R]) = 0 /\ Len(chan[S]) = 0
      BY ONLY <3>1
    <3>2. CASE Len(chan[R]) = 0 /\ Len(chan[S]) = 1
      BY ONLY <3>2
    <3>3. CASE Len(chan[R]) = 1 /\ Len(chan[S]) = 0
      BY ONLY <3>3
    <3> QED
      BY <2>1, <2>2, <2>3, <3>1, <3>2, <3>3, Zenon
  <2>5. \A i \in DOMAIN chan[R] : chan[R][i] = Expected
    BY <2>1, <2>2, <2>3
  <2> QED
    BY <2>4, <2>5 DEF OneFrameOnTheLink, Expected
<1> QED
  BY <1>1, Invariant, PTL

(* terminate finds the statistics of both workers when the run was not cut *)
(* short, although it looks for the second start in the first pipe.        *)
THEOREM StatisticsAtEndTheorem == Spec => []StatisticsAtEnd
<1>1. IInv => StatisticsAtEnd
  BY DEF IInv
<1> QED
  BY <1>1, Invariant, PTL

-----------------------------------------------------------------------------
(* Protocol 2 implements the packet stream.                                *)

(* The instance sees the same two workers and the same cyclic numbers.     *)
LEMMA StreamNames ==
  ASSUME NEW p
  PROVE  /\ Stream!UnderWay(p) =
              Distance(Inc(last_pkt_given[Peer(p)], MaxPkt), next_net_pkt[p], MaxPkt)
         /\ \A k, n : Stream!Advance(k, n, MaxPkt) = Advance(k, n, MaxPkt)
         /\ \A k : Stream!Inc(k, MaxPkt) = Inc(k, MaxPkt)
         /\ Stream!Peer(p) = Peer(p)
         /\ Stream!Proc = Proc
BY DEF Stream!UnderWay, Stream!Distance, Stream!Inc, Stream!Advance, Stream!Peer,
       Stream!Proc, Distance, Inc, Advance, Peer, Proc

(* A packet number, the next one and the distance between them.            *)
LEMMA CyclicFacts ==
  ASSUME NEW k \in Pkt
  PROVE  /\ Distance(k, k, MaxPkt) = 0
         /\ Distance(k, Inc(k, MaxPkt), MaxPkt) = 1
         /\ Advance(k, 1, MaxPkt) = Inc(k, MaxPkt)
BY Protocol2Assumption DEF Pkt, Distance, Inc, Advance

(* The packets of M0's network layer reach M1's in order, each once, and   *)
(* at most one is under way.                                               *)
THEOREM DeliversStreamTheorem == Spec => DeliversStream
<1>1. Init => Stream!Init
  BY DEF Init, Stream!Init, Stream!Proc, Proc
<1>2. IInv /\ [Next]_vars => [Stream!Next]_(Stream!stream_vars)
  <2> SUFFICES ASSUME IInv, Next, ~ UNCHANGED <<next_net_pkt, last_pkt_given>>
               PROVE  Stream!Next
    BY DEF vars, worker_vars, Stream!stream_vars
  <2>1. PICK p \in Proc : Worker(p)
    BY DEF Next, Main, worker_vars
  <2>2. Start(p) \/ TakeFrame(p)
    BY <2>1 DEF Worker, Report, NoEvent, PrintStatistics
  <2>3. CASE p = S
    <3>1. next_net_pkt[S] = Expected /\ \E received : SendNext(received)
      <4>1. CASE Start(p)
        BY <2>3, <4>1 DEF Start, IInv, LinkState, BeforeStart, DataOnTheLink,
                          DummyOnTheLink, NothingOnTheLink
      <4>2. CASE TakeFrame(p)
        <5>1. chan[S] # <<>>
          <6>1. nframes[p] > 0 /\ nframes[p] \in Nat /\ nframes[p] <= Len(chan[p])
            BY <4>2 DEF TakeFrame, IInv, TypeOK
          <6>2. Len(<<>>) = 0
            OBVIOUS
          <6> QED
            BY <2>3, <6>1, <6>2
        <5> QED
          BY <2>3, <4>2, <5>1 DEF TakeFrame, Handle, IInv, LinkState, BeforeStart,
                                  DataOnTheLink, DummyOnTheLink, NothingOnTheLink
      <4> QED
        BY <2>2, <4>1, <4>2
    <3>2. /\ next_net_pkt' = [next_net_pkt EXCEPT ![S] = Inc(@, MaxPkt)]
          /\ last_pkt_given' = last_pkt_given
      BY <3>1 DEF SendNext
    <3>3. Stream!UnderWay(S) = 0
      <4>1. Stream!UnderWay(S) = Distance(Expected, next_net_pkt[S], MaxPkt)
        BY StreamNames, TheProcesses DEF Expected
      <4> QED
        BY <3>1, <4>1, CyclicFacts, Typed
    <3>4. Stream!Fetch(S)
      <4>1. Stream!UnderWay(S) < 1
        BY <3>3
      <4>2. Stream!Inc(next_net_pkt[S], MaxPkt) = Inc(next_net_pkt[S], MaxPkt)
        BY StreamNames
      <4> QED
        BY <3>2, <4>1, <4>2 DEF Stream!Fetch
    <3> QED
      BY <3>2, <3>4, StreamNames, TheProcesses DEF Stream!Next, Stream!Turn
  <2>4. CASE p = R
    <3>1. TakeFrame(p) /\ DataOnTheLink
      <4>1. TakeFrame(p)
        BY <2>2, <2>4, TheProcesses DEF Start
      <4>2. nframes[p] > 0 /\ nframes[p] \in Nat /\ nframes[p] <= Len(chan[p])
        BY <4>1 DEF TakeFrame, IInv, TypeOK
      <4>3. Len(<<>>) = 0
        OBVIOUS
      <4>4. chan[R] # <<>>
        BY <2>4, <4>2, <4>3
      <4> QED
        BY <4>1, <4>4 DEF IInv, LinkState, BeforeStart, DataOnTheLink, DummyOnTheLink,
                          NothingOnTheLink
    <3>2. PassOn(Tail(chan[R]), Head(chan[R]))
      BY <2>4, <3>1, TheProcesses DEF TakeFrame, Handle
    <3>3. /\ next_net_pkt' = next_net_pkt
          /\ last_pkt_given' = [last_pkt_given EXCEPT ![R] = Expected]
      BY <3>1, <3>2, ReceiverPassesOn
    <3>4. Stream!UnderWay(S) = 1
      <4>1. Stream!UnderWay(S) = Distance(Expected, next_net_pkt[S], MaxPkt)
        BY StreamNames, TheProcesses DEF Expected
      <4> QED
        BY <3>1, <4>1, CyclicFacts, Typed DEF DataOnTheLink
    <3>5. Expected = Advance(last_pkt_given[R], 1, MaxPkt)
      BY CyclicFacts, Typed, TheProcesses DEF Expected
    <3>6. 1 \in 1 .. Stream!UnderWay(Peer(R))
      BY <3>4, TheProcesses
    <3>7. Stream!Give(R)
      BY <3>3, <3>5, <3>6, StreamNames DEF Stream!Give
    <3> QED
      BY <3>3, <3>7, StreamNames, TheProcesses DEF Stream!Next, Stream!Turn
  <2> QED
    BY <2>3, <2>4 DEF Proc, S, R
<1> QED
  BY <1>1, <1>2, Invariant, PTL DEF Spec, DeliversStream, Stream!Spec
=============================================================================
