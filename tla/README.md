# A verification of the data link simulator

The repository holds a simulator for data link protocols in C (`src/protocols`,
after Tanenbaum) with the protocols 2 to 6 that run on it, and a small Python
program that asks a BitTorrent tracker for peers (`src/bittorrent`). This
directory holds TLA+ models of it, TLC configurations, and proofs checked by
TLAPS. Line numbers refer to `src/protocols/simulator.c` unless a file is named.

## 1. Inventory

### Parts, state, operations

| part | state | operations |
|---|---|---|
| main loop (128-214) | `tick`, `hanging[2]`, the turn | pick a worker, read its report, count idle events, give the go-ahead |
| `terminate` (316-349) | the two report pipes | stop both workers, find their statistics, print the efficiency |
| worker event loop (361-409, 476-538) | `word`, `tick`, `last_frame`, `nframes` | `wait_for_event`, `pick_event`, `frametype` |
| incoming frame queue (427-473) | `queue[]`, `inp`, `outp`, `nframes` | `queue_frames` (two reads), removal in `frametype` |
| timers (635-729, 805-826) | `ack_timer[]`, `lowest_timer`, `aux_timer`, `offset`, `seqs[]`, `oldest_frame` | start, stop, recalculate, go off |
| layers (541-632) | `next_net_pkt`, `last_pkt_given` | from/to network layer, from/to physical layer |
| protocols `p2.c` to `p6.c` | window edges, buffers, bit maps | one handler per event |
| `bencode.py`, `bittorrent_get_peers.py` | none between calls | decode, encode, metadata, peer list, one HTTP request |

Three processes run at the same time. **main** picks a worker at random for each
tick; every **worker** (M0, M1) reports to main before each event and blocks
until main's go-ahead. The workers write frames straight into each other's pipe.
So the two workers and main interleave freely between the points where they
block, and a worker that got its go-ahead handles it while main and the other
worker go on.

### What is hard

* Frames are lost (line 611) and damaged (520); every protocol from 3 on repeats
  them after a timeout, and a late duplicate must not be taken for a new frame.
* `pick_event` looks at `queue[]` only, which was filled before the worker
  reported: a timer can go off while the answer is already in the pipe.
* Timers share a tick and an interval; uniqueness rests on `offset` and on
  `DELTA` exceeding the number of timers a handler starts.
* `queue[]` is full and empty with the same pointers, and is filled by two reads
  between which the peer may write.
* main must tell a deadlock from a slow answer, and `terminate` has to find the
  statistics behind whatever reports are still unread.
* A worker without anything to do, a frame that was lost and a timer that does
  not run together mean silence for ever.

### What makes each part correct

* Protocols: the packets of each network layer reach the other one in order, each
  once (`PacketStream`); no worker stops with a protocol error; a worker waiting
  for an answer has a timer running; both streams make progress.
* Timers: no two have the same value, `lowest_timer` always belongs to one of
  them, and a timeout takes the one that was started longest ago (`TimerQueue`).
* Queue: with the pipe it is a FIFO (`FrameFifo`).
* main: exactly one token per worker travels round the handshake; a deadlock is
  found when there is one; the run ends; the statistics are found.
* Sliding windows (protocols 5 and 6): the windows of the two ends agree; a frame
  or an acknowledgement under way is never taken for that of another packet with
  the same number; exactly the outstanding frames have a running timer.
* Bencoding: decoding what was encoded gives it back; an accepted dictionary
  encodes to the bytes it came from (its hash identifies the torrent).

## 2. Modules

```
Cyclic ----------+-- PacketStream (abstract)     TimerOrder -- TimerQueue (abstract)
                 |                                    |
                 +-- MainLoop -- Protocol2            |        Timers     -> TimerQueue
                 |                 -> PacketStream    |        FrameQueue -> FrameFifo (abstract)
                 |                                    |
                 +-- DataLink ------------------------+        Bytes -- Bencode
                        |-- Protocol3 -> PacketStream
                        |-- Protocol4 -> PacketStream
                        `-- SlidingWindow
                              |-- Protocol5 -> PacketStream
                              `-- Protocol6 -> PacketStream

Proofs: X_proofs extends X, for X = Protocol2 to Protocol6 and Bencode; those of
protocols 3 to 6 share the lemmas of DataLink_proofs. Worker_proofs extends Timers
and FrameQueue.
```

`A -> B`: A is shown to implement B. Every `MCx` module only extends `x`; the
values of the constants are in the `.cfg` files.

* **Cyclic**: the two workers, the `inc` macro and `between` of `p5.c` and `p6.c`.
  `Distance` and `Advance` are for specifications only.
* **PacketStream**: what a protocol promises. Packets are numbered by
  `from_network_layer`, so its state is `next_net_pkt` and `last_pkt_given`. At
  most `Window` packets of a worker are under way.
* **DataLink**: `simulator.c` as a protocol that uses timers sees it. A worker
  goes through `start` (before its first `wait_for_event`), `queue_frames` (a
  handler is done, the pipe not read yet) and `wait` (for the go-ahead); a packet
  out of sequence leads to `exited`. `chan[p]` holds the frames sent to `p` and
  not yet taken, `nframes[p]` of them in `queue[]`. A handler runs from one
  `wait_for_event` to the next and is one action: it reads nothing another process
  writes, and each of the modelled handlers writes at most one frame, so nobody
  can tell its steps apart. main is left out here: a waiting worker may run at
  any time, and a timer may go off at any time after it was started.
* **TimerOrder, TimerQueue, Timers**: the first is how `DataLink` treats timers,
  a sequence of running slots, the next to go off in front. `Timers` is the real
  arithmetic of `ack_timer[]`, `lowest_timer`, `aux_timer` and `offset` with
  ticks in steps of `DELTA`, under an arbitrary protocol; it implements
  `TimerQueue`, which is made of the operators of `TimerOrder`: timers are started
  and stopped in handlers, `wait_for_event` returns a timeout exactly when the head
  of the queue has gone off, and no other event touches the queue. The event and
  whether a handler runs are visible in both modules, so a timeout cannot pass for
  a timer that was stopped. This is what justifies `Tail(timers)` in `DataLink`. The
  refinement mapping, `InOrder`, is the running slots in the order of their values.
* **FrameQueue, FrameFifo**: the ring buffer and its pipe, with the two reads as
  separate steps; together they implement a FIFO, which justifies `chan`. The
  specification is `QueueSpec`, so that its proofs can stand in one module with
  those of `Timers`.
* **MainLoop**: main. `hanging` counts events (ticks / `DELTA`) and stops at
  `DEADLOCK`, which is as far as it matters. A pipe is a sequence of words.
* **Protocol2**: `sender2` and `receiver2` with main. The handshake is modelled
  word for word: report, go-ahead, zero word, statistics.
* **Protocol3, Protocol4**: one action per event kind. In both, every handler of
  a sending worker ends in `SendCurrent`, the tail of the loop body in `p4.c` and
  its head in `p3.c`; so a checksum error, too, makes a sending worker repeat its
  current frame. `receiver3` answers undamaged frames only.
* **DataLink_proofs** and the other `_proofs` modules: section 5.
* **SlidingWindow**: what `p5.c` and `p6.c` share: the window variables, the
  piggybacked acknowledgement and the loop that handles one. The loop
  `while (between(...))` is one set, `Acked`: the outstanding frames up to and
  including the acknowledged one.
* **Protocol5**: go back n. The network layer is an event here: it is enabled while
  `nbuffered < MAX_SEQ`, and `pick_event` asks it when `queue[]` is empty and looks
  at the timers only when it is disabled. The loop of the timeout handler sends one
  frame per step (`Resend`, `left` counts those to come), because the peer may take
  the first while the next ones are being sent.
* **Protocol6**: selective repeat. `frame_arrival` is three actions, by the kind of
  the frame, because the code does three different things; each of them includes
  the loop over the acknowledgements (an ack on a data frame, a nak or an ack counts
  alike). The inner loop that passes packets on is a number, `Deliverable`. No
  handler sends more than one frame, so a handler is one action. `seqs[]` is kept as
  in the code, although it turns out that `seqs[k]` is `k` (`TimersMatchWindow`).
* **Bytes**: strings and numbers of Python 2: `str`, what `int` and `long` accept,
  the order of strings. Python is external: it is modelled from how the code uses it.
* **Bencode**: the encoder is a function, `Code[n]` for values nested at most `n`
  deep (`Value[n]`); it is a recursive function and no RECURSIVE operator, so that it
  can be proved about. A dictionary is the set of its pairs. The decoder is a state
  machine that reads one item per step with the recursive calls as a stack.
  `ReadsInt`, `ReadsString`, ... say what stands at the position as far as the
  decoder accepts it; what none of them covers raises an error. Positions may be
  negative as in Python.

The state variables have the names of the source. `"map"` in `PROJECT.json` gives
the lines of each definition. Operators named `X_Something` stand before the
definition `X` they differ from in one plausible mistake; they show that the
properties notice it.

### Abstractions

* A packet is its number; frames are records without checksum. Damage is the
  choice between `frame_arrival` and `cksum_err` when a frame is taken, loss is a
  choice when it is sent, as in the code.
* Packet numbers wrap at `MaxPkt`, where the code wraps at 2^32 - 1; `last_pkt_given`
  starts at `MaxPkt` as `0xFFFFFFFF` in the code. A small `MaxPkt` makes an error
  that skips exactly `MaxPkt + 1` packets invisible to TLC, which is far more than
  can be under way; the proofs hold for every `MaxPkt`.
* The statistics counters, logging and tracing are left out, except for the
  words that go to main.
* In protocols 5 and 6, `out_buf`, `in_buf` and `buffer` start with packet 0 where
  the code leaves them uninitialized; `FramesUnambiguous` and `WindowsAgree` say
  that no buffer is used before it was set.
* Protocol 6 sends `seq` 0 in a nak and an ack, and an uninitialized `info`, which
  nobody reads; the model sends packet 0 in it.
* If protocol 6 finds a packet out of order, the worker exits in the middle of the
  handler, perhaps after a nak. The model stops it before the handler has any other
  effect; `NoProtocolError` says that it does not come to that.
* `Supply0`, `Supply1` bound the packets the network layers hand out in the run of
  protocol 6; the proofs also hold for values above `MaxPkt`, with which they never
  run dry. A network layer that has handed out all of them counts as disabled;
  that allows timeouts the code would put off, so up to that many packets
  nothing the code can do is left out.
* `Bencode` leaves out sloppy decoding, booleans, unicode and `Bencached`. The
  recursion limit of Python is `MaxDepth`; its `RuntimeError` is not caught.
* `Protocol2` treats a damaged frame as any other, as the code does: neither
  worker looks at the event.

## 3. Runs

| run | question | bounds | result |
|---|---|---|---|
| `p4` | inductive invariant, refinement of `PacketStream`, progress of both streams | 3 packet numbers; no timer goes off with 4 frames under way | holds |
| `p4_wait_for_peer` | comment on `wait_for_peer` | 3 packet numbers, 3 frames | violated |
| `p3` | the same as `p4` for protocol 3 | 3 packet numbers, 5 frames | holds |
| `p5` | windows, timers and frames agree, refinement of `PacketStream`, progress | `MAX_SEQ` 2, 6 packet numbers, damage only; no timer goes off with 2 frames under way | holds |
| `p6` | the same for protocol 6, one nak per gap; every packet arrives | `MAX_SEQ` 3, 8 packet numbers, 3 packets from M0, 1 from M1, 2 frames | holds |
| `bencode` | round trip; accepted bytes are canonical | 15 values, their encodings with up to one edit, all strings up to 4 over 8 characters, a key of negative length | holds |
| `timers` | unique timers; a timeout takes the oldest (`TimerQueue`) | 3 timers, `DELTA` 3, interval 6, 4 go-aheads | holds |
| `timers_idle` | NOTHING when no timer is pending | as above | violated |
| `queue` | ring buffer is a FIFO | 4 slots, pipe of 5, 11 frame numbers | holds |
| `queue_overrun` | reads go into free room | the same, `ack_timeout` may go first | violated |
| `p2` | handshake, stop-and-wait, statistics; a deadlock is found, the run ends | 3 packet numbers, `DEADLOCK` 6 | holds |
| `p2_statistics` | statistics after a deadlock | 2 packet numbers, `DEADLOCK` 3 | violated |

`NoProtocolError` is an invariant of the run of protocol 4 only, but it is proved for
protocols 3 to 6. A protocol error of protocol 3 would stop the one stream it has
(`Progress`); in protocols 5 and 6 it would be a frame with the expected number and
another packet (`FramesUnambiguous`).
The type invariants of protocols 5 and 6 are the first conjunct of `WindowsAgree`.

The bounds:

* `MaxInFlight` stops timers, not protocols: with that many frames under way no
  timer goes off. Handlers answer a frame with at most one frame, so only timeouts
  add frames. Four is enough for two duplicates in each direction, or for four in
  one, with old and new numbers mixed.
  In protocols 5 and 6 the network layers add frames as well, up to the window:
  with 2, a timer goes off early while one frame is under way.
* `MAX_SEQ` is 7 in the code. 2 and 3 are the smallest values for which protocol 5
  has a window of more than one frame, and protocol 6 a receiver's window of more
  than one; all numbers are used within a run, and the
  windows come round to 0 again. `MAX_SEQ` of protocol 6 must be
  odd ("should be 2^n - 1").
* In `p5` frames are damaged, not lost: to protocol 5 a damaged frame and a lost one
  are the same, because it ignores the damaged one. The safety properties were also
  checked once with `MayLose = TRUE` (2.9 million states). In `p6` they differ
  (a damaged frame causes a nak), and both happen.
* Three packets from M0 in `p6` are one more than the window: when they have been
  passed on the receiver waits for 3 and, for the second time, 0, and old frames 0 to 2
  may be sent again. The one packet of M1 lets acknowledgements ride on data in
  both directions. Fairness makes more packets dear; the safety properties were also
  checked once with 4 and 5 packets from M0 and with a network layer of M0 that never
  runs dry (up to 2.9 million states).
* The inputs of `bencode` are near what the code meets, encodings and damaged
  encodings, plus everything short.
* `LastTick` stops main after four go-aheads in `Timers`; an interval of two
  events is enough for timers started in different events to run, be restarted
  and go off in the same run. `UINT_MAX` only has to be larger than every tick.
* `Frames` is the number of names for frames in `FrameQueue`, larger than the
  frames that can be in the pipe and in `queue[]`, so none is confused with
  another. The pipe of 65536 bytes holds 4096 frames of 16 bytes and `queue[]`
  1000; 5 and 4 keep that order.
* `Timeout` is the command line parameter: events per timeout interval.

`CHECK_DEADLOCK FALSE` is used where the program stops: in `Timers` and
`Protocol2` at the end of the run, in `FrameQueue` when the worker exits with
"queue full". `Bencode` stops when decoding ends. In protocols 3 to 6 some step is always possible, and TLC checks it.

### What the violated runs show

1. `p4_wait_for_peer`: a checksum error, like every event, makes M0 send, so it
   sends before it was given a packet (`p4.c:39` says otherwise). The protocol
   is still correct; a frame is sent early.
2. `timers_idle`: `lowest_timer` is `UINT_MAX`, not 0, once any timer was started
   or stopped (in the trace a timer is stopped that was never started, which
   recalculates as well), so a worker of protocols 3 to 6 without a running timer reports OK
   and main can never find a deadlock there.
3. `queue_overrun`: the check "queue full" is made after the second read only. If
   the first read fills the buffer it is silently full, and read into again unless
   a frame is taken first. An `ack_timeout` is served before frames. `FrameQueue`
   does not follow the auxiliary timer, and its shortest trace begins with an
   `ack_timeout` before any data frame has started that timer; with one frame taken
   first, which starts it, the same happens one frame later.
4. `p2_statistics`: `terminate` looks for the zero word of the second pipe in the
   first one (336). After "End of simulation" both pipes hold one report before
   the zero word and the mistake does no harm (`StatisticsAtEnd` holds); after a
   deadlock one holds none.

Three things were found while modelling that no run decides. A dictionary key with a
negative length is not rejected, and sets the position back (`bencode.py:31`), so
nothing in `decode_dict` guarantees that decoding ends, and where it does end the
dictionary may not encode to the bytes it came from. No document promises either.
That it may not came out of a proof that failed: `SameBytes` used to exclude only numbers
with blanks, a plus or an `l`. It now also excludes a minus before the `:` of a
string, and the input that showed it, `GoingBack`, is one of the run's.
And in protocol 5 everything depends on the timeout interval (`CatchesUp`, below).

The third: the idle counts of the two workers need not cover the same
time. main may pick M1 often enough before M0 has sent a frame, and then M0 often
enough before it picks M1 again, and declare a deadlock although a frame is on its
way and none was lost. `doc.md:66` only calls this improbable, which it is unless
the timeout parameter is small.

## 4. Fairness

`Spec` has no fairness. `FairSpec` adds:

* weak fairness of `Start` and `Wait`: main keeps giving go-aheads, to a worker
  chosen at random each tick, so a worker that can run does run;
* weak fairness of `Timeout`: a timer that stays the next one and is not
  preempted by frames runs out, because the ticks go on;
* strong fairness of "a frame arrives undamaged and the answer is not lost", and
  infinitely many timeouts include infinitely many whose frame is not lost: each
  is an independent choice that goes wrong at most 990 times in 1024. The second is an implication, because `Timeout` is disabled
  whenever a frame is queued and may never be needed again.
* Protocol 5: `CatchesUp`, a worker again and again has taken all frames in
  `queue[]`. This is an assumption about a parameter, not about the scheduler: the
  timeout interval must be longer than a worker needs for the frames of a round.
  Without it TLC finds a run in which the peer only takes duplicates: frames go
  before packets in `pick_event` and protocol 5 acknowledges only with its own
  data, so it never acknowledges, and the sender repeats its window for ever
  (`p5.c:94`). So `Progress` of protocol 5 says nothing about that hazard. `TimersRunOut`:
  a full window whose timers run goes back in the end. Of infinitely many
  retransmissions of the oldest frame infinitely many arrive undamaged. That the
  window is sent again is up to the handler: when it sends nothing
  (`Timeout_NothingSent`), `Progress` fails.
* Protocol 6: workers keep running, and what can happen again and again does happen
  (strong fairness), because main tosses a coin for every tick: any finite
  pattern of turns comes up again and again, also one worker running until its
  clock has passed its timers. Weak fairness is not enough where another event can
  come first: a frame that arrives puts a timeout off. What is fair is
  `SendsOldest`, a timeout of the oldest frame that is not lost on the way, or an
  `AckTimeout` whose ack is not lost, and `GetsNews`, the undamaged arrival of the
  oldest frame or of one that acknowledges something. Nothing says that
  frames are repeated or arrive in the end: that they do is up to the
  handlers. When `Timeout` sends nothing (`Timeout_NothingSent`), or is taken out of
  `Next` and of the fairness, TLC finds workers that wait for ever. Nothing is
  assumed of naks: they only save time.
  The ack timer is restarted by every arriving data frame (`p6.c:85`). Its fairness is
  shared with `SendsOldest`, so a worker that repeats its own oldest frame may
  put its ack off for ever, and acknowledge by piggybacking only. New frames cannot
  put it off for longer than a window, because then the peer waits. A worker with
  nothing of its own to send does send its ack in the end: its clock passes the ack
  timer whenever main picks it often enough in a row, while the peer sends nothing.
  `InFlight < MaxInFlight` in `CatchesUp` only keeps the bound of the model from
  stopping timers for good.
* `Protocol2`: every process runs on, and the random choice of main picks each
  worker again and again (strong fairness, because picking is not always
  possible).

`RunEnds` rests on a wait that the code only approximates: `terminate` sleeps four
seconds (325) before it reads the statistics, and in `MainLoop` it reads them when
both workers have exited (`exited` in the guard of `ReadStatistics`).

The end of the simulation after `last_tick` is no part of these liveness
statements: `Progress` is about a run that is not cut off.

## 5. Proofs

All safety properties the passing runs check are proved, for every value of the
constants: without any bound on the frames under way (`MaxInFlight` is an arbitrary
number), and for every value, input and depth of nesting in `Bencode`.

| module | theorems | hypotheses beyond the assumptions on the constants |
|---|---|---|
| `Protocol2_proofs` | `TypeOK`, `Handshake`, `OneFrameOnTheLink`, `StatisticsAtEnd`, `DeliversStream` | |
| `Protocol3_proofs` | `TypeOK`, `NoProtocolError`, `OneBitIsEnough`, `TimerRuns`, `DeliversStream` | |
| `Protocol4_proofs` | `TypeOK`, `NoProtocolError`, `AlternatingBitWorks`, `TimerRuns`, `DeliversStream` | |
| `Protocol5_proofs` | `WindowsAgree`, `FramesUnambiguous`, `AcksAreTrue`, `TimersMatchWindow`, `NoProtocolError`, `DeliversStream` | |
| `Protocol6_proofs` | `WindowsAgree`, `FramesUnambiguous`, `TimersMatchWindow`, `OneNak`, `NoProtocolError`, `DeliversStream` | |
| `Worker_proofs` (timers) | `TypeOK`, `UniqueTimers`, `NeverImpossible`, `ImplementsTimerQueue` | |
| `Worker_proofs` (queue) | `QueueTypeOK`, `CountMatchesPointers`, `ReadsIntoRoom`, `IsFifo` | `[]FewFrames` |
| `Bencode_proofs` | `TypeOK`, `RoundTrip`, `SameBytes` | |

### Assumptions

TLC evaluates each of them in the runs of its module.

* `DataLinkAssumption`, `Protocol2Assumption`, `MainLoopAssumption`: types, and more
  than one packet number.
* `MaxSeqAssumption`: `MAX_SEQ` is positive and at most `MaxPkt`; 7 and 2^32 - 1 in the
  code.
* `Protocol6Assumption`: `MAX_SEQ` is odd ("should be 2^n - 1", `p6.c:13`). Nothing
  more of a power of two is needed.
* `TimersAssumption`: a handler starts at most `DELTA` timers, and no tick of the run
  reaches `UINT_MAX`. The code has `DELTA` 10 ("must be greater than NR_TIMERS",
  `simulator.h:17`), and no handler starts more than the seven of a retransmission.
* `FrameQueueAssumption`: types and sizes. The hypothesis `FewFrames` of the theorems
  about the queue holds by itself for protocols 2 to 5, which never start the
  auxiliary timer. For protocol 6 it says that the frames in the pipe and in `queue[]`
  are always fewer than `MAX_QUEUE`, 1000 in the code; it cannot be dropped
  (`queue_overrun` is the counterexample), and nothing in `p6.c` ensures it when
  the timeout interval is short.
* `BencodeAssumption`: the values to encode are nested at most `MaxDepth` deep, the
  inputs are byte strings. A value nested deeper cannot be decoded again: Python
  gives up at its recursion limit.

### Arguments

**One bit (protocols 3 and 4).** That an arriving frame with the expected number
carries the expected packet depends on all frames under way, so `NoProtocolError` is
not inductive. Looking at one direction, `LinkOK` of `DataLink_proofs` says: the frames
to the peer are some with the previous number followed by some with the current
one, and the current ones carry the current packet; the acknowledgements to the
sender are likewise ordered; one of the current frame exists only when the receiver
has passed the packet on, and then no old frame is left. Its lemmas say what
taking a frame, taking an acknowledgement and sending do to that, for arbitrary
sequences. In protocol 4 the invariant of the run, `AlternatingBitWorks`, is `LinkOK`
in both directions, so it is inductive together with the types and the timers, and
each action is proved once, for worker `p` and its peer. In protocol 3 `OneBitIsEnough`
alone is not inductive, and the invariant has `LinkOK` in its place.

**Windows (protocols 5 and 6).** The numbers on the wire wrap; the invariant does not.
For each direction it says that there are natural numbers that explain the state:
the sender has had the first `a` packets acknowledged, the receiver has passed on
the first `e`. Every variable is then the wrapped number of a packet (`SeqNo(a)`,
`PktNo(a + nbuffered)`, ...). Every data frame under way has such a number, too
(`DataWindow`): it is below the next one the sender will fetch, and less than a
window behind every frame before it in the channel and behind what the receiver
expects. Every acknowledgement under way was sent when the receiver expected some
number between `a` and `e`, a later one not below an earlier one (`AckWindow`).
Packets whose numbers agree and which are at most `MAX_SEQ` apart are the same packet;
from this follow all properties of the run.

* In protocol 5 the state in the middle of a retransmission is covered by `left`: the
  timers of the frames still to be sent again stand in front of those that have
  been (`TimersOK`), and nothing else happens in a worker meanwhile (`InTimeoutLoop`).
* In protocol 6 a third number is needed, `h`, from which on nothing has been stored:
  a frame that arrives may make the receiver pass on a whole row of packets that
  arrived before it, and its window jumps ahead of that frame, which then says too
  little about the frames behind it in the channel. So `DataWindow` compares the
  frames under way with `h`. Numbers from `h` less a window up to the end of the
  receiver's window are less than two windows apart, and two windows are all the
  numbers (`2 * NR_BUFS - 1 = MAX_SEQ`).
* That there is one nak per gap rests on `no_nak` being set only together with an
  advance of the window: no older nak asks for the frame that is now expected
  (`NoNakYet`, from the acknowledgement every nak carries).

These invariants quantify over all natural numbers, so TLC cannot evaluate them; the
runs check what follows from them.

**Protocol 2.** The link is in one of four states (`LinkState`), which is stop-and-wait.
For each worker the handshake is in one of five (`TurnOf`), each of which says word by
word what is in its two pipes, also behind the last report. `StatisticsAtEnd` follows
from the last of them: both workers have exited, and each report pipe holds one
report in front of the zero word.

**Timers.** A value is a multiple of `DELTA`, plus the interval, plus an offset
smaller than `DELTA`; the invariant is `UniqueTimers`, which also says that nothing
runs later than the next timer that will be started, together with the fact that
`lowest_timer` is up to date: so `check_timers` takes the running timer with the least
value, and a timer that is started has the greatest. The refinement turns this into
an order of events, step by step (`QueueSteps`): what a timeout takes off is the head
of the queue (`TimeoutQueues`), and no event but a timeout takes anything off.
`InOrder` chooses the arrangement
of the running timers. That there is one would be an induction over their number;
it is carried along as an invariant instead (`TimersArranged`), and that there is only one
follows from looking at the first place where two would differ.

**Queue.** `nframes` is the distance of the pointers, and `queue_frames` never starts with
a full array (`RoomIsKnown`), because the last go-ahead took a frame or the
frames are few: then the two readings of `inp = outp` cannot be
confused. The FIFO is what is in `queue[]`, unrolled from `outp`, followed by the pipe.

**Bencoding.** The type invariant needs one fact it does not contain: a call of
`decode_dict` that has called another function has decoded the key of the value it
waits for (`Waiting`), or the value would go to no key when the inner call returns.
The type invariant says that keys strictly increase; so the pairs read, in the order
in which they were read, are what `sort` makes of the dictionary (`CollectedDict`,
from the fact that there is only one sorted order, `SortedUnique`).

The two other invariants both say where the text of every call under way stands: its
first character, the codes of the items decoded so far and, in a dictionary, that of
the key that waits (`Text`). `Laid` says that these texts stand one behind the other,
from the beginning of the input to the position.

* `SameBytes` follows from `Laid` by itself: with plain numbers, whatever a step reads
  is the code of what it makes of it, so the step puts that code behind the texts;
  when a call returns, its text and the final `e` are the code of the list or the
  dictionary. One case is different: a string may be longer than what is left of
  the input, and the slice is then shorter without an error. The position is
  then behind the end, and nothing is accepted any more (`Honest`).
* For `RoundTrip` the input is the code of a value `v`, and `Doing` gives each call under
  way the list or dictionary it is going to return: the one which the call before it
  waits for, whose code stands where the call began. What the last call has decoded is a
  beginning of that (`Partial`). So what stands at the position is known: the code of
  the next item or key, or an `e`. Its first byte decides what the decoder takes it
  for (`FirstByte`), and its length is where it ends: it is never the content of a
  string that is looked at. As `v` is not nested deeper than `MaxDepth`, no call is one
  too many.

Underneath stand lemmas about the operators, which have nothing to do with this
program: `int` inverts `str`, and `str` inverts `int` for plain numbers
(`ReadIntBack`, `ReadIntPlain` use them), the order of strings is total and
transitive, a string stands in another exactly if its parts do, one behind the other (`Has`).
Numerals, codes and values are recursive functions over `Nat`: that a function
satisfies its equation is proved first, for each (`DecimalRule`, `ValueDef`, `CodeDef`).
The induction theorems of the library have an operator as a parameter, which the
installed provers cannot instantiate; here a set takes its place (`Steps`,
`StrongSteps`), which follows from the least element of a set of naturals (`Smallest`).

**Refinements.** For `PacketStream` each proof computes how many packets are under way
from what the two ends know, shows that the initial states agree, and that every
step is a fetch, a delivery or a stutter.

### Only model-checked

Liveness (`Progress`, `EverythingArrives`, `DeadlockIsFound`, `RunEnds`): out of the
prover's reach.

## 6. Not modelled

`FileMeta` and the peer list (`bittorrent_get_peers.py`) read a decoded dictionary
from top to bottom, keep no state and run alone; the length of the last piece is
computed and not used. What happens to the parameter `timeout_interval` 0
(accepted although "must be positive", 891; a timer started before the first
go-ahead gets the value 0, which means not running) needs no search. Opening
and closing descriptors, signals, log files, tracing, the statistics printout, the
command line and the HTTP request are input and output without state of their own;
the Makefile, the Xcode project, `combinelogs.sh` and the documents have no
behaviour.

## 7. Plan

The safety properties of the protocols, the timers, the queue and bencoding are
proved. What is left, in this order:

1. Protocol 6 with the queue it really has: for which timeout intervals the frames under
   way stay below `MAX_QUEUE` (`FewFrames`), which takes a model with ticks.
2. A link with blocking writes: main, two workers and bounded pipes, to say when
   the pipes can fill up although `queue_frames` empties them at every event.
