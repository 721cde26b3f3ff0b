----------------------------- MODULE FrameQueue -----------------------------
(***************************************************************************)
(* The circular buffer queue[] in which a worker collects the frames its   *)
(* peer has written to the pipe (queue_frames and frametype), with the two *)
(* separate reads of queue_frames: the peer may write between them.        *)
(*                                                                         *)
(* queue_frames runs once before every go-ahead.  When the go-ahead finds  *)
(* frames in queue[], pick_event takes one, except that an expired         *)
(* auxiliary timer goes first; only protocol 6 starts that timer.          *)
(***************************************************************************)
EXTENDS Integers, FiniteSetsExt, SequencesExt

CONSTANTS
  MAX_QUEUE,    \* max number of buffered frames
  PipeSize,     \* the frames that fit in the pipe; a writer blocks then
  Frames,       \* frames are numbered 0 .. Frames-1, cyclically
  UsesAckTimer  \* does the protocol start the auxiliary timer?

ASSUME FrameQueueAssumption ==
  /\ MAX_QUEUE \in Nat \ {0} /\ PipeSize \in Nat
  /\ Frames \in Nat \ {0} /\ UsesAckTimer \in BOOLEAN

VARIABLES
  reader,      \* "queue_frames", "residual": about to do the second read,
               \* "wait": for the go-ahead; "exited": "queue full"
  pipe,        \* the frames in the pipe, oldest first
  next_frame,  \* the number of the next frame the peer writes
  queue,       \* buffered incoming frames
  inp,         \* where to put the next frame
  outp,        \* where to remove the next frame from
  nframes,     \* number of queued frames
  last_frame   \* arrived frames are kept here

ring_vars == <<queue, inp, outp, nframes, last_frame>>
queue_vars == <<reader, pipe, next_frame, ring_vars>>

Slot == 0 .. MAX_QUEUE - 1
FrameNr == 0 .. Frames - 1

QueueTypeOK ==
  /\ reader \in {"queue_frames", "residual", "wait", "exited"}
  /\ pipe \in Seq(FrameNr)
  /\ Len(pipe) <= PipeSize
  /\ next_frame \in FrameNr
  /\ queue \in [Slot -> FrameNr]
  /\ inp \in Slot
  /\ outp \in Slot
  /\ nframes \in 0 .. MAX_QUEUE
  /\ last_frame \in FrameNr

QueueInit ==
  /\ reader = "queue_frames"
  /\ pipe = <<>>
  /\ next_frame = 0
  /\ queue = [s \in Slot |-> 0]
  /\ inp = 0
  /\ outp = 0
  /\ nframes = 0
  /\ last_frame = 0

-----------------------------------------------------------------------------

(* The peer writes a frame, whatever this worker is doing.                 *)
Write ==
  /\ Len(pipe) < PipeSize
  /\ pipe' = Append(pipe, next_frame)
  /\ next_frame' = IF next_frame = Frames - 1 THEN 0 ELSE next_frame + 1
  /\ UNCHANGED <<reader, ring_vars>>

Wrap_Never(s) == s

Wrap(s) == IF s = MAX_QUEUE THEN 0 ELSE s

(* read(prfd, inp, k * FRAME_SIZE) gets n frames.                          *)
Read(k, n) ==
  /\ n = Min({k, Len(pipe)})
  /\ pipe' = SubSeq(pipe, n + 1, Len(pipe))
  /\ queue' = [s \in Slot |-> IF s \in inp .. inp + n - 1 THEN pipe[s - inp + 1]
                                                         ELSE queue[s]]
  /\ nframes' = nframes + n
  /\ UNCHANGED <<next_frame, outp, last_frame>>

(* How many frames can be read consecutively?                              *)
Room_UpToTop == MAX_QUEUE - inp

Room == (IF outp <= inp THEN MAX_QUEUE ELSE outp) - inp

(* The first read goes no further than the top of queue[] or the oldest    *)
(* frame in it.  If it filled all the room there may be residual frames.   *)
FirstRead ==
  /\ reader = "queue_frames"
  /\ \E n \in 0 .. Room :
       /\ Read(Room, n)
       /\ inp' = Wrap(inp + n)
       /\ reader' = IF n = Room THEN "residual" ELSE "wait"

(* The second read.  A read that fills queue[] is an error, unless it gets *)
(* no frames at all because there is no room left to read them into.       *)
SecondRead ==
  /\ reader = "residual"
  /\ \E n \in 0 .. outp - inp :
       /\ Read(outp - inp, n)
       /\ inp' = inp + n
       /\ reader' = IF n > 0 /\ n = outp - inp THEN "exited" ELSE "wait"

(* frametype: the go-ahead finds a frame and removes it from queue[].      *)
TakeFrame ==
  /\ reader = "wait"
  /\ nframes > 0
  /\ last_frame' = queue[outp]
  /\ outp' = Wrap(outp + 1)
  /\ nframes' = nframes - 1
  /\ reader' = "queue_frames"
  /\ UNCHANGED <<pipe, next_frame, queue, inp>>

TakesNoFrame_Ever == reader = "wait"

(* A go-ahead that leads to another event, or to none.                     *)
TakesNoFrame == reader = "wait" /\ (nframes = 0 \/ UsesAckTimer)

OtherEvent ==
  /\ TakesNoFrame
  /\ reader' = "queue_frames"
  /\ UNCHANGED <<pipe, next_frame, ring_vars>>

QueueNext == Write \/ FirstRead \/ SecondRead \/ TakeFrame \/ OtherEvent

QueueSpec == QueueInit /\ [][QueueNext]_queue_vars

-----------------------------------------------------------------------------
(* Properties.                                                             *)

(* The slots that hold the queued frames, from outp on, oldest first.      *)
Occupied(i) == (outp + i) % MAX_QUEUE

Queued == [i \in 1 .. nframes |-> queue[Occupied(i - 1)]]

(* nframes and the two pointers tell the same story, in every wrap of the  *)
(* buffer and between the two reads; when the pointers are equal, nframes  *)
(* says whether the buffer is full or empty.                               *)
CountMatchesPointers ==
  /\ nframes <= MAX_QUEUE
  /\ inp = Occupied(nframes)

(* The pipe and queue[] together are a FIFO: whatever the peer writes, and *)
(* whenever, comes out of frametype in the same order, nothing overwritten *)
(* and nothing twice.                                                      *)
Fifo == INSTANCE FrameFifo WITH
  Frames <- FrameNr,
  fifo <- Queued \o pipe

IsFifo == Fifo!Spec

(* The comment in queue_frames: "See if there is room in the circular      *)
(* buffer queue[]", and only then is it read into: a read never overwrites *)
(* a frame that has not been taken.                                        *)
ReadsIntoRoom ==
  [][\A i \in 0 .. nframes - 1 :
       nframes' >= nframes => queue'[Occupied(i)] = queue[Occupied(i)]]_queue_vars
=============================================================================
