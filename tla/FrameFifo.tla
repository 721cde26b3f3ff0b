----------------------------- MODULE FrameFifo ------------------------------
(***************************************************************************)
(* What a pipe and queue[] promise together: frames are taken in the order *)
(* in which the peer wrote them, none lost, none twice.                    *)
(***************************************************************************)
EXTENDS Sequences

CONSTANT Frames

VARIABLES
  fifo,       \* the frames written and not yet taken
  last_frame  \* the frame taken last

Init == fifo = <<>> /\ last_frame \in Frames

Put(f) == fifo' = Append(fifo, f) /\ UNCHANGED last_frame

Take ==
  /\ fifo # <<>>
  /\ last_frame' = Head(fifo)
  /\ fifo' = Tail(fifo)

Next == Take \/ \E f \in Frames : Put(f)

Spec == Init /\ [][Next]_<<fifo, last_frame>>
=============================================================================
