---------------------------- MODULE MCFrameQueue ----------------------------
(***************************************************************************)
(* Module FrameQueue for TLC.  The values of the constants are in the .cfg *)
(* files.                                                                  *)
(***************************************************************************)
EXTENDS FrameQueue
=============================================================================
