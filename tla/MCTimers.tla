------------------------------ MODULE MCTimers ------------------------------
(***************************************************************************)
(* Module Timers for TLC.  The values of the constants are in the .cfg     *)
(* files.                                                                  *)
(***************************************************************************)
EXTENDS Timers
=============================================================================
