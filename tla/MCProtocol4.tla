---------------------------- MODULE MCProtocol4 -----------------------------
(***************************************************************************)
(* Protocol 4 for TLC.  The values of the constants are in the .cfg files. *)
(***************************************************************************)
EXTENDS Protocol4
=============================================================================
