---------------------------- MODULE MCProtocol3 -----------------------------
(***************************************************************************)
(* Protocol 3 for TLC.  The values of the constants are in the .cfg files. *)
(***************************************************************************)
EXTENDS Protocol3
=============================================================================
