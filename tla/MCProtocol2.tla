---------------------------- MODULE MCProtocol2 -----------------------------
(***************************************************************************)
(* Protocol 2 and main for TLC.  The values of the constants are in the    *)
(* .cfg files.                                                             *)
(***************************************************************************)
EXTENDS Protocol2
=============================================================================
