---------------------------- MODULE MCProtocol5 -----------------------------
(***************************************************************************)
(* Protocol 5 for TLC.  The values of the constants are in MCProtocol5.cfg *)
(***************************************************************************)
EXTENDS Protocol5
=============================================================================
