---------------------------- MODULE MCProtocol6 -----------------------------
(***************************************************************************)
(* Protocol 6 for TLC.  The values of the constants are in MCProtocol6.cfg *)
(***************************************************************************)
EXTENDS Protocol6
=============================================================================
