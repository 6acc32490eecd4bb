--------------------------- MODULE MCDaemonGateways ---------------------------
(***************************************************************************)
(* DaemonGateways for TLC.                                                 *)
(***************************************************************************)
EXTENDS DaemonGateways
=============================================================================
