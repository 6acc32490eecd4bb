--------------------------- MODULE MCDaemonRelogin ---------------------------
(***************************************************************************)
(* DaemonRelogin for TLC.                                                  *)
(***************************************************************************)
EXTENDS DaemonRelogin
=============================================================================
