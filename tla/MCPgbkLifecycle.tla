--------------------------- MODULE MCPgbkLifecycle ---------------------------
(***************************************************************************)
(* PgbkLifecycle for TLC.                                                  *)
(***************************************************************************)
EXTENDS PgbkLifecycle

\* A negative number, zero and a positive one for every number of a Config.
SomeSettings == {-1, 0, 5}
=============================================================================
