------------------------- MODULE MCDatabaseManager -------------------------
(***************************************************************************)
(* Instances of DatabaseManager for TLC: three callers, a connection that  *)
(* is replaced at the third failure, calls that try twice, and enough      *)
(* failures to replace it twice while some of them are counted late.       *)
(***************************************************************************)
EXTENDS DatabaseManager

CONSTANTS c1, c2, c3

MCCallers == {c1, c2, c3}
=============================================================================
