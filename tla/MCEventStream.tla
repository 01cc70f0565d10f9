--------------------------- MODULE MCEventStream ---------------------------
(***************************************************************************)
(* Instances of EventStream for TLC: two slots stand for the twelve of the *)
(* code and two threads for the pool, so that the third message in a row   *)
(* meets the end of the vector and two busy threads an inline run.         *)
(***************************************************************************)
EXTENDS EventStream

CONSTANTS t1, t2

MCThreads == {t1, t2}
=============================================================================
