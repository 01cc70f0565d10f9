---------------------------- MODULE MCCacheEntry ----------------------------
(***************************************************************************)
(* Instances of CacheEntry for TLC: two readers, and one or two writers    *)
(* that make three calls of set_addresses between them, so that both       *)
(* copies are replaced while a reader is between its load of the id and    *)
(* its counter.                                                            *)
(***************************************************************************)
EXTENDS CacheEntry

CONSTANTS r1, r2, w1, w2

MCReaders == {r1, r2}
OneWriter == {w1}
TwoWriters == {w1, w2}
=============================================================================
