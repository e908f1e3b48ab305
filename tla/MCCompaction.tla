----------------------------- MODULE MCCompaction -----------------------------
(***************************************************************************)
(* Compaction with two sessions, so that a turn of one meets the           *)
(* background job of the other.                                            *)
(***************************************************************************)
EXTENDS Compaction

CONSTANTS s1, s2

One == {s1}
Two == {s1, s2}
===============================================================================
