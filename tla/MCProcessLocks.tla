---------------------------- MODULE MCProcessLocks ----------------------------
(***************************************************************************)
(* ProcessLocks with three pids: two processes that run the Telegram       *)
(* channel and one that does not.                                          *)
(***************************************************************************)
EXTENDS ProcessLocks

CONSTANTS p1, p2, p3

Three == {p1, p2, p3}
Bots == {p1, p2}
===============================================================================
