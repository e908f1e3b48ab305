---------------------------- MODULE MCSessionStore ----------------------------
(***************************************************************************)
(* SessionStore for two processes on one state dir, each of which may      *)
(* restart: the sweep, stale copies, and the two statements of a write     *)
(* seen by somebody else.                                                  *)
(***************************************************************************)
EXTENDS SessionStore

CONSTANTS p1, p2

Two == {p1, p2}

\* Every process may restart once, so that its pid is reused.
Boots == [p \in Proc |-> 2]
===============================================================================
