---------------------------- MODULE MCTurnService ----------------------------
(***************************************************************************)
(* Two turns on one session, two steering messages and room for one: a     *)
(* message can find the inbox full, reach the second turn of the session,  *)
(* or arrive as a turn closes.                                             *)
(***************************************************************************)
EXTENDS TurnService

CONSTANTS a1, a2, A, m1, m2

MCSession == {A}
MCSub == {a1, a2}
MCSessionOf == [s \in MCSub |-> A]
MCMsg == {m1, m2}
MCMetered == {a1, a2}
=============================================================================
