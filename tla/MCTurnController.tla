--------------------------- MODULE MCTurnController ---------------------------
(***************************************************************************)
(* Small instances of TurnController: four submissions, three of them on   *)
(* one session, so that a submission can be cancelled between two others,  *)
(* and one on a second session.                                            *)
(***************************************************************************)
EXTENDS TurnController

CONSTANTS a1, a2, a3, b1, A, B

MCSession == {A, B}
MCSub == {a1, a2, a3, b1}
MCSessionOf == [s \in MCSub |-> IF s = b1 THEN B ELSE A]
MCHooked == {a1, a3, b1}
MCHanging == {a1}
===============================================================================
