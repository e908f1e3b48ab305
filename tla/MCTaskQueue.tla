----------------------------- MODULE MCTaskQueue -----------------------------
(***************************************************************************)
(* Small instances of TaskQueue: one task and two processes (every kind of *)
(* task, crashes and restarts), and two tasks in one process (the drain of *)
(* a whole session).                                                       *)
(***************************************************************************)
EXTENDS TaskQueue

CONSTANTS p1, p2, t1, t2

OneProc == {p1}
TwoProcs == {p1, p2}
OneTask == {t1}
TwoTasks == {t1, t2}
Boots == [p \in Proc |-> IF p = p1 THEN 2 ELSE 1]

Kind(r, s, f) == [recurring |-> r, session |-> s, future |-> f]

\* A recurring task, a one-shot task without a session, and one for a chat
\* that exists.
MostKinds == {Kind(TRUE, NoSession, TRUE), Kind(FALSE, NoSession, FALSE),
              Kind(FALSE, Chat, FALSE)}

\* The same, and a one-shot task for the chat at a later time.
AllKinds == MostKinds \cup {Kind(FALSE, Chat, TRUE)}
=============================================================================
