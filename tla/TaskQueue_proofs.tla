--------------------------- MODULE TaskQueue_proofs ---------------------------
(***************************************************************************)
(* Proofs about TaskQueue for every set of processes and tasks.  The rows  *)
(* are guarded by their status alone, so nothing in a single write says    *)
(* that it belongs to the run that makes it.  The inductive invariant says *)
(* why it does: as long as a process is between its claim and its outcome, *)
(* the row carries its mark and either is `running` or has come to an end  *)
(* that nobody revives.                                                    *)
(***************************************************************************)
EXTENDS TaskQueue, FiniteSetTheorems, TLAPS

\* Between the claim and the last write of runOne.
Holds(p, t) == run[p][t].pc \in {"claimed", "turn", "write", "requeue"}

\* The ends that no step takes a task out of.
Final == Terminal \ {"completed"}

\* A process that is up has started, and one that is down runs nothing.
LifeInv ==
    \A p \in Proc :
        /\ up[p] # "down" => inc[p] # 0
        /\ up[p] = "down" => \A t \in Task : run[p][t] = Idle

\* The row of a task that a process holds carries the mark of that run.
MarkInv ==
    \A p \in Proc, t \in Task : Holds(p, t) =>
        /\ task[t].owner = [pid |-> p, inc |-> inc[p], at |-> run[p][t].at]
        /\ task[t].at = run[p][t].at
        /\ run[p][t].at # 0

\* While its turn runs the row says so, unless it was ended meanwhile; between
\* the two writes of a recurring task it is `completed`.
StatusInv ==
    \A p \in Proc, t \in Task :
        /\ Executes(p, t) => task[t].status \in {"running"} \cup Final
        /\ run[p][t].pc = "requeue" => task[t].status = "completed" /\ task[t].recurring

QueueInv == TypeOK /\ LifeInv /\ MarkInv /\ StatusInv /\ RunningHasItsRun

-----------------------------------------------------------------------------
LEMMA InitQueue == Init => QueueInv
BY ChatIsASession, BoundsType
   DEF Init, QueueInv, TypeOK, LifeInv, MarkInv, StatusInv, RunningHasItsRun, Holds,
       Executes, Row, NoRow, Run, Idle, Status, Terminal, NoMark, Outcome, Reasons,
       NoSession

\* The parts of the type that the drains and counters keep.
RestOK ==
    /\ up \in [Proc -> {"down", "up", "stopping"}]
    /\ inc \in [Proc -> Nat]
    /\ drain \in [Proc -> [Task -> Reasons]]
    /\ clock \in Nat
    /\ sessions \in Nat
    /\ deleted \subseteq Nat
    /\ firings \in 0..MaxFirings
    /\ drains \in 0..MaxDrains

\* A process moves from its run of a task to v and the row of the task to w.
Moves(p, t, v, w) ==
    /\ run' = [run EXCEPT ![p][t] = v]
    /\ task' = [task EXCEPT ![t] = w]
    /\ UNCHANGED <<up, inc>>

LEMMA MovesAt ==
    ASSUME TypeOK, NEW p \in Proc, NEW t \in Task, NEW v \in Run, NEW w \in Row,
           Moves(p, t, v, w)
    PROVE  /\ run' \in [Proc -> [Task -> Run]] /\ task' \in [Task -> Row]
           /\ run'[p][t] = v /\ task'[t] = w
           /\ \A q \in Proc, u \in Task : q # p \/ u # t => run'[q][u] = run[q][u]
           /\ \A u \in Task : u # t => task'[u] = task[u]
<1>0. run \in [Proc -> [Task -> Run]] /\ task \in [Task -> Row]
    BY DEF TypeOK
<1>1. [run[p] EXCEPT ![t] = v] \in [Task -> Run]
    BY <1>0
<1>2. run' \in [Proc -> [Task -> Run]]
    BY <1>0, <1>1 DEF Moves
<1>3. run'[p] = [run[p] EXCEPT ![t] = v] /\ \A q \in Proc : q # p => run'[q] = run[q]
    BY <1>0 DEF Moves
<1>4. run'[p][t] = v /\ \A u \in Task : u # t => run'[p][u] = run[p][u]
    BY <1>0, <1>3
<1>5. task' \in [Task -> Row] /\ task'[t] = w /\ \A u \in Task : u # t => task'[u] = task[u]
    BY <1>0 DEF Moves
<1> QED BY <1>2, <1>3, <1>4, <1>5

\* The mark of a row names its run: nobody else holds the task.
LEMMA HolderIsAlone ==
    ASSUME QueueInv, NEW p \in Proc, NEW q \in Proc, NEW t \in Task,
           Holds(p, t), Holds(q, t)
    PROVE  p = q
<1>1. task[t].owner = [pid |-> p, inc |-> inc[p], at |-> run[p][t].at]
    BY DEF QueueInv, MarkInv
<1>2. task[t].owner = [pid |-> q, inc |-> inc[q], at |-> run[q][t].at]
    BY DEF QueueInv, MarkInv
<1>3. task[t].owner.pid = p /\ task[t].owner.pid = q
    BY <1>1, <1>2
<1> QED BY <1>3

\* Nobody holds a task that waits, and only one that executes can hold one
\* that runs.
LEMMA PendingIsFree ==
    ASSUME QueueInv, NEW p \in Proc, NEW t \in Task, task[t].status \in {"absent", "pending"}
    PROVE  ~Holds(p, t)
BY DEF QueueInv, StatusInv, Holds, Executes, Final, Terminal

\* The row w says of the task's claim what its row says.
SameClaim(w, t) ==
    /\ w.status = task[t].status /\ w.recurring = task[t].recurring
    /\ w.owner = task[t].owner /\ w.at = task[t].at

\* The row w ends the task under its claim: what cancel() writes.
EndsClaim(w, t) ==
    /\ task[t].status # "completed" /\ w.status \in Final
    /\ w.owner = task[t].owner /\ w.at = task[t].at

\* What a move of one process has to respect.
LEMMA MovesQueue ==
    ASSUME QueueInv, NEW p \in Proc, NEW t \in Task, NEW v \in Run, NEW w \in Row,
           Moves(p, t, v, w), RestOK', up[p] # "down",
           stuck \subseteq stuck', stuck' \subseteq Mark,
           v.pc \in {"claimed", "turn", "write", "requeue"} =>
               /\ w.owner = [pid |-> p, inc |-> inc[p], at |-> v.at]
               /\ w.at = v.at /\ v.at # 0,
           v.pc \in {"claimed", "turn", "write"} => w.status \in {"running"} \cup Final,
           v.pc = "requeue" => w.status = "completed" /\ w.recurring,
           SameClaim(w, t) \/ EndsClaim(w, t) \/ \A q \in Proc : q # p => ~Holds(q, t),
           w.status = "running" =>
               \/ v.pc \in {"claimed", "turn", "write"}
               \/ w.owner \in stuck'
               \/ SameClaim(w, t) /\ ~Executes(p, t)
    PROVE  QueueInv'
<1>0. TypeOK
    BY DEF QueueInv
<1>a. /\ run' \in [Proc -> [Task -> Run]] /\ task' \in [Task -> Row]
      /\ run'[p][t] = v /\ task'[t] = w
      /\ \A q \in Proc, u \in Task : q # p \/ u # t => run'[q][u] = run[q][u]
      /\ \A u \in Task : u # t => task'[u] = task[u]
    BY <1>0, MovesAt
<1>b. up' = up /\ inc' = inc
    BY DEF Moves
<1>1. TypeOK'
    BY <1>a DEF TypeOK, RestOK
<1>2. LifeInv'
    BY <1>a, <1>b DEF QueueInv, LifeInv
<1>3. MarkInv'
    <2> SUFFICES ASSUME NEW q \in Proc, NEW u \in Task, Holds(q, u)'
                 PROVE  /\ task'[u].owner = [pid |-> q, inc |-> inc'[q], at |-> run'[q][u].at]
                        /\ task'[u].at = run'[q][u].at
                        /\ run'[q][u].at # 0
        BY DEF MarkInv
    <2>1. CASE q = p /\ u = t
        BY <1>a, <1>b, <2>1 DEF Holds
    <2>2. CASE q # p \/ u # t
        <3>1. Holds(q, u)
            BY <1>a, <2>2 DEF Holds
        <3>2. task'[u].owner = task[u].owner /\ task'[u].at = task[u].at
            BY <1>a, <2>2, <3>1 DEF SameClaim, EndsClaim
        <3> QED BY <1>a, <1>b, <2>2, <3>1, <3>2 DEF QueueInv, MarkInv
    <2> QED BY <2>1, <2>2
<1>4. StatusInv'
    <2> SUFFICES ASSUME NEW q \in Proc, NEW u \in Task
                 PROVE  /\ Executes(q, u)' => task'[u].status \in {"running"} \cup Final
                        /\ run'[q][u].pc = "requeue" =>
                              task'[u].status = "completed" /\ task'[u].recurring
        BY DEF StatusInv, Final
    <2>1. CASE q = p /\ u = t
        BY <1>a, <2>1 DEF Executes
    <2>2. CASE q # p \/ u # t
        <3>1. run'[q][u] = run[q][u]
            BY <1>a, <2>2
        <3>2. Holds(q, u) =>
                 \/ /\ task'[u].status = task[u].status
                    /\ task'[u].recurring = task[u].recurring
                 \/ task[u].status # "completed" /\ task'[u].status \in Final
            BY <1>a, <2>2 DEF SameClaim, EndsClaim
        <3> QED BY <3>1, <3>2 DEF QueueInv, StatusInv, Holds, Executes
    <2> QED BY <2>1, <2>2
<1>5. RunningHasItsRun'
    <2> SUFFICES ASSUME NEW u \in Task, task'[u].status = "running", Alive(task[u].owner)'
                 PROVE  \/ /\ Executes(task[u].owner.pid, u)'
                           /\ run'[task'[u].owner.pid][u].at = task'[u].at
                        \/ task'[u].owner \in stuck'
        BY DEF RunningHasItsRun
    <2> DEFINE o == task'[u].owner
    <2>0. o \in Mark
        BY <1>a DEF Alive, Row
    <2>1. CASE u # t
        <3>1. task'[u] = task[u] /\ run'[o.pid][u] = run[o.pid][u]
            BY <1>a, <2>0, <2>1 DEF Mark
        <3>2. Alive(task[u].owner)
            BY <1>b, <3>1 DEF Alive
        <3> QED BY <3>1, <3>2 DEF QueueInv, RunningHasItsRun, Executes
    <2>2. CASE u = t /\ v.pc \in {"claimed", "turn", "write"}
        BY <1>a, <2>2 DEF Executes
    <2>3. CASE u = t /\ w.owner \in stuck'
        BY <1>a, <2>3
    <2>4. CASE u = t /\ SameClaim(w, t) /\ ~Executes(p, t)
        <3>1. /\ task'[t].owner = task[t].owner /\ task'[t].at = task[t].at
              /\ task[t].status = "running"
            BY <1>a, <2>4 DEF SameClaim
        <3>2. Alive(task[t].owner)
            BY <1>b, <2>4, <3>1 DEF Alive
        <3>3. \/ /\ Executes(task[t].owner.pid, t)
                 /\ run[task[t].owner.pid][t].at = task[t].at
              \/ task[t].owner \in stuck
            BY <3>1, <3>2 DEF QueueInv, RunningHasItsRun
        <3> QED BY <1>a, <2>0, <2>4, <3>1, <3>3 DEF Executes, Mark
    <2> QED BY <1>a, <2>1, <2>2, <2>3, <2>4
<1> QED BY <1>1, <1>2, <1>3, <1>4, <1>5 DEF QueueInv

-----------------------------------------------------------------------------
\* What the run and the row of a task are, and that a row nobody writes may
\* be taken as written with what it was.
LEMMA RunAndRow ==
    ASSUME QueueInv, NEW p \in Proc, NEW t \in Task
    PROVE  /\ run[p][t] \in Run /\ task[t] \in Row
           /\ task = [task EXCEPT ![t] = task[t]]
           /\ run = [run EXCEPT ![p][t] = run[p][t]]
           /\ sessions \in Nat /\ clock \in Nat /\ inc[p] \in Nat /\ Idle \in Run
<1>0. run \in [Proc -> [Task -> Run]] /\ task \in [Task -> Row]
    BY DEF QueueInv, TypeOK
<1>1. Idle \in Run
    BY DEF Idle, Run, Outcome, NoSession
<1>2. run[p] = [run[p] EXCEPT ![t] = run[p][t]]
    BY <1>0
<1>3. run = [run EXCEPT ![p] = run[p]]
    BY <1>0
<1>4. task = [task EXCEPT ![t] = task[t]]
    BY <1>0
<1>5. run = [run EXCEPT ![p][t] = run[p][t]]
    BY <1>2, <1>3
<1>6. run[p][t] \in Run /\ task[t] \in Row
    BY <1>0
<1> QED BY <1>1, <1>4, <1>5, <1>6 DEF QueueInv, TypeOK

\* ensureSessionBeforeClaim(): whatever the row is, its claim stays.
LEMMA AssignSessionQueue ==
    ASSUME QueueInv, NEW p \in Proc, NEW t \in Task, AssignSession(p, t)
    PROVE  QueueInv'
<1> DEFINE v == [run[p][t] EXCEPT !.session = sessions + 1]
           w == [task[t] EXCEPT !.session = sessions + 1]
<1>0. run[p][t] \in Run /\ task[t] \in Row /\ sessions \in Nat
    BY RunAndRow
<1>1. v \in Run /\ w \in Row /\ v.pc = "picked" /\ SameClaim(w, t)
    BY <1>0 DEF Run, Row, SameClaim, AssignSession
<1>2. Moves(p, t, v, w)
    BY DEF AssignSession, Moves
<1>3. RestOK' /\ stuck' = stuck /\ stuck \subseteq Mark /\ up[p] # "down" /\ ~Executes(p, t)
    BY DEF AssignSession, QueueInv, TypeOK, RestOK, Executes
<1> HIDE DEF v, w
<1> QED BY <1>1, <1>2, <1>3, MovesQueue

\* markRunning(): a free row takes the mark of the run.
LEMMA ClaimQueue ==
    ASSUME QueueInv, NEW p \in Proc, NEW t \in Task, Claim(p, t)
    PROVE  QueueInv'
<1>0. run[p][t] \in Run /\ task[t] \in Row /\ clock \in Nat /\ Idle \in Run
    BY RunAndRow
<1>1. /\ RestOK' /\ stuck' = stuck /\ stuck \subseteq Mark
      /\ up[p] # "down" /\ ~Executes(p, t)
    BY DEF Claim, QueueInv, TypeOK, RestOK, Executes
<1>2. CASE task[t].status = "pending"
    <2> DEFINE m == [pid |-> p, inc |-> inc[p], at |-> clock + 1]
               n == task[t].attempts + 1
               v == [pc |-> "claimed", session |-> task[t].session, attempts |-> n,
                     at |-> clock + 1, aborted |-> FALSE, out |-> "none"]
               w == [task[t] EXCEPT !.status = "running", !.attempts = n,
                                    !.at = clock + 1, !.owner = m]
    <2>1. m \in Mark
        BY <1>0, <1>1 DEF QueueInv, TypeOK, LifeInv, Mark
    <2>2. n \in Nat /\ clock + 1 \in Nat \ {0} /\ task[t].session \in Nat
        BY <1>0 DEF Row
    <2> HIDE DEF m, n
    <2>3. v \in Run /\ w \in Row
        BY <1>0, <2>1, <2>2 DEF Run, Row, Outcome, Status
    <2>4. v.pc = "claimed" /\ v.at = clock + 1 /\ w.at = clock + 1 /\ w.owner = m
          /\ w.status = "running"
        BY <1>0 DEF Row
    <2>5. Moves(p, t, v, w)
        BY <1>2 DEF Claim, Moves, m, n
    <2>6. \A q \in Proc : ~Holds(q, t)
        BY <1>2, PendingIsFree
    <2>7. w.owner = [pid |-> p, inc |-> inc[p], at |-> v.at]
        BY <2>4 DEF m
    <2> HIDE DEF v, w
    <2> QED BY <1>1, <2>2, <2>3, <2>4, <2>5, <2>6, <2>7, MovesQueue
<1>3. CASE task[t].status # "pending"
    <2>1. Moves(p, t, Idle, task[t])
        BY <1>3, RunAndRow DEF Claim, Moves, EndRun
    <2>2. Idle.pc = "idle" /\ SameClaim(task[t], t)
        BY DEF Idle, SameClaim
    <2> QED BY <1>0, <1>1, <2>1, <2>2, MovesQueue
<1> QED BY <1>2, <1>3

\* loadOrRecreateSession(): the run goes on with its claim.
LEMMA OpenSessionQueue ==
    ASSUME QueueInv, NEW p \in Proc, NEW t \in Task, OpenSession(p, t)
    PROVE  QueueInv'
<1> DEFINE missing == run[p][t].session \in deleted
           v == [run[p][t] EXCEPT !.pc = "turn", !.aborted = up[p] = "stopping",
                    !.session = IF missing THEN sessions + 1 ELSE @]
           w == IF missing THEN [task[t] EXCEPT !.session = sessions + 1] ELSE task[t]
<1>0. run[p][t] \in Run /\ task[t] \in Row /\ sessions \in Nat
    BY RunAndRow
<1>1. v \in Run /\ w \in Row
    <2> DEFINE sid == IF missing THEN sessions + 1 ELSE run[p][t].session
               ab == up[p] = "stopping"
    <2>1. sid \in Nat /\ ab \in BOOLEAN
        BY <1>0 DEF Run
    <2>2. v = [run[p][t] EXCEPT !.pc = "turn", !.aborted = ab, !.session = sid]
        OBVIOUS
    <2> HIDE DEF sid, ab
    <2>3. v \in Run
        BY <1>0, <2>1, <2>2 DEF Run
    <2>4. [task[t] EXCEPT !.session = sessions + 1] \in Row
        BY <1>0 DEF Row
    <2> QED BY <1>0, <2>3, <2>4
<1>2. v.pc = "turn" /\ v.at = run[p][t].at /\ SameClaim(w, t)
    BY <1>0 DEF Run, Row, SameClaim
<1>3. Moves(p, t, v, w)
    <2>1. run' = [run EXCEPT ![p][t] = v]
        BY DEF OpenSession
    <2>2. task' = [task EXCEPT ![t] = w]
        BY RunAndRow DEF OpenSession
    <2> QED BY <2>1, <2>2 DEF Moves, OpenSession
<1>4. RestOK' /\ stuck' = stuck /\ stuck \subseteq Mark /\ up[p] # "down"
    BY DEF OpenSession, QueueInv, TypeOK, RestOK
<1>5. Executes(p, t) /\ Holds(p, t)
    BY DEF OpenSession, Executes, Holds
<1>6. /\ w.owner = [pid |-> p, inc |-> inc[p], at |-> v.at]
      /\ w.at = v.at /\ v.at # 0
    BY <1>2, <1>5 DEF QueueInv, MarkInv, SameClaim
<1>7. w.status \in {"running"} \cup Final
    BY <1>2, <1>5 DEF QueueInv, StatusInv, SameClaim
<1> HIDE DEF v, w
<1> QED BY <1>1, <1>2, <1>3, <1>4, <1>6, <1>7, MovesQueue

\* A run that ends leaves no row that says `running` behind, or reports it.
LEMMA ReleaseQueue ==
    ASSUME QueueInv, NEW p \in Proc, NEW t \in Task, NEW w \in Row,
           Moves(p, t, Idle, w), RestOK', up[p] # "down", Holds(p, t),
           stuck \subseteq stuck', stuck' \subseteq Mark,
           w.status # "running" \/ w.owner \in stuck'
    PROVE  QueueInv'
<1>1. Idle \in Run /\ Idle.pc = "idle"
    BY RunAndRow DEF Idle
<1>2. \A q \in Proc : q # p => ~Holds(q, t)
    BY HolderIsAlone
<1> QED BY <1>1, <1>2, MovesQueue

LEMMA DropOK ==
    ASSUME TypeOK, NEW p \in Proc, NEW t \in Task, Drop(p, t) \/ UNCHANGED drain
    PROVE  drain' \in [Proc -> [Task -> Reasons]]
<1>0. drain \in [Proc -> [Task -> Reasons]]
    BY DEF TypeOK
<1>1. [drain[p] EXCEPT ![t] = "no"] \in [Task -> Reasons]
    BY <1>0 DEF Reasons
<1> QED BY <1>0, <1>1 DEF Drop

\* Only the runs and the drain of a task change, besides its row.
LEMMA RestKept ==
    ASSUME QueueInv, NEW p \in Proc, NEW t \in Task, Drop(p, t) \/ UNCHANGED drain,
           UNCHANGED <<up, inc, clock, sessions, deleted, firings, drains>>
    PROVE  RestOK'
<1>1. TypeOK
    BY DEF QueueInv
<1>2. drain' \in [Proc -> [Task -> Reasons]]
    BY <1>1, DropOK
<1> QED BY <1>1, <1>2 DEF TypeOK, RestOK

\* markBlocked() for a session that is gone.
LEMMA BlockWithoutSessionQueue ==
    ASSUME QueueInv, NEW p \in Proc, NEW t \in Task, BlockWithoutSession(p, t)
    PROVE  QueueInv'
<1> DEFINE w == IF task[t].status \in {"running", "pending"}
                THEN [task[t] EXCEPT !.status = "blocked"] ELSE task[t]
<1>0. task[t] \in Row
    BY RunAndRow
<1>1. w \in Row /\ w.status # "running"
    BY <1>0 DEF Row, Status, Terminal
<1>2. Moves(p, t, Idle, w)
    BY RunAndRow DEF BlockWithoutSession, Moves, EndRun
<1>3. up[p] # "down" /\ Holds(p, t) /\ stuck' = stuck /\ stuck \subseteq Mark
    BY DEF BlockWithoutSession, Holds, QueueInv, TypeOK
<1>4. RestOK'
    BY RestKept DEF BlockWithoutSession
<1> HIDE DEF w
<1> QED BY <1>1, <1>2, <1>3, <1>4, ReleaseQueue

\* runTurn() settles: a run whose row was ended meanwhile lets go of it.
LEMMA EndTurnQueue ==
    ASSUME QueueInv, NEW p \in Proc, NEW t \in Task, NEW out \in Outcome \ {"none"},
           EndTurn(p, t, out)
    PROVE  QueueInv'
<1>0. run[p][t] \in Run /\ task[t] \in Row
    BY RunAndRow
<1>1. /\ up[p] # "down" /\ Holds(p, t) /\ Executes(p, t)
      /\ stuck' = stuck /\ stuck \subseteq Mark
    BY DEF EndTurn, Quiet, Holds, Executes, QueueInv, TypeOK
<1>2. RestOK'
    BY RestKept DEF EndTurn
<1>3. CASE EndedElsewhere(p, t)
    <2>1. Moves(p, t, Idle, task[t])
        BY <1>3, RunAndRow DEF EndTurn, Moves, EndRun
    <2>2. task[t].status # "running"
        BY <1>1, <1>3 DEF QueueInv, MarkInv, EndedElsewhere
    <2> QED BY <1>0, <1>1, <1>2, <2>1, <2>2, ReleaseQueue
<1>4. CASE ~EndedElsewhere(p, t)
    <2> DEFINE stopped == run[p][t].aborted /\ out \in {"retryable", "permanent"}
               o == IF stopped THEN "cancelled" ELSE out
               v == [run[p][t] EXCEPT !.pc = "write", !.out = o]
    <2>1. o \in Outcome
        BY DEF Outcome
    <2>2. Moves(p, t, v, task[t])
        <3>1. run' = [run EXCEPT ![p][t].pc = "write", ![p][t].out = o]
            BY <1>4, Zenon DEF EndTurn
        <3>. HIDE DEF o
        <3>3. run' = [run EXCEPT ![p][t] = v]
            BY <3>1
        <3>2. task' = [task EXCEPT ![t] = task[t]]
            BY RunAndRow DEF EndTurn
        <3> QED BY <3>2, <3>3 DEF Moves, EndTurn
    <2> HIDE DEF o
    <2>3. v \in Run
        BY <1>0, <2>1 DEF Run
    <2>4. v.pc = "write" /\ v.at = run[p][t].at /\ SameClaim(task[t], t)
        BY <1>0 DEF Run, SameClaim
    <2>5. /\ task[t].owner = [pid |-> p, inc |-> inc[p], at |-> v.at]
          /\ task[t].at = v.at /\ v.at # 0
        BY <1>1, <2>4 DEF QueueInv, MarkInv
    <2>6. task[t].status \in {"running"} \cup Final
        BY <1>1 DEF QueueInv, StatusInv
    <2> HIDE DEF v
    <2> QED BY <1>0, <1>1, <1>2, <2>2, <2>3, <2>4, <2>5, <2>6, MovesQueue
<1> QED BY <1>3, <1>4

\* markCompleted(): the run of a recurring task goes on to rearm it.
LEMMA MarkCompletedQueue ==
    ASSUME QueueInv, NEW p \in Proc, NEW t \in Task, MarkCompleted(p, t)
    PROVE  QueueInv'
<1> DEFINE w == IF task[t].status = "running"
                THEN [task[t] EXCEPT !.status = "completed"] ELSE task[t]
<1>0. run[p][t] \in Run /\ task[t] \in Row
    BY RunAndRow
<1>1. /\ up[p] # "down" /\ Holds(p, t) /\ stuck' = stuck /\ stuck \subseteq Mark
    BY DEF MarkCompleted, Writes, Holds, QueueInv, TypeOK
<1>2. RestOK'
    BY RestKept DEF MarkCompleted
<1>3. /\ w \in Row /\ w.status # "running" /\ w.owner = task[t].owner
      /\ w.at = task[t].at /\ w.recurring = task[t].recurring
    BY <1>0 DEF Row, Status, Terminal
<1>4. task' = [task EXCEPT ![t] = w] /\ UNCHANGED <<up, inc>>
    BY RunAndRow DEF MarkCompleted, IfRunning
<1>5. CASE task[t].status = "running" /\ task[t].recurring
    <2> DEFINE v == [run[p][t] EXCEPT !.pc = "requeue"]
    <2>1. v \in Run /\ v.pc = "requeue" /\ v.at = run[p][t].at
        BY <1>0 DEF Run
    <2>2. run' = [run EXCEPT ![p][t] = v]
        BY <1>5 DEF MarkCompleted
    <2>3. Moves(p, t, v, w)
        BY <1>4, <2>2 DEF Moves
    <2>4. /\ w.owner = [pid |-> p, inc |-> inc[p], at |-> v.at]
          /\ w.at = v.at /\ v.at # 0
        BY <1>1, <1>3, <2>1 DEF QueueInv, MarkInv
    <2>5. w.status = "completed" /\ w.recurring
        BY <1>0, <1>5 DEF Row
    <2>6. \A q \in Proc : q # p => ~Holds(q, t)
        BY <1>1, HolderIsAlone
    <2> HIDE DEF v, w
    <2> QED BY <1>1, <1>2, <1>3, <2>1, <2>3, <2>4, <2>5, <2>6, MovesQueue
<1>6. CASE ~(task[t].status = "running" /\ task[t].recurring)
    <2>1. Moves(p, t, Idle, w)
        BY <1>4, <1>6 DEF Moves, MarkCompleted, EndRun
    <2> HIDE DEF w
    <2> QED BY <1>1, <1>2, <1>3, <2>1, ReleaseQueue
<1> QED BY <1>5, <1>6

\* requeueRecurring(): the row is pending again before the run lets go.
LEMMA RequeueRecurringQueue ==
    ASSUME QueueInv, NEW p \in Proc, NEW t \in Task, RequeueRecurring(p, t)
    PROVE  QueueInv'
<1> DEFINE w == Rearmed(task[t])
<1>0. task[t] \in Row
    BY RunAndRow
<1>1. w \in Row /\ w.status # "running"
    BY <1>0 DEF Row, Status, Terminal, Rearmed
<1>2. Moves(p, t, Idle, w)
    BY RunAndRow DEF RequeueRecurring, Moves, EndRun
<1>3. up[p] # "down" /\ Holds(p, t) /\ stuck' = stuck /\ stuck \subseteq Mark
    BY DEF RequeueRecurring, Holds, QueueInv, TypeOK
<1>4. RestOK'
    BY RestKept DEF RequeueRecurring
<1> HIDE DEF w
<1> QED BY <1>1, <1>2, <1>3, <1>4, ReleaseQueue

\* markRetry() or markFailed().
LEMMA MarkFailureQueue ==
    ASSUME QueueInv, NEW p \in Proc, NEW t \in Task, MarkFailure(p, t)
    PROVE  QueueInv'
<1> DEFINE w == IF task[t].status # "running" THEN task[t]
                ELSE IF run[p][t].attempts < MaxAttempts
                THEN [task[t] EXCEPT !.status = "pending", !.at = 0]
                ELSE [task[t] EXCEPT !.status = "failed"]
<1>0. task[t] \in Row
    BY RunAndRow
<1>1. w \in Row /\ w.status # "running"
    BY <1>0 DEF Row, Status, Terminal
<1>2. Moves(p, t, Idle, w)
    BY RunAndRow DEF MarkFailure, Moves, EndRun, IfRunning
<1>3. up[p] # "down" /\ Holds(p, t) /\ stuck' = stuck /\ stuck \subseteq Mark
    BY DEF MarkFailure, Holds, QueueInv, TypeOK, Writes
<1>4. RestOK'
    BY RestKept DEF MarkFailure
<1> HIDE DEF w
<1> QED BY <1>1, <1>2, <1>3, <1>4, ReleaseQueue

\* markBlocked() for a permanent failure.
LEMMA MarkBlockedQueue ==
    ASSUME QueueInv, NEW p \in Proc, NEW t \in Task, MarkBlocked(p, t)
    PROVE  QueueInv'
<1> DEFINE w == IF task[t].status \in {"running", "pending"}
                THEN [task[t] EXCEPT !.status = "blocked"] ELSE task[t]
<1>0. task[t] \in Row
    BY RunAndRow
<1>1. w \in Row /\ w.status # "running"
    BY <1>0 DEF Row, Status, Terminal
<1>2. Moves(p, t, Idle, w)
    BY RunAndRow DEF MarkBlocked, Moves, EndRun
<1>3. up[p] # "down" /\ Holds(p, t) /\ stuck' = stuck /\ stuck \subseteq Mark
    BY DEF MarkBlocked, Holds, QueueInv, TypeOK, Writes
<1>4. RestOK'
    BY RestKept DEF MarkBlocked
<1> HIDE DEF w
<1> QED BY <1>1, <1>2, <1>3, <1>4, ReleaseQueue

\* handleCancelled(): rearmed, left due or cancelled, the row runs no more.
LEMMA HandleCancelledQueue ==
    ASSUME QueueInv, NEW p \in Proc, NEW t \in Task, HandleCancelled(p, t)
    PROVE  QueueInv'
<1> DEFINE w == IF task[t].recurring
                THEN IF task[t].status = "running" THEN Rearmed(task[t]) ELSE task[t]
                ELSE IF up[p] = "stopping"
                THEN IF task[t].status = "running"
                     THEN [task[t] EXCEPT !.status = "pending", !.at = 0] ELSE task[t]
                ELSE IF task[t].status \in {"running", "pending"}
                THEN [task[t] EXCEPT !.status = "cancelled"] ELSE task[t]
<1>0. task[t] \in Row
    BY RunAndRow
<1>1. w \in Row /\ w.status # "running"
    BY <1>0 DEF Row, Status, Terminal, Rearmed
<1>2. Moves(p, t, Idle, w)
    BY RunAndRow DEF HandleCancelled, Moves, EndRun, IfRunning
<1>3. up[p] # "down" /\ Holds(p, t) /\ stuck' = stuck /\ stuck \subseteq Mark
    BY DEF HandleCancelled, Holds, QueueInv, TypeOK, Writes
<1>4. RestOK'
    BY RestKept DEF HandleCancelled
<1> HIDE DEF w
<1> QED BY <1>1, <1>2, <1>3, <1>4, ReleaseQueue

\* A statement fails: the run lets go of a row that may say `running`.
LEMMA StepFailsQueue ==
    ASSUME QueueInv, NEW p \in Proc, NEW t \in Task, StepFails(p, t)
    PROVE  QueueInv'
<1>0. task[t] \in Row /\ run[p][t] \in Run /\ inc[p] \in Nat
    BY RunAndRow
<1>1. up[p] # "down" /\ Holds(p, t) /\ stuck' = stuck \cup {task[t].owner}
    BY DEF StepFails, Holds
<1>2. task[t].owner = [pid |-> p, inc |-> inc[p], at |-> run[p][t].at] /\ run[p][t].at # 0
    BY <1>1 DEF QueueInv, MarkInv
<1>3. inc[p] # 0 /\ run[p][t].at \in Nat
    BY <1>0, <1>1 DEF QueueInv, LifeInv, Run
<1>4. task[t].owner \in Mark
    BY <1>0, <1>2, <1>3 DEF Mark
<1>5. stuck \subseteq stuck' /\ stuck' \subseteq Mark /\ task[t].owner \in stuck'
    BY <1>1, <1>4 DEF QueueInv, TypeOK
<1>6. Moves(p, t, Idle, task[t])
    BY RunAndRow DEF StepFails, Moves, EndRun
<1>7. RestOK'
    BY RestKept DEF StepFails
<1> QED BY <1>0, <1>1, <1>5, <1>6, <1>7, ReleaseQueue

\* cancel(): the row ends under whoever holds it.
LEMMA CancelQueue ==
    ASSUME QueueInv, NEW p \in Proc, NEW t \in Task, Cancel(p, t)
    PROVE  QueueInv'
<1> DEFINE v == IF run[p][t].pc = "turn" THEN [run[p][t] EXCEPT !.aborted = TRUE]
                ELSE run[p][t]
           w == [task[t] EXCEPT !.status = "cancelled"]
<1>0. run[p][t] \in Run /\ task[t] \in Row
    BY RunAndRow
<1>1. w \in Row /\ w.status = "cancelled" /\ EndsClaim(w, t)
    BY <1>0 DEF Row, Status, Terminal, EndsClaim, Final, Cancel
<1>2. v \in Run /\ v.at = run[p][t].at /\ v.pc = run[p][t].pc /\ v.pc \in {"idle", "turn"}
    BY <1>0 DEF Run, Cancel, Quiet
<1>3. Moves(p, t, v, w)
    <2>1. run' = [run EXCEPT ![p][t] = v]
        BY RunAndRow DEF Cancel
    <2> QED BY <2>1 DEF Cancel, Moves
<1>4. up[p] # "down" /\ stuck' = stuck /\ stuck \subseteq Mark
    BY DEF Cancel, QueueInv, TypeOK
<1>5. RestOK'
    BY RestKept DEF Cancel
<1>6. v.pc = "turn" => /\ w.owner = [pid |-> p, inc |-> inc[p], at |-> v.at]
                       /\ w.at = v.at /\ v.at # 0
    BY <1>1, <1>2 DEF QueueInv, MarkInv, Holds, EndsClaim
<1>7. w.status \in Final
    BY <1>1 DEF Final, Terminal
<1> HIDE DEF v, w
<1> QED BY <1>1, <1>2, <1>3, <1>4, <1>5, <1>6, <1>7, MovesQueue

LEMMA BatchOK ==
    ASSUME QueueInv, NEW p \in Proc, NEW ts, NEW why \in Reasons
    PROVE  Batch(p, ts, why) \in [Proc -> [Task -> Reasons]]
<1>0. drain \in [Proc -> [Task -> Reasons]]
    BY DEF QueueInv, TypeOK
<1>1. [t \in Task |-> IF t \in ts /\ drain[p][t] = "no" THEN why ELSE drain[p][t]]
        \in [Task -> Reasons]
    BY <1>0
<1> QED BY <1>0, <1>1 DEF Batch

\* Where neither a claim nor a run changes, nothing does.
LEMMA SameRunsQueue ==
    ASSUME QueueInv, TypeOK', UNCHANGED <<inc, stuck>>,
           \A q \in Proc : up'[q] = "down" <=> up[q] = "down",
           \A q \in Proc, u \in Task :
               /\ run'[q][u].pc = run[q][u].pc /\ run'[q][u].at = run[q][u].at
               /\ run[q][u] = Idle => run'[q][u] = Idle,
           \A u \in Task : SameClaim(task'[u], u)
    PROVE  QueueInv'
<1>1. LifeInv'
    BY DEF QueueInv, LifeInv
<1>2. MarkInv'
    BY DEF QueueInv, MarkInv, Holds, SameClaim
<1>3. StatusInv'
    BY DEF QueueInv, StatusInv, Executes, SameClaim
<1>4. RunningHasItsRun'
    <2> SUFFICES ASSUME NEW u \in Task, task'[u].status = "running", Alive(task[u].owner)'
                 PROVE  \/ /\ Executes(task[u].owner.pid, u)'
                           /\ run'[task'[u].owner.pid][u].at = task'[u].at
                        \/ task'[u].owner \in stuck'
        BY DEF RunningHasItsRun
    <2>1. /\ task'[u].owner = task[u].owner /\ task'[u].at = task[u].at
          /\ task[u].status = "running"
        BY DEF SameClaim
    <2>2. task[u].owner \in Mark
        BY <2>1 DEF QueueInv, TypeOK, Row, Alive
    <2>3. task[u].owner.pid \in Proc
        BY <2>2 DEF Mark
    <2>4. Alive(task[u].owner)
        BY <2>1, <2>3 DEF Alive
    <2>5. \/ /\ Executes(task[u].owner.pid, u)
             /\ run[task[u].owner.pid][u].at = task[u].at
          \/ task[u].owner \in stuck
        BY <2>1, <2>4 DEF QueueInv, RunningHasItsRun
    <2> QED BY <2>1, <2>3, <2>5 DEF Executes
<1> QED BY <1>1, <1>2, <1>3, <1>4 DEF QueueInv

\* Steps of the drains, the clock and the operator that leave every claim.
LEMMA QuietQueue ==
    ASSUME QueueInv, TypeOK', UNCHANGED <<up, inc, run, stuck>>,
           \A u \in Task : SameClaim(task'[u], u)
    PROVE  QueueInv'
BY SameRunsQueue

LEMMA SameRows ==
    ASSUME task' = task
    PROVE  \A u \in Task : SameClaim(task'[u], u)
BY DEF SameClaim

LEMMA FallDueQueue ==
    ASSUME QueueInv, NEW t \in Task, FallDue(t)
    PROVE  QueueInv'
<1> DEFINE w == [task[t] EXCEPT !.due = TRUE]
<1>0. task \in [Task -> Row] /\ task' = [task EXCEPT ![t] = w]
    BY DEF QueueInv, TypeOK, FallDue
<1>1. w \in Row /\ SameClaim(w, t)
    BY <1>0 DEF Row, SameClaim
<1> HIDE DEF w
<1>2. task' \in [Task -> Row] /\ task'[t] = w /\ \A u \in Task : u # t => task'[u] = task[u]
    BY <1>0, <1>1
<1>3. firings' \in 0..MaxFirings
    BY BoundsType DEF QueueInv, TypeOK, FallDue
<1>4. TypeOK'
    BY <1>2, <1>3 DEF QueueInv, TypeOK, FallDue
<1>5. \A u \in Task : SameClaim(task'[u], u)
    BY <1>1, <1>2 DEF SameClaim
<1> QED BY <1>4, <1>5, QuietQueue DEF FallDue

LEMMA DeleteSessionQueue ==
    ASSUME QueueInv, NEW t \in Task, DeleteSession(t)
    PROVE  QueueInv'
<1>1. task[t].session \in Nat
    BY DEF QueueInv, TypeOK, Row
<1>2. TypeOK'
    BY <1>1 DEF QueueInv, TypeOK, DeleteSession
<1> QED BY <1>2, QuietQueue, SameRows DEF DeleteSession

LEMMA DrainQueue ==
    ASSUME QueueInv, NEW p \in Proc, Tick(p) \/ AskDrain(p)
    PROVE  QueueInv'
<1>1. drain' \in [Proc -> [Task -> Reasons]]
    BY BatchOK DEF Tick, AskDrain, Reasons
<1>2. drains' \in 0..MaxDrains
    BY BoundsType DEF QueueInv, TypeOK, Tick, AskDrain
<1>3. TypeOK'
    BY <1>1, <1>2 DEF QueueInv, TypeOK, Tick, AskDrain
<1> QED BY <1>3, QuietQueue, SameRows DEF Tick, AskDrain

\* create(): nobody can hold a row that is not there.
LEMMA CreateQueue ==
    ASSUME QueueInv, NEW p \in Proc, NEW t \in Task, NEW k \in Kinds, Create(p, t, k)
    PROVE  QueueInv'
<1> DEFINE sid == IF k.recurring /\ k.session = NoSession THEN sessions + 1 ELSE k.session
           due == ~k.future
           w == [NoRow EXCEPT !.status = "pending", !.recurring = k.recurring,
                              !.due = due, !.session = sid]
<1>0. sid \in Nat /\ due \in BOOLEAN /\ k.recurring \in BOOLEAN /\ sessions \in Nat
    BY KindsType, ChatIsASession DEF QueueInv, TypeOK, NoSession
<1>1. task' = [task EXCEPT ![t] = w]
    BY DEF Create
<1> HIDE DEF sid, due
<1>2. w \in Row /\ w.status = "pending"
    BY <1>0 DEF Row, NoRow, Status, NoMark
<1> HIDE DEF w
<1>3. Moves(p, t, run[p][t], w) /\ run[p][t] \in Run
    BY <1>1, RunAndRow DEF Create, Moves
<1>4. drain' \in [Proc -> [Task -> Reasons]]
    <2>1. \/ drain' = drain
          \/ \E ts : drain' = Batch(p, ts, "eager")
        BY Zenon DEF Create
    <2> QED BY <2>1, BatchOK DEF QueueInv, TypeOK, Reasons
<1>5. RestOK' /\ stuck' = stuck /\ stuck \subseteq Mark /\ up[p] # "down"
    <2>1. /\ UNCHANGED <<up, inc, stuck, clock, deleted, firings, drains>>
          /\ up[p] = "up" /\ sessions' \in {sessions, sessions + 1}
        BY DEF Create
    <2>2. TypeOK
        BY DEF QueueInv
    <2> QED BY <1>0, <1>4, <2>1, <2>2 DEF TypeOK, RestOK
<1>6. \A q \in Proc : ~Holds(q, t)
    BY PendingIsFree DEF Create
<1> QED BY <1>2, <1>3, <1>5, <1>6, MovesQueue DEF Holds

\* runOne() looks at the row, and goes on or drops the task.
LEMMA PickQueue ==
    ASSUME QueueInv, NEW p \in Proc, NEW t \in Task, Pick(p, t)
    PROVE  QueueInv'
<1>0. run[p][t] \in Run /\ task[t] \in Row
    BY RunAndRow
<1>1. ~Executes(p, t)
    BY DEF Pick, Idle, Executes
<1>2. RestOK' /\ stuck' = stuck /\ stuck \subseteq Mark /\ up[p] # "down"
    BY RestKept DEF Pick, QueueInv, TypeOK
<1>3. SameClaim(task[t], t)
    BY DEF SameClaim
<1>4. CASE task[t].status = "pending"
    <2> DEFINE v == [run[p][t] EXCEPT !.pc = "picked", !.session = task[t].session]
    <2>1. task[t].session \in Nat
        BY <1>0 DEF Row
    <2>2. v \in Run /\ v.pc = "picked"
        BY <1>0, <2>1 DEF Run
    <2>3. Moves(p, t, v, task[t])
        <3>1. run' = [run EXCEPT ![p][t] = v]
            BY <1>4 DEF Pick
        <3>2. task' = [task EXCEPT ![t] = task[t]]
            BY RunAndRow DEF Pick
        <3> QED BY <3>1, <3>2 DEF Pick, Moves
    <2> HIDE DEF v
    <2> QED BY <1>0, <1>1, <1>2, <1>3, <2>2, <2>3, MovesQueue
<1>5. CASE task[t].status # "pending"
    <2>0. run[p][t] = Idle /\ UNCHANGED <<run, task, up, inc>>
        BY <1>5 DEF Pick
    <2>1. Moves(p, t, run[p][t], task[t])
        BY <2>0, RunAndRow DEF Moves
    <2>2. Idle \in Run /\ Idle.pc = "idle"
        BY RunAndRow DEF Idle
    <2> QED BY <1>0, <1>1, <1>2, <1>3, <2>0, <2>1, <2>2, MovesQueue
<1> QED BY <1>4, <1>5

\* stop(): runs are aborted, none ends.
LEMMA StopQueue ==
    ASSUME QueueInv, NEW p \in Proc, Stop(p)
    PROVE  QueueInv'
<1> DEFINE f == [t \in Task |-> IF run[p][t].pc = "turn"
                                THEN [run[p][t] EXCEPT !.aborted = TRUE] ELSE run[p][t]]
           d == [t \in Task |-> "no"]
<1>0. /\ run \in [Proc -> [Task -> Run]] /\ drain \in [Proc -> [Task -> Reasons]]
      /\ up \in [Proc -> {"down", "up", "stopping"}]
    BY DEF QueueInv, TypeOK
<1>1. \A t \in Task : run[p][t] \in Run
    BY <1>0
<1>2. \A t \in Task : [run[p][t] EXCEPT !.aborted = TRUE] \in Run
    BY <1>1 DEF Run
<1>3. f \in [Task -> Run]
    BY <1>1, <1>2
<1>4. ASSUME NEW t \in Task
      PROVE  /\ f[t].pc = run[p][t].pc /\ f[t].at = run[p][t].at
             /\ run[p][t] = Idle => f[t] = Idle
    BY <1>1 DEF Run, Idle
<1>5. d \in [Task -> Reasons]
    BY DEF Reasons
<1>6. run' = [run EXCEPT ![p] = f] /\ drain' = [drain EXCEPT ![p] = d]
    BY DEF Stop
<1> HIDE DEF f, d
<1>7. /\ run' \in [Proc -> [Task -> Run]] /\ drain' \in [Proc -> [Task -> Reasons]]
      /\ run'[p] = f /\ \A q \in Proc : q # p => run'[q] = run[q]
    BY <1>0, <1>3, <1>5, <1>6
<1>8. /\ up' \in [Proc -> {"down", "up", "stopping"}]
      /\ \A q \in Proc : up'[q] = "down" <=> up[q] = "down"
    BY <1>0 DEF Stop
<1>9. TypeOK'
    BY <1>7, <1>8 DEF QueueInv, TypeOK, Stop
<1>10. \A q \in Proc, u \in Task :
          /\ run'[q][u].pc = run[q][u].pc /\ run'[q][u].at = run[q][u].at
          /\ run[q][u] = Idle => run'[q][u] = Idle
    <2>1. \A u \in Task : /\ run'[p][u].pc = run[p][u].pc /\ run'[p][u].at = run[p][u].at
                          /\ run[p][u] = Idle => run'[p][u] = Idle
        BY <1>4, <1>7, Zenon
    <2> QED BY <1>7, <2>1
<1> QED BY <1>8, <1>9, <1>10, SameRunsQueue, SameRows DEF Stop

\* The process ends: it holds nothing any more, and no mark of it is alive.
LEMMA ExitQueue ==
    ASSUME QueueInv, NEW p \in Proc, Exit(p)
    PROVE  QueueInv'
<1> DEFINE f == [t \in Task |-> Idle]
           d == [t \in Task |-> "no"]
<1>0. /\ run \in [Proc -> [Task -> Run]] /\ drain \in [Proc -> [Task -> Reasons]]
      /\ up \in [Proc -> {"down", "up", "stopping"}]
    BY DEF QueueInv, TypeOK
<1>1. f \in [Task -> Run] /\ d \in [Task -> Reasons] /\ \A t \in Task : f[t] = Idle
    BY DEF Reasons, Run, Idle, Outcome, NoSession
<1>2. run' = [run EXCEPT ![p] = f] /\ drain' = [drain EXCEPT ![p] = d]
    BY DEF Exit
<1> HIDE DEF f, d
<1>3. /\ run' \in [Proc -> [Task -> Run]] /\ drain' \in [Proc -> [Task -> Reasons]]
      /\ run'[p] = f /\ \A q \in Proc : q # p => run'[q] = run[q]
    BY <1>0, <1>1, <1>2
<1>4. /\ up' \in [Proc -> {"down", "up", "stopping"}]
      /\ up'[p] = "down" /\ \A q \in Proc : q # p => up'[q] = up[q]
    BY <1>0 DEF Exit
<1>5. TypeOK'
    BY <1>3, <1>4 DEF QueueInv, TypeOK, Exit
<1>6. \A t \in Task : run'[p][t].pc = "idle"
    BY <1>1, <1>3 DEF Idle
<1>7. task' = task /\ inc' = inc /\ stuck' = stuck
    BY DEF Exit
<1>8. LifeInv'
    BY <1>1, <1>3, <1>4, <1>7 DEF QueueInv, LifeInv
<1>9. MarkInv'
    <2>1. \A q \in Proc, u \in Task : Holds(q, u)' => q # p /\ Holds(q, u)
        BY <1>3, <1>6 DEF Holds
    <2> QED BY <1>3, <1>7, <2>1 DEF QueueInv, MarkInv
<1>10. StatusInv'
    BY <1>3, <1>6, <1>7 DEF QueueInv, StatusInv, Executes
<1>11. RunningHasItsRun'
    <2> SUFFICES ASSUME NEW u \in Task, task[u].status = "running", Alive(task[u].owner)'
                 PROVE  \/ /\ Executes(task[u].owner.pid, u)'
                           /\ run'[task[u].owner.pid][u].at = task[u].at
                        \/ task[u].owner \in stuck'
        BY <1>7 DEF RunningHasItsRun
    <2>1. task[u].owner \in Mark
        BY <1>7 DEF QueueInv, TypeOK, Row, Alive
    <2>2. task[u].owner.pid \in Proc /\ task[u].owner.pid # p
        BY <1>4, <1>7, <2>1 DEF Mark, Alive
    <2>3. Alive(task[u].owner)
        BY <1>4, <1>7, <2>2 DEF Alive
    <2> QED BY <1>3, <1>7, <2>2, <2>3 DEF QueueInv, RunningHasItsRun, Executes
<1> QED BY <1>5, <1>8, <1>9, <1>10, <1>11 DEF QueueInv

\* recoverInterrupted(): a row that a living process holds is left alone, and
\* no claim of an earlier life of the process stays behind.
LEMMA BootQueue ==
    ASSUME QueueInv, NEW p \in Proc, Boot(p)
    PROVE  QueueInv'
<1> DEFINE Takes(t) == task[t].status = "running" /\ OwnerGone(task[t].owner, p)
           w(t) == [task[t] EXCEPT !.status = "pending", !.at = 0]
<1>0. /\ task \in [Task -> Row] /\ inc \in [Proc -> Nat]
      /\ up \in [Proc -> {"down", "up", "stopping"}] /\ TypeOK
    BY DEF QueueInv, TypeOK
<1>1. /\ up' \in [Proc -> {"down", "up", "stopping"}]
      /\ up'[p] = "up" /\ up[p] = "down" /\ \A q \in Proc : q # p => up'[q] = up[q]
      /\ inc' \in [Proc -> Nat] /\ inc'[p] = inc[p] + 1
      /\ \A q \in Proc : q # p => inc'[q] = inc[q]
      /\ run' = run /\ stuck' = stuck
    BY <1>0 DEF Boot
<1>2. \A t \in Task : w(t) \in Row /\ w(t).status = "pending"
    BY <1>0 DEF Row, Status
<1>3. task' = [t \in Task |-> IF Takes(t) THEN w(t) ELSE task[t]]
    BY DEF Boot, Recovered
<1> HIDE DEF w
<1>4. /\ task' \in [Task -> Row]
      /\ \A t \in Task : task'[t] = IF Takes(t) THEN w(t) ELSE task[t]
    BY <1>0, <1>2, <1>3
<1>5. TypeOK'
    BY <1>0, <1>1, <1>4 DEF TypeOK, Boot
<1>6. \A q \in Proc, t \in Task : Holds(q, t) => q # p /\ up[q] # "down"
    BY <1>1 DEF QueueInv, LifeInv, Holds, Idle
<1>7. \A q \in Proc, t \in Task : Holds(q, t) => task'[t] = task[t]
    <2> SUFFICES ASSUME NEW q \in Proc, NEW t \in Task, Holds(q, t) PROVE ~Takes(t)
        BY <1>4
    <2>1. task[t].owner = [pid |-> q, inc |-> inc[q], at |-> run[q][t].at]
        BY DEF QueueInv, MarkInv
    <2>2. q # p /\ up[q] # "down" /\ inc[q] # 0
        BY <1>6 DEF QueueInv, LifeInv
    <2>3. task[t].owner # NoMark /\ task[t].owner.pid = q /\ task[t].owner.inc = inc[q]
        BY <2>1, <2>2 DEF NoMark
    <2> QED BY <2>2, <2>3 DEF OwnerGone
<1>8. LifeInv'
    BY <1>0, <1>1 DEF QueueInv, LifeInv
<1>9. MarkInv'
    <2>1. \A q \in Proc, u \in Task : Holds(q, u)' <=> Holds(q, u)
        BY <1>1 DEF Holds
    <2> QED BY <1>1, <1>6, <1>7, <2>1 DEF QueueInv, MarkInv
<1>10. StatusInv'
    <2>1. \A q \in Proc, u \in Task :
            Executes(q, u)' \/ run'[q][u].pc = "requeue" => task'[u] = task[u]
        BY <1>1, <1>7 DEF Holds, Executes
    <2> QED BY <1>1, <2>1 DEF QueueInv, StatusInv, Executes
<1>11. RunningHasItsRun'
    <2> SUFFICES ASSUME NEW u \in Task, task'[u].status = "running", Alive(task[u].owner)'
                 PROVE  \/ /\ Executes(task[u].owner.pid, u)'
                           /\ run'[task'[u].owner.pid][u].at = task'[u].at
                        \/ task'[u].owner \in stuck'
        BY DEF RunningHasItsRun
    <2>1. task'[u] = task[u] /\ ~Takes(u)
        BY <1>2, <1>4
    <2>2. ~OwnerGone(task[u].owner, p)
        BY <2>1
    <2>3. task[u].owner \in Mark
        BY <1>0, <2>2 DEF Row, OwnerGone
    <2>4. task[u].owner.pid \in Proc /\ Alive(task[u].owner)
        BY <2>2, <2>3 DEF OwnerGone, Alive, Mark
    <2> QED BY <1>1, <2>1, <2>4 DEF QueueInv, RunningHasItsRun, Executes
<1> QED BY <1>5, <1>8, <1>9, <1>10, <1>11 DEF QueueInv

LEMMA NextQueue ==
    ASSUME QueueInv, [Next]_vars
    PROVE  QueueInv'
<1>1. CASE UNCHANGED vars
    <2>1. TypeOK'
        BY <1>1 DEF QueueInv, TypeOK, vars
    <2> QED BY <1>1, <2>1, QuietQueue, SameRows DEF vars
<1>2. ASSUME NEW p \in Proc, NEW t \in Task, RunStep(p, t) PROVE QueueInv'
    BY <1>2, AssignSessionQueue, ClaimQueue, OpenSessionQueue, BlockWithoutSessionQueue,
       EndTurnQueue, MarkCompletedQueue, RequeueRecurringQueue, MarkFailureQueue,
       MarkBlockedQueue, HandleCancelledQueue DEF RunStep
<1>3. ASSUME NEW p \in Proc, NEW t \in Task,
             \/ \E k \in Kinds : Create(p, t, k)
             \/ Pick(p, t) \/ StepFails(p, t) \/ Cancel(p, t)
      PROVE  QueueInv'
    BY <1>3, CreateQueue, PickQueue, StepFailsQueue, CancelQueue
<1>4. ASSUME NEW t \in Task, FallDue(t) \/ DeleteSession(t) PROVE QueueInv'
    BY <1>4, FallDueQueue, DeleteSessionQueue
<1>5. ASSUME NEW p \in Proc, Tick(p) \/ AskDrain(p) \/ Stop(p) \/ Exit(p) \/ Boot(p)
      PROVE  QueueInv'
    BY <1>5, DrainQueue, StopQueue, ExitQueue, BootQueue
<1> QED BY <1>1, <1>2, <1>3, <1>4, <1>5 DEF Next

-----------------------------------------------------------------------------
\* The steps of process p on task t.
TaskStep(p, t) ==
    \/ RunStep(p, t) \/ Pick(p, t) \/ StepFails(p, t) \/ Cancel(p, t)
    \/ \E k \in Kinds : Create(p, t, k)

\* What a step of process p may make of the row of t: leave it, change it while
\* it is open, or rearm it after its own run completed it.
RowMove(p, t) ==
    \/ task'[t].status = task[t].status
    \/ task[t].status \in {"absent", "pending", "running"}
    \/ run[p][t].pc = "requeue"

LEMMA TaskStepMoves ==
    ASSUME QueueInv, NEW p \in Proc, NEW t \in Task, TaskStep(p, t)
    PROVE  /\ \A u \in Task : u # t => task'[u] = task[u]
           /\ RowMove(p, t)
<1>0. /\ run \in [Proc -> [Task -> Run]] /\ task \in [Task -> Row]
      /\ run[p][t] \in Run /\ task[t] \in Row
    BY DEF QueueInv, TypeOK
<1>1. CASE AssignSession(p, t)
    <2>1. \A u \in Task : u # t => task'[u] = task[u]
        BY <1>0, <1>1 DEF AssignSession
    <2>2. RowMove(p, t)
        BY <1>0, <1>1 DEF AssignSession, RowMove, Row
    <2> QED BY <2>1, <2>2
<1>2. CASE Claim(p, t)
    <2>1. \A u \in Task : u # t => task'[u] = task[u]
        BY <1>0, <1>2 DEF Claim
    <2>2. RowMove(p, t)
        BY <1>0, <1>2 DEF Claim, RowMove, Row
    <2> QED BY <2>1, <2>2
<1>3. CASE OpenSession(p, t)
    <2>1. \A u \in Task : u # t => task'[u] = task[u]
        BY <1>0, <1>3 DEF OpenSession
    <2>2. RowMove(p, t)
        BY <1>0, <1>3 DEF OpenSession, RowMove, Row
    <2> QED BY <2>1, <2>2
<1>4. CASE BlockWithoutSession(p, t)
    <2>1. \A u \in Task : u # t => task'[u] = task[u]
        BY <1>0, <1>4 DEF BlockWithoutSession
    <2>2. RowMove(p, t)
        BY <1>0, <1>4 DEF BlockWithoutSession, RowMove, Row
    <2> QED BY <2>1, <2>2
<1>5. CASE MarkCompleted(p, t)
    <2>1. \A u \in Task : u # t => task'[u] = task[u]
        BY <1>0, <1>5 DEF MarkCompleted, IfRunning
    <2>2. RowMove(p, t)
        BY <1>0, <1>5 DEF MarkCompleted, RowMove, IfRunning, Row
    <2> QED BY <2>1, <2>2
<1>6. CASE RequeueRecurring(p, t)
    <2>1. \A u \in Task : u # t => task'[u] = task[u]
        BY <1>0, <1>6 DEF RequeueRecurring
    <2>2. RowMove(p, t)
        BY <1>0, <1>6 DEF RequeueRecurring, RowMove, Row, Rearmed
    <2> QED BY <2>1, <2>2
<1>7. CASE MarkFailure(p, t)
    <2>1. \A u \in Task : u # t => task'[u] = task[u]
        BY <1>0, <1>7 DEF MarkFailure, IfRunning
    <2>2. RowMove(p, t)
        BY <1>0, <1>7 DEF MarkFailure, RowMove, Row, IfRunning, Writes
    <2> QED BY <2>1, <2>2
<1>8. CASE MarkBlocked(p, t)
    <2>1. \A u \in Task : u # t => task'[u] = task[u]
        BY <1>0, <1>8 DEF MarkBlocked
    <2>2. RowMove(p, t)
        BY <1>0, <1>8 DEF MarkBlocked, RowMove, Row, Writes
    <2> QED BY <2>1, <2>2
<1>9. CASE HandleCancelled(p, t)
    <2>1. \A u \in Task : u # t => task'[u] = task[u]
        BY <1>0, <1>9 DEF HandleCancelled, IfRunning
    <2>2. RowMove(p, t)
        BY <1>0, <1>9 DEF HandleCancelled, RowMove, Row, IfRunning, Writes, Rearmed
    <2> QED BY <2>1, <2>2
<1>10. CASE Pick(p, t)
    <2>1. \A u \in Task : u # t => task'[u] = task[u]
        BY <1>0, <1>10 DEF Pick
    <2>2. RowMove(p, t)
        BY <1>0, <1>10 DEF Pick, RowMove, Row, Idle
    <2> QED BY <2>1, <2>2
<1>11. CASE StepFails(p, t)
    <2>1. \A u \in Task : u # t => task'[u] = task[u]
        BY <1>0, <1>11 DEF StepFails
    <2>2. RowMove(p, t)
        BY <1>0, <1>11 DEF StepFails, RowMove, Row
    <2> QED BY <2>1, <2>2
<1>12. CASE Cancel(p, t)
    <2>1. \A u \in Task : u # t => task'[u] = task[u]
        BY <1>0, <1>12 DEF Cancel
    <2>2. RowMove(p, t)
        BY <1>0, <1>12 DEF Cancel, RowMove, Row, Quiet
    <2> QED BY <2>1, <2>2
<1>13. CASE \E out \in Outcome \ {"none"} : EndTurn(p, t, out)
    <2>1. \A u \in Task : u # t => task'[u] = task[u]
        BY <1>0, <1>13 DEF EndTurn
    <2>2. RowMove(p, t)
        BY <1>0, <1>13 DEF EndTurn, RowMove, Row, Quiet
    <2> QED BY <2>1, <2>2
<1>14. CASE \E k \in Kinds : Create(p, t, k)
    <2>1. \A u \in Task : u # t => task'[u] = task[u]
        BY <1>0, <1>14 DEF Create
    <2>2. RowMove(p, t)
        BY <1>0, <1>14 DEF Create, RowMove, Row, NoRow
    <2> QED BY <2>1, <2>2
<1> QED BY <1>1, <1>2, <1>3, <1>4, <1>5, <1>6, <1>7, <1>8, <1>9, <1>10, <1>11, <1>12, <1>13, <1>14 DEF TaskStep, RunStep

\* What ends a task is final.
LEMMA NextMoves ==
    ASSUME QueueInv, [Next]_vars, NEW t \in Task, task[t].status \in Final
    PROVE  task'[t].status = task[t].status
<1>0. task \in [Task -> Row]
    BY DEF QueueInv, TypeOK
<1>1. ASSUME NEW p \in Proc, NEW u \in Task, TaskStep(p, u)
      PROVE  task'[t].status = task[t].status
    <2>1. /\ \A x \in Task : x # u => task'[x] = task[x]
          /\ RowMove(p, u)
        BY <1>1, TaskStepMoves
    <2>2. CASE u # t
        BY <2>1, <2>2
    <2>3. CASE u = t
        <3>1. run[p][t].pc = "requeue" => task[t].status = "completed"
            BY DEF QueueInv, StatusInv
        <3> QED BY <2>1, <2>3, <3>1 DEF RowMove, Final, Terminal
    <2> QED BY <2>2, <2>3
<1>2. CASE UNCHANGED task
    BY <1>2
<1>3. ASSUME NEW u \in Task, FallDue(u) PROVE task'[t].status = task[t].status
    BY <1>0, <1>3 DEF FallDue, Row
<1>4. ASSUME NEW p \in Proc, Boot(p) PROVE task'[t].status = task[t].status
    BY <1>0, <1>4 DEF Boot, Recovered, Row, Final, Terminal
<1> QED BY <1>1, <1>2, <1>3, <1>4 DEF Next, TaskStep, vars, DeleteSession, Tick, AskDrain,
        Stop, Exit

-----------------------------------------------------------------------------
\* The inductive invariant, for every set of processes and tasks and whatever
\* the bounds on starts, firings and deletions.
THEOREM QueueInvariant == Spec => []QueueInv
<1>1. Init => QueueInv
    BY InitQueue
<1>2. QueueInv /\ [Next]_vars => QueueInv'
    BY NextQueue
<1> QED BY <1>1, <1>2, PTL DEF Spec

\* The rows of tasks.sqlite and what the processes remember of them keep
\* their types.
THEOREM QueueTypeCorrect == Spec => []TypeOK
<1>1. QueueInv => TypeOK
    BY DEF QueueInv
<1> QED BY <1>1, QueueInvariant, PTL

\* markRunning(), recoverInterrupted() and the pid and start marks together:
\* no two processes ever run one task at once.
THEOREM OneRunAtATime == Spec => []OneRunPerTask
<1>1. ASSUME QueueInv PROVE OneRunPerTask
    <2> SUFFICES ASSUME NEW t \in Task
                 PROVE  Cardinality({p \in Proc : Executes(p, t)}) <= 1
        BY DEF OneRunPerTask
    <2> DEFINE S == {p \in Proc : Executes(p, t)}
    <2>1. CASE S = {}
        BY <2>1, FS_EmptySet
    <2>2. CASE S # {}
        <3>1. PICK p \in S : TRUE
            BY <2>2
        <3>2. \A q \in S : q = p
            BY <1>1, HolderIsAlone DEF Executes, Holds
        <3>3. S = {p}
            BY <3>1, <3>2
        <3>4. Cardinality({p}) = 1
            BY FS_Singleton
        <3> QED BY <3>3, <3>4
    <2> QED BY <2>1, <2>2
<1> QED BY <1>1, QueueInvariant, PTL

\* A row that says `running` for a living process is being run by it, or a
\* statement of that very claim failed.
THEOREM RunningIsReal == Spec => []RunningHasItsRun
<1>1. QueueInv => RunningHasItsRun
    BY DEF QueueInv
<1> QED BY <1>1, QueueInvariant, PTL

\* markCompleted(), markRetry() and their kin look at the status alone, and yet
\* a run never writes its outcome over another claim.
THEOREM OutcomesAreOwn == Spec => OutcomeIsOwn
<1>1. QueueInv /\ [Next]_vars =>
        [\A p \in Proc, t \in Task :
            run[p][t].pc = "write" /\ run'[p][t].pc # "write"
                /\ up[p] = up'[p] /\ task'[t] # task[t]
            => task[t].at = run[p][t].at]_vars
    BY DEF QueueInv, MarkInv, Holds
<1> QED BY <1>1, QueueInvariant, PTL DEF Spec, OutcomeIsOwn

\* requeueRecurring() writes whatever the status is, and recoverInterrupted()
\* sweeps at any time: neither revives what was cancelled, failed or blocked.
THEOREM EndsStand == Spec => EndStands
<1>1. QueueInv /\ [Next]_vars =>
        [\A t \in Task : task[t].status \in Terminal \ {"completed"}
            => task'[t].status = task[t].status]_vars
    BY NextMoves DEF Final
<1> QED BY <1>1, QueueInvariant, PTL DEF Spec, EndStands
===============================================================================
