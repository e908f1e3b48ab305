------------------------------ MODULE TaskQueue ------------------------------
(***************************************************************************)
(* src/src/tasks/task-store.ts and src/src/tasks/task-runner.ts: the       *)
(* durable queue of deferred turns (tasks.sqlite), drained by every        *)
(* process that shares the state dir.                                      *)
(*                                                                         *)
(* One statement of SQLite is one step.  Inside a process the statements   *)
(* of one synchronous stretch follow each other, but another process may   *)
(* act between them: between the read and the claim, between the check     *)
(* that a run still owns its row and the write of its outcome, and between *)
(* `completed` and the requeue of a recurring task.                        *)
(***************************************************************************)
EXTENDS Naturals, FiniteSets

CONSTANTS Proc,          \* process ids; a pid is reused after a restart
          Task,          \* task ids
          Kinds,         \* the kinds of tasks that are created
          Chat,          \* the session a creator may name
          MaxAttempts,   \* TaskRecord.maxAttempts
          StepsFail,     \* whether a statement may fail (a lock held too long)
          MaxBoots,      \* bound: starts of each process
          MaxFirings,    \* bound: scheduled times that arrive
          MaxDrains,     \* bound: drains asked for by an operator
          MaxDeletes     \* bound: sessions deleted

ASSUME AttemptsType == MaxAttempts \in Nat \ {0}
ASSUME StepsFailType == StepsFail \in BOOLEAN
ASSUME BoundsType ==
    MaxBoots \in [Proc -> Nat] /\ {MaxFirings, MaxDrains, MaxDeletes} \subseteq Nat

\* No session id: session_id IS NULL.  Fresh ones are numbered from Chat + 1.
NoSession == 0

ASSUME ChatIsASession == Chat \in Nat \ {NoSession}

\* What the creator of a task chooses.  cron and interval (recurring) tasks
\* are always scheduled for a later time.
ASSUME KindsType ==
    /\ Kinds \subseteq [recurring : BOOLEAN, session : {NoSession, Chat}, future : BOOLEAN]
    /\ \A k \in Kinds : k.recurring => k.future

VARIABLES
    task,      \* the rows
    up,        \* "down", "up" or "stopping"
    inc,       \* how often each process has started
    run,       \* where each process is in runOne, per task
    drain,     \* why a drain of the process will try the task, or "no"
    stuck,     \* history: claims whose outcome could not be written
    clock,     \* claims so far: started_at
    sessions,  \* the last session id handed out
    deleted,   \* sessions that were deleted
    firings, drains   \* counted against their bounds

vars == <<task, up, inc, run, drain, stuck, clock, sessions, deleted,
          firings, drains>>

NoMark == [pid |-> "nobody", inc |-> 0, at |-> 0]
Mark == [pid : Proc, inc : Nat \ {0}, at : Nat \ {0}]

Terminal == {"completed", "failed", "blocked", "cancelled"}
Status == {"absent", "pending", "running"} \cup Terminal
Outcome == {"none", "ok", "cancelled", "retryable", "permanent"}

Row == [status : Status, recurring : BOOLEAN, due : BOOLEAN, session : Nat,
        attempts : Nat, at : Nat, owner : Mark \cup {NoMark}]
NoRow == [status |-> "absent", recurring |-> FALSE, due |-> FALSE,
          session |-> NoSession, attempts |-> 0, at |-> 0, owner |-> NoMark]

Run == [pc : {"idle", "picked", "claimed", "turn", "write", "requeue"},
        session : Nat, attempts : Nat, at : Nat, aborted : BOOLEAN, out : Outcome]
Idle == [pc |-> "idle", session |-> NoSession, attempts |-> 0, at |-> 0,
         aborted |-> FALSE, out |-> "none"]

Reasons == {"no", "tick", "eager", "asked"}

\* The type of the rows and of what the processes remember of them.
TypeOK ==
    /\ task \in [Task -> Row]
    /\ up \in [Proc -> {"down", "up", "stopping"}]
    /\ inc \in [Proc -> Nat]
    /\ run \in [Proc -> [Task -> Run]]
    /\ drain \in [Proc -> [Task -> Reasons]]
    /\ stuck \subseteq Mark
    /\ clock \in Nat
    /\ sessions \in Nat
    /\ deleted \subseteq Nat
    /\ firings \in 0..MaxFirings
    /\ drains \in 0..MaxDrains

Init ==
    /\ task = [t \in Task |-> NoRow]
    /\ up = [p \in Proc |-> "down"]
    /\ inc = [p \in Proc |-> 0]
    /\ run = [p \in Proc |-> [t \in Task |-> Idle]]
    /\ drain = [p \in Proc |-> [t \in Task |-> "no"]]
    /\ stuck = {}
    /\ clock = 0
    /\ sessions = Chat
    /\ deleted = {}
    /\ firings = 0
    /\ drains = 0

-----------------------------------------------------------------------------
\* The process is up and none of its runs is inside a synchronous stretch of
\* runOne: anything else it does comes before or after.
Quiet(p) == up[p] # "down" /\ \A t \in Task : run[p][t].pc \in {"idle", "turn"}

\* The process takes the tasks of ts into a drain.
Batch(p, ts, why) ==
    [drain EXCEPT ![p] =
        [t \in Task |-> IF t \in ts /\ @[t] = "no" THEN why ELSE @[t]]]

\* runOne returns, and the drain goes on with the task (it looks at the row
\* again) or drops it.
EndRun(p, t) ==
    run' = [run EXCEPT ![p][t] = Idle]
Drop(p, t) ==
    drain' = [drain EXCEPT ![p][t] = "no"]

Pending == {t \in Task : task[t].status = "pending"}

\* create(): a recurring task gets its own session now.  A task that is due
\* starts a drain of its session: every pending task of it.
Create(p, t, k) ==
    LET own == k.recurring /\ k.session = NoSession
        sid == IF own THEN sessions + 1 ELSE k.session
        mates == {u \in Pending : task[u].session = sid}
        eager == ~k.future /\ sid # NoSession
    IN
    /\ Quiet(p) /\ up[p] = "up"
    /\ task[t].status = "absent"
    /\ task' = [task EXCEPT ![t] =
          [NoRow EXCEPT !.status = "pending", !.recurring = k.recurring,
                        !.due = ~k.future, !.session = sid]]
    /\ sessions' = IF own THEN sessions + 1 ELSE sessions
    /\ drain' = IF eager THEN Batch(p, mates \cup {t}, "eager") ELSE drain
    /\ UNCHANGED <<up, inc, run, stuck, clock, deleted, firings, drains>>

\* The scheduled time of a pending task arrives.
FallDue(t) ==
    /\ task[t].status = "pending" /\ ~task[t].due
    /\ firings < MaxFirings
    /\ firings' = firings + 1
    /\ task' = [task EXCEPT ![t].due = TRUE]
    /\ UNCHANGED <<up, inc, run, drain, stuck, clock, sessions, deleted, drains>>

\* A tick of the scheduler: listDue().
Tick(p) ==
    LET ts == {t \in Pending : task[t].due /\ drain[p][t] = "no"} IN
    /\ Quiet(p) /\ up[p] = "up"
    /\ ts # {}
    /\ drain' = Batch(p, ts, "tick")
    /\ UNCHANGED <<task, up, inc, run, stuck, clock, sessions, deleted,
                   firings, drains>>

\* drainPending() or a run of one task, asked for over HTTP or the CLI.
AskDrain(p) ==
    LET ts == {t \in Pending : drain[p][t] = "no"} IN
    /\ Quiet(p) /\ up[p] = "up"
    /\ ts # {}
    /\ drains < MaxDrains
    /\ drains' = drains + 1
    /\ drain' = Batch(p, ts, "asked")
    /\ UNCHANGED <<task, up, inc, run, stuck, clock, sessions, deleted, firings>>

-----------------------------------------------------------------------------
\* runOne(), first read: only a pending task goes on.
Pick(p, t) ==
    /\ Quiet(p) /\ up[p] = "up"
    /\ drain[p][t] # "no" /\ run[p][t] = Idle
    /\ IF task[t].status = "pending"
       THEN /\ run' = [run EXCEPT ![p][t].pc = "picked",
                                  ![p][t].session = task[t].session]
            /\ UNCHANGED drain
       ELSE /\ Drop(p, t)
            /\ UNCHANGED run
    /\ UNCHANGED <<task, up, inc, stuck, clock, sessions, deleted, firings, drains>>

\* ensureSessionBeforeClaim(): a session for a task that was read without.
AssignSession(p, t) ==
    /\ up[p] # "down"
    /\ run[p][t].pc = "picked" /\ run[p][t].session = NoSession
    /\ task' = [task EXCEPT ![t].session = sessions + 1]
    /\ run' = [run EXCEPT ![p][t].session = sessions + 1]
    /\ sessions' = sessions + 1
    /\ UNCHANGED <<up, inc, drain, stuck, clock, deleted, firings, drains>>

\* markRunning() and the read of the claimed row: one guarded UPDATE.
Claim(p, t) ==
    LET m == [pid |-> p, inc |-> inc[p], at |-> clock + 1]
        n == task[t].attempts + 1
    IN
    /\ up[p] # "down"
    /\ run[p][t].pc = "picked" /\ run[p][t].session # NoSession
    /\ IF task[t].status = "pending"
       THEN /\ task' = [task EXCEPT ![t].status = "running", ![t].attempts = n,
                                    ![t].at = clock + 1, ![t].owner = m]
            /\ run' = [run EXCEPT ![p][t] =
                 [pc |-> "claimed", session |-> task[t].session, attempts |-> n,
                  at |-> clock + 1, aborted |-> FALSE, out |-> "none"]]
            /\ clock' = clock + 1
       ELSE /\ EndRun(p, t)
            /\ UNCHANGED <<task, clock>>
    /\ UNCHANGED <<up, inc, drain, stuck, sessions, deleted, firings, drains>>

\* loadOrRecreateSession(), then beginRun() and the turn.
OpenSession(p, t) ==
    LET missing == run[p][t].session \in deleted IN
    /\ up[p] # "down"
    /\ run[p][t].pc = "claimed"
    /\ ~missing \/ task[t].recurring
    /\ run' = [run EXCEPT ![p][t].pc = "turn",
                          ![p][t].aborted = up[p] = "stopping",
                          ![p][t].session = IF missing THEN sessions + 1 ELSE @]
    /\ task' = IF missing THEN [task EXCEPT ![t].session = sessions + 1] ELSE task
    /\ sessions' = IF missing THEN sessions + 1 ELSE sessions
    /\ UNCHANGED <<up, inc, drain, stuck, clock, deleted, firings, drains>>

\* The session of a one-shot task is gone: markBlocked().
BlockWithoutSession(p, t) ==
    /\ up[p] # "down"
    /\ run[p][t].pc = "claimed"
    /\ run[p][t].session \in deleted /\ ~task[t].recurring
    /\ task' = IF task[t].status \in {"running", "pending"}
               THEN [task EXCEPT ![t].status = "blocked"]
               ELSE task
    /\ EndRun(p, t) /\ Drop(p, t)
    /\ UNCHANGED <<up, inc, stuck, clock, sessions, deleted, firings, drains>>

\* endedElsewhere(): the row is no longer the run's.
EndedElsewhere(p, t) ==
    task[t].status # "running" \/ task[t].at # run[p][t].at

\* Mutant of EndTurn: a stopped run returns without an outcome.
EndTurnSilently(p, t, out) ==
    /\ Quiet(p)
    /\ run[p][t].pc = "turn"
    /\ IF EndedElsewhere(p, t) \/ out = "cancelled"
       THEN EndRun(p, t)
       ELSE run' = [run EXCEPT ![p][t].pc = "write", ![p][t].out = out]
    /\ UNCHANGED <<task, up, inc, drain, stuck, clock, sessions, deleted,
                   firings, drains>>

\* runTurn() settles.  A run that was stopped counts as cancelled whatever
\* error came out of it.
EndTurn(p, t, out) ==
    LET stopped == run[p][t].aborted /\ out \in {"retryable", "permanent"} IN
    /\ Quiet(p)
    /\ run[p][t].pc = "turn"
    /\ IF EndedElsewhere(p, t)
       THEN EndRun(p, t)
       ELSE run' = [run EXCEPT ![p][t].pc = "write",
                               ![p][t].out = IF stopped THEN "cancelled" ELSE out]
    /\ UNCHANGED <<task, up, inc, drain, stuck, clock, sessions, deleted,
                   firings, drains>>

Writes(p, t, out) ==
    up[p] # "down" /\ run[p][t].pc = "write" /\ run[p][t].out = out

\* Mutant of IfRunning: the write does not look at the status.
WhateverStatus(t, row) == [task EXCEPT ![t] = row]

\* A write guarded by status = 'running'.
IfRunning(t, row) == IF task[t].status = "running" THEN [task EXCEPT ![t] = row] ELSE task

\* markCompleted(): throws out of the drain when the row was ended meanwhile.
MarkCompleted(p, t) ==
    /\ Writes(p, t, "ok")
    /\ task' = IfRunning(t, [task[t] EXCEPT !.status = "completed"])
    /\ IF task[t].status = "running" /\ task[t].recurring
       THEN /\ run' = [run EXCEPT ![p][t].pc = "requeue"]
            /\ UNCHANGED drain
       ELSE EndRun(p, t) /\ Drop(p, t)
    /\ UNCHANGED <<up, inc, stuck, clock, sessions, deleted, firings, drains>>

\* The row as requeueRecurring() and markInterrupted() with a time leave it.
Rearmed(row) ==
    [row EXCEPT !.status = "pending", !.attempts = 0, !.at = 0, !.due = FALSE]

\* requeueRecurring(): WHERE recurring = 1, whatever the status.
RequeueRecurring(p, t) ==
    /\ up[p] # "down"
    /\ run[p][t].pc = "requeue"
    /\ task' = [task EXCEPT ![t] = Rearmed(@)]
    /\ EndRun(p, t) /\ Drop(p, t)
    /\ UNCHANGED <<up, inc, stuck, clock, sessions, deleted, firings, drains>>

\* Mutant of MarkFailure: the failure category is written as the status.
MarkFailureAsStatus(p, t) ==
    /\ Writes(p, t, "retryable")
    /\ task' = IfRunning(t, [task[t] EXCEPT !.status = "transport"])
    /\ EndRun(p, t) /\ Drop(p, t)
    /\ UNCHANGED <<up, inc, stuck, clock, sessions, deleted, firings, drains>>

\* handleFailure(), retryable: markRetry() with attempts left, else
\* markFailed().  A retried task stays in the drain.
MarkFailure(p, t) ==
    LET retry == run[p][t].attempts < MaxAttempts IN
    /\ Writes(p, t, "retryable")
    /\ task' = IfRunning(t, IF retry
                 THEN [task[t] EXCEPT !.status = "pending", !.at = 0]
                 ELSE [task[t] EXCEPT !.status = "failed"])
    /\ EndRun(p, t)
    /\ IF retry /\ task[t].status = "running" THEN UNCHANGED drain ELSE Drop(p, t)
    /\ UNCHANGED <<up, inc, stuck, clock, sessions, deleted, firings, drains>>

\* handleFailure(), permanent: markBlocked(), from `running` or `pending`.
MarkBlocked(p, t) ==
    /\ Writes(p, t, "permanent")
    /\ task' = IF task[t].status \in {"running", "pending"}
               THEN [task EXCEPT ![t].status = "blocked"]
               ELSE task
    /\ EndRun(p, t) /\ Drop(p, t)
    /\ UNCHANGED <<up, inc, stuck, clock, sessions, deleted, firings, drains>>

\* handleCancelled(): a recurring task is rearmed, a one-shot task stopped
\* by shutdown is left due, one whose own turn was stopped is cancelled.
HandleCancelled(p, t) ==
    /\ Writes(p, t, "cancelled")
    /\ task' = IF task[t].recurring THEN IfRunning(t, Rearmed(task[t]))
               ELSE IF up[p] = "stopping"
               THEN IfRunning(t, [task[t] EXCEPT !.status = "pending", !.at = 0])
               ELSE IF task[t].status \in {"running", "pending"}
               THEN [task EXCEPT ![t].status = "cancelled"]
               ELSE task
    /\ EndRun(p, t) /\ Drop(p, t)
    /\ UNCHANGED <<up, inc, stuck, clock, sessions, deleted, firings, drains>>

\* A statement fails after the claim: the error leaves runOne, and nothing
\* in this process comes back to the row.
StepFails(p, t) ==
    /\ StepsFail
    /\ up[p] # "down"
    /\ run[p][t].pc \in {"claimed", "write", "requeue"}
    /\ EndRun(p, t) /\ Drop(p, t)
    /\ stuck' = stuck \cup {task[t].owner}
    /\ UNCHANGED <<task, up, inc, clock, sessions, deleted, firings, drains>>

\* TaskRunner.cancel(): end the row first, then abort the run if it is here.
Cancel(p, t) ==
    /\ Quiet(p) /\ up[p] = "up"
    /\ task[t].status \in {"pending", "running"}
    /\ task' = [task EXCEPT ![t].status = "cancelled"]
    /\ run' = IF run[p][t].pc = "turn" THEN [run EXCEPT ![p][t].aborted = TRUE] ELSE run
    /\ UNCHANGED <<up, inc, drain, stuck, clock, sessions, deleted, firings, drains>>

\* The session of a task is deleted.
DeleteSession(t) ==
    /\ Cardinality(deleted) < MaxDeletes
    /\ task[t].session \notin deleted \cup {NoSession}
    /\ deleted' = deleted \cup {task[t].session}
    /\ UNCHANGED <<task, up, inc, run, drain, stuck, clock, sessions, firings, drains>>

\* TaskRunner.stop() and Scheduler.stop(): nothing more is claimed, every
\* run is aborted.
Stop(p) ==
    /\ Quiet(p) /\ up[p] = "up"
    /\ up' = [up EXCEPT ![p] = "stopping"]
    /\ drain' = [drain EXCEPT ![p] = [t \in Task |-> "no"]]
    /\ run' = [run EXCEPT ![p] =
         [t \in Task |-> IF @[t].pc = "turn" THEN [@[t] EXCEPT !.aborted = TRUE]
                         ELSE @[t]]]
    /\ UNCHANGED <<task, inc, stuck, clock, sessions, deleted, firings, drains>>

\* The process ends: the grace of stop() is over, or it is killed.
Exit(p) ==
    /\ up[p] # "down"
    /\ up' = [up EXCEPT ![p] = "down"]
    /\ drain' = [drain EXCEPT ![p] = [t \in Task |-> "no"]]
    /\ run' = [run EXCEPT ![p] = [t \in Task |-> Idle]]
    /\ UNCHANGED <<task, inc, stuck, clock, sessions, deleted, firings, drains>>

\* isTurnOwnerGone(), judged by process p at its boot.
OwnerGone(m, p) ==
    m = NoMark \/ m.pid = p \/ up[m.pid] = "down" \/ inc[m.pid] # m.inc

\* Mutant of Recovered: every running row is put back.
RecoveredBlindly(p) ==
    [t \in Task |-> IF task[t].status = "running"
                    THEN [task[t] EXCEPT !.status = "pending", !.at = 0]
                    ELSE task[t]]

\* Mutant of Recovered: no row is put back.
RecoveredNone(p) == task

\* recoverInterrupted(): one IMMEDIATE transaction, before anything is claimed.
Recovered(p) ==
    [t \in Task |->
        IF task[t].status = "running" /\ OwnerGone(task[t].owner, p)
        THEN [task[t] EXCEPT !.status = "pending", !.at = 0]
        ELSE task[t]]

Boot(p) ==
    /\ up[p] = "down"
    /\ inc[p] < MaxBoots[p]
    /\ up' = [up EXCEPT ![p] = "up"]
    /\ inc' = [inc EXCEPT ![p] = @ + 1]
    /\ task' = Recovered(p)
    /\ UNCHANGED <<run, drain, stuck, clock, sessions, deleted, firings, drains>>

-----------------------------------------------------------------------------
\* The steps of runOne after it has picked a task.
RunStep(p, t) ==
    \/ AssignSession(p, t) \/ Claim(p, t)
    \/ OpenSession(p, t) \/ BlockWithoutSession(p, t)
    \/ \E out \in Outcome \ {"none"} : EndTurn(p, t, out)
    \/ MarkCompleted(p, t) \/ RequeueRecurring(p, t)
    \/ MarkFailure(p, t) \/ MarkBlocked(p, t) \/ HandleCancelled(p, t)

Next ==
    \/ \E p \in Proc, t \in Task :
        \/ \E k \in Kinds : Create(p, t, k)
        \/ Pick(p, t) \/ RunStep(p, t) \/ StepFails(p, t) \/ Cancel(p, t)
    \/ \E t \in Task : FallDue(t) \/ DeleteSession(t)
    \/ \E p \in Proc : Tick(p) \/ AskDrain(p) \/ Stop(p) \/ Exit(p) \/ Boot(p)

Spec == Init /\ [][Next]_vars

\* The scheduler of a process that is up ticks, and what it drains goes on:
\* a turn answers or times out.  Nobody has to create, cancel or start.
Fairness ==
    \A p \in Proc :
        /\ WF_vars(Tick(p))
        /\ \A t \in Task : WF_vars(Pick(p, t)) /\ WF_vars(RunStep(p, t))

FairSpec == Spec /\ Fairness

-----------------------------------------------------------------------------
\* p executes a turn of t, or is about to write how it ended.
Executes(p, t) == run[p][t].pc \in {"claimed", "turn", "write"}

Alive(m) == m # NoMark /\ up[m.pid] # "down" /\ inc[m.pid] = m.inc

\* A task is run by one process at a time, across crashes, reused pids and
\* boots of a second process.
OneRunPerTask ==
    \A t \in Task : Cardinality({p \in Proc : Executes(p, t)}) <= 1

\* A row that says `running` for a living process has its run there, unless
\* a statement of that run failed.
RunningHasItsRun ==
    \A t \in Task :
        task[t].status = "running" /\ Alive(task[t].owner) =>
            \/ /\ Executes(task[t].owner.pid, t)
               /\ run[task[t].owner.pid][t].at = task[t].at
            \/ task[t].owner \in stuck

\* The outcome of a run is never written over another claim of the task,
\* though the writes are guarded by the status alone.
OutcomeIsOwn ==
    [][\A p \in Proc, t \in Task :
        run[p][t].pc = "write" /\ run'[p][t].pc # "write"
            /\ up[p] = up'[p] /\ task'[t] # task[t]
        => task[t].at = run[p][t].at]_vars

\* What an operator cancelled, and what failed or was blocked, is never
\* revived: no requeue, retry or sweep that was under way writes over it.
EndStands ==
    [][\A t \in Task :
        task[t].status \in Terminal \ {"completed"}
            => task'[t].status = task[t].status]_vars

\* The process that runs the task is gone, and nobody has booted since.
Orphaned(t) == task[t].status = "running" /\ up[task[t].owner.pid] = "down"

\* A task that is due comes to its end (or to its next firing) while some
\* process stays up, also when the process that was running it died, provided
\* that one, or another, boots again: recovery happens only at a boot.  A run
\* one of whose statements failed leaves the row `running`.
DueIsServed ==
    \A t \in Task :
        <>[](\E p \in Proc : up[p] = "up") /\ []<>~Orphaned(t) =>
            (task[t].status = "pending" /\ task[t].due ~>
                \/ task[t].status \in Terminal
                \/ task[t].recurring /\ ~task[t].due
                \/ task[t].status = "running" /\ task[t].owner \in stuck)

\* TaskRunnerOptions.runOnCreate: a task scheduled for later is never
\* drained because some task was created.
NeverEagerlyDrained ==
    [][\A p \in Proc, t \in Task :
        task[t].status = "pending" /\ ~task[t].due /\ drain[p][t] = "eager"
            => task'[t].status # "running"]_vars
=============================================================================
