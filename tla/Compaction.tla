------------------------------ MODULE Compaction ------------------------------
(***************************************************************************)
(* Context compaction (src/src/runtime/context-compaction.ts, its runner   *)
(* and compaction-background.ts): a control inbox beside the turn queue.   *)
(* A manual request is served by the running turn before its next step,    *)
(* or under the session's lock once the turn is over; the loop compacts by *)
(* itself when the history is too long; and between turns a background job *)
(* extends a rolling summary that a later checkpoint may use.              *)
(*                                                                         *)
(* A transcript is the sequence of its records, each with a number of its  *)
(* own.  A stored session is its transcript, how many records its          *)
(* checkpoint covers (base), and the records its rolling summary was made  *)
(* of, with the checkpoint it was built on.  Every save replaces the whole *)
(* row: a turn's, a compaction's, a host's save of the session it shows,   *)
(* and those of another process, whose turns nothing keeps apart from the  *)
(* ones here.  Which history is long enough to compact, and what a summary *)
(* says, are choices of the model; the queue is the one of TurnController. *)
(***************************************************************************)
EXTENDS Naturals, Sequences, FiniteSets, SequencesExt

CONSTANTS
    Session,        \* the sessions of the runtime
    Shared,         \* the sessions other frontends use: asked to compact, or run elsewhere
    MaxReq,         \* compactSession calls known at once (their number is unbounded)
    MaxMoves,       \* turns submitted here, turns and summaries of another process on
                    \* the same state dir, and hosts' saves, together
    MaxJobs         \* background calls in flight, the abandoned ones included

ASSUME BoundsAssumption ==
    /\ Shared \subseteq Session
    /\ MaxReq \in Nat /\ MaxMoves \in Nat /\ MaxJobs \in Nat

VARIABLES
    queue,          \* turnController: the submissions of a session, head holds the lock
    turn,           \* the head turn: "none", "open" (accepting), "closed"
    turnAborted,    \* the head turn's signal
    copy,           \* the state the head turn (or queued compaction) works on
    stored,         \* the session's row
    op,             \* active: the compaction under way on a session
    requests,       \* requests: the manual request of a session
    req,            \* the latest manual requests
    autoFailed,     \* sessions whose automatic compaction failed in this turn
    timers,         \* background: sessions with a timer
    jobs,           \* background: calls in flight; the one not aborted is `running`
    timedOut,       \* background: sessions whose job ran out of time
    stopped,        \* shutdown() was called
    mirror,         \* the session a host shows and stamps: this.session
    away,           \* the state a turn of another process works on; Fresh without one
    records,        \* the number of the last record of a session
    moves           \* counted against MaxMoves

hostVars == <<mirror, away, records, moves>>
turnVars == <<queue, turn, turnAborted, copy>>
jobVars == <<timers, jobs, timedOut>>
vars == <<turnVars, stored, op, requests, req, autoFailed, jobVars, stopped, hostVars>>

Req == 1..MaxReq
NoReq == 0
TurnJob == 0                \* a turn in a queue; a request stands for itself
NoRolling == [from |-> 0, covers |-> <<>>]
NoOp == [by |-> NoReq, active |-> FALSE, aborted |-> FALSE]

NoRequest == [session |-> CHOOSE s \in Session : TRUE, queued |-> FALSE,
              running |-> FALSE, aborted |-> FALSE, tied |-> FALSE,
              answer |-> "unasked", wrote |-> FALSE]

Answers == {"compacted", "noop", "busy", "failed", "cancelled"}
Fresh == [turns |-> <<>>, base |-> 0, rolling |-> NoRolling]

\* The record at the boundary is the one the text was made up to: the only
\* record that the hash looks at.
Boundary(state, covers) ==
    Len(covers) <= Len(state.turns) /\ state.turns[Len(covers)] = covers[Len(covers)]

\* validRollingSummary: the summary still extends the row's own checkpoint, up
\* to an unchanged boundary.
ValidRolling(state) ==
    /\ state.rolling.from = state.base
    /\ Len(state.rolling.covers) > state.base
    /\ Boundary(state, state.rolling.covers)

\* How many records are summed up.
Rolling(state) == IF ValidRolling(state) THEN Len(state.rolling.covers) ELSE state.base

Init ==
    /\ queue = [s \in Session |-> <<>>]
    /\ turn = [s \in Session |-> "none"]
    /\ turnAborted = [s \in Session |-> FALSE]
    /\ copy = [s \in Session |-> Fresh]
    /\ stored = [s \in Session |-> Fresh]
    /\ op = [s \in Session |-> NoOp]
    /\ requests = [s \in Session |-> NoReq]
    /\ req = [r \in Req |-> NoRequest]
    /\ autoFailed = {} /\ timers = {} /\ jobs = {} /\ timedOut = {}
    /\ stopped = FALSE /\ moves = 0
    /\ mirror = [s \in Session |-> Fresh]
    /\ away = [s \in Session |-> Fresh]
    /\ records = [s \in Session |-> 0]

isBusy(s) == queue[s] # <<>>
LiveJobs == {j \in jobs : ~j.aborted}
Unanswered(r) == req[r].answer = "none"

-----------------------------------------------------------------------------
(* The background jobs.                                                    *)

\* schedule(): nothing after a shutdown or for a session that timed out.
Scheduled(s) == IF stopped \/ s \in timedOut THEN {} ELSE {s}

\* Mutant of CancelJobs: cancel() stops the job of its own session only.
CancelOwnJob(s) ==
    /\ jobs' = {[j EXCEPT !.aborted = @ \/ j.session = s] : j \in jobs}
    /\ timers' = timers \ {s}

\* cancel(): drop the timer, abort the running job whoever owns it, and give
\* another session's job a new timer.
CancelJobs(s) ==
    /\ jobs' = {[j EXCEPT !.aborted = TRUE] : j \in jobs}
    /\ timers' = (timers \ {s})
                    \cup UNION {Scheduled(j.session) : j \in {k \in LiveJobs : k.session # s}}

\* run() up to the model call: one job at a time, and only while no session
\* has a turn.  A timer of the running job's own session is used up.
JobStarts(s) ==
    /\ s \in timers /\ Cardinality(jobs) < MaxJobs
    /\ LiveJobs = {} /\ \A t \in Session : ~isBusy(t)
    /\ timers' = timers \ {s}
    /\ \E through \in Rolling(stored[s]) + 1 .. Len(stored[s].turns) :
        jobs' = jobs \cup {[session |-> s, aborted |-> FALSE, base |-> stored[s].base,
                            from |-> Rolling(stored[s]),
                            covers |-> SubSeq(stored[s].turns, 1, through),
                            limit |-> Len(stored[s].turns)]}
    /\ UNCHANGED <<turnVars, stored, op, requests, req, autoFailed, timedOut, stopped, hostVars>>

\* run() that finds nothing to extend, or a job of the same session.  While
\* another session's job runs, or a turn does, the timer is set again.
JobNotNeeded(s) ==
    /\ s \in timers
    /\ \/ LiveJobs = {} /\ \A t \in Session : ~isBusy(t)
       \/ \E j \in LiveJobs : j.session = s
    /\ timers' = timers \ {s}
    /\ UNCHANGED <<turnVars, stored, op, requests, req, autoFailed, jobs, timedOut, stopped, hostVars>>

\* Mutant of MaySave: a session that changed meanwhile is not noticed.
SaveOnAnyBase(j) == ~j.aborted /\ ~stopped /\ ~isBusy(j.session)

\* extend() after its await: nothing is saved for an aborted job, after a
\* shutdown, under a turn, or on another checkpoint, boundary or watermark.
MaySave(j) ==
    /\ ~j.aborted /\ ~stopped /\ ~isBusy(j.session)
    /\ stored[j.session].base = j.base
    /\ Boundary(stored[j.session], j.covers)
    /\ Rolling(stored[j.session]) = j.from

JobAnswers(j) ==
    /\ j \in jobs
    /\ jobs' = jobs \ {j}
    /\ stored' = IF MaySave(j)
                 THEN [stored EXCEPT ![j.session].rolling = [from |-> j.base, covers |-> j.covers]]
                 ELSE stored
    /\ timers' = IF MaySave(j) /\ Len(j.covers) < j.limit
                 THEN timers \cup Scheduled(j.session) ELSE timers
    /\ UNCHANGED <<turnVars, op, requests, req, autoFailed, timedOut, stopped, hostVars>>

\* The call failed; a job that ran out of time is not tried again.
JobFails(j) ==
    /\ j \in jobs
    /\ jobs' = jobs \ {j}
    /\ timedOut' \in {timedOut, timedOut \cup {k.session : k \in {j} \cap LiveJobs}}
    /\ UNCHANGED <<turnVars, stored, op, requests, req, autoFailed, timers, stopped, hostVars>>

-----------------------------------------------------------------------------
(* The requests.                                                           *)

\* The first answer stands; what is left of a request is its outcome.
Answered(q, answer) ==
    [NoRequest EXCEPT !.session = q.session, !.wrote = q.wrote \/ answer = "compacted",
                      !.answer = IF q.answer = "none" THEN answer ELSE q.answer]

\* Mutant of Settle: settling clears the session's entry whoever holds it.
SettleAny(r, answer) ==
    /\ requests' = [requests EXCEPT ![req[r].session] = NoReq]
    /\ req' = [req EXCEPT ![r] = Answered(@, answer)]

\* settle(): the entry goes only when it is still this request's, and the
\* first answer stands.
Settle(r, answer) ==
    /\ requests' = [requests EXCEPT ![req[r].session] = IF @ = r THEN NoReq ELSE @]
    /\ req' = [req EXCEPT ![r] = Answered(@, answer)]

\* perform() starts a compaction of s for request r (NoReq: automatic).
Perform(s, r) ==
    /\ op' = [op EXCEPT ![s] = [by |-> r, active |-> TRUE, aborted |-> FALSE]]
    /\ req' = IF r = NoReq THEN req ELSE [req EXCEPT ![r].running = TRUE]
    /\ UNCHANGED requests

\* A record no caller waits on and no queue holds; the next call takes it.
Free(r) == ~Unanswered(r) /\ \A s \in Session : ~Contains(queue[s], r)

\* compactSession(): a request waits for the turn's next step, or is
\* submitted at once when no turn accepts it.
Compact(s, r) ==
    /\ Free(r) /\ \A q \in 1..(r - 1) : ~Free(q)
    /\ LET Ask(answer, queued) ==
             req' = [req EXCEPT ![r] = [NoRequest EXCEPT
                        !.session = s, !.answer = answer, !.queued = queued,
                        !.tied = turn[s] = "open" /\ answer = "none"]]
           Refuse(answer) ==
             Ask(answer, FALSE) /\ UNCHANGED <<queue, requests, timers, jobs>>
       IN \/ stopped /\ Refuse("cancelled")
          \/ ~stopped /\ (requests[s] # NoReq \/ op[s].active) /\ Refuse("busy")
          \/ /\ ~stopped /\ requests[s] = NoReq /\ ~op[s].active
             /\ CancelJobs(s)
             /\ IF turn[s] = "open" /\ turnAborted[s]
                THEN Ask("cancelled", FALSE) /\ UNCHANGED <<queue, requests>>
                ELSE /\ Ask("none", turn[s] # "open")
                     /\ requests' = [requests EXCEPT ![s] = r]
                     /\ queue' = IF turn[s] = "open" THEN queue
                                 ELSE [queue EXCEPT ![s] = Append(@, r)]
    /\ UNCHANGED <<turn, turnAborted, copy, stored, op, autoFailed, timedOut, stopped, hostVars>>

\* The signals of the requests in rs fire: one that has not started is
\* answered, one that runs is told to stop.
AbortRequests(rs) ==
    /\ req' = [r \in Req |->
                IF r \in rs /\ Unanswered(r)
                THEN IF req[r].running THEN [req[r] EXCEPT !.aborted = TRUE]
                     ELSE [Answered(req[r], "cancelled") EXCEPT !.aborted = req[r].queued]
                ELSE req[r]]
    /\ requests' = [s \in Session |->
                IF requests[s] \in rs /\ ~req[requests[s]].running THEN NoReq ELSE requests[s]]

\* The caller goes away.
CallerAborts(r) ==
    /\ Unanswered(r) /\ ~req[r].aborted
    /\ AbortRequests({r})
    /\ op' = [s \in Session |-> [op[s] EXCEPT !.aborted = @ \/ (op[s].active /\ op[s].by = r)]]
    /\ UNCHANGED <<turnVars, stored, autoFailed, jobVars, stopped, hostVars>>

\* cancelSessionCompaction(): the pending request and the running operation.
CancelCompaction(s) ==
    /\ requests[s] # NoReq \/ (op[s].active /\ ~op[s].aborted)
    /\ AbortRequests({requests[s]} \ {NoReq})
    /\ op' = [op EXCEPT ![s].aborted = op[s].active]
    /\ UNCHANGED <<turnVars, stored, autoFailed, jobVars, stopped, hostVars>>

\* shutdown(): the control side stops; turns end by themselves.
Shutdown ==
    /\ ~stopped
    /\ stopped' = TRUE
    /\ AbortRequests({requests[s] : s \in Session} \ {NoReq})
    /\ op' = [s \in Session |-> [op[s] EXCEPT !.aborted = op[s].active]]
    /\ jobs' = {[j EXCEPT !.aborted = TRUE] : j \in jobs}
    /\ timers' = {} /\ timedOut' = {} /\ autoFailed' = {}
    /\ UNCHANGED <<turnVars, stored, hostVars>>

-----------------------------------------------------------------------------
(* Turns.                                                                  *)

\* One of the moves that the bound counts.
Moves == moves < MaxMoves /\ moves' = moves + 1

SubmitTurn(s) ==
    /\ Moves
    /\ queue' = [queue EXCEPT ![s] = Append(@, TurnJob)]
    /\ UNCHANGED <<turn, turnAborted, copy, stored, op, requests, req, autoFailed, jobVars,
                   stopped, mirror, away, records>>

Holds(s, who) == isBusy(s) /\ Head(queue[s]) = who

\* A turn adds to what it works on.
NextRecord(s) == records' = [records EXCEPT ![s] = @ + 1]
Longer(state, s) == [state EXCEPT !.turns = Append(@, records[s] + 1)]

\* The lock is handed over: the row is read, the turn's message recorded and
\* the inbox opened, in one step.
TurnOpens(s) ==
    /\ Holds(s, TurnJob) /\ turn[s] = "none"
    /\ turn' = [turn EXCEPT ![s] = "open"]
    /\ turnAborted' = [turnAborted EXCEPT ![s] = FALSE]
    /\ copy' = [copy EXCEPT ![s] = Longer(stored[s], s)] /\ NextRecord(s)
    /\ CancelJobs(s)
    /\ autoFailed' = autoFailed \ {s}
    /\ UNCHANGED <<queue, stored, op, requests, req, timedOut, stopped, mirror, away, moves>>

\* persistContext(): a step of the turn saves its copy.
ContextSaved(s) ==
    /\ turn[s] = "open" /\ ~op[s].active
    /\ stored' = [stored EXCEPT ![s] = copy[s]]
    /\ UNCHANGED <<turnVars, op, requests, req, autoFailed, jobVars, stopped, hostVars>>

\* The turn is stopped: its signal reaches the requests that took it along
\* and the compaction it runs.
AbortTurn(s) ==
    /\ turn[s] = "open" /\ ~turnAborted[s]
    /\ turnAborted' = [turnAborted EXCEPT ![s] = TRUE]
    /\ AbortRequests({r \in Req : req[r].session = s /\ req[r].tied /\ ~req[r].queued})
    /\ op' = [op EXCEPT ![s].aborted = op[s].active]
    /\ UNCHANGED <<queue, turn, copy, stored, autoFailed, jobVars, stopped, hostVars>>

\* The request the next step of the turn on s may serve.
ForStep(s) == IF requests[s] # NoReq /\ req[requests[s]].queued THEN NoReq ELSE requests[s]

\* beforeStep(): nothing once stopped; a waiting request, or a compaction of
\* the loop's own; a request without a useful plan is answered.
BeforeStep(s) ==
    /\ turn[s] = "open" /\ ~op[s].active
    /\ CancelJobs(s)
    /\ LET r == ForStep(s)
           planned == Len(copy[s].turns) > copy[s].base
       IN \/ /\ stopped \/ turnAborted[s]
             /\ r # NoReq /\ Settle(r, "cancelled") /\ UNCHANGED op
          \/ /\ ~stopped /\ ~turnAborted[s]
             /\ \/ r # NoReq /\ Settle(r, "noop") /\ UNCHANGED op
                \/ r # NoReq /\ planned /\ Perform(s, r)
                \/ r = NoReq /\ planned /\ s \notin autoFailed /\ Perform(s, NoReq)
    /\ UNCHANGED <<turnVars, stored, autoFailed, timedOut, stopped, hostVars>>

\* The checkpoint: it covers the records and drops the summary behind it.
Checkpointed(state) == [state EXCEPT !.base = Len(state.turns), !.rolling = NoRolling]

\* Mutant of Outcomes: an abort that arrived late does not stop the save.
OutcomesIgnoringAbort(s) == {"compacted", "failed"}

\* runContextCompaction(): an abort wins over a finished summary.
Outcomes(s) == IF op[s].aborted THEN {"cancelled"} ELSE {"compacted", "failed"}

\* The compaction of s ends: the checkpoint is persisted and handed to the
\* turn, the operation released and the request answered.
CompactionEnds(s) ==
    /\ op[s].active
    /\ \E outcome \in Outcomes(s) :
        /\ copy' = [copy EXCEPT ![s] = IF turn[s] = "none" THEN Fresh
                                       ELSE IF outcome = "compacted" THEN Checkpointed(@) ELSE @]
        /\ stored' = IF outcome = "compacted" THEN [stored EXCEPT ![s] = Checkpointed(copy[s])] ELSE stored
        /\ autoFailed' = IF outcome = "failed" /\ op[s].by = NoReq THEN autoFailed \cup {s} ELSE autoFailed
        /\ IF op[s].by = NoReq THEN UNCHANGED <<requests, req>> ELSE Settle(op[s].by, outcome)
    /\ op' = [op EXCEPT ![s] = NoOp]
    /\ queue' = IF turn[s] = "none" THEN [queue EXCEPT ![s] = Tail(@)] ELSE queue
    /\ UNCHANGED <<turn, turnAborted, jobVars, stopped, hostVars>>

\* Mutant of Waiting: close() leaves the waiting request to the next turn.
WaitingForgotten(s) == {}

\* close(): a request that no step served.
Waiting(s) == {r \in Req : r = requests[s] /\ ~req[r].running /\ ~req[r].queued}

\* The loop returns or throws: close() submits what is waiting, without
\* awaiting it, and schedules the background job.
TurnCloses(s) ==
    /\ turn[s] = "open" /\ ~op[s].active
    /\ turn' = [turn EXCEPT ![s] = "closed"]
    /\ req' = [r \in Req |-> IF r \in Waiting(s) THEN [req[r] EXCEPT !.queued = TRUE] ELSE req[r]]
    /\ queue' = [queue EXCEPT ![s] = @ \o SetToSeq(Waiting(s))]
    /\ timers' = timers \cup Scheduled(s)
    /\ autoFailed' = autoFailed \ {s}
    /\ UNCHANGED <<turnAborted, copy, stored, op, requests, jobs, timedOut, stopped, hostVars>>

\* finishTurn() writes the turn's copy, a turn that threw writes none; the
\* lock passes on.
TurnLeaves(s) ==
    /\ turn[s] = "closed"
    /\ turn' = [turn EXCEPT ![s] = "none"]
    /\ stored' \in {stored, [stored EXCEPT ![s] = copy[s]]}
    /\ queue' = [queue EXCEPT ![s] = Tail(@)]
    /\ copy' = [copy EXCEPT ![s] = Fresh]
    /\ turnAborted' = [turnAborted EXCEPT ![s] = FALSE]
    /\ UNCHANGED <<op, requests, req, autoFailed, jobVars, stopped, hostVars>>

\* Mutant of Withdrawn: only a shutdown is looked at when the lock arrives.
WithdrawnByShutdown(r) == stopped

\* The caller no longer wants what it queued.
Withdrawn(r) == req[r].aborted \/ stopped

\* A queued request gets the lock: it reads the row and compacts, unless it
\* was told to stop, finds nothing to do, or fails to build its input.
CompactionRuns(s) ==
    /\ isBusy(s) /\ Head(queue[s]) \in Req /\ ~op[s].active /\ turn[s] = "none"
    /\ LET r == Head(queue[s])
           leave == queue' = [queue EXCEPT ![s] = Tail(@)] /\ UNCHANGED <<copy, op>>
       IN \/ Withdrawn(r) /\ Settle(r, "cancelled") /\ leave
          \/ /\ ~Withdrawn(r)
             /\ \/ (Settle(r, "noop") \/ Settle(r, "failed")) /\ leave
                \/ /\ Len(stored[s].turns) > stored[s].base
                   /\ Perform(s, r)
                   /\ copy' = [copy EXCEPT ![s] = stored[s]]
                   /\ UNCHANGED queue
    /\ UNCHANGED <<turn, turnAborted, stored, autoFailed, jobVars, stopped, hostVars>>

\* turnController.enqueue() rejects a submission whose signal fired while it
\* waited; its handler settles it once more.
QueueDropsAborted(s) ==
    \E i \in 2..Len(queue[s]) :
        LET r == queue[s][i] IN
        /\ r # TurnJob /\ req[r].aborted
        /\ queue' = [queue EXCEPT ![s] = RemoveAt(@, i)]
        /\ Settle(r, "cancelled")
        /\ UNCHANGED <<turn, turnAborted, copy, stored, op, autoFailed, jobVars, stopped, hostVars>>

-----------------------------------------------------------------------------
(* Hosts, and another process on this state dir.                           *)

\* A host loads a session to show it, or takes over the one a turn returned
\* (looked at only while a save may follow).
HostReads(s) ==
    /\ moves < MaxMoves /\ mirror[s] # stored[s]
    /\ mirror' = [mirror EXCEPT ![s] = stored[s]]
    /\ UNCHANGED <<turnVars, stored, op, requests, req, autoFailed, jobVars, stopped, away, records,
                   moves>>

\* stampSessionModel(), the last save of `run`: the session the host holds
\* replaces the row, whatever was saved since it was read.
HostSaves(s) ==
    /\ Moves
    /\ stored' = [stored EXCEPT ![s] = mirror[s]]
    /\ UNCHANGED <<turnVars, op, requests, req, autoFailed, jobVars, stopped, mirror, away,
                   records>>

\* A turn of another process: beginTurn() refuses nobody, so it may overlap
\* the turns and compactions here.
ForeignBegins(s) ==
    /\ Moves /\ away[s] = Fresh
    /\ away' = [away EXCEPT ![s] = Longer(stored[s], s)] /\ NextRecord(s)
    /\ UNCHANGED <<turnVars, stored, op, requests, req, autoFailed, jobVars, stopped, mirror>>

\* Its saves while it runs, of its context or of a checkpoint it made.
ForeignSaves(s) ==
    /\ away[s] # Fresh
    /\ away' \in {away, [away EXCEPT ![s] = Checkpointed(away[s])]}
    /\ stored' = [stored EXCEPT ![s] = away'[s]]
    /\ UNCHANGED <<turnVars, op, requests, req, autoFailed, jobVars, stopped, mirror, records,
                   moves>>

\* It ends, with or without its finishTurn().
ForeignEnds(s) ==
    /\ away[s] # Fresh
    /\ away' = [away EXCEPT ![s] = Fresh]
    /\ stored' \in {stored, [stored EXCEPT ![s] = away[s]]}
    /\ UNCHANGED <<turnVars, op, requests, req, autoFailed, jobVars, stopped, mirror, records,
                   moves>>

\* Between its turns it extends the rolling summary, as JobAnswers does.
ForeignSummary(s) ==
    /\ Moves /\ away[s] = Fresh
    /\ \E through \in Rolling(stored[s]) + 1 .. Len(stored[s].turns) :
        stored' = [stored EXCEPT ![s].rolling =
            [from |-> stored[s].base, covers |-> SubSeq(stored[s].turns, 1, through)]]
    /\ UNCHANGED <<turnVars, op, requests, req, autoFailed, jobVars, stopped, mirror, away,
                   records>>

HostStep(s) == HostReads(s) \/ HostSaves(s)
ForeignStep(s) ==
    ForeignBegins(s) \/ ForeignSaves(s) \/ ForeignEnds(s) \/ ForeignSummary(s)

Next ==
    \/ Shutdown
    \/ \E s \in Session :
        \/ SubmitTurn(s) \/ TurnOpens(s) \/ AbortTurn(s) \/ BeforeStep(s)
        \/ ContextSaved(s) \/ TurnCloses(s) \/ TurnLeaves(s)
        \/ CompactionRuns(s) \/ CompactionEnds(s) \/ QueueDropsAborted(s)
        \/ CancelCompaction(s) \/ JobStarts(s) \/ JobNotNeeded(s)
    \/ \E r \in Req : CallerAborts(r) \/ \E s \in Shared : Compact(s, r)
    \/ \E s \in Shared : HostStep(s) \/ ForeignStep(s)
    \/ \E j \in jobs : JobAnswers(j) \/ JobFails(j)

\* The lock is handed over, a compaction ends (its model calls time out), and
\* a turn takes finitely many steps.
Fairness ==
    \A s \in Session :
        /\ WF_vars(TurnOpens(s)) /\ WF_vars(TurnLeaves(s)) /\ SF_vars(TurnCloses(s))
        /\ WF_vars(CompactionRuns(s)) /\ WF_vars(CompactionEnds(s))

Spec == Init /\ [][Next]_vars /\ Fairness

-----------------------------------------------------------------------------
Record == [turns : Seq(Nat), base : Nat, rolling : [from : Nat, covers : Seq(Nat)]]

\* The shape of the state: an operation belongs to whoever holds the lock,
\* and the pending request of a session is one nobody has answered yet.
TypeOK ==
    /\ turn \in [Session -> {"none", "open", "closed"}]
    /\ stored \in [Session -> Record] /\ copy \in [Session -> Record]
    /\ mirror \in [Session -> Record] /\ away \in [Session -> Record]
    /\ timers \subseteq Session /\ autoFailed \subseteq Session /\ timedOut \subseteq Session
    /\ \A r \in Req : req[r].answer \in Answers \cup {"unasked", "none"}
    /\ \A s \in Session :
        /\ op[s].active => isBusy(s) /\ Head(queue[s]) \in {TurnJob, op[s].by}
        /\ turn[s] # "none" => Holds(s, TurnJob)
        /\ requests[s] # NoReq => Unanswered(requests[s]) /\ req[requests[s]].session = s

\* A session has one manual request at a time: `busy` is answered as long as
\* an earlier one has no answer, whatever an aborted one that is still in
\* the queue does (settle compares identities).
OneRequestPerSession ==
    \A s \in Session : Cardinality({r \in Req : Unanswered(r) /\ req[r].session = s}) <= 1

\* What a caller is told is what happened: a checkpoint was saved for its
\* request exactly when the answer is `compacted`.
AnswerIsTrue ==
    \A r \in Req : req[r].wrote <=> req[r].answer = "compacted"

\* Background work never competes with a turn or a compaction: whichever
\* session it is for, it is told to stop when one gets its lock.
BackgroundYields ==
    LiveJobs # {} => \A s \in Session : turn[s] # "open" /\ ~op[s].active

\* A rolling summary in the store was made of the first records of the very
\* transcript it is stored with, and extends the checkpoint beside it: extend()
\* writes into a row it reads anew, and that row may be another process's, or
\* a host's copy of an earlier one, with a shorter or a different transcript.
SummaryFitsItsRow ==
    \A s \in Session : stored[s].rolling # NoRolling =>
        /\ stored[s].rolling.from = stored[s].base
        /\ Len(stored[s].rolling.covers) > stored[s].base
        /\ IsPrefix(stored[s].rolling.covers, stored[s].turns)

\* After shutdown() neither the end of a compaction nor that of a background
\* call writes a row: the store is closed next.
StoppedWritesNothing ==
    [][stopped /\ <<jobs, op>>' # <<jobs, op>> => stored' = stored]_vars

\* Every manual request is answered: not forgotten by the turn it waited
\* for, by the queue, by an abort or by a shutdown.
RequestIsAnswered ==
    \A r \in Req : Unanswered(r) ~> ~Unanswered(r)
===============================================================================
