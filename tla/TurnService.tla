----------------------------- MODULE TurnService -----------------------------
(***************************************************************************)
(* The turn as a whole: src/src/runtime/composition/runtime-turn-service.ts*)
(* runs AgentLoop.runTurn under the lock of TurnController, with           *)
(*   - SteeringInbox (runtime/steering-inbox.ts), the mailbox for messages *)
(*     sent to a turn that is already running, and                         *)
(*   - TurnUsageMeter (analytics/turn-usage-meter.ts), which adds up the   *)
(*     usage of the LLM calls of a turn, per session.                      *)
(* A run() of the controller is now the body of a turn: it opens the       *)
(* steering window, takes steps, and closes the window on its way out.     *)
(***************************************************************************)
EXTENDS TurnController, Sequences, SequencesExt

CONSTANTS Msg,                  \* steering messages (texts that are not blank)
          Metered,              \* submissions of human origin: usage is reported
          MAX_PENDING_STEERS    \* capacity of the inbox of a session

ASSUME CapPositive == MAX_PENDING_STEERS \in Nat \ {0}

VARIABLES
    phase,      \* where the turn of each submission is
    accepting,  \* sessions whose running turn still picks messages up
    inbox,      \* bySession: pending messages
    fate,       \* what became of each message
    sentTo,     \* history: the submission that ran when it was accepted
    gotBy,      \* history: the submission whose turn took it out
    buckets,    \* TurnUsageMeter: whose calls are in the bucket of a session
    called,     \* history: the submissions whose turn made a billed call
    report      \* what was reported as the usage of each submission

steerVars == <<accepting, inbox, fate, sentTo, gotBy>>
meterVars == <<buckets, called, report>>
svcVars == <<phase, steerVars, meterVars>>
allVars == <<vars, svcVars>>

NoBucket == [open |-> FALSE, calls |-> {}]
Bucket(calls) == [open |-> TRUE, calls |-> calls]
Unreported == [done |-> FALSE, calls |-> {}]

Fates == {"unsent", "refused", "pending", "delivered", "flushed", "returned",
          "lost"}

\* The phases in which the loop runs and its window is open.
InLoop == {"top", "stepping", "prepare", "infer"}

\* The type of the state; every inbox stays within its capacity.
SvcTypeOK ==
    /\ TypeOK
    /\ phase \in [Sub -> InLoop \cup {"none", "closed", "thrown"}]
    /\ accepting \subseteq Session
    /\ \A x \in Session :
        /\ inbox[x] \in Seq(Msg)
        /\ Len(inbox[x]) <= MAX_PENDING_STEERS
    /\ fate \in [Msg -> Fates]
    /\ sentTo \in [Msg -> Sub \cup {None}]
    /\ gotBy \in [Msg -> Sub \cup {None}]
    /\ buckets \in [Session -> [open : BOOLEAN, calls : SUBSET Sub]]
    /\ called \subseteq Sub
    /\ report \in [Sub -> [done : BOOLEAN, calls : SUBSET Sub]]

SvcInit ==
    /\ Init
    /\ phase = [s \in Sub |-> "none"]
    /\ accepting = {}
    /\ inbox = [x \in Session |-> <<>>]
    /\ fate = [m \in Msg |-> "unsent"]
    /\ sentTo = [m \in Msg |-> None]
    /\ gotBy = [m \in Msg |-> None]
    /\ buckets = [x \in Session |-> NoBucket]
    /\ called = {}
    /\ report = [s \in Sub |-> Unreported]

-----------------------------------------------------------------------------
\* SteeringInbox.  drain() takes everything pending for the session; the
\* messages end up with fate f in the hands of submission s.
Drain(s, f) ==
    LET x == SessionOf[s]
        taken == ToSet(inbox[x])
    IN /\ inbox' = [inbox EXCEPT ![x] = <<>>]
       /\ fate' = [m \in Msg |-> IF m \in taken THEN f ELSE fate[m]]
       /\ gotBy' = [m \in Msg |-> IF m \in taken THEN s ELSE gotBy[m]]
       /\ UNCHANGED sentTo

\* Mutant of CloseAndDrain: the last drain leaves the window open.
DrainWithoutClose(s, f) == Drain(s, f) /\ UNCHANGED accepting

\* closeAndDrain(): stop accepting and take what is left, in one step.
CloseAndDrain(s, f) ==
    /\ accepting' = accepting \ {SessionOf[s]}
    /\ Drain(s, f)

\* Mutant of Accepts: the gate is TurnController.isBusy.
AcceptsWhileBusy(x) == x \in busy /\ Len(inbox[x]) < MAX_PENDING_STEERS

\* The gate of push(): a window is open and the inbox has room.
Accepts(x) == x \in accepting /\ Len(inbox[x]) < MAX_PENDING_STEERS

\* Mutant of Steer: no capacity check.
SteerUnbounded(x, m) ==
    /\ fate[m] = "unsent"
    /\ x \in accepting
    /\ inbox' = [inbox EXCEPT ![x] = Append(@, m)]
    /\ fate' = [fate EXCEPT ![m] = "pending"]
    /\ sentTo' = [sentTo EXCEPT ![m] =
           CHOOSE s \in Sub : SessionOf[s] = x /\ pc[s] = "running"]
    /\ UNCHANGED <<vars, phase, accepting, gotBy, meterVars>>

\* runtime.steer() = SteeringInbox.push(), from any host at any time.
Steer(x, m) ==
    /\ fate[m] = "unsent"
    /\ IF Accepts(x)
       THEN /\ inbox' = [inbox EXCEPT ![x] = Append(@, m)]
            /\ fate' = [fate EXCEPT ![m] = "pending"]
            /\ sentTo' = [sentTo EXCEPT ![m] =
                   CHOOSE s \in Sub : SessionOf[s] = x /\ pc[s] = "running"]
       ELSE /\ fate' = [fate EXCEPT ![m] = "refused"]
            /\ UNCHANGED <<inbox, sentTo>>
    /\ UNCHANGED <<vars, phase, accepting, gotBy, meterVars>>

-----------------------------------------------------------------------------
\* TurnUsageMeter.  begin() opens a fresh bucket for the session.
BeginUsage(s) ==
    buckets' = IF s \in Metered
               THEN [buckets EXCEPT ![SessionOf[s]] = Bucket({})]
               ELSE buckets

\* record(): into the open bucket of the session, dropped without one.
RecordUsage(s) ==
    LET b == buckets[SessionOf[s]] IN
    /\ buckets' = IF b.open
                  THEN [buckets EXCEPT ![SessionOf[s]] = Bucket(b.calls \cup {s})]
                  ELSE buckets
    /\ called' = called \cup {s}

-----------------------------------------------------------------------------
\* runTurn(): open the bucket, then enqueue, in one synchronous run.
SubmitTurn(s) ==
    /\ Enqueue(s) \/ RejectAborted(s)
    /\ BeginUsage(s)
    /\ UNCHANGED <<phase, steerVars, called, report>>

\* The caller cancels, or a microtask of the controller runs.
CancelTurn(s) == Abort(s) /\ UNCHANGED svcVars
ReachFront(s) == Wake(s) /\ UNCHANGED svcVars
DropTurn(s) == DropCancelled(s) /\ UNCHANGED svcVars

\* run() up to the first await of the loop: open() the window.
StartTurn(s) ==
    /\ Start(s)
    /\ phase' = [phase EXCEPT ![s] = "top"]
    /\ accepting' = accepting \cup {SessionOf[s]}
    /\ UNCHANGED <<inbox, fate, sentTo, gotBy, meterVars>>

\* executeTurn throws before it reaches the loop: the window never opens.
StartTurnFails(s) ==
    /\ Start(s)
    /\ phase' = [phase EXCEPT ![s] = "thrown"]
    /\ UNCHANGED <<steerVars, meterVars>>

\* Top of the step loop: an aborted turn takes no further step.
BeginStep(s) ==
    /\ phase[s] = "top"
    /\ s \notin aborted
    /\ phase' = [phase EXCEPT ![s] = "stepping"]
    /\ UNCHANGED <<vars, steerVars, meterVars>>

\* The step's prompt takes the pending messages.
DrainAtStep(s) ==
    /\ phase[s] = "stepping"
    /\ phase' = [phase EXCEPT ![s] = "prepare"]
    /\ Drain(s, "delivered")
    /\ UNCHANGED <<vars, accepting, meterVars>>

\* Messages that arrived during compaction join the same inference.
DrainLate(s) ==
    /\ phase[s] = "prepare"
    /\ inbox[SessionOf[s]] # <<>>
    /\ Drain(s, "delivered")
    /\ UNCHANGED <<vars, phase, accepting, meterVars>>

\* executeStep(): the prompt is sent; what arrives now waits for the next step.
SendPrompt(s) ==
    /\ phase[s] = "prepare"
    /\ phase' = [phase EXCEPT ![s] = "infer"]
    /\ UNCHANGED <<vars, steerVars, meterVars>>

\* The completion answers and its usage is recorded; the step ends.
InferenceEnds(s) ==
    /\ phase[s] = "infer"
    /\ phase' = [phase EXCEPT ![s] = "top"]
    /\ RecordUsage(s)
    /\ UNCHANGED <<vars, steerVars, report>>

\* Mutant of CloseTurn: a cancelled turn drops what it has not delivered.
CloseTurnDropsIfCancelled(s) ==
    /\ phase[s] \in {"top", "infer"}
    /\ phase' = [phase EXCEPT ![s] = "closed"]
    /\ CloseAndDrain(s, IF s \in aborted THEN "lost" ELSE "flushed")
    /\ UNCHANGED <<vars, meterVars>>

\* Every classified ending (reply, finish, max_steps, cancelled, failed)
\* returns through flushSteering().
CloseTurn(s) ==
    /\ phase[s] \in {"top", "infer"}
    /\ phase' = [phase EXCEPT ![s] = "closed"]
    /\ CloseAndDrain(s, "flushed")
    /\ UNCHANGED <<vars, meterVars>>

\* An unclassified error: the finally block closes the window and counts
\* what it found.
ThrowTurn(s) ==
    /\ phase[s] \in InLoop
    /\ phase' = [phase EXCEPT ![s] = "thrown"]
    /\ CloseAndDrain(s, "lost")
    /\ UNCHANGED <<vars, meterVars>>

\* The messages the loop flushed in the turn of s.
FlushedBy(s) == {m \in Msg : fate[m] = "flushed" /\ gotBy[m] = s}

\* finishTurn() saved the session: the result, `undelivered` with it, goes
\* to the caller of runTurn().
ReturnTurn(s) ==
    /\ phase[s] = "closed"
    /\ Finish(s)
    /\ fate' = [m \in Msg |-> IF m \in FlushedBy(s) THEN "returned" ELSE fate[m]]
    /\ UNCHANGED <<phase, accepting, inbox, sentTo, gotBy, meterVars>>

\* The loop threw, or the save did: the caller gets the error only.
FailTurn(s) ==
    /\ phase[s] \in {"closed", "thrown"}
    /\ Finish(s)
    /\ fate' = [m \in Msg |-> IF m \in FlushedBy(s) THEN "lost" ELSE fate[m]]
    /\ UNCHANGED <<phase, accepting, inbox, sentTo, gotBy, meterVars>>

\* Mutant of ReportUsage: the snapshot does not release the bucket.
ReportUsageKeepsBucket(s) ==
    /\ s \in Metered /\ ~report[s].done
    /\ pc[s] \in {"rejected", "cancelled", "dropped", "done"}
    /\ report' = [report EXCEPT ![s] =
                    [done |-> TRUE, calls |-> buckets[SessionOf[s]].calls]]
    /\ UNCHANGED <<vars, phase, steerVars, buckets, called>>

\* The continuation of runTurn() after enqueue() settled either way:
\* snapshot() takes the bucket of the session and reports it.
ReportUsage(s) ==
    LET x == SessionOf[s] IN
    /\ s \in Metered /\ ~report[s].done
    /\ pc[s] \in {"rejected", "cancelled", "dropped", "done"}
    /\ report' = [report EXCEPT ![s] =
                    [done |-> TRUE, calls |-> buckets[x].calls]]
    /\ buckets' = [buckets EXCEPT ![x] = NoBucket]
    /\ UNCHANGED <<vars, phase, steerVars, called>>

\* shutdown() drops every pending message and closes every window.
ClearAll ==
    LET taken == UNION {ToSet(inbox[x]) : x \in Session} IN
    /\ accepting # {}
    /\ accepting' = {}
    /\ inbox' = [x \in Session |-> <<>>]
    /\ fate' = [m \in Msg |-> IF m \in taken THEN "lost" ELSE fate[m]]
    /\ UNCHANGED <<vars, phase, sentTo, gotBy, meterVars>>

TurnStep(s) ==
    \/ BeginStep(s) \/ DrainAtStep(s) \/ DrainLate(s) \/ SendPrompt(s)
    \/ InferenceEnds(s) \/ CloseTurn(s) \/ ThrowTurn(s)
    \/ ReturnTurn(s) \/ FailTurn(s)

SvcNext ==
    \/ \E s \in Sub :
        \/ SubmitTurn(s) \/ CancelTurn(s) \/ ReachFront(s) \/ DropTurn(s)
        \/ StartTurn(s) \/ StartTurnFails(s) \/ TurnStep(s) \/ ReportUsage(s)
    \/ \E x \in Session, m \in Msg : Steer(x, m)
    \/ ClearAll

SvcSpec == SvcInit /\ [][SvcNext]_allVars

-----------------------------------------------------------------------------
\* A steering window is open only for a turn that will still drain it, and
\* a message is pending only behind an open window: none can be left for a
\* later turn to find.
WindowIsLive ==
    /\ \A x \in accepting :
        \E s \in Sub : SessionOf[s] = x /\ pc[s] = "running" /\ phase[s] \in InLoop
    /\ \A x \in Session : inbox[x] # <<>> => x \in accepting

\* Whoever takes a message out of the inbox is the turn it was accepted for.
SteerStaysInItsTurn ==
    \A m \in Msg : gotBy[m] # None => gotBy[m] = sentTo[m]

\* flushSteering(): the result of a turn, whether it replied, finished, ran out
\* of steps, was cancelled or failed, accounts for every message accepted for
\* that turn: it was in a prompt of the turn or comes back as `undelivered`.
\* Only what a shutdown cleared while the turn ran is missing.
ResultAccountsForAll ==
    [][\A s \in Sub, m \in Msg : ReturnTurn(s) /\ sentTo[m] = s =>
        fate'[m] \in {"delivered", "returned"} \/ (fate[m] = "lost" /\ gotBy[m] = None)
      ]_allVars

\* runtime-contract.ts on steer(): `true` means the message is delivered at a
\* step boundary or returned on RunTurnResult.undelivered, never stranded: no
\* turn ends with a message in hand that nobody gets.
NeverStranded == \A m \in Msg : fate[m] = "lost" => gotBy[m] = None

\* When every human turn submitted on a session has reported, its bucket is
\* released: a turn that ended, failed or never ran leaks none.
NoBucketLeak ==
    \A x \in Session :
        (\A s \in Sub : SessionOf[s] = x /\ s \in Metered =>
            report[s].done \/ pc[s] = "new")
        => ~buckets[x].open

\* turn-usage-meter.ts: what is reported for a turn are the calls of that
\* turn, none of another one and none missing.
UsageIsOwnTurns ==
    \A s \in Sub : report[s].done =>
        report[s].calls = IF s \in called THEN {s} ELSE {}
=============================================================================
