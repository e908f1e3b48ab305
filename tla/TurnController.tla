---------------------------- MODULE TurnController ----------------------------
(***************************************************************************)
(* src/src/runtime/turn-controller.ts: the per-session FIFO of turns, kept *)
(* as a chain of promises.  The map `queues` holds, per session, the       *)
(* promise of the LAST submission; a new submission waits for the promise  *)
(* it found there and leaves its own.  A submission whose signal aborts    *)
(* while it waits is rejected at once, but hands the chain on only when    *)
(* the promise it waited for has settled.                                  *)
(*                                                                         *)
(* One step is one run of the JavaScript event loop that the controller    *)
(* can observe.  Two of them are easy to overlook: the wait of a           *)
(* submission resolves (Wake) one microtask before its body starts         *)
(* (Start), and work a turn left behind may still emit events after the    *)
(* turn ended (EmitLate).                                                  *)
(***************************************************************************)
EXTENDS Naturals

CONSTANTS Session,     \* session ids
          Sub,         \* submissions: one enqueue() call each
          SessionOf,   \* submission.sessionId
          Hooked,      \* the submissions that carry an eventHook
          Hanging,     \* the submissions whose run() need not return
          None         \* no submission: an absent map entry

ASSUME SessionOfType == SessionOf \in [Sub -> Session]
ASSUME HookedType == Hooked \subseteq Sub
ASSUME NoneIsNoSub == None \notin Sub

VARIABLES
    pc,         \* where each enqueue() call is
    queues,     \* the submission whose promise is the tail, per session
    prev,       \* the submission whose promise this one waits for
    released,   \* the submissions whose promise has resolved
    aborted,    \* the submissions whose signal has aborted
    busy,       \* sessions with a run() in flight
    hooks,      \* currentHooks: whose event hook is installed, per session
    stray,      \* history: <<emitter, receiver>> of events another turn got
    ticket,     \* history: order of arrival, 0 before the call
    clock       \* history: next ticket

vars == <<pc, queues, prev, released, aborted, busy, hooks, stray,
          ticket, clock>>

Stage == {"new", "rejected", "waiting", "front", "running",
          "cancelled", "done", "dropped"}

\* The type of the state: every variable keeps its shape and the two maps
\* only hold submissions of their own session.
TypeOK ==
    /\ pc \in [Sub -> Stage]
    /\ queues \in [Session -> Sub \cup {None}]
    /\ prev \in [Sub -> Sub \cup {None}]
    /\ released \subseteq Sub
    /\ aborted \subseteq Sub
    /\ busy \subseteq Session
    /\ hooks \in [Session -> Sub \cup {None}]
    /\ stray \subseteq Sub \X Sub
    /\ ticket \in [Sub -> Nat]
    /\ clock \in Nat \ {0}

Init ==
    /\ pc = [s \in Sub |-> "new"]
    /\ queues = [x \in Session |-> None]
    /\ prev = [s \in Sub |-> None]
    /\ released = {}
    /\ aborted = {}
    /\ busy = {}
    /\ hooks = [x \in Session |-> None]
    /\ stray = {}
    /\ ticket = [s \in Sub |-> 0]
    /\ clock = 1

-----------------------------------------------------------------------------
\* previousSettled: Promise.resolve() when the map had no entry.
PreviousSettled(s) == prev[s] = None \/ prev[s] \in released

\* Mutant of Settle: the map entry goes whoever is the tail by now.
SettleAnyEntry(s) ==
    /\ released' = released \cup {s}
    /\ queues' = [queues EXCEPT ![SessionOf[s]] = None]

\* settle(): resolve the own promise and drop the map entry if it is still
\* this submission's.
Settle(s) ==
    LET x == SessionOf[s] IN
    /\ released' = released \cup {s}
    /\ queues' = IF queues[x] = s THEN [queues EXCEPT ![x] = None] ELSE queues

\* Mutant of Enqueue: the new promise does not replace the old tail.
EnqueueBesideTail(s) ==
    LET x == SessionOf[s] IN
    /\ pc[s] = "new"
    /\ s \notin aborted
    /\ prev' = [prev EXCEPT ![s] = queues[x]]
    /\ queues' = [queues EXCEPT ![x] = IF queues[x] = None THEN s ELSE queues[x]]
    /\ pc' = [pc EXCEPT ![s] = "waiting"]
    /\ ticket' = [ticket EXCEPT ![s] = clock]
    /\ clock' = clock + 1
    /\ UNCHANGED <<released, aborted, busy, hooks, stray>>

\* enqueue() with a live signal: queue behind the tail, become the tail.
Enqueue(s) ==
    LET x == SessionOf[s] IN
    /\ pc[s] = "new"
    /\ s \notin aborted
    /\ prev' = [prev EXCEPT ![s] = queues[x]]
    /\ queues' = [queues EXCEPT ![x] = s]
    /\ pc' = [pc EXCEPT ![s] = "waiting"]
    /\ ticket' = [ticket EXCEPT ![s] = clock]
    /\ clock' = clock + 1
    /\ UNCHANGED <<released, aborted, busy, hooks, stray>>

\* enqueue() with a signal that has already aborted: throws.
RejectAborted(s) ==
    /\ pc[s] = "new"
    /\ s \in aborted
    /\ pc' = [pc EXCEPT ![s] = "rejected"]
    /\ UNCHANGED <<queues, prev, released, aborted, busy, hooks, stray,
                   ticket, clock>>

\* The caller aborts the signal.  waitOrAbort listens only while it waits:
\* a waiting submission is cancelled, any other one goes on as it is.
Abort(s) ==
    /\ s \notin aborted
    /\ pc[s] \in {"new", "waiting", "front", "running"}
    /\ aborted' = aborted \cup {s}
    /\ pc' = IF pc[s] = "waiting" THEN [pc EXCEPT ![s] = "cancelled"] ELSE pc
    /\ UNCHANGED <<queues, prev, released, busy, hooks, stray,
                   ticket, clock>>

\* Mutant of Wake: the wait of a submission whose predecessor is cancelled
\* resolves with the cancellation.
WakeOnCancel(s) ==
    /\ pc[s] = "waiting"
    /\ prev[s] \in released \cup {None} \cup {u \in Sub : pc[u] = "cancelled"}
    /\ pc' = [pc EXCEPT ![s] = "front"]
    /\ UNCHANGED <<queues, prev, released, aborted, busy, hooks, stray,
                   ticket, clock>>

\* waitOrAbort: the awaited promise settles first, the abort listener goes.
Wake(s) ==
    /\ pc[s] = "waiting"
    /\ PreviousSettled(s)
    /\ pc' = [pc EXCEPT ![s] = "front"]
    /\ UNCHANGED <<queues, prev, released, aborted, busy, hooks, stray,
                   ticket, clock>>

\* The continuation of the await: install the hook, mark busy, call run().
Start(s) ==
    LET x == SessionOf[s] IN
    /\ pc[s] = "front"
    /\ pc' = [pc EXCEPT ![s] = "running"]
    /\ busy' = busy \cup {x}
    /\ hooks' = IF s \in Hooked THEN [hooks EXCEPT ![x] = s] ELSE hooks
    /\ UNCHANGED <<queues, prev, released, aborted, stray, ticket, clock>>

\* Mutant of Finish: the hook is not deleted.
FinishKeepsHook(s) ==
    /\ pc[s] = "running"
    /\ pc' = [pc EXCEPT ![s] = "done"]
    /\ busy' = busy \ {SessionOf[s]}
    /\ Settle(s)
    /\ UNCHANGED <<prev, aborted, hooks, stray, ticket, clock>>

\* run() settles, with a value or an error: both finally blocks.
Finish(s) ==
    LET x == SessionOf[s] IN
    /\ pc[s] = "running"
    /\ pc' = [pc EXCEPT ![s] = "done"]
    /\ busy' = busy \ {x}
    /\ hooks' = IF s \in Hooked THEN [hooks EXCEPT ![x] = None] ELSE hooks
    /\ Settle(s)
    /\ UNCHANGED <<prev, aborted, stray, ticket, clock>>

\* Mutant of DropCancelled: the lock is handed on at the moment of the abort.
DropCancelledAtOnce(s) ==
    /\ pc[s] = "cancelled"
    /\ pc' = [pc EXCEPT ![s] = "dropped"]
    /\ Settle(s)
    /\ UNCHANGED <<prev, aborted, busy, hooks, stray, ticket, clock>>

\* Mutant of DropCancelled: the own promise is never resolved.
DropCancelledSilently(s) ==
    /\ pc[s] = "cancelled"
    /\ PreviousSettled(s)
    /\ pc' = [pc EXCEPT ![s] = "dropped"]
    /\ UNCHANGED <<queues, prev, released, aborted, busy, hooks, stray,
                   ticket, clock>>

\* A waiter cancelled in the queue settles once its predecessor has.
DropCancelled(s) ==
    /\ pc[s] = "cancelled"
    /\ PreviousSettled(s)
    /\ pc' = [pc EXCEPT ![s] = "dropped"]
    /\ Settle(s)
    /\ UNCHANGED <<prev, aborted, busy, hooks, stray, ticket, clock>>

\* Mutant of Emit: no check that a hook is installed.
EmitUnchecked(s) ==
    LET h == hooks[SessionOf[s]] IN
    /\ stray' = IF h = s THEN stray ELSE stray \cup {<<s, h>>}
    /\ UNCHANGED <<pc, queues, prev, released, aborted, busy, hooks,
                   ticket, clock>>

\* emit(sessionId, event): to the hook installed for the session, if any.
Emit(s) ==
    LET h == hooks[SessionOf[s]] IN
    /\ stray' = IF h \in {None, s} THEN stray ELSE stray \cup {<<s, h>>}
    /\ UNCHANGED <<pc, queues, prev, released, aborted, busy, hooks,
                   ticket, clock>>

\* The turn's own loop emits while its body runs.
EmitInTurn(s) == pc[s] = "running" /\ Emit(s)

\* Work the turn left behind (reflection, naming, a fallback notice) emits
\* for the session after the turn ended.
EmitLate(s) == pc[s] = "done" /\ Emit(s)

Next ==
    \E s \in Sub :
        \/ Enqueue(s) \/ RejectAborted(s) \/ Abort(s) \/ Wake(s)
        \/ Start(s) \/ Finish(s) \/ DropCancelled(s)
        \/ EmitInTurn(s) \/ EmitLate(s)

Spec == Init /\ [][Next]_vars

\* The event loop runs every microtask that is ready, and a body that does
\* not hang returns.  Nobody has to submit, abort or emit.
Fairness ==
    \A s \in Sub :
        /\ WF_vars(Wake(s))
        /\ WF_vars(Start(s))
        /\ WF_vars(DropCancelled(s))
        /\ (s \notin Hanging => WF_vars(Finish(s)))

FairSpec == Spec /\ Fairness

-----------------------------------------------------------------------------
\* u was enqueued before s on the same session.
Earlier(u, s) ==
    /\ SessionOf[u] = SessionOf[s]
    /\ ticket[u] # 0
    /\ ticket[u] < ticket[s]

\* At most one run() per session, and `busy` (what isBusy and the scheduler
\* read) is exactly the set of sessions that have one.
MutualExclusion ==
    /\ \A s, t \in Sub :
        /\ pc[s] = "running" /\ pc[t] = "running"
        /\ SessionOf[s] = SessionOf[t]
        => s = t
    /\ \A x \in Session :
        x \in busy <=> \E s \in Sub : SessionOf[s] = x /\ pc[s] = "running"

\* Submissions of one session reach the front in the order they were
\* enqueued: when one has, every earlier one is over, cancelled ones too.
FifoOrder ==
    \A s, u \in Sub :
        Earlier(u, s) /\ pc[s] \in {"front", "running", "done"}
            => pc[u] \in {"done", "dropped"}

\* The installed hook is the hook of the submission that runs right now on
\* that session: cleared by nobody else and left behind by nobody.
HookBelongsToRunner ==
    \A x \in Session :
        hooks[x] # None =>
            /\ SessionOf[hooks[x]] = x
            /\ hooks[x] \in Hooked
            /\ pc[hooks[x]] = "running"

\* The map entry is collected only when nothing of the session is left to
\* wait for: with no entry, a newcomer may start at once.
NoEntryMeansIdle ==
    \A s \in Sub :
        queues[SessionOf[s]] = None
            => pc[s] \in {"new", "rejected", "done", "dropped"}

\* Every submission that was enqueued ends, unless a body that never
\* returns stands ahead of it (or is its own) on the SAME session: turns of
\* other sessions never block it, and neither do cancelled waiters.
EverySubmissionSettles ==
    \A s \in Sub :
        pc[s] = "waiting" ~>
            \/ pc[s] \in {"done", "dropped"}
            \/ \E h \in Hanging : pc[h] = "running" /\ (h = s \/ Earlier(h, s))

\* What an observer of the lock sees of each submission.
LockStage ==
    [s \in Sub |->
        CASE pc[s] = "new" -> "idle"
          [] pc[s] \in {"waiting", "front"} -> "waiting"
          [] pc[s] = "running" -> "owning"
          [] OTHER -> "gone"]

Lock == INSTANCE SessionLock WITH stage <- LockStage

\* The promise chain implements the abstract lock.
ImplementsSessionLock == Lock!LockSpec
=============================================================================
