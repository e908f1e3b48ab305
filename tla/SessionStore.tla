----------------------------- MODULE SessionStore -----------------------------
(***************************************************************************)
(* src/src/session/session-store.ts and src/src/session/turn-owner.ts: one *)
(* row of sessions.sqlite, shared by every process on the state dir.  The  *)
(* row carries a status, the mark of the process running a turn on it      *)
(* (turn_owner), and a title with the stamp of the operator's rename.      *)
(* No operation relates two rows, so one row shows every interleaving.     *)
(*                                                                         *)
(* A process runs one statement at a time, but save() and finishTurn() are *)
(* two statements without a transaction: they read the stored row, decide  *)
(* what to keep of it, and write.  Other processes may write in between.   *)
(* Turn bookkeeping follows runtime-turn-service.ts (executeTurn) and      *)
(* shutdown follows runtime-lifecycle.ts.                                  *)
(***************************************************************************)
EXTENDS Naturals

CONSTANTS Proc,            \* process ids; a pid is reused after a restart
          StartTimeKnown,  \* whether processStartOf can tell a reused pid
          MaxTurns,        \* bound: turns begun
          MaxRenames,      \* bound: renames by the operator
          MaxBoots         \* bound: starts of each process

ASSUME StartTimeKnownType == StartTimeKnown \in BOOLEAN
ASSUME BoundsType == MaxTurns \in Nat /\ MaxRenames \in Nat /\ MaxBoots \in [Proc -> Nat]

VARIABLES
    row,      \* the stored row
    up,       \* "down", "up" or "closing" (shutdown() is running)
    inc,      \* how often each process has started: its processStart
    own,      \* ownTurns: the mark this process remembers having written
    turn,     \* whether executeTurn is between markTurnRunning and its end
    turnCopy, \* the session that turn was started with
    copy,     \* a copy some host of the process holds (TUI, CLI)
    op,       \* the write between its two statements
    naming,   \* whether the process waits for a generated title
    turnsNo,  \* turns begun so far; makes the marks distinct (TurnOwner.at)
    renames   \* renames so far: the clock of titleSetByUserAt

vars == <<row, up, inc, own, turn, turnCopy, copy, op, naming, turnsNo, renames>>

NoMark == [pid |-> "nobody", inc |-> 0, at |-> 0]
Mark == [pid : Proc, inc : Nat \ {0}, at : Nat \ {0}]

Status == {"pending", "running", "ended", "interrupted"}
Live == {"running"}
Titles == {"none", "auto", "user"}

\* A SessionState as far as the store looks at it.
State == [status : Status, title : Titles, userAt : 0..MaxRenames]
NoState == [status |-> "pending", title |-> "none", userAt |-> 0]
NoCopy == [status |-> "absent", title |-> "none", userAt |-> 0]
NoOp == [kind |-> "none", next |-> NoState, stored |-> NoState,
         existed |-> FALSE, marked |-> FALSE]

\* The type of the row and of what the processes remember.
TypeOK ==
    /\ row \in [exists : BOOLEAN, state : State, owner : Mark \cup {NoMark}]
    /\ up \in [Proc -> {"down", "up", "closing"}]
    /\ inc \in [Proc -> Nat]
    /\ own \in [Proc -> Mark \cup {NoMark}]
    /\ turn \in [Proc -> BOOLEAN]
    /\ turnCopy \in [Proc -> State \cup {NoCopy}]
    /\ copy \in [Proc -> State \cup {NoCopy}]
    /\ op \in [Proc -> [kind : {"none", "save", "finish"}, next : State,
                        stored : State, existed : BOOLEAN, marked : BOOLEAN]]
    /\ naming \in [Proc -> BOOLEAN]
    /\ turnsNo \in 0..MaxTurns
    /\ renames \in 0..MaxRenames

Init ==
    /\ row = [exists |-> TRUE, state |-> NoState, owner |-> NoMark]
    /\ up = [p \in Proc |-> "down"]
    /\ inc = [p \in Proc |-> 0]
    /\ own = [p \in Proc |-> NoMark]
    /\ turn = [p \in Proc |-> FALSE]
    /\ turnCopy = [p \in Proc |-> NoCopy]
    /\ copy = [p \in Proc |-> NoCopy]
    /\ op = [p \in Proc |-> NoOp]
    /\ naming = [p \in Proc |-> FALSE]
    /\ turnsNo = 0
    /\ renames = 0

\* The process is up and between two synchronous store calls.
Ready(p) == up[p] # "down" /\ op[p] = NoOp

-----------------------------------------------------------------------------
\* Mutant of StatusForSave: the copy's status is written as it is.
StatusAsGiven(next, stored, existed, marked) == next.status

\* statusForSave(): the status a plain save may write over the stored row.
StatusForSave(next, stored, existed, marked) ==
    IF existed /\ marked THEN stored.status
    ELSE IF next.status \notin Live THEN next.status
    ELSE IF ~existed \/ stored.status \in Live THEN "pending"
    ELSE stored.status

\* Mutant of KeepTitle: a stored title yields to any title of the copy.
KeepTitleIfMissing(next, stored) ==
    IF stored.title # "none" /\ next.title = "none"
    THEN [next EXCEPT !.title = stored.title]
    ELSE next

\* write(): the operator's title outranks a copy read before the rename,
\* and no copy without a title removes one.
KeepTitle(next, stored) ==
    IF stored.title # "none" /\ stored.userAt # 0 /\ next.userAt < stored.userAt
    THEN [next EXCEPT !.title = stored.title, !.userAt = stored.userAt]
    ELSE IF stored.title # "none" /\ next.title = "none"
    THEN [next EXCEPT !.title = stored.title]
    ELSE next

\* First statement of write(): storedRow().
BeginWrite(p, kind, next) ==
    op' = [op EXCEPT ![p] =
             [kind |-> kind, next |-> next, stored |-> row.state,
              existed |-> row.exists, marked |-> row.owner # NoMark]]

\* What the second statement of write() writes.
Written(o) ==
    LET kept == IF o.existed THEN KeepTitle(o.next, o.stored) ELSE o.next IN
    [kept EXCEPT !.status =
        IF o.kind = "finish" THEN o.next.status
        ELSE StatusForSave(o.next, o.stored, o.existed, o.marked)]

-----------------------------------------------------------------------------
\* isTurnOwnerGone(): judged by process p, at its boot.
OwnerGone(m, p) ==
    \/ m = NoMark
    \/ m.pid = p
    \/ up[m.pid] = "down"
    \/ StartTimeKnown /\ inc[m.pid] # m.inc

\* Mutant of Swept: every live row is taken for an interrupted turn.
SweptBlindly(p) ==
    IF row.exists /\ row.state.status \in Live
    THEN [row EXCEPT !.state.status = "interrupted", !.owner = NoMark]
    ELSE row

\* recoverInterruptedTurns(): one IMMEDIATE transaction.
Swept(p) ==
    IF row.exists /\ row.state.status \in Live /\ OwnerGone(row.owner, p)
    THEN [row EXCEPT !.state.status = "interrupted", !.owner = NoMark]
    ELSE row

\* A runtime starts: open the store, end the turns of processes that are gone.
Boot(p) ==
    /\ up[p] = "down"
    /\ inc[p] < MaxBoots[p]
    /\ up' = [up EXCEPT ![p] = "up"]
    /\ inc' = [inc EXCEPT ![p] = @ + 1]
    /\ row' = Swept(p)
    /\ UNCHANGED <<own, turn, turnCopy, copy, op, naming, turnsNo, renames>>

\* The turn is over, and its session object with it.
EndBody(p) ==
    /\ turn' = [turn EXCEPT ![p] = FALSE]
    /\ turnCopy' = [turnCopy EXCEPT ![p] = NoCopy]

\* What a process keeps in memory goes with it.
Forget(p) ==
    /\ own' = [own EXCEPT ![p] = NoMark]
    /\ EndBody(p)
    /\ copy' = [copy EXCEPT ![p] = NoCopy]
    /\ op' = [op EXCEPT ![p] = NoOp]
    /\ naming' = [naming EXCEPT ![p] = FALSE]

\* Killed or crashed at any point, between two statements too.
Crash(p) ==
    /\ up[p] # "down"
    /\ up' = [up EXCEPT ![p] = "down"]
    /\ Forget(p)
    /\ UNCHANGED <<row, inc, turnsNo, renames>>

\* The row with `ending` written if it still carries mark m.
EndIfMarked(m, status, newOwner) ==
    IF m # NoMark /\ row.exists /\ row.owner = m
    THEN [row EXCEPT !.state.status = status, !.owner = newOwner]
    ELSE row

\* shutdown() begins: releaseOwnTurns with keepMarks, a stand-in.
Shutdown(p) ==
    /\ up[p] = "up" /\ op[p] = NoOp
    /\ up' = [up EXCEPT ![p] = "closing"]
    /\ row' = EndIfMarked(own[p], "interrupted", own[p])
    /\ UNCHANGED <<inc, own, turn, turnCopy, copy, op, naming, turnsNo, renames>>

\* Mutant of CloseStore: the last release is forgotten.
CloseStoreOnly(p) ==
    /\ up[p] = "closing" /\ op[p] = NoOp
    /\ up' = [up EXCEPT ![p] = "down"]
    /\ Forget(p)
    /\ UNCHANGED <<row, inc, turnsNo, renames>>

\* End of shutdown(): releaseOwnTurns, close, and the process exits.
CloseStore(p) ==
    /\ up[p] = "closing" /\ op[p] = NoOp
    /\ up' = [up EXCEPT ![p] = "down"]
    /\ row' = EndIfMarked(own[p], "interrupted", NoMark)
    /\ Forget(p)
    /\ UNCHANGED <<inc, turnsNo, renames>>

-----------------------------------------------------------------------------
\* executeTurn: read the session and, in the same run, beginTurn().  Only an
\* existing row is marked, and a mark that cannot be written does not stop
\* the turn.  A turn on a missing row runs on the caller's copy.
BeginTurn(p, marked) ==
    LET m == [pid |-> p, inc |-> inc[p], at |-> turnsNo + 1] IN
    /\ Ready(p) /\ ~turn[p]
    /\ row.exists \/ copy[p] # NoCopy
    /\ marked => row.exists
    /\ turnsNo < MaxTurns
    /\ turnsNo' = turnsNo + 1
    /\ turn' = [turn EXCEPT ![p] = TRUE]
    /\ turnCopy' = [turnCopy EXCEPT ![p] = IF row.exists THEN row.state ELSE copy[p]]
    /\ row' = IF marked
              THEN [row EXCEPT !.state.status = "running", !.owner = m]
              ELSE row
    /\ own' = IF marked THEN [own EXCEPT ![p] = m] ELSE own
    /\ UNCHANGED <<up, inc, copy, op, naming, renames>>

\* finishTurn(), first statement.
FinishTurn(p) ==
    /\ Ready(p) /\ turn[p]
    /\ BeginWrite(p, "finish", [turnCopy[p] EXCEPT !.status = "ended"])
    /\ UNCHANGED <<row, up, inc, own, turn, turnCopy, copy, naming, turnsNo, renames>>

\* releaseThrownTurn: the turn, or its save, threw; one guarded statement.
ReleaseTurn(p) ==
    /\ Ready(p) /\ turn[p]
    /\ row' = EndIfMarked(own[p], "ended", NoMark)
    /\ own' = [own EXCEPT ![p] = NoMark]
    /\ EndBody(p)
    /\ UNCHANGED <<up, inc, copy, op, naming, turnsNo, renames>>

\* Both the save and the release failed (a lock held too long): the turn is
\* over, and the mark stays this store's until shutdown.
ReleaseTurnFails(p) ==
    /\ Ready(p) /\ turn[p]
    /\ EndBody(p)
    /\ UNCHANGED <<row, up, inc, own, copy, op, naming, turnsNo, renames>>

\* load(): a host takes a copy it will save some time later.
Load(p) ==
    /\ Ready(p)
    /\ row.exists
    /\ copy' = [copy EXCEPT ![p] = row.state]
    /\ UNCHANGED <<row, up, inc, own, turn, turnCopy, op, naming, turnsNo, renames>>

\* save() of that copy.
Save(p) ==
    /\ Ready(p)
    /\ copy[p] # NoCopy
    /\ BeginWrite(p, "save", copy[p])
    /\ UNCHANGED <<row, up, inc, own, turn, turnCopy, copy, naming, turnsNo, renames>>

\* renameSession(): re-read, stamp, save.  The re-read and the read of
\* write() follow each other and are one step here.
Rename(p) ==
    /\ Ready(p)
    /\ row.exists
    /\ renames < MaxRenames
    /\ renames' = renames + 1
    /\ BeginWrite(p, "save",
                  [row.state EXCEPT !.title = "user", !.userAt = renames + 1])
    /\ UNCHANGED <<row, up, inc, own, turn, turnCopy, copy, naming, turnsNo>>

\* nameSession(): the generated title arrives.  Re-read, or take the state the
\* turn ended with when the row is gone; the first name wins.
NameSession(p) ==
    LET current == IF row.exists THEN row.state ELSE [NoState EXCEPT !.status = "ended"] IN
    /\ Ready(p) /\ up[p] = "up"
    /\ naming[p]
    /\ naming' = [naming EXCEPT ![p] = FALSE]
    /\ IF current.title = "none"
       THEN BeginWrite(p, "save", [current EXCEPT !.title = "auto"])
       ELSE UNCHANGED op
    /\ UNCHANGED <<row, up, inc, own, turn, turnCopy, copy, turnsNo, renames>>

\* Second statement of write().  An UPDATE of a row that is gone changes
\* nothing; an INSERT over a row that has appeared fails (WriteFails).
CommitWrite(p) ==
    LET o == op[p]
        finishes == o.kind = "finish"
    IN
    /\ o # NoOp
    /\ o.existed \/ ~row.exists
    /\ row' = IF o.existed /\ ~row.exists THEN row
              ELSE [exists |-> TRUE, state |-> Written(o),
                    owner |-> IF finishes \/ ~o.existed THEN NoMark ELSE row.owner]
    /\ op' = [op EXCEPT ![p] = NoOp]
    /\ own' = IF finishes THEN [own EXCEPT ![p] = NoMark] ELSE own
    /\ IF finishes THEN EndBody(p) ELSE UNCHANGED <<turn, turnCopy>>
    /\ naming' = IF finishes /\ o.next.title = "none"
                 THEN [naming EXCEPT ![p] = TRUE] ELSE naming
    /\ UNCHANGED <<up, inc, copy, turnsNo, renames>>

\* The second statement fails: busy timeout, full disk, row already there.
\* A finishTurn that failed goes on to ReleaseTurn.
WriteFails(p) ==
    /\ op[p] # NoOp
    /\ op' = [op EXCEPT ![p] = NoOp]
    /\ UNCHANGED <<row, up, inc, own, turn, turnCopy, copy, naming, turnsNo, renames>>

\* delete().
Delete(p) ==
    /\ Ready(p)
    /\ row.exists
    /\ row' = [exists |-> FALSE, state |-> NoState, owner |-> NoMark]
    /\ UNCHANGED <<up, inc, own, turn, turnCopy, copy, op, naming, turnsNo, renames>>

Next ==
    \E p \in Proc :
        \/ Boot(p) \/ Crash(p) \/ Shutdown(p) \/ CloseStore(p)
        \/ \E marked \in BOOLEAN : BeginTurn(p, marked)
        \/ FinishTurn(p) \/ ReleaseTurn(p) \/ ReleaseTurnFails(p)
        \/ Load(p) \/ Save(p) \/ Rename(p) \/ NameSession(p)
        \/ CommitWrite(p) \/ WriteFails(p) \/ Delete(p)

Spec == Init /\ [][Next]_vars

-----------------------------------------------------------------------------
\* The process that wrote mark m is still the one it names.
Alive(m) == m # NoMark /\ up[m.pid] # "down" /\ inc[m.pid] = m.inc

\* A boot sweep ends exactly the abandoned turns.  The turn of a process that
\* is alive, a second window or a `serve` beside a TUI, is left alone; and no
\* row that says `running` is left to a process that is gone, as far as the
\* probe can tell a reused pid.
SweepIsExact ==
    [][\A p \in Proc : Boot(p) /\ row.exists =>
        /\ Alive(row.owner) => row' = row
        /\ row'.state.status \in Live => Alive(row.owner) \/ ~StartTimeKnown]_vars

\* A shutdown that ran to its end leaves no mark of that process behind.
CleanExit ==
    [][\A p \in Proc :
        CloseStore(p) /\ row'.exists /\ row'.owner.pid = p
            => row'.owner.inc # inc[p]]_vars

\* The row changed between the two statements of a write: no transaction
\* holds them together, so a write of another process may come between.
TornWrite(p) ==
    /\ CommitWrite(p)
    /\ \/ op[p].stored # row.state \/ op[p].existed # row.exists
       \/ op[p].marked # (row.owner # NoMark)

RunningIsMarked ==
    row.exists /\ row.state.status \in Live => row.owner # NoMark

MarkedRowSaysRunning ==
    row.exists /\ Alive(row.owner) /\ up[row.owner.pid] = "up"
        => row.state.status = "running"

\* statusForSave(), beginTurn(), finishTurn() and the releases: a live status
\* and a mark come and go together, so that what says `running` is always
\* taken off again, and while a turn runs (and no shutdown has begun) its row
\* says so whatever stale copy is saved meanwhile.  The one step that can
\* break it is a torn write.
StatusAgreesWithMark ==
    [][/\ RunningIsMarked => RunningIsMarked' \/ \E p \in Proc : TornWrite(p)
       /\ MarkedRowSaysRunning => MarkedRowSaysRunning' \/ \E p \in Proc : TornWrite(p)]_vars

\* write(): a rename is never undone by a copy read before it, again unless
\* the row changes between the two statements.
OperatorTitleSticks ==
    [][row.exists /\ row'.exists /\ row'.state.userAt < row.state.userAt
        => \E p \in Proc : TornWrite(p)]_vars
=============================================================================
