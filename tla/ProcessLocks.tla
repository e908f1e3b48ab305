----------------------------- MODULE ProcessLocks -----------------------------
(***************************************************************************)
(* The lock files of processes that share one state dir: telegram.lock     *)
(* (src/src/channels/telegram/telegram-lockfile.ts; the Discord lock is    *)
(* the same code), which decides who polls the bot, and scheduler.lock     *)
(* (src/src/scheduler/scheduler-leadership.ts), which decides who runs     *)
(* due tasks.  Each call is synchronous in its process, but a step here is *)
(* one file operation: writeFileSync opens (and truncates) the file before *)
(* it writes, and reads and unlinks are apart.                             *)
(*                                                                         *)
(* A process is its pid and boots once; a pid the system gives to another  *)
(* program, and a state dir that cannot be written, are left out (the code *)
(* documents both: held until deleted by hand, and everyone leads).        *)
(***************************************************************************)
EXTENDS Naturals, FiniteSets

CONSTANTS
    Proc,           \* pids
    Wants,          \* the processes that run the Telegram channel
    MaxStarts,      \* starts of a channel in one process
    NoFile,         \* no lock file
    Empty           \* a lock file without a pid (opened, not written yet)

ASSUME ProcAssumption ==
    Wants \subseteq Proc /\ NoFile \notin Proc /\ Empty \notin Proc /\ NoFile # Empty

VARIABLES
    life,           \* "new", "up", "exiting", "dead"
    file,           \* what each lock file holds
    at,             \* where a process is inside a call, and on which file
    polling,        \* the channel believes it holds telegram.lock
    leading,        \* the scheduler's last answer of isLeader()
    starts          \* channel starts so far

vars == <<life, file, at, polling, leading, starts>>

Files == {"telegram", "scheduler"}
Idle == [pc |-> "idle", on |-> "scheduler", goal |-> "none"]
At(pc, on, goal) == [pc |-> pc, on |-> on, goal |-> goal]
Go(p, pc) == at' = [at EXCEPT ![p].pc = pc]

Init ==
    /\ life = [p \in Proc |-> "new"]
    /\ file = [f \in Files |-> NoFile]
    /\ at = [p \in Proc |-> Idle]
    /\ polling = [p \in Proc |-> FALSE]
    /\ leading = [p \in Proc |-> FALSE]
    /\ starts = [p \in Proc |-> 0]

isAlive(p) == life[p] \in {"up", "exiting"}
Ready(p) == life[p] = "up" /\ at[p].pc = "idle"

\* readHolder(): the pid in the file, if it has one.
Holder(f) == {file[f]} \cap Proc

Boot(p) ==
    /\ life[p] = "new"
    /\ life' = [life EXCEPT ![p] = "up"]
    /\ UNCHANGED <<file, at, polling, leading, starts>>

\* A kill: what the process wrote stays.
Crash(p) ==
    /\ isAlive(p)
    /\ life' = [life EXCEPT ![p] = "dead"]
    /\ at' = [at EXCEPT ![p] = Idle]
    /\ polling' = [polling EXCEPT ![p] = FALSE]
    /\ leading' = [leading EXCEPT ![p] = FALSE]
    /\ starts' = [starts EXCEPT ![p] = 0]
    /\ UNCHANGED file

-----------------------------------------------------------------------------
(* How a call ends.                                                        *)

\* The lock is p's: the channel polls; a tick leads.
Acquired(p) ==
    /\ at' = [at EXCEPT ![p] = Idle]
    /\ polling' = IF at[p].goal = "poll" THEN [polling EXCEPT ![p] = TRUE] ELSE polling
    /\ leading' = IF at[p].goal = "poll" THEN leading ELSE [leading EXCEPT ![p] = TRUE]

\* Somebody else has it.  A channel that failed to start releases (only what
\* is its own); the Telegram owner leads without scheduler.lock.
Refused(p) ==
    /\ at' = [at EXCEPT ![p] = IF @.goal = "poll" THEN At("owner", "telegram", "stop") ELSE Idle]
    /\ leading' = IF at[p].goal = "poll" THEN leading
                  ELSE [leading EXCEPT ![p] = at[p].goal = "lead"]
    /\ UNCHANGED polling

\* release() is over: a process that exits gives up its other lock next.
Released(p) ==
    LET more == at[p].goal = "exit" /\ at[p].on = "scheduler" IN
    /\ at' = [at EXCEPT ![p] = IF more THEN At("owner", "telegram", "exit") ELSE Idle]
    /\ life' = IF at[p].goal = "exit" /\ ~more THEN [life EXCEPT ![p] = "dead"] ELSE life
    /\ leading' = IF at[p].on = "scheduler" THEN [leading EXCEPT ![p] = FALSE] ELSE leading
    /\ polling' = IF at[p].on = "telegram" THEN [polling EXCEPT ![p] = FALSE] ELSE polling

-----------------------------------------------------------------------------
(* The steps of acquire(), holdSchedulerLock() and release().              *)

\* open(..., "wx"): the file is made, still without a pid, or is there.
Create(p) ==
    LET f == at[p].on IN
    /\ at[p].pc = "create"
    /\ IF file[f] = NoFile
       THEN file' = [file EXCEPT ![f] = Empty] /\ Go(p, "fill")
       ELSE UNCHANGED file /\ Go(p, "read")
    /\ UNCHANGED <<life, polling, leading, starts>>

\* The pid is written; "lost" when the open file was unlinked meanwhile.
Fill(p) ==
    /\ at[p].pc \in {"fill", "lost"}
    /\ file' = IF at[p].pc = "fill" THEN [file EXCEPT ![at[p].on] = p] ELSE file
    /\ Acquired(p)
    /\ UNCHANGED <<life, starts>>

\* Mutant of HeldByOther: a process it may not signal counts as dead.
HeldByNobody(p, f) == FALSE

\* Another live process has the lock.
HeldByOther(p, f) == \E q \in Holder(f) : q # p /\ isAlive(q)

\* Who holds it: p itself, another live process, or nobody any more.
ReadHolder(p) ==
    LET f == at[p].on IN
    /\ at[p].pc = "read"
    /\ \/ HeldByOther(p, f) /\ Refused(p)
       \/ ~HeldByOther(p, f) /\ file[f] = p /\ f = "scheduler" /\ Acquired(p)
       \/ ~HeldByOther(p, f) /\ (file[f] = p => f = "telegram")
            /\ Go(p, "seize") /\ UNCHANGED <<polling, leading>>
    /\ UNCHANGED <<life, file, starts>>

\* Take over, the open: the dead holder's pid is truncated away.
Seize(p) ==
    /\ at[p].pc = "seize"
    /\ file' = [file EXCEPT ![at[p].on] = Empty]
    /\ Go(p, "overwrite")
    /\ UNCHANGED <<life, polling, leading, starts>>

\* Take over, the write.  The scheduler looks again; the channel does not.
Overwrite(p) ==
    /\ at[p].pc \in {"overwrite", "lostover"}
    /\ file' = IF at[p].pc = "overwrite" THEN [file EXCEPT ![at[p].on] = p] ELSE file
    /\ IF at[p].on = "telegram" THEN Acquired(p)
       ELSE Go(p, "confirm") /\ UNCHANGED <<polling, leading>>
    /\ UNCHANGED <<life, starts>>

\* The last write wins.
Confirm(p) ==
    /\ at[p].pc = "confirm"
    /\ IF file[at[p].on] = p THEN Acquired(p) ELSE Refused(p)
    /\ UNCHANGED <<life, file, starts>>

\* release(): only the owner removes the file.
OwnerCheck(p) ==
    /\ at[p].pc = "owner"
    /\ IF file[at[p].on] = p
       THEN Go(p, "unlink") /\ UNCHANGED <<life, polling, leading>>
       ELSE Released(p)
    /\ UNCHANGED <<file, starts>>

\* The file goes, whatever it holds by now; a process that has it open
\* writes into nothing.
Unlink(p) ==
    LET f == at[p].on
        Adrift(a) == IF a.on = f /\ a.pc = "fill" THEN [a EXCEPT !.pc = "lost"]
                     ELSE IF a.on = f /\ a.pc = "overwrite" THEN [a EXCEPT !.pc = "lostover"]
                     ELSE a
    IN
    /\ at[p].pc = "unlink"
    /\ file' = [file EXCEPT ![f] = NoFile]
    /\ LET more == at[p].goal = "exit" /\ f = "scheduler" IN
        /\ at' = [q \in Proc |-> IF q # p THEN Adrift(at[q])
                                 ELSE IF more THEN At("owner", "telegram", "exit") ELSE Idle]
        /\ life' = IF at[p].goal = "exit" /\ ~more THEN [life EXCEPT ![p] = "dead"] ELSE life
    /\ leading' = IF f = "scheduler" THEN [leading EXCEPT ![p] = FALSE] ELSE leading
    /\ polling' = IF f = "telegram" THEN [polling EXCEPT ![p] = FALSE] ELSE polling
    /\ UNCHANGED starts

-----------------------------------------------------------------------------
(* The calls.                                                              *)

\* TelegramChannel.start() up to the lock.
StartChannel(p) ==
    /\ Ready(p) /\ p \in Wants /\ ~polling[p] /\ starts[p] < MaxStarts
    /\ starts' = [starts EXCEPT ![p] = @ + 1]
    /\ at' = [at EXCEPT ![p] = At("create", "telegram", "poll")]
    /\ UNCHANGED <<life, file, polling, leading>>

\* The channel stops, or is between two attempts: polling ends, then the
\* lock is given up.
StopChannel(p) ==
    /\ Ready(p) /\ polling[p]
    /\ at' = [at EXCEPT ![p] = At("owner", "telegram", "stop")]
    /\ UNCHANGED <<life, file, polling, leading, starts>>

\* isLeader(), asked on every tick.
Tick(p) ==
    /\ Ready(p)
    /\ at' = [at EXCEPT ![p] = IF p \in Wants THEN At("look", "telegram", "tick")
                               ELSE At("create", "scheduler", "tick")]
    /\ UNCHANGED <<life, file, polling, leading, starts>>

\* Mutant of LiveOwners: a dead owner of telegram.lock counts as well.
LiveOwnersAll == Holder("telegram")

\* liveHolder(telegramLock)
LiveOwners == {q \in Holder("telegram") : isAlive(q)}

\* The Telegram owner leads and takes scheduler.lock if it can; another
\* process that wants Telegram gives it up; without an owner it decides.
Look(p) ==
    /\ at[p].pc = "look"
    /\ at' = [at EXCEPT ![p] =
                CASE p \in LiveOwners -> At("create", "scheduler", "lead")
                  [] LiveOwners \ {p} # {} -> At("owner", "scheduler", "standby")
                  [] OTHER -> At("create", "scheduler", "tick")]
    /\ UNCHANGED <<life, file, polling, leading, starts>>

\* Shutdown: no further tick, both locks are released.
Exit(p) ==
    /\ Ready(p)
    /\ life' = [life EXCEPT ![p] = "exiting"]
    /\ at' = [at EXCEPT ![p] = At("owner", "scheduler", "exit")]
    /\ starts' = [starts EXCEPT ![p] = 0]
    /\ UNCHANGED <<file, polling, leading>>

Step(p) ==
    \/ Create(p) \/ Fill(p) \/ ReadHolder(p) \/ Seize(p) \/ Overwrite(p) \/ Confirm(p)
    \/ OwnerCheck(p) \/ Unlink(p) \/ Look(p)

Next ==
    \E p \in Proc :
        \/ Boot(p) \/ Crash(p) \/ StartChannel(p) \/ StopChannel(p)
        \/ Tick(p) \/ Exit(p) \/ Step(p)

\* A call that was entered returns, and the scheduler's interval keeps
\* ticking between the other calls of its process.
Spec ==
    /\ Init /\ [][Next]_vars
    /\ \A p \in Proc : WF_vars(Step(p)) /\ SF_vars(Tick(p))

-----------------------------------------------------------------------------
\* The shape of the state; only a live process is inside a call, polls or
\* leads, and a process reads the Telegram lock only if it wants Telegram.
TypeOK ==
    /\ life \in [Proc -> {"new", "up", "exiting", "dead"}]
    /\ file \in [Files -> Proc \cup {NoFile, Empty}]
    /\ \A p \in Proc :
        /\ at[p].pc \in {"idle", "create", "fill", "lost", "read", "seize", "overwrite",
                         "lostover", "confirm", "owner", "unlink", "look"}
        /\ polling[p] => isAlive(p) /\ p \in Wants
        /\ leading[p] => isAlive(p)
        /\ at[p].pc # "idle" => isAlive(p)

\* Calls stop colliding: ticks are seconds apart, a call takes microseconds.
Quiet == Cardinality({p \in Proc : at[p].pc # "idle"}) <= 1

\* Due tasks do not stop being run: as long as some process stays up, ever
\* again one of those that are up leads, whatever crashes, take-overs and
\* hand-overs left in the two lock files and whoever stands by for whom.
\* (Calls that truncate each other's file for ever are excluded.)
SomeoneLeads ==
    <>[]Quiet /\ <>[](\E p \in Proc : life[p] = "up") => []<>(\E p \in Proc : leading[p])

\* Two leaders are a passing state of a hand-over: of two processes that go
\* by the same lock, one stands by again, also when both took a dead
\* holder's file at once.
OverlapEnds ==
    <>[]Quiet => \A p, q \in Wants : p # q => []<>(~leading[p] \/ ~leading[q])
===============================================================================
