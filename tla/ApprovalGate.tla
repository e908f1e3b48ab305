---------------------------- MODULE ApprovalGate ----------------------------
(***************************************************************************)
(* src/src/approval/approval-gate.ts with approval-level.ts and            *)
(* fanout-scope.ts: who may run a dangerous call.  One gate serves every   *)
(* session of the process.  A call is refused when the user declined it    *)
(* earlier in the turn, runs unasked when the level or a grant of its      *)
(* session allows it, and otherwise waits for an answer that may come from *)
(* any surface, or never.                                                  *)
(*                                                                         *)
(* Every method runs to its end on the event loop, so each is one step.    *)
(* A call of a tool is a member of Req and asks once; two members with one *)
(* `key` are the same call repeated.  All files lie in the one directory   *)
(* that a fan-out of workers is asked about.                               *)
(***************************************************************************)
EXTENDS Naturals, FiniteSets

CONSTANTS Session,   \* sessions a person talks to
          Worker,    \* sessions of fusion workers
          Req,       \* calls that need an approval
          Call,      \* what each of them would do
          Levels     \* the approval levels the operator switches between

AnySession == Session \cup Worker

NoFile == "no file"
NoShape == "no shape"
NoParent == "no parent"

\* AUTO_APPROVE_FROM_LEVEL and GRANTABLE_CATEGORY, one category per rung and
\* answer: the others behave like one of these.
AutoApproveFrom ==
    [fs_write_workspace |-> 2, fs_trash |-> 3, shell |-> 4, fusion_fanout |-> 4,
     trust_config |-> 5]
Grantable ==
    [fs_write_workspace |-> TRUE, fs_trash |-> TRUE, shell |-> TRUE,
     fusion_fanout |-> FALSE, trust_config |-> FALSE]
Category == DOMAIN AutoApproveFrom

ASSUME SessionsDiffer == Session \cap Worker = {} /\ NoParent \notin AnySession
ASSUME LevelsType == Levels \subseteq 1..5 /\ Levels # {}
ASSUME CallType ==
    /\ DOMAIN Call = Req
    /\ \A r \in Req :
          /\ Call[r].session \in AnySession
          /\ Call[r].category \in Category
          /\ Call[r].category = "fusion_fanout" => Call[r].session \in Session
\* callKey() holds the tool, the category and the target paths.
ASSUME KeyIsTheCall ==
    \A q, r \in Req : Call[q].key = Call[r].key =>
        /\ Call[q].tool = Call[r].tool
        /\ Call[q].category = Call[r].category
        /\ Call[q].file = Call[r].file

VARIABLES
    level,      \* the standing approval level
    outcome,    \* what became of each call
    grants,     \* grantsBySession: categories and shapes
    calls,      \* declinedBySession: the keys of the declined calls
    targets,    \* declinedBySession: file -> tool, as a set of pairs
    parent,     \* declinedParentBySession
    refuses,    \* sessions with a refuse policy
    scope,      \* workers that hold the directory of their fan-out
    turnScope,  \* sessions whose turn has a standing yes to fan-outs
    turn,       \* the turn of each session
    asks,       \* fan-outs: a person is asked while a file is declined; done
    noCalls,    \* history: calls a person declined in this turn
    noFiles     \* history: those whose file is still declined

gateVars == <<level, outcome, grants, calls, targets, parent, refuses, scope,
              turnScope, turn, asks, noCalls, noFiles>>

\* "approved" by an answer, "auto" by the level or a grant, "allowed" by the
\* scope of a fan-out without asking the gate.  "denied" is a bare Deny, "told"
\* a denial with a person's words, "dropped" an automatic one, "repeat" a call
\* declined earlier in the turn, "refused" one stopped by the session's policy.
Runs == {"approved", "auto", "allowed"}
Answered == {"approved", "denied", "told", "dropped"}
Outcome == {"new", "pending", "repeat", "refused", "aborted"} \cup Runs \cup Answered

Tools == {Call[r].tool : r \in Req}
Files == {Call[r].file : r \in Req} \ {NoFile}
Shapes == {Call[r].shape : r \in Req} \ {NoShape}

\* The type of the gate's state.
GateTypeOK ==
    /\ level \in Levels
    /\ outcome \in [Req -> Outcome]
    /\ grants \in [AnySession -> SUBSET (Category \cup Shapes)]
    /\ calls \in [AnySession -> SUBSET {Call[r].key : r \in Req}]
    /\ targets \in [AnySession -> SUBSET (Files \X Tools)]
    /\ parent \in [Worker -> Session \cup {NoParent}]
    /\ refuses \subseteq Worker /\ scope \subseteq Worker
    /\ turnScope \subseteq Session
    /\ turn \in [AnySession -> {"idle", "running", "aborted"}]
    /\ asks \in [Req -> {"no", "yes", "done"}]
    /\ noCalls \subseteq Req /\ noFiles \subseteq noCalls

GateInit ==
    /\ level \in Levels
    /\ outcome = [r \in Req |-> "new"]
    /\ grants = [s \in AnySession |-> {}]
    /\ calls = [s \in AnySession |-> {}]
    /\ targets = [s \in AnySession |-> {}]
    /\ parent = [w \in Worker |-> NoParent]
    /\ refuses = {} /\ scope = {} /\ turnScope = {}
    /\ turn = [s \in AnySession |-> "idle"]
    /\ asks = [r \in Req |-> "no"]
    /\ noCalls = {} /\ noFiles = {}

-----------------------------------------------------------------------------
(* What the gate answers to a call. *)

\* declinedRecords(): the session's own record and that of its parent.
DeclinedRecords(s) ==
    {s} \cup (IF s \in Worker /\ parent[s] # NoParent THEN {parent[s]} ELSE {})

\* declinedTarget(): a shell command on a declined file, or the tool that was
\* declined on it.
DeclinedTarget(r) ==
    \E s \in DeclinedRecords(Call[r].session) : \E t \in targets[s] :
        /\ t[1] = Call[r].file
        /\ Call[r].category = "shell" \/ t[2] = Call[r].tool

DeclinedInTurn(r) ==
    \/ \E s \in DeclinedRecords(Call[r].session) : Call[r].key \in calls[s]
    \/ DeclinedTarget(r)

AutoApproval(r) ==
    \/ level >= AutoApproveFrom[Call[r].category]
    \/ /\ Grantable[Call[r].category]
       /\ \/ Call[r].category \in grants[Call[r].session]
          \/ /\ Call[r].category = "shell"
             /\ Call[r].shape \in grants[Call[r].session]

\* requireFsApproval() and the shell tool: inside the scope of its fan-out a
\* worker's call runs without the gate, unless it hits a declined file.
ScopedByFanout(r) ==
    /\ Call[r].session \in scope
    /\ Call[r].category \in {"fs_write_workspace", "fs_trash", "shell"}
    /\ ~DeclinedTarget(r)

\* hasDeclinedUnder()
DeclinedUnder(s) == targets[s] # {}

\* fusion.delegate: the standing yes of the turn covers this fan-out.
AlreadyApproved(r) ==
    /\ Call[r].category = "fusion_fanout"
    /\ Call[r].session \in turnScope
    /\ ~DeclinedUnder(Call[r].session)

\* Mutant of Verdict: the standing level is looked at before the user's own no.
VerdictLevelFirst(r) ==
    IF ScopedByFanout(r) \/ AlreadyApproved(r) THEN "allowed"
    ELSE IF AutoApproval(r) THEN "auto"
    ELSE IF DeclinedInTurn(r) THEN "repeat"
    ELSE IF Call[r].session \in refuses THEN "refused"
    ELSE IF turn[Call[r].session] = "aborted" THEN "aborted"
    ELSE "pending"

\* What becomes of a call: the checks of requireApproval() and request(), in
\* the order of their early returns.
Verdict(r) ==
    IF ScopedByFanout(r) \/ AlreadyApproved(r) THEN "allowed"
    ELSE IF DeclinedInTurn(r) THEN "repeat"
    ELSE IF AutoApproval(r) THEN "auto"
    ELSE IF Call[r].session \in refuses THEN "refused"
    ELSE IF turn[Call[r].session] = "aborted" THEN "aborted"
    ELSE "pending"

PendingOf(s) == {r \in Req : outcome[r] = "pending" /\ Call[r].session = s}

-----------------------------------------------------------------------------
(* The operations of the gate. *)

\* A tool asks.  A fan-out remembers whether a person is asked about it while
\* a file of its directory is declined (asksPerson).
Request(r) ==
    /\ outcome[r] = "new"
    /\ turn[Call[r].session] # "idle"
    /\ outcome' = [outcome EXCEPT ![r] = Verdict(r)]
    /\ asks' = IF /\ Call[r].category = "fusion_fanout"
                  /\ DeclinedUnder(Call[r].session)
                  /\ ~AutoApproval(r)
               THEN [asks EXCEPT ![r] = "yes"] ELSE asks
    /\ UNCHANGED <<level, grants, calls, targets, parent, refuses, scope,
                   turnScope, turn, noCalls, noFiles>>

\* recordGrant(): the scope comes from the surface, the value from the request.
Granted(r, scopeOf) ==
    IF ~Grantable[Call[r].category] THEN {}
    ELSE CASE scopeOf = "category" -> {Call[r].category}
           [] scopeOf = "shape" -> IF Call[r].category = "shell"
                                   THEN {Call[r].shape} \ {NoShape} ELSE {}
           [] scopeOf = "none" -> {}

\* recordDeclined(): one tool per file, and none for a shell command.
DeclinedTargets(r) ==
    LET old == targets[Call[r].session]
    IN  IF Call[r].category = "shell" \/ Call[r].file = NoFile THEN old
        ELSE {t \in old : t[1] # Call[r].file} \cup {<<Call[r].file, Call[r].tool>>}

\* resolve(): the first answer to a pending request counts.  A bare Deny, and
\* nothing else, is remembered for the rest of the turn.
Resolve(r, o, scopeOf) ==
    LET s == Call[r].session IN
    /\ outcome[r] = "pending"
    /\ outcome' = [outcome EXCEPT ![r] = o]
    /\ grants' = IF o = "approved" THEN [grants EXCEPT ![s] = @ \cup Granted(r, scopeOf)]
                 ELSE grants
    /\ IF o = "denied"
       THEN /\ calls' = [calls EXCEPT ![s] = @ \cup {Call[r].key}]
            /\ targets' = [targets EXCEPT ![s] = DeclinedTargets(r)]
            /\ noCalls' = noCalls \cup {r}
            /\ noFiles' = IF Call[r].category = "shell" \/ Call[r].file = NoFile
                          THEN noFiles ELSE noFiles \cup {r}
       ELSE UNCHANGED <<calls, targets, noCalls, noFiles>>
    /\ UNCHANGED <<level, parent, refuses, scope, turnScope, turn, asks>>

\* A person answers at the terminal, in the app or over HTTP.
AnswerAtHost(r) ==
    \/ \E scopeOf \in {"none", "category", "shape"} : Resolve(r, "approved", scopeOf)
    \/ \E o \in {"denied", "told"} : Resolve(r, o, "none")

\* The abort signal of turns and of the workers they wait for: onAbort().
AbortTurns(S) ==
    LET gone == S \cup {w \in Worker : parent[w] \in S} IN
    /\ turn' = [x \in AnySession |->
                  IF x \in gone /\ turn[x] = "running" THEN "aborted" ELSE turn[x]]
    /\ outcome' = [r \in Req |-> IF \E x \in gone : r \in PendingOf(x)
                                 THEN "aborted" ELSE outcome[r]]
    /\ UNCHANGED <<level, grants, calls, targets, parent, refuses, scope,
                   turnScope, asks, noCalls, noFiles>>

Abort(s) == turn[s] = "running" /\ AbortTurns({s})

SetLevel(l) ==
    /\ l # level
    /\ level' = l
    /\ UNCHANGED <<outcome, grants, calls, targets, parent, refuses, scope,
                   turnScope, turn, asks, noCalls, noFiles>>

\* Mutant of Forgotten: the declined files of the last turn are kept.
ForgottenCalls(s) == [calls |-> [calls EXCEPT ![s] = {}], targets |-> targets]

\* clearSessionGrants() and forgetDeclined().  The history drops what the user
\* declined at the same places, whatever the code forgets.
Forgotten(s) == [calls |-> [calls EXCEPT ![s] = {}], targets |-> [targets EXCEPT ![s] = {}]]

ForgottenHere(s) ==
    /\ noCalls' = {r \in noCalls : Call[r].session # s}
    /\ noFiles' = {r \in noFiles : Call[r].session # s}

-----------------------------------------------------------------------------
(* The turns that ask. *)

\* AgentLoop.runTurn(): what the last turn's user declined is forgotten, and so
\* is the standing yes to fan-outs.
StartTurn(s) ==
    /\ turn[s] = "idle"
    /\ turn' = [turn EXCEPT ![s] = "running"]
    /\ calls' = Forgotten(s).calls /\ targets' = Forgotten(s).targets
    /\ ForgottenHere(s)
    /\ turnScope' = turnScope \ {s}
    /\ UNCHANGED <<level, outcome, grants, parent, refuses, scope, asks>>

\* The user steers the running turn between two steps: a new answer.
Steer(s) ==
    /\ turn[s] = "running"
    /\ PendingOf(s) = {} /\ \A w \in Worker : parent[w] # s
    /\ calls' = Forgotten(s).calls /\ targets' = Forgotten(s).targets
    /\ ForgottenHere(s)
    /\ UNCHANGED <<level, outcome, grants, parent, refuses, scope, turnScope, turn, asks>>

\* A turn ends when every call of it is settled.  The one the operator had left
\* in the background drops its grants now (runOneTurn's finally block).
EndTurn(s) ==
    /\ turn[s] # "idle"
    /\ PendingOf(s) = {} /\ \A w \in Worker : parent[w] # s
    /\ turn' = [turn EXCEPT ![s] = "idle"]
    /\ asks' = [r \in Req |-> IF /\ Call[r].session = s /\ outcome[r] \in Runs
                                 /\ Call[r].category = "fusion_fanout"
                              THEN "done" ELSE asks[r]]
    /\ \/ UNCHANGED <<grants, calls, targets, noCalls, noFiles>>
       \/ /\ grants' = [grants EXCEPT ![s] = {}]
          /\ calls' = Forgotten(s).calls /\ targets' = Forgotten(s).targets
          /\ ForgottenHere(s)
    /\ UNCHANGED <<level, outcome, parent, refuses, scope, turnScope>>

\* leaveCurrentSession(): the operator turns to another session.  What waits
\* for an answer is denied automatically; the grants and declines go too, unless
\* the terminal's own turn goes on in the background.
LeaveSession(s) ==
    /\ outcome' = [r \in Req |-> IF r \in PendingOf(s) THEN "dropped" ELSE outcome[r]]
    /\ \/ turn[s] # "idle" /\ UNCHANGED <<grants, calls, targets, noCalls, noFiles>>
       \/ /\ grants' = [grants EXCEPT ![s] = {}]
          /\ calls' = Forgotten(s).calls /\ targets' = Forgotten(s).targets
          /\ ForgottenHere(s)
    /\ UNCHANGED <<level, parent, refuses, scope, turnScope, turn, asks>>

\* forgetDeclinedUnder(): the yes of a person who was asked about the fan-out
\* after declining a file.  The declined calls stay.
ForgetDeclinedUnder(r) ==
    LET s == Call[r].session
    IN  IF asks[r] = "yes" THEN [targets EXCEPT ![s] = {}] ELSE targets

\* fusion.delegate goes on once its fan-out may run, and a worker starts: its
\* prompts are refused, it writes in the directory unasked, and it is held to
\* what the user declined on the parent.
FanOut(r, w) ==
    LET s == Call[r].session IN
    /\ Call[r].category = "fusion_fanout" /\ outcome[r] \in Runs
    /\ turn[s] = "running" /\ turn[w] = "idle" /\ parent[w] = NoParent
    /\ targets' = ForgetDeclinedUnder(r)
    /\ asks[r] # "done" /\ asks' = [asks EXCEPT ![r] = "done"]
    /\ noFiles' = IF asks[r] = "yes" /\ outcome[r] = "approved"
                  THEN {q \in noFiles : Call[q].session # s} ELSE noFiles
    /\ turnScope' = turnScope \cup {s}
    /\ turn' = [turn EXCEPT ![w] = "running"]
    /\ refuses' = refuses \cup {w}
    /\ scope' = scope \cup {w}
    /\ parent' = [parent EXCEPT ![w] = s]
    /\ UNCHANGED <<level, outcome, grants, calls, noCalls>>

\* The finally block of a worker's run.
FinishWorker(w) ==
    /\ parent[w] # NoParent
    /\ turn' = [turn EXCEPT ![w] = "idle"]
    /\ refuses' = refuses \ {w}
    /\ scope' = scope \ {w}
    /\ parent' = [parent EXCEPT ![w] = NoParent]
    /\ grants' = [grants EXCEPT ![w] = {}]
    /\ calls' = Forgotten(w).calls /\ targets' = Forgotten(w).targets
    /\ ForgottenHere(w)
    /\ UNCHANGED <<level, outcome, turnScope, asks>>

\* The steps that no other surface than the host has a part in.
HostStep ==
    \/ \E r \in Req : AnswerAtHost(r)
    \/ \E r \in Req, w \in Worker : FanOut(r, w)
    \/ \E w \in Worker : FinishWorker(w)
    \/ \E s \in Session : Abort(s) \/ Steer(s) \/ LeaveSession(s)
    \/ \E l \in Levels : SetLevel(l)

GateNext ==
    \/ \E r \in Req : Request(r)
    \/ \E s \in Session : StartTurn(s) \/ EndTurn(s)
    \/ HostStep

GateSpec == GateInit /\ [][GateNext]_gateVars

-----------------------------------------------------------------------------
(* What the gate promises. *)

\* The noes that bind a call: those of its session's turn and, for a worker, of
\* the turn it works for.
Binds(q, r) ==
    LET s == Call[r].session
    IN  Call[q].session = s \/ (s \in Worker /\ parent[s] = Call[q].session)

\* No to the same file by another route: a shell command, or the same tool.  A
\* later no to another tool on the file takes the place of the earlier one.
SameFile(q, r) ==
    /\ Call[q].file = Call[r].file
    /\ \/ Call[r].category = "shell"
       \/ /\ Call[q].tool = Call[r].tool
          /\ \A p \in noFiles : Call[p].file = Call[q].file => Call[p].tool = Call[q].tool

\* The user said no to this very call, or to the file it is about.
DeclinedCall(r) == \E q \in noCalls : Binds(q, r) /\ Call[q].key = Call[r].key
DeclinedFile(r) == \E q \in noFiles : Binds(q, r) /\ SameFile(q, r)

\* The call of a worker that holds the directory of its fan-out, or a fan-out
\* of a turn with a standing yes: neither comes to the gate.
InFanout(r) ==
    \/ Call[r].session \in scope
    \/ Call[r].category = "fusion_fanout" /\ Call[r].session \in turnScope

\* declinedInTurn, hasDeclinedTarget, forgetDeclinedUnder.  A file the user
\* declined in this turn is closed to every call that would run unasked, the
\* calls of workers too, whatever the level and the grants are by then, until a
\* person says yes who was asked knowing of the no.  A declined call is closed
\* in the same way to all but the calls of a fan-out: those are held to the
\* declined files alone.
NoStands ==
    [][\A r \in Req : outcome[r] = "new" /\ outcome'[r] \in {"auto", "allowed"} =>
          /\ ~DeclinedFile(r)
          /\ DeclinedCall(r) => outcome'[r] = "allowed" /\ InFanout(r)]_gateVars

\* A call is refused as declined earlier only over a no of the turn that is
\* running: what was said in the last turn, or before the user steered, does
\* not count any more (forgetDeclined, clearSessionGrants).
RefusalHasANo ==
    [][\A r \in Req : outcome[r] = "new" /\ outcome'[r] = "repeat" =>
          \E q \in noCalls : /\ Binds(q, r)
                             /\ \/ Call[q].key = Call[r].key
                                \/ q \in noFiles /\ Call[q].file = Call[r].file]_gateVars
=============================================================================
