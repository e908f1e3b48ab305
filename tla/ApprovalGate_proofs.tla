------------------------- MODULE ApprovalGate_proofs -------------------------
(***************************************************************************)
(* Proofs about ApprovalGate for any sessions, workers, calls and levels.  *)
(* The gate keeps keys and pairs of a file and a tool; a reader cares      *)
(* about the noes a person said.  The inductive invariant says that the    *)
(* two are the same thing: every no that counts is in the gate's records,  *)
(* and every record stands for such a no.  The fan-out that lifts the noes *)
(* of a directory must have been asked about, so the invariant also says   *)
(* that a fan-out which asks a person never got by without one.            *)
(***************************************************************************)
EXTENDS ApprovalGate, TLAPS

Keys == {Call[r].key : r \in Req}

\* What a person declined is in the record of that person's session, and a
\* record has somebody's no behind it.
CallsAreNoes ==
    /\ \A q \in noCalls : Call[q].key \in calls[Call[q].session]
    /\ \A s \in AnySession : \A k \in calls[s] :
          \E q \in noCalls : Call[q].session = s /\ Call[q].key = k

TargetsAreNoes ==
    /\ \A q \in noFiles : \E t \in targets[Call[q].session] : t[1] = Call[q].file
    /\ \A s \in AnySession : \A t \in targets[s] :
          \E q \in noFiles : /\ Call[q].session = s
                             /\ Call[q].file = t[1] /\ Call[q].tool = t[2]

\* The declined calls and files, with their types.
Recorded ==
    /\ calls \in [AnySession -> SUBSET Keys]
    /\ targets \in [AnySession -> SUBSET (Files \X Tools)]
    /\ noCalls \subseteq Req /\ noFiles \subseteq noCalls
    /\ CallsAreNoes /\ TargetsAreNoes

\* A fan-out that is asked about while a file is declined runs by an answer.
Asked ==
    /\ outcome \in [Req -> Outcome]
    /\ asks \in [Req -> {"no", "yes", "done"}]
    /\ \A r \in Req : asks[r] = "yes" =>
          Call[r].category = "fusion_fanout" /\ outcome[r] \notin {"new", "auto", "allowed"}

\* The rest of the types.
Around ==
    /\ level \in Levels
    /\ grants \in [AnySession -> SUBSET (Category \cup Shapes)]
    /\ parent \in [Worker -> Session \cup {NoParent}]
    /\ refuses \subseteq Worker /\ scope \subseteq Worker
    /\ turnScope \subseteq Session
    /\ turn \in [AnySession -> {"idle", "running", "aborted"}]

GateInv == Recorded /\ Asked /\ Around

LEMMA GateInvTypes == GateInv => GateTypeOK
BY DEF GateInv, Recorded, Asked, Around, GateTypeOK, Keys

LEMMA CallFacts ==
    ASSUME NEW r \in Req
    PROVE  /\ Call[r].session \in AnySession /\ Call[r].category \in Category
           /\ Call[r].category = "fusion_fanout" => Call[r].session \in Session
BY CallType

LEMMA GateInitInv == GateInit => GateInv
<1> SUFFICES ASSUME GateInit PROVE GateInv
    OBVIOUS
<1>1. Recorded
    BY DEF GateInit, Recorded, CallsAreNoes, TargetsAreNoes
<1>2. Asked
    BY DEF GateInit, Asked, Outcome
<1>3. Around
    BY DEF GateInit, Around
<1> QED BY <1>1, <1>2, <1>3 DEF GateInv

-----------------------------------------------------------------------------
(* The records. *)

LEMMA RecordedStays ==
    ASSUME Recorded, UNCHANGED <<calls, targets, noCalls, noFiles>>
    PROVE  Recorded'
BY DEF Recorded, CallsAreNoes, TargetsAreNoes

\* forgetDeclined(), clearSessionGrants(): records and noes of a session go
\* together.
LEMMA RecordedForgets ==
    ASSUME Recorded, NEW s \in AnySession,
           calls' = Forgotten(s).calls, targets' = Forgotten(s).targets, ForgottenHere(s)
    PROVE  Recorded'
<1>1. /\ calls' = [calls EXCEPT ![s] = {}]
      /\ targets' = [targets EXCEPT ![s] = {}]
    BY DEF Forgotten
<1>2. /\ noCalls' = {r \in noCalls : Call[r].session # s}
      /\ noFiles' = {r \in noFiles : Call[r].session # s}
    BY DEF ForgottenHere
<1>3. /\ calls' \in [AnySession -> SUBSET Keys]
      /\ targets' \in [AnySession -> SUBSET (Files \X Tools)]
    BY <1>1 DEF Recorded
<1>4. CallsAreNoes'
    <2>1. ASSUME NEW q \in noCalls' PROVE Call[q].key \in calls'[Call[q].session]
        BY <1>1, <1>2, CallFacts DEF Recorded, CallsAreNoes
    <2>2. ASSUME NEW x \in AnySession, NEW k \in calls'[x]
          PROVE  \E q \in noCalls' : Call[q].session = x /\ Call[q].key = k
        BY <1>1, <1>2 DEF Recorded, CallsAreNoes
    <2> QED BY <2>1, <2>2 DEF CallsAreNoes
<1>5. TargetsAreNoes'
    <2>1. ASSUME NEW q \in noFiles'
          PROVE  \E t \in targets'[Call[q].session] : t[1] = Call[q].file
        BY <1>1, <1>2, CallFacts DEF Recorded, TargetsAreNoes
    <2>2. ASSUME NEW x \in AnySession, NEW t \in targets'[x]
          PROVE  \E q \in noFiles' : /\ Call[q].session = x
                                     /\ Call[q].file = t[1] /\ Call[q].tool = t[2]
        BY <1>1, <1>2 DEF Recorded, TargetsAreNoes
    <2> QED BY <2>1, <2>2 DEF TargetsAreNoes
<1> QED BY <1>2, <1>3, <1>4, <1>5 DEF Recorded

\* forgetDeclinedUnder(): the files go, the calls stay.
LEMMA RecordedLifts ==
    ASSUME Recorded, NEW s \in AnySession,
           targets' = [targets EXCEPT ![s] = {}],
           noFiles' = {q \in noFiles : Call[q].session # s},
           UNCHANGED <<calls, noCalls>>
    PROVE  Recorded'
<1>1. targets' \in [AnySession -> SUBSET (Files \X Tools)]
    BY DEF Recorded
<1>2. CallsAreNoes'
    BY DEF Recorded, CallsAreNoes
<1>3. TargetsAreNoes'
    <2>1. ASSUME NEW q \in noFiles'
          PROVE  \E t \in targets'[Call[q].session] : t[1] = Call[q].file
        BY CallFacts DEF Recorded, TargetsAreNoes
    <2>2. ASSUME NEW x \in AnySession, NEW t \in targets'[x]
          PROVE  \E q \in noFiles' : /\ Call[q].session = x
                                     /\ Call[q].file = t[1] /\ Call[q].tool = t[2]
        BY DEF Recorded, TargetsAreNoes
    <2> QED BY <2>1, <2>2 DEF TargetsAreNoes
<1> QED BY <1>1, <1>2, <1>3 DEF Recorded

\* recordDeclined(): the new no replaces the tool of an older one on the file.
LEMMA RecordedDenies ==
    ASSUME Recorded, NEW r \in Req,
           calls' = [calls EXCEPT ![Call[r].session] = @ \cup {Call[r].key}],
           targets' = [targets EXCEPT ![Call[r].session] = DeclinedTargets(r)],
           noCalls' = noCalls \cup {r},
           noFiles' = IF Call[r].category = "shell" \/ Call[r].file = NoFile
                      THEN noFiles ELSE noFiles \cup {r}
    PROVE  Recorded'
<1> DEFINE s == Call[r].session
           f == Call[r].file
           files == Call[r].category # "shell" /\ f # NoFile
<1>0. s \in AnySession /\ Call[r].key \in Keys
    BY CallFacts DEF Keys
<1>1. calls' \in [AnySession -> SUBSET Keys] /\ calls'[s] = calls[s] \cup {Call[r].key}
    BY <1>0 DEF Recorded
<1>2. CallsAreNoes'
    <2>1. ASSUME NEW q \in noCalls' PROVE Call[q].key \in calls'[Call[q].session]
        BY <1>0, <1>1, CallFacts DEF Recorded, CallsAreNoes
    <2>2. ASSUME NEW x \in AnySession, NEW k \in calls'[x]
          PROVE  \E q \in noCalls' : Call[q].session = x /\ Call[q].key = k
        BY <1>0, <1>1 DEF Recorded, CallsAreNoes
    <2> QED BY <2>1, <2>2 DEF CallsAreNoes
<1>3. CASE files
    <2>1. noFiles' = noFiles \cup {r}
        BY <1>3
    <2>2. DeclinedTargets(r) = {t \in targets[s] : t[1] # f} \cup {<<f, Call[r].tool>>}
        BY <1>3 DEF DeclinedTargets
    <2>3. <<f, Call[r].tool>> \in Files \X Tools
        BY <1>3 DEF Files, Tools
    <2>4. targets[s] \subseteq Files \X Tools
        BY <1>0 DEF Recorded
    <2>5. targets' \in [AnySession -> SUBSET (Files \X Tools)]
        BY <2>2, <2>3, <2>4 DEF Recorded
    <2>6. targets'[s] = {t \in targets[s] : t[1] # f} \cup {<<f, Call[r].tool>>}
        BY <1>0, <2>2 DEF Recorded
    <2>7. \A x \in AnySession \ {s} : targets'[x] = targets[x]
        BY DEF Recorded
    <2>8. ASSUME NEW q \in noFiles'
          PROVE  \E t \in targets'[Call[q].session] : t[1] = Call[q].file
        <3>1. CASE Call[q].session = s /\ Call[q].file = f
            <4> DEFINE t == <<f, Call[r].tool>>
            <4>1. t \in targets'[Call[q].session] /\ t[1] = Call[q].file
                BY <2>6, <3>1
            <4> HIDE DEF t
            <4> QED BY <4>1
        <3>2. CASE Call[q].session = s /\ Call[q].file # f
            <4>1. q \in noFiles
                BY <2>1, <3>2
            <4>2. PICK t \in targets[s] : t[1] = Call[q].file
                BY <3>2, <4>1 DEF Recorded, TargetsAreNoes
            <4> QED BY <2>6, <3>2, <4>2
        <3>3. CASE Call[q].session # s
            <4>1. q \in noFiles /\ q \in Req
                BY <2>1, <3>3 DEF Recorded
            <4>2. targets'[Call[q].session] = targets[Call[q].session]
                BY <2>7, <3>3, <4>1, CallFacts
            <4> QED BY <4>1, <4>2 DEF Recorded, TargetsAreNoes
        <3> QED BY <3>1, <3>2, <3>3
    <2>9. ASSUME NEW x \in AnySession, NEW t \in targets'[x]
          PROVE  \E q \in noFiles' : /\ Call[q].session = x
                                     /\ Call[q].file = t[1] /\ Call[q].tool = t[2]
        <3>1. CASE x = s /\ t = <<f, Call[r].tool>>
            BY <2>1, <3>1
        <3>2. CASE t \in targets[x]
            BY <2>1, <3>2 DEF Recorded, TargetsAreNoes
        <3> QED BY <2>6, <2>7, <3>1, <3>2
    <2>10. TargetsAreNoes'
        BY <2>8, <2>9 DEF TargetsAreNoes
    <2> QED BY <1>1, <1>2, <2>1, <2>5, <2>10 DEF Recorded
<1>4. CASE ~files
    <2>1. noFiles' = noFiles
        BY <1>4
    <2>2. DeclinedTargets(r) = targets[s]
        BY <1>4 DEF DeclinedTargets
    <2>3. targets' = targets
        BY <1>0, <2>2 DEF Recorded
    <2>4. TargetsAreNoes'
        BY <2>1, <2>3 DEF Recorded, TargetsAreNoes
    <2> QED BY <1>1, <1>2, <2>1, <2>3, <2>4 DEF Recorded
<1> QED BY <1>3, <1>4

-----------------------------------------------------------------------------
(* The steps. *)

LEMMA VerdictType ==
    ASSUME NEW r \in Req
    PROVE  Verdict(r) \in {"allowed", "repeat", "auto", "refused", "aborted", "pending"}
BY DEF Verdict

LEMMA AskedStays ==
    ASSUME Asked, UNCHANGED <<outcome, asks>>
    PROVE  Asked'
BY DEF Asked

LEMMA AroundStays ==
    ASSUME Around, UNCHANGED <<level, grants, parent, refuses, scope, turnScope, turn>>
    PROVE  Around'
BY DEF Around

\* A pending call gets an outcome; which one, the fan-outs do not mind.
LEMMA AskedSettles ==
    ASSUME Asked, UNCHANGED asks,
           outcome' \in [Req -> Outcome],
           \A r \in Req : \/ outcome'[r] = outcome[r]
                          \/ outcome'[r] \notin {"new", "auto", "allowed"}
    PROVE  Asked'
BY DEF Asked

\* request(): a fan-out that asks is neither covered nor approved by the level.
LEMMA RequestStep ==
    ASSUME GateInv, NEW r \in Req, Request(r)
    PROVE  GateInv'
<1> DEFINE asking == /\ Call[r].category = "fusion_fanout"
                     /\ DeclinedUnder(Call[r].session) /\ ~AutoApproval(r)
<1>1. Recorded' /\ Around'
    BY RecordedStays, AroundStays DEF GateInv, Request
<1>2. Verdict(r) \in Outcome
    BY VerdictType DEF Outcome, Runs
<1>3. outcome' = [outcome EXCEPT ![r] = Verdict(r)] /\ outcome[r] = "new"
    BY DEF Request
<1>4. asks' = IF asking THEN [asks EXCEPT ![r] = "yes"] ELSE asks
    BY DEF Request
<1>5. asking => Verdict(r) \notin {"new", "auto", "allowed"}
    <2> SUFFICES ASSUME asking PROVE Verdict(r) \notin {"new", "auto", "allowed"}
        OBVIOUS
    <2>1. ~ScopedByFanout(r) /\ ~AlreadyApproved(r)
        BY DEF ScopedByFanout, AlreadyApproved
    <2> QED BY <2>1 DEF Verdict
<1>6. Call[r].category = "fusion_fanout" \/ ~asking
    OBVIOUS
<1> HIDE DEF asking
<1>7. Asked'
    <2>1. outcome' \in [Req -> Outcome] /\ asks' \in [Req -> {"no", "yes", "done"}]
        BY <1>2, <1>3, <1>4 DEF GateInv, Asked
    <2>2. ASSUME NEW q \in Req, asks'[q] = "yes"
          PROVE  /\ Call[q].category = "fusion_fanout"
                 /\ outcome'[q] \notin {"new", "auto", "allowed"}
        BY <1>3, <1>4, <1>5, <1>6, <2>2 DEF GateInv, Asked
    <2> QED BY <2>1, <2>2 DEF Asked
<1> QED BY <1>1, <1>7 DEF GateInv

\* resolve(), with any answer and from any surface.
LEMMA ResolveStep ==
    ASSUME GateInv, NEW r \in Req, NEW o \in Answered, NEW scopeOf,
           scopeOf \in {"none", "category", "shape"}, Resolve(r, o, scopeOf)
    PROVE  GateInv'
<1>1. Recorded'
    <2>1. CASE o = "denied"
        BY <2>1, RecordedDenies DEF GateInv, Resolve
    <2>2. CASE o # "denied"
        BY <2>2, RecordedStays DEF GateInv, Resolve
    <2> QED BY <2>1, <2>2
<1>2. Asked'
    <2>1. outcome' = [outcome EXCEPT ![r] = o] /\ UNCHANGED asks
        BY DEF Resolve
    <2>2. o \in Outcome /\ o \notin {"new", "auto", "allowed"}
        BY DEF Outcome, Answered
    <2> QED BY <2>1, <2>2, AskedSettles DEF GateInv, Asked
<1>3. Around'
    <2>1. Granted(r, scopeOf) \subseteq Category \cup Shapes
        BY CallFacts DEF Granted, Shapes
    <2>2. \/ grants' = grants
          \/ grants' = [grants EXCEPT ![Call[r].session] = @ \cup Granted(r, scopeOf)]
        BY DEF Resolve
    <2>3. grants' \in [AnySession -> SUBSET (Category \cup Shapes)]
        BY <2>1, <2>2, CallFacts DEF GateInv, Around
    <2>4. UNCHANGED <<level, parent, refuses, scope, turnScope, turn>>
        BY DEF Resolve
    <2> QED BY <2>3, <2>4 DEF GateInv, Around
<1> QED BY <1>1, <1>2, <1>3 DEF GateInv

\* onAbort()
LEMMA AbortStep ==
    ASSUME GateInv, NEW S, AbortTurns(S)
    PROVE  GateInv'
<1>1. Recorded'
    BY RecordedStays DEF GateInv, AbortTurns
<1>2. outcome' \in [Req -> Outcome]
    BY DEF GateInv, Asked, AbortTurns, Outcome
<1>3. \A r \in Req : outcome'[r] = outcome[r] \/ outcome'[r] = "aborted"
    BY DEF GateInv, Asked, AbortTurns
<1>4. Asked'
    BY <1>2, <1>3, AskedSettles DEF GateInv, AbortTurns
<1>5. turn' \in [AnySession -> {"idle", "running", "aborted"}]
    BY DEF GateInv, Around, AbortTurns
<1>6. Around'
    BY <1>5 DEF GateInv, Around, AbortTurns
<1> QED BY <1>1, <1>4, <1>6 DEF GateInv

LEMMA SetLevelStep ==
    ASSUME GateInv, NEW l \in Levels, SetLevel(l)
    PROVE  GateInv'
BY RecordedStays, AskedStays DEF GateInv, Around, SetLevel

LEMMA StartTurnStep ==
    ASSUME GateInv, NEW s \in Session, StartTurn(s)
    PROVE  GateInv'
<1>1. Recorded'
    BY RecordedForgets DEF GateInv, StartTurn, AnySession
<1>2. Asked'
    BY AskedStays DEF GateInv, StartTurn
<1>3. Around'
    BY DEF GateInv, Around, StartTurn, AnySession
<1> QED BY <1>1, <1>2, <1>3 DEF GateInv

LEMMA SteerStep ==
    ASSUME GateInv, NEW s \in Session, Steer(s)
    PROVE  GateInv'
<1>1. Recorded'
    BY RecordedForgets DEF GateInv, Steer, AnySession
<1>2. Asked' /\ Around'
    BY AskedStays, AroundStays DEF GateInv, Steer
<1> QED BY <1>1, <1>2 DEF GateInv

LEMMA EndTurnStep ==
    ASSUME GateInv, NEW s \in Session, EndTurn(s)
    PROVE  GateInv'
<1>1. Recorded'
    <2>1. CASE UNCHANGED <<grants, calls, targets, noCalls, noFiles>>
        BY <2>1, RecordedStays DEF GateInv
    <2>2. CASE /\ calls' = Forgotten(s).calls /\ targets' = Forgotten(s).targets
               /\ ForgottenHere(s)
        BY <2>2, RecordedForgets DEF GateInv, AnySession
    <2> QED BY <2>1, <2>2 DEF EndTurn
<1>2. Asked'
    <2>1. /\ UNCHANGED outcome
          /\ asks' \in [Req -> {"no", "yes", "done"}]
          /\ \A r \in Req : asks'[r] = asks[r] \/ asks'[r] = "done"
        BY DEF GateInv, Asked, EndTurn
    <2> QED BY <2>1 DEF GateInv, Asked
<1>3. Around'
    <2>1. turn' \in [AnySession -> {"idle", "running", "aborted"}]
        BY DEF GateInv, Around, EndTurn
    <2>2. grants' \in [AnySession -> SUBSET (Category \cup Shapes)]
        BY DEF GateInv, Around, EndTurn
    <2> QED BY <2>1, <2>2 DEF GateInv, Around, EndTurn
<1> QED BY <1>1, <1>2, <1>3 DEF GateInv

LEMMA LeaveStep ==
    ASSUME GateInv, NEW s \in Session, LeaveSession(s)
    PROVE  GateInv'
<1>1. Recorded'
    <2>1. CASE UNCHANGED <<grants, calls, targets, noCalls, noFiles>>
        BY <2>1, RecordedStays DEF GateInv
    <2>2. CASE /\ calls' = Forgotten(s).calls /\ targets' = Forgotten(s).targets
               /\ ForgottenHere(s)
        BY <2>2, RecordedForgets DEF GateInv, AnySession
    <2> QED BY <2>1, <2>2 DEF LeaveSession
<1>2. Asked'
    <2>1. /\ UNCHANGED asks
          /\ outcome' \in [Req -> Outcome]
          /\ \A r \in Req : outcome'[r] = outcome[r] \/ outcome'[r] = "dropped"
        BY DEF GateInv, Asked, LeaveSession, Outcome, Answered
    <2> QED BY <2>1, AskedSettles DEF GateInv
<1>3. Around'
    <2>1. grants' \in [AnySession -> SUBSET (Category \cup Shapes)]
        BY DEF GateInv, Around, LeaveSession
    <2> QED BY <2>1 DEF GateInv, Around, LeaveSession
<1> QED BY <1>1, <1>2, <1>3 DEF GateInv

\* forgetDeclinedUnder() follows a person's yes and nothing else.
LEMMA FanOutStep ==
    ASSUME GateInv, NEW r \in Req, NEW w \in Worker, FanOut(r, w)
    PROVE  GateInv'
<1> DEFINE s == Call[r].session
<1>0. s \in Session /\ s \in AnySession /\ w \in AnySession
    BY CallFacts DEF FanOut, AnySession
<1>1. Recorded'
    <2>1. CASE asks[r] = "yes"
        <3>1. outcome[r] = "approved"
            BY <2>1 DEF GateInv, Asked, FanOut, Runs
        <3>2. /\ targets' = [targets EXCEPT ![s] = {}]
              /\ noFiles' = {q \in noFiles : Call[q].session # s}
              /\ UNCHANGED <<calls, noCalls>>
            BY <2>1, <3>1 DEF FanOut, ForgetDeclinedUnder
        <3> QED BY <1>0, <3>2, RecordedLifts DEF GateInv
    <2>2. CASE asks[r] # "yes"
        BY <2>2, RecordedStays DEF GateInv, FanOut, ForgetDeclinedUnder
    <2> QED BY <2>1, <2>2
<1>2. Asked'
    <2>1. UNCHANGED outcome /\ asks' = [asks EXCEPT ![r] = "done"]
        BY DEF FanOut
    <2> QED BY <2>1 DEF GateInv, Asked
<1>3. Around'
    <2>1. /\ turn' = [turn EXCEPT ![w] = "running"] /\ parent' = [parent EXCEPT ![w] = s]
          /\ turnScope' = turnScope \cup {s}
          /\ refuses' = refuses \cup {w} /\ scope' = scope \cup {w}
          /\ UNCHANGED <<level, grants>>
        BY DEF FanOut
    <2> QED BY <1>0, <2>1 DEF GateInv, Around
<1> QED BY <1>1, <1>2, <1>3 DEF GateInv

LEMMA FinishStep ==
    ASSUME GateInv, NEW w \in Worker, FinishWorker(w)
    PROVE  GateInv'
<1>0. w \in AnySession
    BY DEF AnySession
<1>1. Recorded'
    BY <1>0, RecordedForgets DEF GateInv, FinishWorker
<1>2. Asked'
    BY AskedStays DEF GateInv, FinishWorker
<1>3. Around'
    <2>1. /\ turn' = [turn EXCEPT ![w] = "idle"] /\ parent' = [parent EXCEPT ![w] = NoParent]
          /\ grants' = [grants EXCEPT ![w] = {}]
          /\ refuses' = refuses \ {w} /\ scope' = scope \ {w}
          /\ UNCHANGED <<level, turnScope>>
        BY DEF FinishWorker
    <2> QED BY <1>0, <2>1 DEF GateInv, Around
<1> QED BY <1>1, <1>2, <1>3 DEF GateInv

LEMMA HostInv ==
    ASSUME GateInv, HostStep
    PROVE  GateInv'
<1>1. ASSUME NEW r \in Req, AnswerAtHost(r) PROVE GateInv'
    BY <1>1, ResolveStep DEF AnswerAtHost, Answered
<1>2. ASSUME NEW s \in Session, Abort(s) PROVE GateInv'
    BY <1>2, AbortStep DEF Abort
<1> QED BY <1>1, <1>2, FanOutStep, FinishStep, SteerStep, LeaveStep, SetLevelStep DEF HostStep

LEMMA GateUnchanged ==
    ASSUME GateInv, UNCHANGED gateVars
    PROVE  GateInv'
BY RecordedStays, AskedStays, AroundStays DEF GateInv, gateVars

LEMMA GateNextInv == GateInv /\ [GateNext]_gateVars => GateInv'
BY RequestStep, StartTurnStep, EndTurnStep, HostInv, GateUnchanged DEF GateNext

-----------------------------------------------------------------------------
\* Only request() gives a call its first outcome.
LEMMA FirstOutcome ==
    ASSUME GateInv, NEW r \in Req, outcome[r] = "new", outcome'[r] # "new", GateNext
    PROVE  Request(r)
<1>1. ASSUME NEW q \in Req, Request(q) PROVE Request(r)
    <2>1. CASE q = r
        BY <1>1, <2>1
    <2>2. CASE q # r
        <3>1. outcome'[r] = outcome[r]
            BY <1>1, <2>2 DEF Request, GateInv, Asked
        <3> QED BY <3>1
    <2> QED BY <2>1, <2>2
<1>2. ASSUME NEW s \in Session, StartTurn(s) \/ EndTurn(s) PROVE FALSE
    BY <1>2 DEF StartTurn, EndTurn
<1>3. ASSUME HostStep PROVE FALSE
    <2>1. ASSUME NEW q \in Req, AnswerAtHost(q) PROVE FALSE
        <3>1. PICK o : outcome[q] = "pending" /\ outcome' = [outcome EXCEPT ![q] = o]
            BY <2>1 DEF AnswerAtHost, Resolve
        <3> QED BY <3>1 DEF GateInv, Asked
    <2>2. ASSUME NEW s \in Session, Abort(s) PROVE FALSE
        <3>1. outcome'[r] = outcome[r]
            BY <2>2 DEF Abort, AbortTurns, PendingOf
        <3> QED BY <3>1
    <2>3. ASSUME NEW s \in Session, LeaveSession(s) PROVE FALSE
        <3>1. outcome'[r] = outcome[r]
            BY <2>3 DEF LeaveSession, PendingOf
        <3> QED BY <3>1
    <2>4. ASSUME \/ \E q \in Req, w \in Worker : FanOut(q, w)
                 \/ \E w \in Worker : FinishWorker(w)
                 \/ \E s \in Session : Steer(s)
                 \/ \E l \in Levels : SetLevel(l)
          PROVE  FALSE
        BY <2>4 DEF FanOut, FinishWorker, Steer, SetLevel
    <2> QED BY <1>3, <2>1, <2>2, <2>3, <2>4 DEF HostStep
<1> QED BY <1>1, <1>2, <1>3 DEF GateNext

\* The noes that bind a call are the ones its gate looks up.
LEMMA BindsIsLookedUp ==
    ASSUME GateInv, NEW q \in Req, NEW r \in Req
    PROVE  Binds(q, r) <=> Call[q].session \in DeclinedRecords(Call[r].session)
<1>1. Call[q].session \in AnySession /\ Call[q].session # NoParent
    BY CallFacts, SessionsDiffer
<1> QED BY <1>1 DEF Binds, DeclinedRecords

\* What request() gives a call is in keeping with the noes that bind it.
LEMMA RequestKeepsNoes ==
    ASSUME GateInv, NEW r \in Req, Request(r)
    PROVE  /\ outcome'[r] \in {"auto", "allowed"} =>
                /\ ~DeclinedFile(r)
                /\ DeclinedCall(r) => outcome'[r] = "allowed" /\ InFanout(r)
           /\ outcome'[r] = "repeat" =>
                \E q \in noCalls : /\ Binds(q, r)
                                   /\ \/ Call[q].key = Call[r].key
                                      \/ q \in noFiles /\ Call[q].file = Call[r].file
<1> DEFINE s == Call[r].session
<1>0. /\ outcome'[r] = Verdict(r) /\ noCalls \subseteq Req /\ noFiles \subseteq noCalls
      /\ s \in AnySession /\ CallsAreNoes /\ TargetsAreNoes
    BY CallFacts DEF Request, GateInv, Asked, Recorded
<1>1. ASSUME NEW q \in noCalls, Binds(q, r), Call[q].key = Call[r].key
      PROVE  DeclinedInTurn(r)
    BY <1>0, <1>1, BindsIsLookedUp DEF DeclinedInTurn, CallsAreNoes
<1>2. ASSUME NEW q \in noFiles, Binds(q, r), SameFile(q, r)
      PROVE  DeclinedTarget(r)
    <2> DEFINE u == Call[q].session
    <2>1. u \in DeclinedRecords(s) /\ u \in AnySession
        BY <1>0, <1>2, BindsIsLookedUp, CallFacts
    <2>2. PICK t \in targets[u] : t[1] = Call[q].file
        BY <1>0 DEF TargetsAreNoes
    <2>3. t[1] = Call[r].file
        BY <1>2, <2>2 DEF SameFile
    <2>4. CASE Call[r].category = "shell"
        BY <2>1, <2>3, <2>4 DEF DeclinedTarget
    <2>5. CASE Call[r].category # "shell"
        <3>1. PICK p \in noFiles : Call[p].file = t[1] /\ Call[p].tool = t[2]
            BY <1>0, <2>1 DEF TargetsAreNoes
        <3>2. t[2] = Call[r].tool
            BY <1>2, <2>2, <2>5, <3>1 DEF SameFile
        <3> QED BY <2>1, <2>3, <3>2 DEF DeclinedTarget
    <2> QED BY <2>4, <2>5
<1>3. ASSUME DeclinedInTurn(r)
      PROVE  \E q \in noCalls : /\ Binds(q, r)
                                /\ \/ Call[q].key = Call[r].key
                                   \/ q \in noFiles /\ Call[q].file = Call[r].file
    <2>0. DeclinedRecords(s) \subseteq AnySession
        BY <1>0, SessionsDiffer DEF DeclinedRecords, GateInv, Around, AnySession
    <2>1. CASE \E u \in DeclinedRecords(s) : Call[r].key \in calls[u]
        <3>1. PICK u \in DeclinedRecords(s) : Call[r].key \in calls[u]
            BY <2>1
        <3>2. PICK q \in noCalls : Call[q].session = u /\ Call[q].key = Call[r].key
            BY <1>0, <2>0, <3>1 DEF CallsAreNoes
        <3> QED BY <1>0, <3>1, <3>2, BindsIsLookedUp
    <2>2. CASE DeclinedTarget(r)
        <3>1. PICK u \in DeclinedRecords(s) : \E t \in targets[u] : t[1] = Call[r].file
            BY <2>2 DEF DeclinedTarget
        <3>2. PICK q \in noFiles : Call[q].session = u /\ Call[q].file = Call[r].file
            BY <1>0, <2>0, <3>1 DEF TargetsAreNoes
        <3> QED BY <1>0, <3>1, <3>2, BindsIsLookedUp
    <2> QED BY <1>3, <2>1, <2>2 DEF DeclinedInTurn
<1>4. Verdict(r) = "auto" => ~DeclinedInTurn(r)
    BY DEF Verdict
<1>5. Verdict(r) = "repeat" => DeclinedInTurn(r)
    BY DEF Verdict
<1>6. Verdict(r) = "allowed" => ~\E q \in noFiles : Binds(q, r) /\ SameFile(q, r)
    <2>1. CASE ScopedByFanout(r)
        BY <1>2, <2>1 DEF ScopedByFanout
    <2>2. CASE AlreadyApproved(r)
        <3>1. s \in Session /\ targets[s] = {}
            BY <2>2, CallFacts DEF AlreadyApproved, DeclinedUnder
        <3>2. ASSUME NEW q \in noFiles, Binds(q, r) PROVE FALSE
            <4>1. Call[q].session = s
                BY <3>1, <3>2, SessionsDiffer DEF Binds
            <4> QED BY <1>0, <3>1, <4>1 DEF TargetsAreNoes
        <3> QED BY <3>2
    <2> QED BY <2>1, <2>2 DEF Verdict
<1>7. DeclinedTarget(r) => DeclinedInTurn(r)
    BY DEF DeclinedInTurn
<1>8. Verdict(r) = "allowed" => InFanout(r)
    BY DEF Verdict, ScopedByFanout, AlreadyApproved, InFanout
<1>9. Verdict(r) = "auto" => ~DeclinedCall(r) /\ ~DeclinedFile(r)
    BY <1>1, <1>2, <1>4, <1>7 DEF DeclinedCall, DeclinedFile
<1> QED BY <1>0, <1>3, <1>5, <1>6, <1>8, <1>9 DEF DeclinedFile

-----------------------------------------------------------------------------
\* The inductive invariant of the gate.
THEOREM GateInvariant == GateSpec => []GateInv
BY GateInitInv, GateNextInv, PTL DEF GateSpec

\* approval-gate.ts: the maps of the gate keep their types.
THEOREM GateTypeCorrect == GateSpec => []GateTypeOK
BY GateInvariant, GateInvTypes, PTL

\* declinedInTurn(), hasDeclinedTarget() and forgetDeclinedUnder(): a declined
\* file is closed to every unasked call of that turn, the workers' included; a
\* declined call to every one but those of a fan-out.
THEOREM NoesStand == GateSpec => NoStands
<1>1. ASSUME GateInv, [GateNext]_gateVars
      PROVE  [\A r \in Req : outcome[r] = "new" /\ outcome'[r] \in {"auto", "allowed"} =>
                /\ ~DeclinedFile(r)
                /\ DeclinedCall(r) => outcome'[r] = "allowed" /\ InFanout(r)]_gateVars
    BY <1>1, FirstOutcome, RequestKeepsNoes
<1> QED BY <1>1, GateInvariant, PTL DEF GateSpec, NoStands

\* forgetDeclined() and clearSessionGrants(): a call refused as declined
\* earlier was declined in the turn that is running.
THEOREM RefusalsHaveANo == GateSpec => RefusalHasANo
<1>1. ASSUME GateInv, [GateNext]_gateVars
      PROVE  [\A r \in Req : outcome[r] = "new" /\ outcome'[r] = "repeat" =>
                \E q \in noCalls : /\ Binds(q, r)
                                   /\ \/ Call[q].key = Call[r].key
                                      \/ q \in noFiles /\ Call[q].file = Call[r].file]_gateVars
    BY <1>1, FirstOutcome, RequestKeepsNoes
<1> QED BY <1>1, GateInvariant, PTL DEF GateSpec, RefusalHasANo
=============================================================================
