-------------------------- MODULE TurnService_proofs --------------------------
(***************************************************************************)
(* Proofs about TurnService, on top of those about TurnController: a step  *)
(* of the service is a step of the controller or none, so the chain of     *)
(* promises keeps its invariant, and with it the turn that runs on a       *)
(* session is the only one.  What the steering inbox needs on top is that  *)
(* a message is pending only for the turn that runs, and what the usage    *)
(* meter needs is that an open bucket has a turn that will report it.      *)
(***************************************************************************)
EXTENDS TurnService, TurnController_proofs

\* The turn of s runs the loop on session x: its window is open.
LoopOf(s, x) == SessionOf[s] = x /\ pc[s] = "running" /\ phase[s] \in InLoop

\* The loop of a turn runs inside the body that the controller started.
PhaseInv == \A s \in Sub : phase[s] \in InLoop => pc[s] = "running"

\* What is in the inbox was accepted for the turn whose loop runs.
PendingInv ==
    \A x \in Session : \A m \in ToSet(inbox[x]) :
        /\ sentTo[m] \in Sub /\ LoopOf(sentTo[m], x)
        /\ fate[m] = "pending"

\* Nobody got a message before it was sent.
UnsentInv == \A m \in Msg : fate[m] = "unsent" => gotBy[m] = None

\* A turn reports after it was submitted.
FreshInv == \A s \in Sub : pc[s] = "new" => ~report[s].done

SvcInv ==
    /\ ChainInv
    /\ SvcTypeOK
    /\ inbox \in [Session -> Seq(Msg)]
    /\ PhaseInv
    /\ WindowIsLive
    /\ PendingInv
    /\ UnsentInv
    /\ SteerStaysInItsTurn
    /\ FreshInv
    /\ NoBucketLeak

-----------------------------------------------------------------------------
LEMMA InitSvc == SvcInit => SvcInv
<1> SUFFICES ASSUME SvcInit PROVE SvcInv
    OBVIOUS
<1>1. ChainInv
    BY InitChain DEF SvcInit
<1>2. inbox \in [Session -> Seq(Msg)]
    BY DEF SvcInit
<1>3. SvcTypeOK
    <2>1. /\ buckets \in [Session -> [open : BOOLEAN, calls : SUBSET Sub]]
          /\ report \in [Sub -> [done : BOOLEAN, calls : SUBSET Sub]]
        BY DEF SvcInit, NoBucket, Unreported
    <2>2. \A x \in Session : Len(inbox[x]) = 0
        BY DEF SvcInit
    <2> QED BY <1>1, <1>2, <2>1, <2>2, CapPositive
            DEF SvcInit, SvcTypeOK, ChainInv, Fates, InLoop
<1>4. PhaseInv /\ WindowIsLive
    BY DEF SvcInit, PhaseInv, WindowIsLive, InLoop
<1>5. PendingInv
    BY DEF SvcInit, PendingInv, ToSet
<1>6. UnsentInv /\ SteerStaysInItsTurn
    BY DEF SvcInit, UnsentInv, SteerStaysInItsTurn
<1>7. FreshInv /\ NoBucketLeak
    BY DEF SvcInit, FreshInv, NoBucketLeak, NoBucket, Unreported
<1> QED BY <1>1, <1>2, <1>3, <1>4, <1>5, <1>6, <1>7 DEF SvcInv

\* The service drives the controller: each of its steps is one of the
\* controller's, or leaves it alone.
LEMMA SvcStepsController ==
    ASSUME [SvcNext]_allVars
    PROVE  [Next]_vars
<1>1. ASSUME NEW s \in Sub,
             \/ SubmitTurn(s) \/ CancelTurn(s) \/ ReachFront(s) \/ DropTurn(s)
             \/ StartTurn(s) \/ StartTurnFails(s) \/ ReturnTurn(s) \/ FailTurn(s)
      PROVE  Next
    BY <1>1 DEF SubmitTurn, CancelTurn, ReachFront, DropTurn, StartTurn, StartTurnFails,
                ReturnTurn, FailTurn, Next
<1>2. ASSUME NEW s \in Sub,
             \/ BeginStep(s) \/ DrainAtStep(s) \/ DrainLate(s) \/ SendPrompt(s)
             \/ InferenceEnds(s) \/ CloseTurn(s) \/ ThrowTurn(s) \/ ReportUsage(s)
      PROVE  UNCHANGED vars
    BY <1>2 DEF BeginStep, DrainAtStep, DrainLate, SendPrompt, InferenceEnds, CloseTurn,
                ThrowTurn, ReportUsage
<1>3. ASSUME NEW x \in Session, NEW m \in Msg, Steer(x, m) PROVE UNCHANGED vars
    BY <1>3 DEF Steer
<1>4. ClearAll => UNCHANGED vars
    BY DEF ClearAll
<1> QED BY <1>1, <1>2, <1>3, <1>4 DEF SvcNext, TurnStep, allVars

LEMMA ChainKept ==
    ASSUME SvcInv, [SvcNext]_allVars
    PROVE  ChainInv' /\ TypeOK'
BY SvcStepsController, NextChain DEF SvcInv, ChainInv

\* One loop per session.
LEMMA OneLoop ==
    ASSUME SvcInv, NEW s \in Sub, NEW t \in Sub, SessionOf[s] = SessionOf[t],
           pc[s] = "running", pc[t] = "running"
    PROVE  s = t
BY OneAtFront DEF SvcInv

-----------------------------------------------------------------------------
\* The type of the two parts.
SteerType ==
    /\ accepting \subseteq Session
    /\ inbox \in [Session -> Seq(Msg)]
    /\ \A x \in Session : Len(inbox[x]) <= MAX_PENDING_STEERS
    /\ fate \in [Msg -> Fates]
    /\ sentTo \in [Msg -> Sub \cup {None}]
    /\ gotBy \in [Msg -> Sub \cup {None}]

MeterType ==
    /\ buckets \in [Session -> [open : BOOLEAN, calls : SUBSET Sub]]
    /\ called \subseteq Sub
    /\ report \in [Sub -> [done : BOOLEAN, calls : SUBSET Sub]]

PhaseType == phase \in [Sub -> InLoop \cup {"none", "closed", "thrown"}]

SteerInv ==
    /\ SteerType
    /\ WindowIsLive
    /\ PendingInv
    /\ UnsentInv
    /\ SteerStaysInItsTurn

MeterInv == MeterType /\ FreshInv /\ NoBucketLeak

LEMMA SvcParts == SvcInv <=> ChainInv /\ PhaseType /\ PhaseInv /\ SteerInv /\ MeterInv
BY DEF SvcInv, SvcTypeOK, ChainInv, SteerInv, MeterInv, SteerType, MeterType, PhaseType

\* A submission is new once.
LEMMA NotNewAgain ==
    ASSUME TypeOK, [Next]_vars, NEW s \in Sub, pc[s] # "new"
    PROVE  pc'[s] # "new"
<1>1. CASE UNCHANGED vars
    BY <1>1 DEF vars
<1>2. ASSUME NEW t \in Sub,
             \/ Enqueue(t) \/ RejectAborted(t) \/ Abort(t) \/ Wake(t)
             \/ Start(t) \/ Finish(t) \/ DropCancelled(t)
      PROVE  pc'[s] # "new"
    BY <1>2 DEF TypeOK, Enqueue, RejectAborted, Abort, Wake, Start, Finish, DropCancelled
<1>3. ASSUME NEW t \in Sub, EmitInTurn(t) \/ EmitLate(t) PROVE pc'[s] # "new"
    BY <1>3 DEF EmitInTurn, EmitLate, Emit
<1> QED BY <1>1, <1>2, <1>3 DEF Next

\* Where no usage is touched the buckets stay accounted for.
LEMMA MeterQuiet ==
    ASSUME SvcInv, [SvcNext]_allVars, UNCHANGED meterVars
    PROVE  MeterInv'
<1>1. \A s \in Sub : pc[s] # "new" => pc'[s] # "new"
    BY SvcStepsController, NotNewAgain DEF SvcInv, ChainInv
<1> QED BY <1>1, SvcParts DEF meterVars, MeterInv, MeterType, FreshInv, NoBucketLeak

\* Where no message moves and no loop ends, nothing of the inbox does.
LEMMA SteerQuiet ==
    ASSUME SvcInv, UNCHANGED steerVars,
           \A s \in Sub : pc[s] = "running" /\ phase[s] \in InLoop =>
               pc'[s] = "running" /\ phase'[s] \in InLoop
    PROVE  SteerInv'
<1>1. SteerType' /\ UnsentInv' /\ SteerStaysInItsTurn'
    BY SvcParts DEF steerVars, SteerInv, SteerType, UnsentInv, SteerStaysInItsTurn
<1>2. WindowIsLive'
    BY SvcParts DEF steerVars, SteerInv, WindowIsLive
<1>3. PendingInv'
    BY SvcParts DEF steerVars, SteerInv, PendingInv, LoopOf
<1> QED BY <1>1, <1>2, <1>3 DEF SteerInv

\* Steps of the controller before and after a turn, and the report of usage.
LEMMA ControllerStep ==
    ASSUME SvcInv, NEW s \in Sub,
           \/ SubmitTurn(s) \/ CancelTurn(s) \/ ReachFront(s) \/ DropTurn(s)
           \/ ReportUsage(s)
    PROVE  PhaseType' /\ PhaseInv' /\ SteerInv'
<1>1. UNCHANGED <<phase, steerVars>>
    BY DEF SubmitTurn, CancelTurn, ReachFront, DropTurn, ReportUsage, svcVars
<1>2. \A u \in Sub : pc[u] = "running" => pc'[u] = "running"
    BY DEF SvcInv, ChainInv, TypeOK, SubmitTurn, CancelTurn, ReachFront, DropTurn, ReportUsage, Enqueue,
           RejectAborted, Abort, Wake, DropCancelled, vars
<1>3. PhaseType' /\ PhaseInv'
    BY <1>1, <1>2, SvcParts DEF PhaseType, PhaseInv
<1>4. SteerInv'
    BY <1>1, <1>2, SteerQuiet
<1> QED BY <1>3, <1>4

\* runTurn() opens a bucket before it enqueues: it has a turn that reports.
LEMMA SubmitMeter ==
    ASSUME SvcInv, NEW s \in Sub, SubmitTurn(s)
    PROVE  MeterInv'
<1> DEFINE x == SessionOf[s]
<1>0. /\ x \in Session /\ pc[s] = "new" /\ ~report[s].done
      /\ pc \in [Sub -> Stage] /\ UNCHANGED <<called, report>>
    BY SessionOfType DEF SubmitTurn, Enqueue, RejectAborted, SvcInv, FreshInv, ChainInv, TypeOK
<1>1. pc'[s] # "new" /\ \A u \in Sub : u # s => pc'[u] = pc[u]
    BY <1>0 DEF SubmitTurn, Enqueue, RejectAborted
<1>2. Bucket({}) \in [open : BOOLEAN, calls : SUBSET Sub]
    BY DEF Bucket
<1>3. /\ buckets' \in [Session -> [open : BOOLEAN, calls : SUBSET Sub]]
      /\ \A y \in Session : buckets'[y] = buckets[y] \/ (y = x /\ s \in Metered)
    BY <1>0, <1>2, SvcParts DEF SubmitTurn, BeginUsage, MeterInv, MeterType
<1>4. FreshInv'
    BY <1>0, <1>1 DEF SvcInv, FreshInv
<1>5. NoBucketLeak'
    <2> SUFFICES ASSUME NEW y \in Session,
                        \A u \in Sub : SessionOf[u] = y /\ u \in Metered =>
                            report'[u].done \/ pc'[u] = "new"
                 PROVE  ~buckets'[y].open
        BY DEF NoBucketLeak
    <2>1. ~(y = x /\ s \in Metered)
        BY <1>0, <1>1
    <2>2. \A u \in Sub : SessionOf[u] = y /\ u \in Metered =>
            report[u].done \/ pc[u] = "new"
        BY <1>0, <1>1
    <2> QED BY <1>3, <2>1, <2>2 DEF SvcInv, NoBucketLeak
<1> QED BY <1>0, <1>3, <1>4, <1>5, SvcParts DEF MeterInv, MeterType

\* snapshot() releases the bucket of the session.
LEMMA ReportMeter ==
    ASSUME SvcInv, NEW s \in Sub, ReportUsage(s)
    PROVE  MeterInv'
<1> DEFINE x == SessionOf[s]
           r == [done |-> TRUE, calls |-> buckets[x].calls]
<1>0. /\ x \in Session /\ pc[s] # "new"
      /\ buckets \in [Session -> [open : BOOLEAN, calls : SUBSET Sub]]
      /\ report \in [Sub -> [done : BOOLEAN, calls : SUBSET Sub]]
    BY SessionOfType, SvcParts DEF ReportUsage, MeterInv, MeterType
<1>1. r \in [done : BOOLEAN, calls : SUBSET Sub] /\ NoBucket \in [open : BOOLEAN, calls : SUBSET Sub]
    BY <1>0 DEF NoBucket
<1>2. report' = [report EXCEPT ![s] = r] /\ buckets' = [buckets EXCEPT ![x] = NoBucket]
      /\ UNCHANGED <<called, pc>>
    BY DEF ReportUsage, vars
<1> HIDE DEF r
<1>3. /\ report' \in [Sub -> [done : BOOLEAN, calls : SUBSET Sub]]
      /\ buckets' \in [Session -> [open : BOOLEAN, calls : SUBSET Sub]]
    BY <1>0, <1>1, <1>2
<1>4. FreshInv'
    BY <1>0, <1>2 DEF SvcInv, FreshInv
<1>5. NoBucketLeak'
    <2> SUFFICES ASSUME NEW y \in Session,
                        \A u \in Sub : SessionOf[u] = y /\ u \in Metered =>
                            report'[u].done \/ pc'[u] = "new"
                 PROVE  ~buckets'[y].open
        BY DEF NoBucketLeak
    <2>1. CASE y = x
        BY <1>0, <1>2, <2>1 DEF NoBucket
    <2>2. CASE y # x
        BY <1>0, <1>2, <2>2 DEF SvcInv, NoBucketLeak
    <2> QED BY <2>1, <2>2
<1> QED BY <1>2, <1>3, <1>4, <1>5, SvcParts DEF MeterInv, MeterType

\* record() adds to a bucket that is open, and opens none.
LEMMA RecordMeter ==
    ASSUME SvcInv, NEW s \in Sub, InferenceEnds(s)
    PROVE  MeterInv'
<1> DEFINE x == SessionOf[s]
           b == Bucket(buckets[x].calls \cup {s})
<1>0. /\ x \in Session
      /\ buckets \in [Session -> [open : BOOLEAN, calls : SUBSET Sub]]
      /\ UNCHANGED <<report, pc>> /\ called' = called \cup {s}
    BY SessionOfType, SvcParts DEF InferenceEnds, RecordUsage, MeterInv, MeterType, vars
<1>1. b \in [open : BOOLEAN, calls : SUBSET Sub]
    BY <1>0 DEF Bucket
<1>2. buckets' = IF buckets[x].open THEN [buckets EXCEPT ![x] = b] ELSE buckets
    BY DEF InferenceEnds, RecordUsage
<1> HIDE DEF b
<1>3. /\ buckets' \in [Session -> [open : BOOLEAN, calls : SUBSET Sub]]
      /\ \A y \in Session : ~buckets[y].open => ~buckets'[y].open
    BY <1>0, <1>1, <1>2
<1>4. FreshInv' /\ NoBucketLeak'
    BY <1>0, <1>3 DEF SvcInv, FreshInv, NoBucketLeak
<1> QED BY <1>0, <1>3, <1>4, SvcParts DEF MeterInv, MeterType

-----------------------------------------------------------------------------
\* A body starts: the window of its session opens, or the turn fails at once.
LEMMA StartSteer ==
    ASSUME SvcInv, NEW s \in Sub, StartTurn(s) \/ StartTurnFails(s)
    PROVE  PhaseType' /\ PhaseInv' /\ SteerInv'
<1>0. /\ pc \in [Sub -> Stage] /\ SessionOf[s] \in Session
      /\ phase \in [Sub -> InLoop \cup {"none", "closed", "thrown"}]
    BY SvcParts, SessionOfType DEF ChainInv, TypeOK, PhaseType
<1>1. /\ pc[s] = "front" /\ pc'[s] = "running" /\ \A u \in Sub : u # s => pc'[u] = pc[u]
    BY <1>0 DEF StartTurn, StartTurnFails, Start
<1>2. /\ phase' \in [Sub -> InLoop \cup {"none", "closed", "thrown"}]
      /\ \A u \in Sub : u # s => phase'[u] = phase[u]
    BY <1>0 DEF StartTurn, StartTurnFails, InLoop
<1>3. PhaseType' /\ PhaseInv'
    BY <1>1, <1>2, SvcParts DEF PhaseType, PhaseInv
<1>4. \A u \in Sub : pc[u] = "running" /\ phase[u] \in InLoop =>
                     pc'[u] = "running" /\ phase'[u] \in InLoop
    BY <1>1, <1>2
<1>5. CASE StartTurnFails(s)
    BY <1>3, <1>4, <1>5, SteerQuiet DEF StartTurnFails
<1>6. CASE StartTurn(s)
    <2>1. /\ UNCHANGED <<inbox, fate, sentTo, gotBy>>
          /\ accepting' = accepting \cup {SessionOf[s]} /\ phase'[s] \in InLoop
        BY <1>0, <1>6 DEF StartTurn, InLoop
    <2>2. SteerType' /\ UnsentInv' /\ SteerStaysInItsTurn'
        BY <1>0, <2>1, SvcParts DEF SteerInv, SteerType, UnsentInv, SteerStaysInItsTurn
    <2>3. WindowIsLive'
        BY <1>1, <1>4, <2>1, SvcParts DEF SteerInv, WindowIsLive
    <2>4. PendingInv'
        BY <1>4, <2>1, SvcParts DEF SteerInv, PendingInv, LoopOf
    <2> QED BY <1>3, <2>2, <2>3, <2>4 DEF SteerInv
<1> QED BY <1>5, <1>6

\* The loop goes from stage to stage: every loop that runs still does.
LEMMA StageSteer ==
    ASSUME SvcInv, NEW s \in Sub, BeginStep(s) \/ SendPrompt(s) \/ InferenceEnds(s)
    PROVE  PhaseType' /\ PhaseInv' /\ SteerInv'
<1>0. phase \in [Sub -> InLoop \cup {"none", "closed", "thrown"}]
    BY SvcParts DEF PhaseType
<1>1. UNCHANGED <<pc, steerVars>>
    BY DEF BeginStep, SendPrompt, InferenceEnds, vars
<1>2. /\ phase' \in [Sub -> InLoop \cup {"none", "closed", "thrown"}]
      /\ phase[s] \in InLoop /\ phase'[s] \in InLoop
      /\ \A u \in Sub : u # s => phase'[u] = phase[u]
    BY <1>0 DEF BeginStep, SendPrompt, InferenceEnds, InLoop
<1>3. PhaseType' /\ PhaseInv'
    BY <1>1, <1>2, SvcParts DEF PhaseType, PhaseInv
<1>4. SteerInv'
    BY <1>1, <1>2, SteerQuiet
<1> QED BY <1>3, <1>4

\* drain(): the loop takes out what was accepted for it, and that is all that
\* was in the inbox of its session.
LEMMA DrainFacts ==
    ASSUME SvcInv, NEW s \in Sub, NEW f \in Fates \ {"unsent"}, Drain(s, f),
           phase[s] \in InLoop
    PROVE  /\ inbox' \in [Session -> Seq(Msg)] /\ fate' \in [Msg -> Fates]
           /\ gotBy' \in [Msg -> Sub \cup {None}]
           /\ inbox'[SessionOf[s]] = <<>>
           /\ \A x \in Session : x # SessionOf[s] => inbox'[x] = inbox[x]
           /\ \A m \in ToSet(inbox[SessionOf[s]]) : sentTo[m] = s
           /\ \A x \in Session : \A m \in ToSet(inbox[x]) :
                 x # SessionOf[s] => fate'[m] = "pending"
           /\ UnsentInv' /\ SteerStaysInItsTurn'
<1> DEFINE y == SessionOf[s]
           taken == ToSet(inbox[y])
<1>0. /\ y \in Session /\ inbox \in [Session -> Seq(Msg)] /\ fate \in [Msg -> Fates]
      /\ gotBy \in [Msg -> Sub \cup {None}] /\ pc[s] = "running"
      /\ PendingInv /\ UnsentInv /\ SteerStaysInItsTurn
    BY SessionOfType, SvcParts DEF SteerInv, SteerType, PhaseInv
<1>1. /\ inbox' = [inbox EXCEPT ![y] = <<>>] /\ sentTo' = sentTo
      /\ fate' = [m \in Msg |-> IF m \in taken THEN f ELSE fate[m]]
      /\ gotBy' = [m \in Msg |-> IF m \in taken THEN s ELSE gotBy[m]]
    BY DEF Drain
<1>2. \A m \in taken : sentTo[m] = s
    BY <1>0, OneLoop DEF PendingInv, LoopOf
<1>3. \A x \in Session : \A m \in ToSet(inbox[x]) : x # y => m \notin taken /\ fate[m] = "pending"
    BY <1>0 DEF PendingInv, LoopOf
<1>4. \A x \in Session : ToSet(inbox[x]) \subseteq Msg
    BY <1>0 DEF ToSet
<1> HIDE DEF taken, y
<1>5. /\ inbox' \in [Session -> Seq(Msg)] /\ inbox'[y] = <<>>
      /\ \A x \in Session : x # y => inbox'[x] = inbox[x]
    BY <1>0, <1>1
<1>6. fate' \in [Msg -> Fates] /\ gotBy' \in [Msg -> Sub \cup {None}]
    BY <1>0, <1>1
<1>7. \A x \in Session : \A m \in ToSet(inbox[x]) : x # y => fate'[m] = "pending"
    BY <1>1, <1>3, <1>4
<1>8. UnsentInv'
    BY <1>0, <1>1 DEF UnsentInv
<1>9. SteerStaysInItsTurn'
    BY <1>0, <1>1, <1>2 DEF SteerStaysInItsTurn
<1> QED BY <1>2, <1>5, <1>6, <1>7, <1>8, <1>9 DEF taken, y

LEMMA EmptyIsShort ==
    ASSUME SvcInv, NEW y \in Session, inbox' \in [Session -> Seq(Msg)], inbox'[y] = <<>>,
           \A x \in Session : x # y => inbox'[x] = inbox[x]
    PROVE  \A x \in Session : Len(inbox'[x]) <= MAX_PENDING_STEERS
<1>1. Len(inbox'[y]) = 0
    OBVIOUS
<1> QED BY <1>1, SvcParts, CapPositive DEF SteerInv, SteerType

\* The prompt of a step takes the messages; the loop goes on.
LEMMA TakeSteer ==
    ASSUME SvcInv, NEW s \in Sub, DrainAtStep(s) \/ DrainLate(s)
    PROVE  PhaseType' /\ PhaseInv' /\ SteerInv'
<1> DEFINE y == SessionOf[s]
<1>0. /\ phase \in [Sub -> InLoop \cup {"none", "closed", "thrown"}] /\ y \in Session
    BY SvcParts, SessionOfType DEF PhaseType
<1>1. /\ UNCHANGED <<pc, accepting, sentTo>> /\ Drain(s, "delivered")
    BY DEF DrainAtStep, DrainLate, vars, Drain
<1>2. /\ phase' \in [Sub -> InLoop \cup {"none", "closed", "thrown"}]
      /\ phase[s] \in InLoop /\ phase'[s] \in InLoop
      /\ \A u \in Sub : u # s => phase'[u] = phase[u]
    BY <1>0 DEF DrainAtStep, DrainLate, InLoop
<1>3. PhaseType' /\ PhaseInv'
    BY <1>1, <1>2, SvcParts DEF PhaseType, PhaseInv
<1>4. /\ inbox' \in [Session -> Seq(Msg)] /\ fate' \in [Msg -> Fates]
      /\ gotBy' \in [Msg -> Sub \cup {None}] /\ inbox'[y] = <<>>
      /\ \A x \in Session : x # y => inbox'[x] = inbox[x]
      /\ \A x \in Session : \A m \in ToSet(inbox[x]) : x # y => fate'[m] = "pending"
      /\ UnsentInv' /\ SteerStaysInItsTurn'
    BY <1>1, <1>2, DrainFacts DEF Fates
<1>5. SteerType'
    BY <1>0, <1>1, <1>4, EmptyIsShort, SvcParts DEF SteerInv, SteerType
<1>6. WindowIsLive'
    BY <1>1, <1>2, <1>4, SvcParts DEF SteerInv, WindowIsLive
<1>7. PendingInv'
    <2>1. ToSet(inbox'[y]) = {}
        BY <1>4 DEF ToSet
    <2>2. \A u \in Sub, x \in Session : LoopOf(u, x) => LoopOf(u, x)'
        BY <1>1, <1>2 DEF LoopOf
    <2> QED BY <1>1, <1>4, <2>1, <2>2, SvcParts DEF SteerInv, PendingInv
<1> QED BY <1>3, <1>4, <1>5, <1>6, <1>7 DEF SteerInv

\* The last drain closes the window in the same step.
LEMMA CloseSteer ==
    ASSUME SvcInv, NEW s \in Sub, CloseTurn(s) \/ ThrowTurn(s)
    PROVE  PhaseType' /\ PhaseInv' /\ SteerInv'
<1> DEFINE y == SessionOf[s]
<1>0. /\ phase \in [Sub -> InLoop \cup {"none", "closed", "thrown"}] /\ y \in Session
    BY SvcParts, SessionOfType DEF PhaseType
<1>1. /\ UNCHANGED <<pc, sentTo>> /\ accepting' = accepting \ {y}
      /\ Drain(s, "flushed") \/ Drain(s, "lost")
    BY DEF CloseTurn, ThrowTurn, CloseAndDrain, vars, Drain
<1>2. /\ phase' \in [Sub -> InLoop \cup {"none", "closed", "thrown"}]
      /\ phase[s] \in InLoop /\ phase'[s] \notin InLoop
      /\ \A u \in Sub : u # s => phase'[u] = phase[u]
    BY <1>0 DEF CloseTurn, ThrowTurn, InLoop
<1>3. PhaseType' /\ PhaseInv'
    BY <1>1, <1>2, SvcParts DEF PhaseType, PhaseInv
<1>4. /\ inbox' \in [Session -> Seq(Msg)] /\ fate' \in [Msg -> Fates]
      /\ gotBy' \in [Msg -> Sub \cup {None}] /\ inbox'[y] = <<>>
      /\ \A x \in Session : x # y => inbox'[x] = inbox[x]
      /\ \A x \in Session : \A m \in ToSet(inbox[x]) : x # y => fate'[m] = "pending"
      /\ UnsentInv' /\ SteerStaysInItsTurn'
    BY <1>1, <1>2, DrainFacts DEF Fates
<1>5. SteerType'
    BY <1>0, <1>1, <1>4, EmptyIsShort, SvcParts DEF SteerInv, SteerType
<1>6. WindowIsLive'
    BY <1>1, <1>2, <1>4, SvcParts DEF SteerInv, WindowIsLive
<1>7. PendingInv'
    <2>1. ToSet(inbox'[y]) = {}
        BY <1>4 DEF ToSet
    <2>2. \A u \in Sub, x \in Session : x # y /\ LoopOf(u, x) => LoopOf(u, x)'
        BY <1>1, <1>2 DEF LoopOf
    <2> QED BY <1>1, <1>4, <2>1, <2>2, SvcParts DEF SteerInv, PendingInv
<1> QED BY <1>3, <1>4, <1>5, <1>6, <1>7 DEF SteerInv

\* run() settles: a turn whose window is closed ends, no other one is touched.
LEMMA EndSteer ==
    ASSUME SvcInv, NEW s \in Sub, ReturnTurn(s) \/ FailTurn(s)
    PROVE  PhaseType' /\ PhaseInv' /\ SteerInv'
<1>0. /\ pc \in [Sub -> Stage] /\ fate \in [Msg -> Fates]
    BY SvcParts DEF ChainInv, TypeOK, SteerInv, SteerType
<1>1. /\ UNCHANGED <<phase, accepting, inbox, sentTo, gotBy>> /\ phase[s] \notin InLoop
    BY DEF ReturnTurn, FailTurn, InLoop
<1>2. \A u \in Sub : u # s => pc'[u] = pc[u]
    BY <1>0 DEF ReturnTurn, FailTurn, Finish
<1>3. /\ fate' \in [Msg -> Fates]
      /\ \A m \in Msg : /\ fate[m] # "flushed" => fate'[m] = fate[m]
                        /\ fate'[m] = "unsent" => fate[m] = "unsent"
    BY <1>0 DEF ReturnTurn, FailTurn, FlushedBy, Fates
<1>4. PhaseType' /\ PhaseInv'
    BY <1>1, <1>2, SvcParts DEF PhaseType, PhaseInv
<1>5. SteerType' /\ UnsentInv' /\ SteerStaysInItsTurn'
    BY <1>1, <1>3, SvcParts DEF SteerInv, SteerType, UnsentInv, SteerStaysInItsTurn
<1>6. WindowIsLive'
    BY <1>1, <1>2, SvcParts DEF SteerInv, WindowIsLive
<1>7. PendingInv'
    <2>1. \A u \in Sub, x \in Session : LoopOf(u, x) => LoopOf(u, x)'
        BY <1>1, <1>2 DEF LoopOf
    <2>2. \A x \in Session : ToSet(inbox[x]) \subseteq Msg
        <3>1. inbox \in [Session -> Seq(Msg)]
            BY SvcParts DEF SteerInv, SteerType
        <3> QED BY <3>1 DEF ToSet
    <2>3. \A x \in Session : \A m \in ToSet(inbox[x]) : fate'[m] = "pending"
        BY <1>3, <2>2, SvcParts DEF SteerInv, PendingInv
    <2> QED BY <1>1, <2>1, <2>3, SvcParts DEF SteerInv, PendingInv
<1> QED BY <1>4, <1>5, <1>6, <1>7 DEF SteerInv

\* push() behind an open window: the turn it is filed under is the one whose
\* loop will drain it.
LEMMA PushSteer ==
    ASSUME SvcInv, NEW x \in Session, NEW m \in Msg, Steer(x, m)
    PROVE  PhaseType' /\ PhaseInv' /\ SteerInv'
<1>0. /\ inbox \in [Session -> Seq(Msg)] /\ fate \in [Msg -> Fates]
      /\ sentTo \in [Msg -> Sub \cup {None}] /\ SteerType /\ WindowIsLive
      /\ PendingInv /\ UnsentInv /\ SteerStaysInItsTurn
      /\ fate[m] = "unsent" /\ UNCHANGED <<pc, phase, accepting, gotBy>>
    BY SvcParts DEF SteerInv, SteerType, Steer, vars
<1>1. PhaseType' /\ PhaseInv'
    BY <1>0, SvcParts DEF PhaseType, PhaseInv
<1>2. gotBy[m] = None
    BY <1>0 DEF UnsentInv
<1>3. \A y \in Session : ToSet(inbox[y]) \subseteq Msg /\ m \notin ToSet(inbox[y])
    BY <1>0 DEF ToSet, PendingInv
<1>4. \A u \in Sub, y \in Session : LoopOf(u, y)' <=> LoopOf(u, y)
    BY <1>0 DEF LoopOf
<1>5. CASE Accepts(x)
    <2> DEFINE s == CHOOSE s \in Sub : SessionOf[s] = x /\ pc[s] = "running"
    <2>1. PICK u \in Sub : LoopOf(u, x)
        BY <1>0, <1>5 DEF Accepts, WindowIsLive, LoopOf
    <2>2. s \in Sub /\ SessionOf[s] = x /\ pc[s] = "running"
        BY <2>1 DEF LoopOf
    <2>3. LoopOf(s, x)
        BY <2>1, <2>2, OneLoop DEF LoopOf
    <2>4. /\ inbox' = [inbox EXCEPT ![x] = Append(inbox[x], m)]
          /\ fate' = [fate EXCEPT ![m] = "pending"]
          /\ sentTo' = [sentTo EXCEPT ![m] = s]
        BY <1>5 DEF Steer
    <2> HIDE DEF s
    <2>5. Append(inbox[x], m) \in Seq(Msg) /\ Len(Append(inbox[x], m)) = Len(inbox[x]) + 1
        BY <1>0
    <2>6. /\ inbox' \in [Session -> Seq(Msg)] /\ fate' \in [Msg -> Fates]
          /\ sentTo' \in [Msg -> Sub \cup {None}]
        BY <1>0, <2>2, <2>4, <2>5 DEF Fates
    <2>7. \A y \in Session : Len(inbox'[y]) <= MAX_PENDING_STEERS
        <3>1. Len(inbox[x]) < MAX_PENDING_STEERS /\ Len(inbox[x]) \in Nat
            BY <1>0, <1>5 DEF Accepts
        <3>2. Len(Append(inbox[x], m)) <= MAX_PENDING_STEERS
            BY <2>5, <3>1, CapPositive
        <3> QED BY <1>0, <2>4, <3>2 DEF SteerType
    <2>8. SteerType'
        BY <1>0, <2>6, <2>7 DEF SteerType
    <2>9. WindowIsLive'
        BY <1>0, <1>5, <2>4 DEF WindowIsLive, Accepts
    <2>10. PendingInv'
        <3>1. \A n \in ToSet(Append(inbox[x], m)) : n \in ToSet(inbox[x]) \/ n = m
            <4> DEFINE q == inbox[x]
            <4>0. q \in Seq(Msg)
                BY <1>0
            <4> HIDE DEF q
            <4>1. ASSUME NEW i \in DOMAIN Append(q, m)
                  PROVE  (i \in DOMAIN q /\ Append(q, m)[i] = q[i]) \/ Append(q, m)[i] = m
                BY <4>0
            <4> QED BY <4>1 DEF ToSet, q
        <3>2. \A y \in Session : \A n \in ToSet(inbox'[y]) :
                  n \in ToSet(inbox[y]) \/ (y = x /\ n = m)
            BY <1>0, <2>4, <3>1
        <3>3. \A n \in Msg : n # m => sentTo'[n] = sentTo[n] /\ fate'[n] = fate[n]
            BY <1>0, <2>4
        <3>4. sentTo'[m] = s /\ fate'[m] = "pending"
            BY <1>0, <2>4
        <3> SUFFICES ASSUME NEW y \in Session, NEW n \in ToSet(inbox'[y])
                     PROVE  /\ sentTo'[n] \in Sub /\ LoopOf(sentTo[n], y)'
                            /\ fate'[n] = "pending"
            BY DEF PendingInv
        <3>5. CASE n \in ToSet(inbox[y])
            <4>1. sentTo'[n] = sentTo[n] /\ fate'[n] = fate[n]
                BY <1>3, <3>3, <3>5
            <4>2. sentTo[n] \in Sub /\ LoopOf(sentTo[n], y) /\ fate[n] = "pending"
                BY <1>0, <3>5 DEF PendingInv
            <4> QED BY <1>0, <4>1, <4>2 DEF LoopOf
        <3>6. CASE y = x /\ n = m
            BY <1>0, <2>2, <2>3, <3>4, <3>6 DEF LoopOf
        <3> QED BY <3>2, <3>5, <3>6
    <2>11. UnsentInv' /\ SteerStaysInItsTurn'
        BY <1>0, <1>2, <2>4 DEF UnsentInv, SteerStaysInItsTurn
    <2> QED BY <1>1, <2>8, <2>9, <2>10, <2>11 DEF SteerInv
<1>6. CASE ~Accepts(x)
    <2>1. fate' = [fate EXCEPT ![m] = "refused"] /\ UNCHANGED <<inbox, sentTo>>
        BY <1>6 DEF Steer
    <2>2. SteerType' /\ WindowIsLive' /\ UnsentInv' /\ SteerStaysInItsTurn'
        BY <1>0, <2>1 DEF SteerType, WindowIsLive, UnsentInv, SteerStaysInItsTurn, Fates
    <2>3. PendingInv'
        BY <1>0, <1>3, <2>1 DEF PendingInv, LoopOf
    <2> QED BY <1>1, <2>2, <2>3 DEF SteerInv
<1> QED BY <1>5, <1>6

\* shutdown() leaves neither a window nor a message.
LEMMA ClearSteer ==
    ASSUME SvcInv, ClearAll
    PROVE  PhaseType' /\ PhaseInv' /\ SteerInv'
<1>0. /\ accepting' = {} /\ inbox' = [x \in Session |-> <<>>]
      /\ UNCHANGED <<pc, phase, sentTo, gotBy>>
    BY DEF ClearAll, vars
<1>1. /\ fate' \in [Msg -> Fates] /\ \A m \in Msg : fate'[m] = "unsent" => fate[m] = "unsent"
    <2> DEFINE taken == UNION {ToSet(inbox[x]) : x \in Session}
    <2>1. fate' = [m \in Msg |-> IF m \in taken THEN "lost" ELSE fate[m]]
        BY DEF ClearAll
    <2> HIDE DEF taken
    <2> QED BY <2>1, SvcParts DEF SteerInv, SteerType, Fates
<1>2. PhaseType' /\ PhaseInv'
    BY <1>0, SvcParts DEF PhaseType, PhaseInv
<1>3. /\ inbox' \in [Session -> Seq(Msg)]
      /\ \A x \in Session : inbox'[x] = <<>> /\ Len(inbox'[x]) = 0 /\ ToSet(inbox'[x]) = {}
    BY <1>0 DEF ToSet
<1>4. SteerType'
    BY <1>0, <1>1, <1>3, SvcParts, CapPositive DEF SteerInv, SteerType
<1>5. WindowIsLive' /\ PendingInv'
    BY <1>0, <1>3 DEF WindowIsLive, PendingInv
<1>6. UnsentInv' /\ SteerStaysInItsTurn'
    BY <1>0, <1>1, SvcParts DEF SteerInv, UnsentInv, SteerStaysInItsTurn
<1> QED BY <1>2, <1>4, <1>5, <1>6 DEF SteerInv

LEMMA NextSvc == SvcInv /\ [SvcNext]_allVars => SvcInv'
<1> SUFFICES ASSUME SvcInv, [SvcNext]_allVars PROVE SvcInv'
    OBVIOUS
<1>1. ChainInv'
    BY ChainKept
<1>2. PhaseType' /\ PhaseInv' /\ SteerInv'
    <2>1. CASE UNCHANGED allVars
        <3>1. UNCHANGED <<pc, phase, steerVars>>
            BY <2>1 DEF allVars, vars, svcVars
        <3>2. SteerInv'
            BY <3>1, SteerQuiet
        <3> QED BY <3>1, <3>2, SvcParts DEF PhaseType, PhaseInv
    <2>2. ASSUME NEW s \in Sub, TurnStep(s) PROVE PhaseType' /\ PhaseInv' /\ SteerInv'
        BY <2>2, StageSteer, TakeSteer, CloseSteer, EndSteer DEF TurnStep
    <2>3. ASSUME NEW s \in Sub,
                 \/ SubmitTurn(s) \/ CancelTurn(s) \/ ReachFront(s) \/ DropTurn(s)
                 \/ StartTurn(s) \/ StartTurnFails(s) \/ ReportUsage(s)
          PROVE  PhaseType' /\ PhaseInv' /\ SteerInv'
        BY <2>3, ControllerStep, StartSteer
    <2> QED BY <2>1, <2>2, <2>3, PushSteer, ClearSteer DEF SvcNext
<1>3. MeterInv'
    <2>1. CASE UNCHANGED meterVars
        BY <2>1, MeterQuiet
    <2>2. ASSUME NEW s \in Sub, SubmitTurn(s) \/ ReportUsage(s) \/ InferenceEnds(s)
          PROVE  MeterInv'
        BY <2>2, SubmitMeter, ReportMeter, RecordMeter
    <2>3. ASSUME NEW s \in Sub,
                 \/ CancelTurn(s) \/ ReachFront(s) \/ DropTurn(s)
                 \/ StartTurn(s) \/ StartTurnFails(s) \/ BeginStep(s) \/ DrainAtStep(s)
                 \/ DrainLate(s) \/ SendPrompt(s) \/ CloseTurn(s) \/ ThrowTurn(s)
                 \/ ReturnTurn(s) \/ FailTurn(s)
          PROVE  UNCHANGED meterVars
        BY <2>3 DEF CancelTurn, ReachFront, DropTurn, StartTurn, StartTurnFails, BeginStep,
                    DrainAtStep, DrainLate, SendPrompt, CloseTurn, ThrowTurn, ReturnTurn,
                    FailTurn, svcVars
    <2>4. ASSUME NEW x \in Session, NEW m \in Msg, Steer(x, m) PROVE UNCHANGED meterVars
        BY <2>4 DEF Steer
    <2>5. ClearAll \/ UNCHANGED allVars => UNCHANGED meterVars
        BY DEF ClearAll, allVars, svcVars
    <2> QED BY <2>1, <2>2, <2>3, <2>4, <2>5 DEF SvcNext, TurnStep
<1> QED BY <1>1, <1>2, <1>3 DEF SvcInv, SvcTypeOK, ChainInv, SteerInv, MeterInv, SteerType,
        MeterType, PhaseType

-----------------------------------------------------------------------------
\* The inductive invariant of the turn service.
THEOREM SvcInvariant == SvcSpec => []SvcInv
<1>1. SvcInit => SvcInv
    BY InitSvc
<1> QED BY <1>1, NextSvc, PTL DEF SvcSpec

\* Every variable of the service keeps its type, and no inbox exceeds
\* MAX_PENDING_STEERS.
THEOREM SvcTypeCorrect == SvcSpec => []SvcTypeOK
<1>1. SvcInv => SvcTypeOK
    BY DEF SvcInv
<1> QED BY <1>1, SvcInvariant, PTL

\* SteeringInbox: an open window has a turn that will drain it, and no message
\* waits behind a closed one.
THEOREM WindowsAreLive == SvcSpec => []WindowIsLive
<1>1. SvcInv => WindowIsLive
    BY DEF SvcInv
<1> QED BY <1>1, SvcInvariant, PTL

\* A steering message is never taken by a later turn of its session.
THEOREM SteersStay == SvcSpec => []SteerStaysInItsTurn
<1>1. SvcInv => SteerStaysInItsTurn
    BY DEF SvcInv
<1> QED BY <1>1, SvcInvariant, PTL

\* TurnUsageMeter: no bucket outlives the turns that report it.
THEOREM BucketsAreReleased == SvcSpec => []NoBucketLeak
<1>1. SvcInv => NoBucketLeak
    BY DEF SvcInv
<1> QED BY <1>1, SvcInvariant, PTL

-----------------------------------------------------------------------------
\* The body of g has returned, or its loop has thrown.
Over(g) == pc[g] = "done" \/ (pc[g] = "running" /\ phase[g] = "thrown")

\* Where a message is: one that is pending sits in an inbox and nobody has
\* taken it, one that was flushed has a turn that holds it, and one that a
\* turn lost was lost by a turn that is over.
AccountOf(m) ==
    /\ fate[m] \in {"unsent", "refused"} => sentTo[m] = None
    /\ fate[m] = "pending" => gotBy[m] = None /\ \E x \in Session : m \in ToSet(inbox[x])
    /\ fate[m] = "flushed" => gotBy[m] # None
    /\ fate[m] = "lost" /\ gotBy[m] # None => Over(gotBy[m])

AccountInv == \A m \in Msg : AccountOf(m)

\* A turn that is over stays over.
LEMMA OverStays ==
    ASSUME SvcInv, [SvcNext]_allVars, NEW g \in Sub, Over(g)
    PROVE  Over(g)'
<1>0. /\ pc \in [Sub -> Stage] /\ phase \in [Sub -> InLoop \cup {"none", "closed", "thrown"}]
      /\ phase[g] \in InLoop => pc[g] = "running"
    BY SvcParts DEF ChainInv, TypeOK, PhaseType, PhaseInv
<1>1. CASE UNCHANGED <<pc, phase>>
    BY <1>1 DEF Over
<1>2. ASSUME NEW s \in Sub,
             \/ SubmitTurn(s) \/ CancelTurn(s) \/ ReachFront(s) \/ DropTurn(s)
             \/ StartTurn(s) \/ StartTurnFails(s)
      PROVE  Over(g)'
    <2>1. pc[s] # "running" /\ pc[s] # "done" => s # g
        BY DEF Over
    <2>2. CASE UNCHANGED phase
        <3>1. \A u \in Sub : pc[u] \in {"running", "done"} => pc'[u] = pc[u]
            BY <1>0, <1>2 DEF SubmitTurn, CancelTurn, ReachFront, DropTurn, StartTurn,
               StartTurnFails, Enqueue, RejectAborted, Abort, Wake, DropCancelled, Start
        <3> QED BY <2>2, <3>1 DEF Over
    <2>3. CASE StartTurn(s) \/ StartTurnFails(s)
        <3>1. s # g /\ pc' = [pc EXCEPT ![s] = "running"] /\ phase'[g] = phase[g]
            BY <1>0, <2>1, <2>3 DEF StartTurn, StartTurnFails, Start
        <3> QED BY <1>0, <3>1 DEF Over
    <2> QED BY <1>2, <2>2, <2>3 DEF SubmitTurn, CancelTurn, ReachFront, DropTurn, svcVars
<1>3. ASSUME NEW s \in Sub,
             \/ BeginStep(s) \/ DrainAtStep(s) \/ DrainLate(s) \/ SendPrompt(s)
             \/ InferenceEnds(s) \/ CloseTurn(s) \/ ThrowTurn(s)
      PROVE  Over(g)'
    <2>1. pc' = pc /\ phase[s] \in InLoop /\ \A u \in Sub : u # s => phase'[u] = phase[u]
        BY <1>0, <1>3 DEF BeginStep, DrainAtStep, DrainLate, SendPrompt, InferenceEnds,
           CloseTurn, ThrowTurn, vars, InLoop
    <2>2. CASE s = g
        BY <2>1, <2>2, SvcParts DEF PhaseInv, Over, InLoop
    <2>3. CASE s # g
        BY <2>1, <2>3 DEF Over
    <2> QED BY <2>2, <2>3
<1>4. ASSUME NEW s \in Sub, ReturnTurn(s) \/ FailTurn(s) PROVE Over(g)'
    BY <1>0, <1>4 DEF ReturnTurn, FailTurn, Finish, Over
<1>5. ASSUME NEW s \in Sub, ReportUsage(s) PROVE UNCHANGED <<pc, phase>>
    BY <1>5 DEF ReportUsage, vars
<1>6. ASSUME NEW x \in Session, NEW m \in Msg, Steer(x, m) PROVE UNCHANGED <<pc, phase>>
    BY <1>6 DEF Steer, vars
<1>7. ClearAll \/ UNCHANGED allVars => UNCHANGED <<pc, phase>>
    BY DEF ClearAll, allVars, vars, svcVars
<1> QED BY <1>1, <1>2, <1>3, <1>4, <1>5, <1>6, <1>7 DEF SvcNext, TurnStep

\* drain(): who takes a message keeps it accounted for.
LEMMA DrainAccount ==
    ASSUME SvcInv, NEW s \in Sub, NEW f \in {"delivered", "flushed", "lost"}, Drain(s, f),
           f = "lost" => Over(s)', NEW m \in Msg, AccountOf(m),
           \A g \in Sub : Over(g) => Over(g)'
    PROVE  AccountOf(m)'
<1> DEFINE y == SessionOf[s]
<1>0. /\ y \in Session /\ inbox \in [Session -> Seq(Msg)] /\ s # None
      /\ gotBy \in [Msg -> Sub \cup {None}]
    BY SessionOfType, NoneIsNoSub, SvcParts DEF SteerInv, SteerType
<1>1. CASE m \in ToSet(inbox[y])
    <2>1. fate'[m] = f /\ gotBy'[m] = s
        BY <1>1 DEF Drain
    <2> QED BY <1>0, <2>1 DEF AccountOf, Over
<1>2. CASE m \notin ToSet(inbox[y])
    <2>1. fate'[m] = fate[m] /\ gotBy'[m] = gotBy[m] /\ sentTo' = sentTo
        BY <1>2 DEF Drain
    <2>2. \A x \in Session : x # y => inbox'[x] = inbox[x]
        BY <1>0 DEF Drain
    <2>3. fate[m] = "pending" => \E x \in Session : m \in ToSet(inbox'[x])
        BY <1>2, <2>2 DEF AccountOf
    <2> QED BY <1>0, <2>1, <2>3 DEF AccountOf, Over
<1> QED BY <1>1, <1>2

LEMMA NextAccount == SvcInv /\ AccountInv /\ [SvcNext]_allVars => AccountInv'
<1> SUFFICES ASSUME SvcInv, AccountInv, [SvcNext]_allVars, NEW m \in Msg
             PROVE  AccountOf(m)'
    BY DEF AccountInv
<1>0. /\ inbox \in [Session -> Seq(Msg)] /\ fate \in [Msg -> Fates]
      /\ sentTo \in [Msg -> Sub \cup {None}] /\ gotBy \in [Msg -> Sub \cup {None}]
      /\ pc \in [Sub -> Stage] /\ phase \in [Sub -> InLoop \cup {"none", "closed", "thrown"}]
      /\ AccountOf(m) /\ UnsentInv
    BY SvcParts DEF SteerInv, SteerType, ChainInv, TypeOK, PhaseType, AccountInv
<1>1. \A g \in Sub : Over(g) => Over(g)'
    BY OverStays
<1>2. CASE UNCHANGED steerVars
    BY <1>0, <1>1, <1>2 DEF steerVars, AccountOf, Over
<1>3. ASSUME NEW s \in Sub, DrainAtStep(s) \/ DrainLate(s) PROVE AccountOf(m)'
    <2>1. Drain(s, "delivered")
        BY <1>3 DEF DrainAtStep, DrainLate
    <2> QED BY <1>0, <1>1, <2>1, DrainAccount
<1>4. ASSUME NEW s \in Sub, CloseTurn(s) PROVE AccountOf(m)'
    <2>1. Drain(s, "flushed")
        BY <1>4 DEF CloseTurn, CloseAndDrain
    <2> QED BY <1>0, <1>1, <2>1, DrainAccount
<1>5. ASSUME NEW s \in Sub, ThrowTurn(s) PROVE AccountOf(m)'
    <2>1. Drain(s, "lost") /\ phase[s] \in InLoop
        BY <1>5 DEF ThrowTurn, CloseAndDrain
    <2>2. pc[s] = "running"
        BY <2>1, SvcParts DEF PhaseInv
    <2>3. Over(s)'
        BY <1>0, <1>5, <2>2 DEF ThrowTurn, Over, vars
    <2> QED BY <1>0, <1>1, <2>1, <2>3, DrainAccount
<1>6. ASSUME NEW s \in Sub, ReturnTurn(s) \/ FailTurn(s) PROVE AccountOf(m)'
    <2>1. UNCHANGED <<inbox, sentTo, gotBy>> /\ pc'[s] = "done"
        BY <1>0, <1>6 DEF ReturnTurn, FailTurn, Finish
    <2>2. CASE m \in FlushedBy(s)
        <3>1. fate'[m] \in {"returned", "lost"} /\ gotBy[m] = s
            BY <1>6, <2>2 DEF ReturnTurn, FailTurn, FlushedBy
        <3> QED BY <2>1, <3>1 DEF AccountOf, Over
    <2>3. CASE m \notin FlushedBy(s)
        <3>1. fate'[m] = fate[m]
            BY <1>6, <2>3 DEF ReturnTurn, FailTurn
        <3> QED BY <1>0, <1>1, <2>1, <3>1 DEF AccountOf, Over
    <2> QED BY <2>2, <2>3
<1>7. ASSUME NEW x \in Session, NEW n \in Msg, Steer(x, n) PROVE AccountOf(m)'
    <2>1. gotBy' = gotBy
        BY <1>7 DEF Steer
    <2>2. CASE n # m
        <3>1. fate'[m] = fate[m] /\ sentTo'[m] = sentTo[m]
            BY <1>0, <1>7, <2>2 DEF Steer
        <3>2. \A z \in Session : m \in ToSet(inbox[z]) => m \in ToSet(inbox'[z])
            <4>1. \A z \in Session : inbox'[z] = inbox[z] \/ inbox'[z] = Append(inbox[z], n)
                BY <1>0, <1>7 DEF Steer
            <4>2. \A q \in Seq(Msg) : m \in ToSet(q) => m \in ToSet(Append(q, n))
                BY DEF ToSet
            <4> QED BY <1>0, <4>1, <4>2
        <3> QED BY <1>0, <1>1, <2>1, <3>1, <3>2 DEF AccountOf, Over
    <2>3. CASE n = m
        <3>1. fate[m] = "unsent" /\ gotBy[m] = None /\ sentTo[m] = None
            BY <1>0, <1>7, <2>3 DEF Steer, AccountOf, UnsentInv
        <3>2. CASE Accepts(x)
            <4>1. fate'[m] = "pending" /\ inbox'[x] = Append(inbox[x], m)
                BY <1>0, <1>7, <2>3, <3>2 DEF Steer
            <4>2. \A q \in Seq(Msg) : m \in ToSet(Append(q, m))
                BY DEF ToSet
            <4>3. m \in ToSet(inbox'[x])
                BY <1>0, <4>1, <4>2
            <4> QED BY <2>1, <3>1, <4>1, <4>3 DEF AccountOf
        <3>3. CASE ~Accepts(x)
            <4>1. fate'[m] = "refused" /\ sentTo' = sentTo
                BY <1>0, <1>7, <2>3, <3>3 DEF Steer
            <4> QED BY <2>1, <3>1, <4>1 DEF AccountOf
        <3> QED BY <3>2, <3>3
    <2> QED BY <2>2, <2>3
<1>8. CASE ClearAll
    <2> DEFINE taken == UNION {ToSet(inbox[x]) : x \in Session}
    <2>1. /\ UNCHANGED <<sentTo, gotBy>>
          /\ fate' = [n \in Msg |-> IF n \in taken THEN "lost" ELSE fate[n]]
        BY <1>8 DEF ClearAll
    <2>2. CASE m \in taken
        <3>1. fate[m] = "pending"
            BY <2>2, SvcParts DEF SteerInv, PendingInv
        <3> QED BY <1>0, <2>1, <2>2, <3>1 DEF AccountOf
    <2>3. CASE m \notin taken
        <3>1. fate[m] # "pending" /\ fate'[m] = fate[m]
            BY <1>0, <2>1, <2>3 DEF AccountOf
        <3> QED BY <1>0, <1>1, <2>1, <3>1 DEF AccountOf, Over
    <2> QED BY <2>2, <2>3
<1>9. ASSUME NEW s \in Sub,
             \/ SubmitTurn(s) \/ CancelTurn(s) \/ ReachFront(s) \/ DropTurn(s)
             \/ StartTurnFails(s) \/ BeginStep(s) \/ SendPrompt(s)
             \/ InferenceEnds(s) \/ ReportUsage(s)
      PROVE  UNCHANGED steerVars
    BY <1>9 DEF SubmitTurn, CancelTurn, ReachFront, DropTurn, StartTurnFails,
                BeginStep, SendPrompt, InferenceEnds, ReportUsage, svcVars
<1>10. ASSUME NEW s \in Sub, StartTurn(s) PROVE AccountOf(m)'
    BY <1>0, <1>1, <1>10 DEF StartTurn, AccountOf, Over
<1>11. UNCHANGED allVars => UNCHANGED steerVars
    BY DEF allVars, svcVars
<1> QED BY <1>2, <1>3, <1>4, <1>5, <1>6, <1>7, <1>8, <1>9, <1>10, <1>11 DEF SvcNext, TurnStep

\* The result that ReturnTurn hands out accounts for what its turn accepted.
LEMMA ResultAccounts ==
    ASSUME SvcInv, AccountInv, NEW s \in Sub, NEW m \in Msg, ReturnTurn(s), sentTo[m] = s
    PROVE  fate'[m] \in {"delivered", "returned"} \/ (fate[m] = "lost" /\ gotBy[m] = None)
<1>0. /\ fate \in [Msg -> Fates] /\ AccountOf(m) /\ SteerStaysInItsTurn /\ s # None
    BY SvcParts, NoneIsNoSub DEF SteerInv, SteerType, AccountInv
<1>1. /\ phase[s] = "closed" /\ pc[s] = "running"
      /\ fate' = [n \in Msg |-> IF n \in FlushedBy(s) THEN "returned" ELSE fate[n]]
    BY DEF ReturnTurn, Finish
<1>2. fate[m] \notin {"unsent", "refused"}
    BY <1>0 DEF AccountOf
<1>3. fate[m] # "pending"
    BY <1>0, <1>1, SvcParts DEF AccountOf, SteerInv, PendingInv, LoopOf, InLoop
<1>4. CASE fate[m] = "flushed"
    BY <1>0, <1>1, <1>4 DEF AccountOf, SteerStaysInItsTurn, FlushedBy
<1>5. CASE fate[m] = "lost"
    <2>1. ~Over(s)
        BY <1>1 DEF Over
    <2>2. gotBy[m] # None => gotBy[m] = s
        BY <1>0 DEF SteerStaysInItsTurn
    <2> QED BY <1>0, <1>5, <2>1, <2>2 DEF AccountOf
<1>6. CASE fate[m] \in {"delivered", "returned"}
    BY <1>1, <1>6 DEF FlushedBy
<1> QED BY <1>0, <1>2, <1>3, <1>4, <1>5, <1>6 DEF Fates

\* flushSteering(): the result of a turn accounts for every message accepted
\* for it, delivered or undelivered, but for what a shutdown cleared.
THEOREM ResultsAccount == SvcSpec => ResultAccountsForAll
<1>1. SvcInit => AccountInv
    BY DEF SvcInit, AccountInv, AccountOf
<1>2. SvcInv /\ AccountInv /\ [SvcNext]_allVars => AccountInv'
    BY NextAccount
<1>3. SvcInv /\ AccountInv /\ [SvcNext]_allVars =>
        [\A s \in Sub, m \in Msg : ReturnTurn(s) /\ sentTo[m] = s =>
            fate'[m] \in {"delivered", "returned"} \/ (fate[m] = "lost" /\ gotBy[m] = None)
        ]_allVars
    BY ResultAccounts
<1> QED BY <1>1, <1>2, <1>3, SvcInvariant, PTL DEF SvcSpec, ResultAccountsForAll

\* The service is an implementation of the controller, and so of the lock.
THEOREM ServiceImplementsController == SvcSpec => Spec
<1>1. SvcInit => Init
    BY DEF SvcInit
<1>2. [SvcNext]_allVars => [Next]_vars
    BY SvcStepsController
<1> QED BY <1>1, <1>2, PTL DEF SvcSpec, Spec
===============================================================================
