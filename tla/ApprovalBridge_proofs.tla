------------------------ MODULE ApprovalBridge_proofs ------------------------
(***************************************************************************)
(* Proofs about ApprovalBridge: the gate's theorems hold on when answers   *)
(* also come from Telegram, from its timers and from the channel's end,    *)
(* and the chat never tells another decision than the gate's.  The         *)
(* argument is that an outcome is final: every step that changes one finds *)
(* it new or pending.                                                      *)
(***************************************************************************)
EXTENDS ApprovalBridge, ApprovalGate_proofs

\* The bridge's own types.
BridgeShape ==
    /\ chan \in {"off", "up", "lost"}
    /\ bound \subseteq Tele /\ mine \subseteq Tele
    /\ post \in [Req -> Post] /\ chat \in [Req -> Chat]
    /\ clicks \subseteq Req \X {"y", "n"} /\ stranded \subseteq Req

BridgeInv == GateInv /\ BridgeShape /\ ChatTellsTheDecision

LEMMA BridgeInitInv == Init => BridgeInv
<1> SUFFICES ASSUME Init PROVE BridgeInv
    OBVIOUS
<1>1. GateInv
    BY GateInitInv DEF Init
<1>2. BridgeShape /\ ChatTellsTheDecision
    BY DEF Init, BridgeShape, ChatTellsTheDecision, Post, Chat
<1> QED BY <1>1, <1>2 DEF BridgeInv

-----------------------------------------------------------------------------
(* The gate under the bridge. *)

\* The bridge's answer settles a pending request or does nothing.
LEMMA BridgeResolveInv ==
    ASSUME GateInv, NEW r \in Req, NEW o \in Answered, BridgeResolve(r, o)
    PROVE  GateInv'
BY ResolveStep, GateUnchanged DEF BridgeResolve

\* giveUp(): expireAll() tells the waiting calls why.
LEMMA GiveUpInv ==
    ASSUME GateInv, GiveUp
    PROVE  GateInv'
<1>1. Recorded' /\ Around'
    BY RecordedStays, AroundStays DEF GateInv, GiveUp
<1>2. /\ UNCHANGED asks
      /\ outcome' \in [Req -> Outcome]
      /\ \A r \in Req : outcome'[r] = outcome[r] \/ outcome'[r] = "told"
    BY DEF GateInv, Asked, GiveUp, Outcome, Answered
<1>3. Asked'
    BY <1>2, AskedSettles DEF GateInv
<1> QED BY <1>1, <1>3 DEF GateInv

\* Every step of the composition keeps the gate's invariant.
LEMMA GateUnderBridge ==
    ASSUME GateInv, [Next]_vars
    PROVE  GateInv'
<1>1. ASSUME NEW r \in Req,
             Ask(r) \/ Deliver(r) \/ SendReturns(r) \/ SendFails(r) \/ TimerFires(r)
      PROVE  GateInv'
    <2>1. CASE Ask(r)
        BY <2>1, RequestStep DEF Ask
    <2>2. CASE Deliver(r) \/ SendReturns(r)
        BY <2>2, GateUnchanged DEF Deliver, SendReturns
    <2>3. CASE SendFails(r) \/ TimerFires(r)
        BY <2>3, BridgeResolveInv DEF SendFails, TimerFires, Answered
    <2> QED BY <1>1, <2>1, <2>2, <2>3
<1>2. ASSUME NEW r \in Req, NEW a \in {"y", "n"}, Click(r, a) \/ HandleCallback(r, a)
      PROVE  GateInv'
    <2>1. CASE Click(r, a)
        BY <2>1, GateUnchanged DEF Click
    <2>2. CASE HandleCallback(r, a)
        <3> DEFINE o == IF a = "y" THEN "approved" ELSE "denied"
        <3>1. o \in Answered
            BY DEF Answered
        <3>2. BridgeResolve(r, o) \/ UNCHANGED gateVars
            BY <2>2 DEF HandleCallback
        <3> QED BY <3>1, <3>2, BridgeResolveInv, GateUnchanged
    <2> QED BY <1>2, <2>1, <2>2
<1>3. ASSUME NEW s \in Session,
             StartFromChat(s) \/ StartFromHost(s) \/ End(s) \/ ReleaseSession(s)
      PROVE  GateInv'
    BY <1>3, StartTurnStep, EndTurnStep, GateUnchanged
       DEF StartFromChat, StartFromHost, End, ReleaseSession
<1>4. ASSUME StartChannel \/ LosePoller \/ StopChannel PROVE GateInv'
    BY <1>4, AbortStep, GateUnchanged DEF StartChannel, LosePoller, StopChannel
<1>5. ASSUME GateOnly PROVE GateInv'
    BY <1>5, HostInv DEF GateOnly
<1>6. ASSUME UNCHANGED vars PROVE GateInv'
    BY <1>6, GateUnchanged DEF vars
<1> QED BY <1>1, <1>2, <1>3, <1>4, <1>5, <1>6, GiveUpInv DEF Next

\* No step but request() changes an outcome that is not pending.
LEMMA OutcomeIsFinal ==
    ASSUME GateInv, [Next]_vars, NEW r \in Req, outcome[r] # "pending"
    PROVE  outcome'[r] = outcome[r] \/ (outcome[r] = "new" /\ Request(r))
<1>0. outcome \in [Req -> Outcome]
    BY DEF GateInv, Asked
<1>1. ASSUME NEW q \in Req, Request(q)
      PROVE  outcome'[r] = outcome[r] \/ (outcome[r] = "new" /\ Request(r))
    BY <1>0, <1>1 DEF Request
<1>2. ASSUME NEW q \in Req, NEW o, NEW scopeOf, Resolve(q, o, scopeOf)
      PROVE  outcome'[r] = outcome[r]
    BY <1>0, <1>2 DEF Resolve
<1>3. ASSUME NEW q \in Req, NEW o, BridgeResolve(q, o)
      PROVE  outcome'[r] = outcome[r]
    BY <1>2, <1>3 DEF BridgeResolve, gateVars
<1>4. ASSUME NEW S, AbortTurns(S) PROVE outcome'[r] = outcome[r]
    BY <1>0, <1>4 DEF AbortTurns, PendingOf
<1>5. ASSUME HostStep PROVE outcome'[r] = outcome[r]
    <2>1. ASSUME NEW q \in Req, AnswerAtHost(q) PROVE outcome'[r] = outcome[r]
        BY <1>2, <2>1 DEF AnswerAtHost
    <2>2. ASSUME NEW s \in Session, LeaveSession(s) PROVE outcome'[r] = outcome[r]
        BY <1>0, <2>2 DEF LeaveSession, PendingOf
    <2>3. ASSUME NEW s \in Session, Abort(s) PROVE outcome'[r] = outcome[r]
        BY <1>4, <2>3 DEF Abort
    <2> QED BY <1>5, <2>1, <2>2, <2>3 DEF HostStep, FanOut, FinishWorker, Steer, SetLevel
<1>6. ASSUME NEW q \in Req,
             Ask(q) \/ Deliver(q) \/ SendReturns(q) \/ SendFails(q) \/ TimerFires(q)
      PROVE  outcome'[r] = outcome[r] \/ (outcome[r] = "new" /\ Request(r))
    BY <1>1, <1>3, <1>6 DEF Ask, Deliver, SendReturns, SendFails, TimerFires, gateVars
<1>7. ASSUME NEW q \in Req, NEW a \in {"y", "n"}, Click(q, a) \/ HandleCallback(q, a)
      PROVE  outcome'[r] = outcome[r]
    BY <1>3, <1>7 DEF Click, HandleCallback, gateVars
<1>8. ASSUME NEW s \in Session,
             StartFromChat(s) \/ StartFromHost(s) \/ End(s) \/ ReleaseSession(s)
      PROVE  outcome'[r] = outcome[r]
    BY <1>8 DEF StartFromChat, StartFromHost, End, ReleaseSession, StartTurn, EndTurn, gateVars
<1>9. ASSUME StartChannel \/ LosePoller \/ StopChannel \/ GiveUp
      PROVE  outcome'[r] = outcome[r]
    BY <1>0, <1>4, <1>9 DEF StartChannel, LosePoller, StopChannel, GiveUp, gateVars
<1> QED BY <1>5, <1>6, <1>7, <1>8, <1>9 DEF Next, GateOnly, vars, gateVars

-----------------------------------------------------------------------------
(* The chat. *)

\* A message gets its last text together with the outcome it tells.
LEMMA ChatFollows ==
    ASSUME BridgeInv, [Next]_vars, NEW r \in Req
    PROVE  \/ chat'[r] = chat[r]
           \/ chat'[r] = "keyboard"
           \/ /\ outcome[r] = "pending"
              /\ \/ chat'[r] = "approved" /\ outcome'[r] = "approved"
                 \/ chat'[r] = "denied" /\ outcome'[r] = "denied"
                 \/ chat'[r] = "timed out" /\ outcome'[r] = "dropped"
<1> DEFINE Told == \/ chat'[r] = chat[r]
                   \/ chat'[r] = "keyboard"
                   \/ /\ outcome[r] = "pending"
                      /\ \/ chat'[r] = "approved" /\ outcome'[r] = "approved"
                         \/ chat'[r] = "denied" /\ outcome'[r] = "denied"
                         \/ chat'[r] = "timed out" /\ outcome'[r] = "dropped"
<1>0. outcome \in [Req -> Outcome] /\ chat \in [Req -> Chat]
    BY DEF BridgeInv, BridgeShape, GateInv, Asked
<1>1. ASSUME NEW q \in Req, NEW o, NEW text, BridgeResolve(q, o), EditFinal(q, text)
      PROVE  \/ chat'[r] = chat[r]
             \/ outcome[r] = "pending" /\ chat'[r] = text /\ outcome'[r] = o
    BY <1>0, <1>1 DEF BridgeResolve, EditFinal, Resolve
<1>2. ASSUME NEW q \in Req, Deliver(q) \/ TimerFires(q) PROVE Told
    BY <1>0, <1>1, <1>2 DEF Deliver, TimerFires
<1>3. ASSUME NEW q \in Req, NEW a \in {"y", "n"}, HandleCallback(q, a) PROVE Told
    <2>1. CASE a = "y" /\ post[q] = "waiting"
        <3>1. BridgeResolve(q, "approved") /\ EditFinal(q, "approved")
            BY <1>3, <2>1 DEF HandleCallback
        <3> QED BY <1>1, <3>1
    <2>2. CASE a = "n" /\ post[q] = "waiting"
        <3>1. BridgeResolve(q, "denied") /\ EditFinal(q, "denied")
            BY <1>3, <2>2 DEF HandleCallback
        <3> QED BY <1>1, <3>1
    <2>3. CASE post[q] # "waiting"
        BY <1>3, <2>3 DEF HandleCallback
    <2> QED BY <2>1, <2>2, <2>3
<1>4. ASSUME \/ \E q \in Req : Ask(q) \/ SendReturns(q) \/ SendFails(q)
             \/ \E q \in Req, a \in {"y", "n"} : Click(q, a)
             \/ \E s \in Session :
                  StartFromChat(s) \/ StartFromHost(s) \/ End(s) \/ ReleaseSession(s)
             \/ StartChannel \/ LosePoller \/ StopChannel \/ GiveUp \/ GateOnly
             \/ UNCHANGED vars
      PROVE  chat' = chat
    BY <1>4 DEF Ask, SendReturns, SendFails, Click, StartFromChat, StartFromHost, End,
                ReleaseSession, StartChannel, LosePoller, StopChannel, GiveUp, GateOnly,
                vars, bridgeVars
<1> QED BY <1>2, <1>3, <1>4 DEF Next

LEMMA ChatInv ==
    ASSUME BridgeInv, [Next]_vars
    PROVE  ChatTellsTheDecision'
<1>1. ASSUME NEW r \in Req
      PROVE  /\ chat'[r] = "approved" => outcome'[r] = "approved"
             /\ chat'[r] = "denied" => outcome'[r] = "denied"
             /\ chat'[r] = "timed out" => outcome'[r] = "dropped"
    <2>1. CASE chat'[r] = chat[r]
        BY <2>1, OutcomeIsFinal DEF BridgeInv, ChatTellsTheDecision
    <2>2. CASE chat'[r] # chat[r]
        BY <2>2, ChatFollows
    <2> QED BY <2>1, <2>2
<1> QED BY <1>1 DEF ChatTellsTheDecision

-----------------------------------------------------------------------------
(* The bridge's types. *)

LEMMA ShapeInv ==
    ASSUME BridgeInv, [Next]_vars
    PROVE  BridgeShape'
<1>0. BridgeShape
    BY DEF BridgeInv
<1>1. chat' \in [Req -> Chat]
    <2>1. UNCHANGED chat \/ \E r \in Req, text \in Chat : chat' = [chat EXCEPT ![r] = text]
        <3>1. ASSUME NEW q \in Req, NEW text \in Chat, EditFinal(q, text)
              PROVE  UNCHANGED chat \/ \E r \in Req, x \in Chat : chat' = [chat EXCEPT ![r] = x]
            BY <3>1 DEF EditFinal
        <3>2. ASSUME NEW q \in Req, Deliver(q)
              PROVE  \E r \in Req, x \in Chat : chat' = [chat EXCEPT ![r] = x]
            BY <3>2 DEF Deliver, Chat
        <3>3. ASSUME NEW q \in Req, TimerFires(q) PROVE EditFinal(q, "timed out")
            BY <3>3 DEF TimerFires
        <3>4. ASSUME NEW q \in Req, NEW a \in {"y", "n"}, HandleCallback(q, a)
              PROVE  UNCHANGED chat \/ EditFinal(q, "approved") \/ EditFinal(q, "denied")
            BY <3>4 DEF HandleCallback
        <3>5. ASSUME \/ \E q \in Req : Ask(q) \/ SendReturns(q) \/ SendFails(q)
                     \/ \E q \in Req, a \in {"y", "n"} : Click(q, a)
                     \/ \E s \in Session :
                          StartFromChat(s) \/ StartFromHost(s) \/ End(s) \/ ReleaseSession(s)
                     \/ StartChannel \/ LosePoller \/ StopChannel \/ GiveUp \/ GateOnly
                     \/ UNCHANGED vars
              PROVE  UNCHANGED chat
            BY <3>5 DEF Ask, SendReturns, SendFails, Click, StartFromChat, StartFromHost,
                        End, ReleaseSession, StartChannel, LosePoller, StopChannel, GiveUp,
                        GateOnly, vars, bridgeVars
        <3>6. {"approved", "denied", "timed out"} \subseteq Chat
            BY DEF Chat
        <3> QED BY <3>1, <3>2, <3>3, <3>4, <3>5, <3>6 DEF Next
    <2> QED BY <1>0, <2>1 DEF BridgeShape
<1>2. post' \in [Req -> Post]
    <2>1. \/ UNCHANGED post \/ post' = Retired("none")
          \/ \E r \in Req, x \in Post : post' = [post EXCEPT ![r] = x]
        <3>1. ASSUME NEW q \in Req,
                     Ask(q) \/ SendReturns(q) \/ SendFails(q) \/ TimerFires(q)
              PROVE  \E r \in Req, x \in Post : post' = [post EXCEPT ![r] = x]
            <4>1. PICK x \in {"none", "sending", "waiting", "old waiting", post[q]} :
                      post' = [post EXCEPT ![q] = x]
                BY <3>1, Zenon DEF Ask, SendReturns, SendFails, TimerFires
            <4>2. x \in Post
                BY <1>0 DEF BridgeShape, Post
            <4> QED BY <4>1, <4>2
        <3>2. ASSUME NEW q \in Req, NEW a \in {"y", "n"}, HandleCallback(q, a)
              PROVE  UNCHANGED post \/ \E r \in Req, x \in Post : post' = [post EXCEPT ![r] = x]
            BY <3>2 DEF HandleCallback, Post
        <3>3. ASSUME \/ \E q \in Req : Deliver(q)
                     \/ \E q \in Req, a \in {"y", "n"} : Click(q, a)
                     \/ \E s \in Session :
                          StartFromChat(s) \/ StartFromHost(s) \/ End(s) \/ ReleaseSession(s)
                     \/ StartChannel \/ LosePoller \/ GateOnly \/ UNCHANGED vars
              PROVE  UNCHANGED post
            BY <3>3 DEF Deliver, Click, StartFromChat, StartFromHost, End, ReleaseSession,
                        StartChannel, LosePoller, GateOnly, vars, bridgeVars
        <3>4. ASSUME StopChannel \/ GiveUp PROVE post' = Retired("none")
            BY <3>4 DEF StopChannel, GiveUp
        <3> QED BY <3>1, <3>2, <3>3, <3>4 DEF Next
    <2>2. Retired("none") \in [Req -> Post]
        BY <1>0 DEF BridgeShape, Retired, Post
    <2> QED BY <1>0, <2>1, <2>2 DEF BridgeShape
<1>3. /\ chan' \in {"off", "up", "lost"} /\ bound' \subseteq Tele /\ mine' \subseteq Tele
      /\ clicks' \subseteq Req \X {"y", "n"} /\ stranded' \subseteq Req
    <2>1. ASSUME \/ \E q \in Req : \/ Ask(q) \/ Deliver(q) \/ SendReturns(q)
                                   \/ SendFails(q) \/ TimerFires(q)
                 \/ GateOnly \/ UNCHANGED vars
          PROVE  UNCHANGED <<chan, bound, mine, clicks, stranded>>
        BY <2>1 DEF Ask, Deliver, SendReturns, SendFails, TimerFires, GateOnly, vars, bridgeVars
    <2>2. ASSUME NEW q \in Req, NEW a \in {"y", "n"}, Click(q, a) \/ HandleCallback(q, a)
          PROVE  /\ clicks' \subseteq Req \X {"y", "n"}
                 /\ UNCHANGED <<chan, bound, mine, stranded>>
        BY <1>0, <2>2 DEF Click, HandleCallback, BridgeShape
    <2>3. ASSUME NEW s \in Session,
                 StartFromChat(s) \/ StartFromHost(s) \/ End(s) \/ ReleaseSession(s)
          PROVE  /\ bound' \subseteq Tele /\ mine' \subseteq Tele
                 /\ UNCHANGED <<chan, clicks, stranded>>
        BY <1>0, <2>3 DEF StartFromChat, StartFromHost, End, ReleaseSession, BridgeShape, bridgeVars
    <2>4. ASSUME StartChannel \/ LosePoller \/ StopChannel \/ GiveUp
          PROVE  /\ chan' \in {"off", "up", "lost"} /\ bound' \subseteq Tele
                 /\ mine' \subseteq Tele /\ UNCHANGED clicks /\ stranded' \subseteq Req
        BY <1>0, <2>4 DEF StartChannel, LosePoller, StopChannel, GiveUp, BridgeShape
    <2> QED BY <1>0, <2>1, <2>2, <2>3, <2>4 DEF Next, BridgeShape
<1> QED BY <1>1, <1>2, <1>3 DEF BridgeShape

LEMMA BridgeNextInv == BridgeInv /\ [Next]_vars => BridgeInv'
BY GateUnderBridge, ChatInv, ShapeInv DEF BridgeInv

-----------------------------------------------------------------------------
\* The inductive invariant of the gate and the bridge.
THEOREM BridgeInvariant == Spec => []BridgeInv
BY BridgeInitInv, BridgeNextInv, PTL DEF Spec

\* approval-bridge.ts: the types of the bridge, and the gate's under it.
THEOREM BridgeTypeCorrect == Spec => []BridgeTypeOK
<1>1. BridgeInv => BridgeTypeOK
    BY GateInvTypes DEF BridgeInv, BridgeShape, BridgeTypeOK
<1> QED BY <1>1, BridgeInvariant, PTL

\* handleCallback(), the timer and editFinal(): the chat tells the decision the
\* gate took, whoever else answered or aborted first.
THEOREM ChatIsTrue == Spec => []ChatTellsTheDecision
<1>1. BridgeInv => ChatTellsTheDecision
    BY DEF BridgeInv
<1> QED BY <1>1, BridgeInvariant, PTL

\* The gate's promise with Telegram beside it: a no given by a button binds the
\* turn like one given at the host, on the same terms: a declined file for all,
\* a declined call for all but the calls of a fan-out.
THEOREM NoesStandOverTelegram == Spec => NoStands
<1>1. ASSUME BridgeInv, [Next]_vars
      PROVE  [\A r \in Req : outcome[r] = "new" /\ outcome'[r] \in {"auto", "allowed"} =>
                /\ ~DeclinedFile(r)
                /\ DeclinedCall(r) => outcome'[r] = "allowed" /\ InFanout(r)]_gateVars
    BY <1>1, OutcomeIsFinal, RequestKeepsNoes DEF BridgeInv
<1> QED BY <1>1, BridgeInvariant, PTL DEF Spec, NoStands

\* And a refusal over an earlier no has that no behind it, in the chat or not.
THEOREM RefusalsHaveANoOverTelegram == Spec => RefusalHasANo
<1>1. ASSUME BridgeInv, [Next]_vars
      PROVE  [\A r \in Req : outcome[r] = "new" /\ outcome'[r] = "repeat" =>
                \E q \in noCalls : /\ Binds(q, r)
                                   /\ \/ Call[q].key = Call[r].key
                                      \/ q \in noFiles /\ Call[q].file = Call[r].file]_gateVars
    BY <1>1, OutcomeIsFinal, RequestKeepsNoes DEF BridgeInv
<1> QED BY <1>1, BridgeInvariant, PTL DEF Spec, RefusalHasANo
==============================================================================
