--------------------------- MODULE ApprovalBridge ---------------------------
(***************************************************************************)
(* src/src/channels/telegram/approval-bridge.ts and the parts of           *)
(* telegram-channel.ts that own it, composed with the gate.  A request of  *)
(* a session that Telegram has bound goes out as a message with two        *)
(* buttons and waits under a timer; the same request can be answered at    *)
(* the host, and its turn can be aborted, without the bridge being told.   *)
(*                                                                         *)
(* Telegram itself is external: a message may be delivered while its send  *)
(* is reported as failed, a click arrives any time later, an edit may fail.*)
(***************************************************************************)
EXTENDS ApprovalGate

CONSTANTS Tele    \* the sessions that people also drive from Telegram

ASSUME TeleType == Tele \subseteq Session

VARIABLES
    chan,     \* the channel: "off", "up", or "lost" between two pollers
    bound,    \* sessions whose requests go to the bridge (approvalSubscriptions)
    mine,     \* sessions whose running turn the channel started (inflight)
    post,     \* where the bridge is with each request
    chat,     \* what the chat shows for it
    clicks,   \* clicks on their way to the poller
    stranded  \* history: requests whose timer a stop of the channel cancelled

bridgeVars == <<chan, bound, mine, post, chat, clicks, stranded>>
vars == <<gateVars, bridgeVars>>

\* "sending" awaits sendMessage(), "waiting" is in the bridge's map with its
\* timer running.  The "old" ones belong to a bridge the channel has let go: no
\* click finds them, but a message that was under way still gets its timer.
Post == {"none", "sending", "waiting", "old sending", "old waiting"}
Chat == {"none", "keyboard", "approved", "denied", "timed out"}

\* The type of the bridge's state.
BridgeTypeOK ==
    /\ GateTypeOK
    /\ chan \in {"off", "up", "lost"}
    /\ bound \subseteq Tele /\ mine \subseteq Tele
    /\ post \in [Req -> Post] /\ chat \in [Req -> Chat]
    /\ clicks \subseteq Req \X {"y", "n"} /\ stranded \subseteq Req

Init ==
    /\ GateInit
    /\ chan = "off" /\ bound = {} /\ mine = {}
    /\ post = [r \in Req |-> "none"]
    /\ chat = [r \in Req |-> "none"]
    /\ clicks = {} /\ stranded = {}

-----------------------------------------------------------------------------
(* Turns and requests: the gate's steps, and who is told. *)

\* ApprovalRouter.emit(): the handler of the session, or the host's.
Ask(r) ==
    /\ Request(r)
    /\ post' = [post EXCEPT ![r] = IF outcome'[r] = "pending" /\ Call[r].session \in bound
                                   THEN "sending" ELSE @]
    /\ UNCHANGED <<chan, bound, mine, chat, clicks, stranded>>

\* A message in the chat starts a turn, after the session is bound to it.
StartFromChat(s) ==
    /\ chan = "up" /\ s \in Tele
    /\ StartTurn(s)
    /\ bound' = bound \cup {s}
    /\ mine' = mine \cup {s}
    /\ UNCHANGED <<chan, post, chat, clicks, stranded>>

\* The host, the scheduler or the HTTP server start one.
StartFromHost(s) == StartTurn(s) /\ UNCHANGED bridgeVars

\* A chat that moved on to another session while its turn ran lets go of the
\* session now (releaseIfMovedOn).
End(s) ==
    /\ EndTurn(s)
    /\ mine' = mine \ {s}
    /\ bound' \in {bound, bound \ ({s} \cap mine)}
    /\ UNCHANGED <<chan, post, chat, clicks, stranded>>

\* /new or a switch to another session, in a chat without a running turn.
ReleaseSession(s) ==
    /\ chan = "up" /\ s \in bound \ mine
    /\ bound' = bound \ {s}
    /\ UNCHANGED <<gateVars, chan, mine, post, chat, clicks, stranded>>

-----------------------------------------------------------------------------
(* The bridge. *)

\* The bridge's call of resolve(): false, and nothing changes, when the request
\* is not pending any more.
BridgeResolve(r, o) ==
    IF outcome[r] = "pending" THEN Resolve(r, o, "none") ELSE UNCHANGED gateVars

\* Mutant of EditFinal: the message is edited whatever resolve() returned.
EditAnyway(r, text) == chat' \in {chat, [chat EXCEPT ![r] = text]}

\* editFinal(), only after a resolve() that returned true; it may fail.
EditFinal(r, text) ==
    IF outcome[r] = "pending" THEN chat' \in {chat, [chat EXCEPT ![r] = text]}
    ELSE UNCHANGED chat

Sending(r) == post[r] \in {"sending", "old sending"}

\* Telegram puts the message into the chat before sendMessage() returns.
Deliver(r) ==
    /\ Sending(r) /\ chat[r] = "none"
    /\ chat' = [chat EXCEPT ![r] = "keyboard"]
    /\ UNCHANGED <<gateVars, chan, bound, mine, post, clicks, stranded>>

\* dispatch() after its await: the timer starts and the entry is set.
SendReturns(r) ==
    /\ Sending(r) /\ chat[r] # "none"
    /\ post' = [post EXCEPT ![r] = IF @ = "sending" THEN "waiting" ELSE "old waiting"]
    /\ UNCHANGED <<gateVars, chan, bound, mine, chat, clicks, stranded>>

\* Mutant of SendFails: a failed send is only logged.
SendFailsSilently(r) ==
    /\ Sending(r)
    /\ post' = [post EXCEPT ![r] = "none"]
    /\ UNCHANGED <<gateVars, chan, bound, mine, chat, clicks, stranded>>

\* sendMessage() rejects, or answers without a message id.
SendFails(r) ==
    /\ Sending(r)
    /\ post' = [post EXCEPT ![r] = "none"]
    /\ BridgeResolve(r, "dropped")
    /\ UNCHANGED <<chan, bound, mine, chat, clicks, stranded>>

\* The owner presses a button of a keyboard that is still there.
Click(r, a) ==
    /\ chat[r] = "keyboard"
    /\ <<r, a>> \notin clicks
    /\ clicks' = clicks \cup {<<r, a>>}
    /\ UNCHANGED <<gateVars, chan, bound, mine, post, chat, stranded>>

\* handleCallback(): a click on a request that this bridge does not hold is
\* acknowledged and has no effect.
HandleCallback(r, a) ==
    LET yes == a = "y" IN
    /\ chan = "up" /\ <<r, a>> \in clicks
    /\ clicks' = clicks \ {<<r, a>>}
    /\ IF post[r] = "waiting"
       THEN /\ post' = [post EXCEPT ![r] = "none"]
            /\ BridgeResolve(r, IF yes THEN "approved" ELSE "denied")
            /\ EditFinal(r, IF yes THEN "approved" ELSE "denied")
       ELSE UNCHANGED <<gateVars, post, chat>>
    /\ UNCHANGED <<chan, bound, mine, stranded>>

\* The auto-deny timer.
TimerFires(r) ==
    /\ post[r] \in {"waiting", "old waiting"}
    /\ post' = [post EXCEPT ![r] = "none"]
    /\ BridgeResolve(r, "dropped")
    /\ EditFinal(r, "timed out")
    /\ UNCHANGED <<chan, bound, mine, clicks, stranded>>

-----------------------------------------------------------------------------
(* The channel. *)

\* start() after a stop makes a new bridge; after a lost poller it rebinds the
\* one it has.
StartChannel ==
    /\ chan # "up"
    /\ chan' = "up"
    /\ UNCHANGED <<gateVars, bound, mine, post, chat, clicks, stranded>>

LosePoller ==
    /\ chan = "up"
    /\ chan' = "lost"
    /\ UNCHANGED <<gateVars, bound, mine, post, chat, clicks, stranded>>

\* A bridge that is let go keeps the sends it awaits.
Retired(kept) ==
    [r \in Req |-> IF post[r] = "sending" THEN "old sending"
                   ELSE IF post[r] = "waiting" THEN kept ELSE post[r]]

\* stop(): aborts the turns the channel started, unbinds the sessions and
\* cancels every timer without an answer (cancelAll).
StopChannel ==
    /\ chan # "off"
    /\ chan' = "off"
    /\ AbortTurns(mine)
    /\ mine' = {} /\ bound' = {}
    /\ post' = Retired("none")
    /\ stranded' = stranded \cup {r \in Req : post[r] = "waiting" /\ outcome'[r] = "pending"}
    /\ UNCHANGED <<chat, clicks>>

\* giveUp(): the token was rejected.  expireAll() denies what waits, with a
\* reason and without the automatic flag.
GiveUp ==
    /\ chan # "off"
    /\ chan' = "off"
    /\ bound' = {}
    /\ post' = Retired("none")
    /\ outcome' = [r \in Req |-> IF post[r] = "waiting" /\ outcome[r] = "pending"
                                 THEN "told" ELSE outcome[r]]
    /\ UNCHANGED <<level, grants, calls, targets, parent, refuses, scope, turnScope,
                   turn, asks, noCalls, noFiles, mine, chat, clicks, stranded>>

-----------------------------------------------------------------------------
\* The gate's other steps change nothing of the bridge: it has no way to hear
\* of an answer given elsewhere.
GateOnly == HostStep /\ UNCHANGED bridgeVars

Next ==
    \/ \E r \in Req : Ask(r) \/ Deliver(r) \/ SendReturns(r) \/ SendFails(r) \/ TimerFires(r)
    \/ \E r \in Req, a \in {"y", "n"} : Click(r, a) \/ HandleCallback(r, a)
    \/ \E s \in Session : StartFromChat(s) \/ StartFromHost(s) \/ End(s) \/ ReleaseSession(s)
    \/ StartChannel \/ LosePoller \/ StopChannel \/ GiveUp
    \/ GateOnly

\* A send settles and a timer fires.  Nobody has to click, answer or reconnect.
Fairness ==
    \A r \in Req : WF_vars(SendReturns(r) \/ SendFails(r)) /\ WF_vars(TimerFires(r))

Spec == Init /\ [][Next]_vars /\ Fairness

-----------------------------------------------------------------------------
\* What the chat says happened is what the gate did: the message of a request
\* is edited only by the answer that settled it, not by a click or a timer that
\* came after an abort, an answer at the host or a session switch.
ChatTellsTheDecision ==
    \A r \in Req :
        /\ chat[r] = "approved" => outcome[r] = "approved"
        /\ chat[r] = "denied" => outcome[r] = "denied"
        /\ chat[r] = "timed out" => outcome[r] = "dropped"

OnTelegram(r) == outcome[r] = "pending" /\ post[r] # "none"

\* A turn never waits for ever for a button nobody presses: every request that
\* went to Telegram is settled, by a click, the timer, a failed send or the end
\* of its turn, unless the channel was stopped under somebody else's turn.
PromptIsDecided ==
    \A r \in Req : OnTelegram(r) ~> (outcome[r] # "pending" \/ r \in stranded)
=============================================================================
