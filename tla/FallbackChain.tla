---------------------------- MODULE FallbackChain ----------------------------
(***************************************************************************)
(* src/src/llm/fallback: provider-fallback-chain.ts, partition-state.ts    *)
(* and run-with-fallback.ts, for one partition (one session).  A call is   *)
(* sent to a link of the chain; a failure that another link may not have   *)
(* moves the call, and the partition, down the chain; a probe that the     *)
(* primary answers brings the partition back.                              *)
(*                                                                         *)
(* The chain's methods are synchronous.  Calls of one session overlap (the *)
(* turn, its title, a background summary), so everything may happen while  *)
(* a call awaits its link.  Time is abstract: a cooldown, the throttle of  *)
(* the probes and the failure window end by a step.                        *)
(***************************************************************************)
EXTENDS Naturals, Sequences, SequencesExt

CONSTANTS Caller,      \* calls that may be under way at once
          Link,        \* providers
          Chain,       \* the configured chain
          Edits,       \* the chains an operator may switch to
          Threshold,   \* timing.failureThreshold
          MaxEdits     \* bound: edits of the chain

NoLink == "no link"

IsChain(ch) == ch \in Seq(Link) /\ Len(ch) > 0 /\ IsInjective(ch)

ASSUME ChainType == IsChain(Chain) /\ \A ch \in Edits : IsChain(ch)
ASSUME LinkType == NoLink \notin Link
ASSUME BoundsType == Threshold \in Nat \ {0} /\ MaxEdits \in Nat

VARIABLES
    chain,      \* resolve().chain, read anew by every method
    up,         \* links that answer
    override,   \* overrideId
    announced,  \* announcedOverride
    cause,      \* overrideCause: the kind of the primary's latest failure
    served,     \* overrideServed
    serving,    \* servingId; fallbackServed is serving # NoLink
    breaker,    \* the breakers that are ever read
    call,       \* where each call is in runWithFallback
    told,       \* history: the direction of the last notice
    edits       \* counted against MaxEdits

vars == <<chain, up, override, announced, cause, served, serving, breaker, call,
          told, edits>>

Primary == chain[1]

\* pickProvider() reads the breaker of the primary and no other one.
Breakers == {ch[1] : ch \in {Chain} \cup Edits}

InChain(l) == l \in Range(chain)

\* shouldAdvance() and isOutageFailure(): whether a failure arms the cooldown at
\* once, and whether the link was out or said no.  The two are apart: a timeout
\* is an outage that only counts, an empty account a no that arms at once.
Failure == [immediate : BOOLEAN, kind : {"outage", "refusal"}]

Idle == [at |-> NoLink, probe |-> FALSE]
FreshBreaker == [fails |-> 0, cooling |-> FALSE, throttled |-> FALSE]

\* The type of the partition and of the calls.
TypeOK ==
    /\ IsChain(chain) /\ up \subseteq Link
    /\ override \in Link \cup {NoLink} /\ serving \in Link \cup {NoLink}
    /\ announced \in BOOLEAN /\ served \in BOOLEAN
    /\ cause \in {"none", "outage", "refusal"}
    /\ breaker \in [Breakers -> [fails : 0..Threshold, cooling : BOOLEAN, throttled : BOOLEAN]]
    /\ call \in [Caller -> [at : Link \cup {NoLink}, probe : BOOLEAN]]
    /\ told \in {"none", "away", "back"}
    /\ edits \in 0..MaxEdits

Init ==
    /\ chain = Chain /\ up \in SUBSET Link
    /\ override = NoLink /\ announced = FALSE /\ cause = "none"
    /\ served = FALSE /\ serving = NoLink
    /\ breaker = [l \in Breakers |-> FreshBreaker]
    /\ call = [c \in Caller |-> Idle]
    /\ told = "none" /\ edits = 0

-----------------------------------------------------------------------------
(* The partition. *)

\* Mutant of ClearOverride: the failure that led away is kept.
ClearOverrideKeepsCause ==
    /\ override' = NoLink /\ announced' = FALSE
    /\ served' = FALSE /\ serving' = NoLink
    /\ UNCHANGED cause

ClearOverride ==
    /\ override' = NoLink /\ announced' = FALSE /\ cause' = "none"
    /\ served' = FALSE /\ serving' = NoLink

\* An override set by a primary that refused, on a link that has not answered.
IsStandIn == override # NoLink /\ ~served /\ cause = "refusal"

\* pickProvider() probes the primary at once when the override only stands in,
\* otherwise after the cooldown and the throttle.
ProbesNow ==
    \/ IsStandIn
    \/ ~breaker[Primary].cooling /\ ~breaker[Primary].throttled

\* pickProvider(): the first step of a call.  An override that left the chain is
\* dropped without a notice.
Start(c) ==
    /\ call[c] = Idle
    /\ LET off == override # NoLink /\ InChain(override) IN
       /\ IF override # NoLink /\ ~InChain(override) THEN ClearOverride
          ELSE UNCHANGED <<override, announced, cause, served, serving>>
       /\ call' = [call EXCEPT ![c] =
                     IF off /\ ~ProbesNow THEN [at |-> override, probe |-> FALSE]
                     ELSE [at |-> Primary, probe |-> off]]
       /\ breaker' = IF off /\ ProbesNow
                     THEN [breaker EXCEPT ![Primary].throttled = TRUE] ELSE breaker
    /\ UNCHANGED <<chain, up, told, edits>>

\* The breaker of a link that answered.
Reset(l) ==
    [b \in Breakers |-> IF b = l THEN [breaker[b] EXCEPT !.fails = 0, !.cooling = FALSE]
                        ELSE breaker[b]]

\* Mutant of Serve: the success of a probe is booked like any other one.
ServeIgnoresProbe(c) ==
    LET l == call[c].at IN
    /\ l \in up
    /\ call' = [call EXCEPT ![c] = Idle]
    /\ breaker' = Reset(l)
    /\ served' = (served \/ l = override)
    /\ serving' = IF l = override THEN l ELSE serving
    /\ UNCHANGED <<override, announced, cause, told, chain, up, edits>>

\* recordSuccess(): the breaker of the link is reset, the override has served if
\* the link is still the override, and a probe of the primary ends it.
Serve(c) ==
    LET l == call[c].at IN
    /\ l \in up
    /\ call' = [call EXCEPT ![c] = Idle]
    /\ breaker' = Reset(l)
    /\ IF call[c].probe /\ l = Primary /\ override # NoLink
       THEN ClearOverride /\ told' = "back"
       ELSE /\ served' = (served \/ l = override)
            /\ serving' = IF l = override THEN l ELSE serving
            /\ UNCHANGED <<override, announced, cause, told>>
    /\ UNCHANGED <<chain, up, edits>>

\* registerBreakerFailure(); `fresh` when the last failure is outside the window.
Failed(l, why, fresh) ==
    LET before(b) == IF fresh THEN 0 ELSE breaker[b].fails
        n(b) == IF before(b) < Threshold THEN before(b) + 1 ELSE Threshold
    IN  [b \in Breakers |->
            IF b # l THEN breaker[b]
            ELSE [breaker[b] EXCEPT !.fails = n(b),
                                    !.cooling = @ \/ why.immediate \/ n(b) = Threshold]]

\* Mutant of Below: the search starts at the top of the chain.
BelowFromTop(l) == SelectSeq(chain, LAMBDA x : x # l)

\* The next link after this one; from the top when it left the chain.
Below(l) == IF InChain(l) THEN SubSeq(chain, SelectInSeq(chain, LAMBDA x : x = l) + 1, Len(chain))
            ELSE chain

\* switchAwayTo(): the first hop off the primary sets the override and announces
\* it, a later one moves it.
SwitchAway(from, to, why) ==
    LET first == from = Primary /\ override = NoLink
        moved == override # NoLink
    IN  /\ override' = IF first \/ moved THEN to ELSE override
        /\ served' = IF first \/ moved THEN FALSE ELSE served
        /\ serving' = IF first THEN NoLink ELSE serving
        /\ cause' = IF from = Primary THEN why.kind ELSE cause
        /\ announced' = TRUE
        /\ told' = IF first \/ ~announced THEN "away" ELSE told

\* advanceFrom(): the call goes on at the next link, or ends with an error when
\* there is none.  Only the first pick of a call can be a probe.
Fail(c, why) ==
    LET l == call[c].at IN
    /\ l # NoLink /\ l \notin up
    /\ \E fresh \in BOOLEAN : breaker' = Failed(l, why, fresh)
    /\ IF Below(l) = <<>>
       THEN /\ call' = [call EXCEPT ![c] = Idle]
            /\ UNCHANGED <<override, announced, cause, served, serving, told>>
       ELSE /\ call' = [call EXCEPT ![c] = [at |-> Head(Below(l)), probe |-> FALSE]]
            /\ SwitchAway(l, Head(Below(l)), why)
    /\ UNCHANGED <<chain, up, edits>>

\* The call is cancelled, or its request is one no link would take: the error is
\* thrown and the chain learns nothing.
GiveUp(c) ==
    /\ call[c] # Idle
    /\ call' = [call EXCEPT ![c] = Idle]
    /\ UNCHANGED <<chain, up, override, announced, cause, served, serving, breaker,
                   told, edits>>

-----------------------------------------------------------------------------
(* Around it. *)

CooldownEnds(b) ==
    /\ breaker[b].cooling
    /\ breaker' = [breaker EXCEPT ![b].cooling = FALSE]
    /\ UNCHANGED <<chain, up, override, announced, cause, served, serving, call, told, edits>>

ThrottleEnds(b) ==
    /\ breaker[b].throttled
    /\ breaker' = [breaker EXCEPT ![b].throttled = FALSE]
    /\ UNCHANGED <<chain, up, override, announced, cause, served, serving, call, told, edits>>

\* A link goes down or comes back.
Turn(l) ==
    /\ up' \in {up \cup {l}, up \ {l}}
    /\ UNCHANGED <<chain, override, announced, cause, served, serving, breaker, call,
                   told, edits>>

\* The operator edits the chain or swaps the primary while calls are under way.
Edit(ch) ==
    /\ edits < MaxEdits
    /\ edits' = edits + 1
    /\ chain' = ch
    /\ UNCHANGED <<up, override, announced, cause, served, serving, breaker, call, told>>

Next ==
    \/ \E c \in Caller : Start(c) \/ Serve(c) \/ GiveUp(c)
    \/ \E c \in Caller, why \in Failure : Fail(c, why)
    \/ \E b \in Breakers : CooldownEnds(b) \/ ThrottleEnds(b)
    \/ \E l \in Link : Turn(l)
    \/ \E ch \in Edits : Edit(ch)

\* Attempts settle, timers run out and turns keep coming; a probe of a
\* primary that is up is not cancelled every time.
Fairness ==
    /\ \A c \in Caller : /\ WF_vars(Start(c))
                         /\ WF_vars(Serve(c) \/ GiveUp(c) \/ \E why \in Failure : Fail(c, why))
                         /\ SF_vars(call[c].probe /\ Serve(c))
    /\ \A b \in Breakers : WF_vars(CooldownEnds(b)) /\ WF_vars(ThrottleEnds(b))

Spec == Init /\ [][Next]_vars /\ Fairness

-----------------------------------------------------------------------------
\* A partition that is off its primary knows why and has said so: the failure
\* that a turn on the fallback is reported with is there, and the last notice
\* the operator saw says "away", however the calls that moved it overlapped.
OffPrimaryIsExplained ==
    /\ override # NoLink => cause # "none" /\ announced /\ told = "away"
    /\ override = NoLink => cause = "none" /\ ~served /\ serving = NoLink
    /\ served => serving = override

\* When the primary works again and stays up, the partition comes back to it and
\* stays, whatever was under way.
PrimaryComesBack == <>[](Primary \in up) => <>[](override = NoLink)

\* A call works its way down the chain and ends; it never goes round, even when
\* the chain is edited or other calls move the override under it.
EveryCallEnds == \A c \in Caller : call[c] # Idle ~> call[c] = Idle
=============================================================================
