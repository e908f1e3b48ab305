------------------------ MODULE FallbackChain_proofs ------------------------
(***************************************************************************)
(* Proofs about FallbackChain for every chain, every set of edits of it    *)
(* and any number of overlapping calls.  What has to be known beside the   *)
(* types is that a call never leaves the links: below a link that is in    *)
(* the chain there are the rest of its links, because the chain names no   *)
(* link twice.                                                             *)
(***************************************************************************)
EXTENDS FallbackChain, TLAPS

BreakerState == [fails : 0..Threshold, cooling : BOOLEAN, throttled : BOOLEAN]
CallState == [at : Link \cup {NoLink}, probe : BOOLEAN]

\* The chain is the configured one or one it was edited to.
KnownChain == chain \in {Chain} \cup Edits

ChainInv == TypeOK /\ KnownChain /\ OffPrimaryIsExplained

\* A link occurs once, so what is below it is what follows that place.
LEMMA BelowPlace ==
    ASSUME IsChain(chain), NEW i \in 1..Len(chain)
    PROVE  Below(chain[i]) = SubSeq(chain, i + 1, Len(chain))
<1> DEFINE l == chain[i]
           I == {j \in 1..Len(chain) : chain[j] = l}
<1>0. chain \in Seq(Link) /\ DOMAIN chain = 1..Len(chain)
    BY DEF IsChain
<1>1. InChain(l)
    BY <1>0 DEF InChain, Range
<1>2. I = {i}
    BY <1>0 DEF IsChain, IsInjective
<1>3. Min({i}) = i
    BY DEF Min
<1>4. SelectInSeq(chain, LAMBDA x : x = l) = i
    BY <1>2, <1>3 DEF SelectInSeq
<1> QED BY <1>1, <1>4 DEF Below

\* Below a link of the chain there are links, and fewer of them.
LEMMA BelowType ==
    ASSUME IsChain(chain), NEW l
    PROVE  /\ Below(l) \in Seq(Link)
           /\ Below(l) # <<>> => Head(Below(l)) \in Link
<1>0. chain \in Seq(Link)
    BY DEF IsChain
<1>1. Below(l) \in Seq(Link)
    <2>1. CASE InChain(l)
        <3>1. PICK i \in 1..Len(chain) : l = chain[i]
            BY <1>0, <2>1 DEF InChain, Range
        <3>2. Below(l) = SubSeq(chain, i + 1, Len(chain))
            BY <3>1, BelowPlace
        <3> QED BY <1>0, <3>2
    <2>2. CASE ~InChain(l)
        BY <1>0, <2>2 DEF Below
    <2> QED BY <2>1, <2>2
<1> QED BY <1>1

LEMMA PrimaryLink ==
    ASSUME IsChain(chain), KnownChain
    PROVE  Primary \in Link /\ Primary \in Breakers
<1>1. chain \in Seq(Link) /\ Len(chain) > 0
    BY DEF IsChain
<1> QED BY <1>1 DEF Primary, Breakers, KnownChain

-----------------------------------------------------------------------------
LEMMA IdleType == Idle \in CallState
BY DEF Idle, CallState

LEMMA InitFallback == Init => ChainInv
<1> SUFFICES ASSUME Init PROVE ChainInv
    OBVIOUS
<1>0. 0 \in 0..Threshold
    BY BoundsType
<1>1. FreshBreaker \in BreakerState
    BY <1>0 DEF FreshBreaker, BreakerState
<1>2. breaker \in [Breakers -> BreakerState] /\ call \in [Caller -> CallState]
    BY <1>1, IdleType DEF Init
<1>3. TypeOK
    <2>1. IsChain(chain)
        BY ChainType DEF Init
    <2>0. up \subseteq Link /\ edits = 0 /\ announced = FALSE /\ served = FALSE
        BY DEF Init
    <2>2. edits \in 0..MaxEdits
        BY <2>0, BoundsType
    <2>3. announced \in BOOLEAN /\ served \in BOOLEAN
        BY <2>0
    <2>4. /\ override \in Link \cup {NoLink} /\ serving \in Link \cup {NoLink}
          /\ cause \in {"none", "outage", "refusal"} /\ told \in {"none", "away", "back"}
        BY Zenon DEF Init
    <2> QED BY <1>2, <2>0, <2>1, <2>2, <2>3, <2>4 DEF TypeOK, BreakerState, CallState
<1>4. KnownChain /\ OffPrimaryIsExplained
    BY DEF Init, KnownChain, OffPrimaryIsExplained
<1> QED BY <1>3, <1>4 DEF ChainInv

\* The types of the functions, with the records folded.
LEMMA Types ==
    ASSUME TypeOK
    PROVE  breaker \in [Breakers -> BreakerState] /\ call \in [Caller -> CallState]
BY DEF TypeOK, BreakerState, CallState

\* pickProvider()
LEMMA StartStep ==
    ASSUME ChainInv, NEW c \in Caller, Start(c)
    PROVE  ChainInv'
<1> DEFINE off == override # NoLink /\ InChain(override)
           v == IF off /\ ~ProbesNow THEN [at |-> override, probe |-> FALSE]
                ELSE [at |-> Primary, probe |-> off]
<1>0. /\ TypeOK /\ KnownChain /\ Primary \in Link
      /\ breaker \in [Breakers -> BreakerState] /\ call \in [Caller -> CallState]
    BY Types, PrimaryLink DEF ChainInv, TypeOK
<1>1. /\ call' = [call EXCEPT ![c] = v]
      /\ UNCHANGED <<chain, up, told, edits>>
    BY DEF Start
<1>2. v \in CallState
    <2>1. off \in BOOLEAN /\ override \in Link \cup {NoLink}
        BY <1>0 DEF TypeOK
    <2> HIDE DEF off
    <2> QED BY <1>0, <2>1 DEF CallState
<1> HIDE DEF v
<1>3. call' \in [Caller -> CallState]
    BY <1>0, <1>1, <1>2
<1>4. breaker' \in [Breakers -> BreakerState]
    <2> DEFINE b == [breaker[Primary] EXCEPT !.throttled = TRUE]
    <2>0. Primary \in Breakers /\ b \in BreakerState
        BY <1>0, PrimaryLink DEF TypeOK, BreakerState
    <2>1. breaker' = breaker \/ breaker' = [breaker EXCEPT ![Primary] = b]
        BY DEF Start
    <2> HIDE DEF b
    <2> QED BY <1>0, <2>0, <2>1
<1>5. ClearOverride \/ UNCHANGED <<override, announced, cause, served, serving>>
    BY DEF Start
<1>6. TypeOK'
    BY <1>0, <1>1, <1>3, <1>4, <1>5 DEF TypeOK, ClearOverride, BreakerState, CallState
<1>7. KnownChain' /\ OffPrimaryIsExplained'
    BY <1>0, <1>1, <1>5 DEF ChainInv, KnownChain, OffPrimaryIsExplained, ClearOverride
<1> QED BY <1>6, <1>7 DEF ChainInv

\* recordSuccess(): the override is left only by the primary's own answer.
LEMMA ServeStep ==
    ASSUME ChainInv, NEW c \in Caller, Serve(c)
    PROVE  ChainInv'
<1> DEFINE l == call[c].at
<1>0. /\ TypeOK /\ KnownChain /\ OffPrimaryIsExplained
      /\ breaker \in [Breakers -> BreakerState] /\ call \in [Caller -> CallState]
    BY Types DEF ChainInv
<1>1. /\ l \in Link /\ l # NoLink /\ call' = [call EXCEPT ![c] = Idle]
      /\ breaker' = Reset(l) /\ UNCHANGED <<chain, up, edits>>
    BY <1>0, LinkType DEF Serve, TypeOK
<1>2. call' \in [Caller -> CallState]
    BY <1>0, <1>1 DEF Idle, CallState
<1>3. breaker' \in [Breakers -> BreakerState]
    <2>0. 0 \in 0..Threshold
        BY BoundsType
    <2>1. ASSUME NEW b \in Breakers
          PROVE  [breaker[b] EXCEPT !.fails = 0, !.cooling = FALSE] \in BreakerState
        <3>1. breaker[b] \in BreakerState
            BY <1>0
        <3> QED BY <2>0, <3>1 DEF BreakerState
    <2> QED BY <1>0, <1>1, <2>1 DEF Reset
<1>4. \/ ClearOverride /\ told' = "back"
      \/ /\ served' = (served \/ l = override)
         /\ serving' = IF l = override THEN l ELSE serving
         /\ UNCHANGED <<override, announced, cause, told>>
    BY DEF Serve
<1>5. served' \in BOOLEAN /\ serving' \in Link \cup {NoLink}
    BY <1>0, <1>1, <1>4 DEF TypeOK, ClearOverride
<1>6. TypeOK'
    BY <1>0, <1>1, <1>2, <1>3, <1>4, <1>5 DEF TypeOK, ClearOverride, BreakerState, CallState
<1>7. OffPrimaryIsExplained'
    BY <1>0, <1>1, <1>4 DEF TypeOK, OffPrimaryIsExplained, ClearOverride
<1> QED BY <1>0, <1>1, <1>6, <1>7 DEF ChainInv, KnownChain

\* registerBreakerFailure() counts up to the threshold.
LEMMA FailedType ==
    ASSUME ChainInv, NEW l, NEW why \in Failure, NEW fresh \in BOOLEAN
    PROVE  Failed(l, why, fresh) \in [Breakers -> BreakerState]
<1> DEFINE before(b) == IF fresh THEN 0 ELSE breaker[b].fails
           n(b) == IF before(b) < Threshold THEN before(b) + 1 ELSE Threshold
           cool(b) == breaker[b].cooling \/ why.immediate \/ n(b) = Threshold
<1>0. breaker \in [Breakers -> BreakerState]
    BY Types DEF ChainInv
<1>1. ASSUME NEW b \in Breakers
      PROVE  [breaker[b] EXCEPT !.fails = n(b), !.cooling = cool(b)] \in BreakerState
    <2>1. breaker[b] \in BreakerState /\ breaker[b].fails \in 0..Threshold
        BY <1>0 DEF BreakerState
    <2>2. n(b) \in 0..Threshold
        BY <2>1, BoundsType
    <2>3. cool(b) \in BOOLEAN
        OBVIOUS
    <2> HIDE DEF n, cool
    <2> QED BY <2>1, <2>2, <2>3 DEF BreakerState
<1>2. Failed(l, why, fresh) =
        [b \in Breakers |-> IF b # l THEN breaker[b]
                            ELSE [breaker[b] EXCEPT !.fails = n(b), !.cooling = cool(b)]]
    BY Zenon DEF Failed
<1> HIDE DEF n, cool
<1> QED BY <1>0, <1>1, <1>2

\* advanceFrom(): whoever moves the partition off its primary says why.
LEMMA FailStep ==
    ASSUME ChainInv, NEW c \in Caller, NEW why \in Failure, Fail(c, why)
    PROVE  ChainInv'
<1> DEFINE l == call[c].at
           to == Head(Below(l))
<1>0. /\ TypeOK /\ KnownChain /\ OffPrimaryIsExplained
      /\ breaker \in [Breakers -> BreakerState] /\ call \in [Caller -> CallState]
    BY Types DEF ChainInv
<1>1. UNCHANGED <<chain, up, edits>> /\ why.kind \in {"outage", "refusal"}
    BY DEF Fail, Failure
<1>2. breaker' \in [Breakers -> BreakerState]
    BY FailedType DEF Fail
<1>3. CASE Below(l) = <<>>
    <2>1. /\ call' = [call EXCEPT ![c] = Idle]
          /\ UNCHANGED <<override, announced, cause, served, serving, told>>
        BY <1>3 DEF Fail
    <2>2. call' \in [Caller -> CallState]
        BY <1>0, <2>1 DEF Idle, CallState
    <2> QED BY <1>0, <1>1, <1>2, <2>1, <2>2
            DEF ChainInv, TypeOK, KnownChain, OffPrimaryIsExplained, BreakerState, CallState
<1>4. CASE Below(l) # <<>>
    <2>1. to \in Link /\ to # NoLink
        BY <1>0, <1>4, BelowType, LinkType DEF TypeOK
    <2>2. call' = [call EXCEPT ![c] = [at |-> to, probe |-> FALSE]] /\ SwitchAway(l, to, why)
        BY <1>4 DEF Fail
    <2> HIDE DEF to, l
    <2>3. call' \in [Caller -> CallState]
        BY <1>0, <2>1, <2>2 DEF CallState
    <2>4. /\ override' \in Link \cup {NoLink} /\ serving' \in Link \cup {NoLink}
          /\ announced' \in BOOLEAN /\ served' \in BOOLEAN
          /\ cause' \in {"none", "outage", "refusal"} /\ told' \in {"none", "away", "back"}
        BY <1>0, <1>1, <2>1, <2>2 DEF TypeOK, SwitchAway
    <2>5. TypeOK'
        BY <1>0, <1>1, <1>2, <2>3, <2>4 DEF TypeOK, BreakerState, CallState
    <2>6. OffPrimaryIsExplained'
        BY <1>0, <1>1, <2>1, <2>2 DEF SwitchAway, OffPrimaryIsExplained
    <2> QED BY <1>0, <1>1, <2>5, <2>6 DEF ChainInv, KnownChain
<1> QED BY <1>3, <1>4

\* What happens around the partition leaves it as it is.
LEMMA OtherStep ==
    ASSUME ChainInv,
           \/ \E c \in Caller : GiveUp(c)
           \/ \E b \in Breakers : CooldownEnds(b) \/ ThrottleEnds(b)
           \/ \E l \in Link : Turn(l)
           \/ \E ch \in Edits : Edit(ch)
           \/ UNCHANGED vars
    PROVE  ChainInv'
<1>0. /\ TypeOK /\ KnownChain /\ OffPrimaryIsExplained
      /\ breaker \in [Breakers -> BreakerState] /\ call \in [Caller -> CallState]
    BY Types DEF ChainInv
<1>1. UNCHANGED <<override, announced, cause, served, serving, told>>
    BY DEF GiveUp, CooldownEnds, ThrottleEnds, Turn, Edit, vars
<1>2. call' \in [Caller -> CallState]
    <2>1. UNCHANGED call \/ \E c \in Caller : call' = [call EXCEPT ![c] = Idle]
        BY DEF GiveUp, CooldownEnds, ThrottleEnds, Turn, Edit, vars
    <2> QED BY <1>0, <2>1, IdleType
<1>3. breaker' \in [Breakers -> BreakerState]
    <2>1. \A b \in Breakers : /\ [breaker[b] EXCEPT !.cooling = FALSE] \in BreakerState
                              /\ [breaker[b] EXCEPT !.throttled = FALSE] \in BreakerState
        BY <1>0 DEF BreakerState
    <2>2. \/ UNCHANGED breaker
          \/ \E b \in Breakers :
                \/ breaker' = [breaker EXCEPT ![b] = [breaker[b] EXCEPT !.cooling = FALSE]]
                \/ breaker' = [breaker EXCEPT ![b] = [breaker[b] EXCEPT !.throttled = FALSE]]
        BY DEF GiveUp, CooldownEnds, ThrottleEnds, Turn, Edit, vars
    <2> QED BY <1>0, <2>1, <2>2
<1>4. up' \subseteq Link /\ edits' \in 0..MaxEdits
    BY <1>0, BoundsType DEF GiveUp, CooldownEnds, ThrottleEnds, Turn, Edit, vars, TypeOK
<1>5. chain' \in {Chain} \cup Edits
    BY <1>0 DEF KnownChain, GiveUp, CooldownEnds, ThrottleEnds, Turn, Edit, vars
<1>6. IsChain(chain')
    BY <1>5, ChainType
<1>7. IsChain(chain)'
    BY <1>6 DEF IsChain, IsInjective
<1>8. TypeOK'
    BY <1>0, <1>1, <1>2, <1>3, <1>4, <1>7 DEF TypeOK, BreakerState, CallState
<1> QED BY <1>0, <1>1, <1>5, <1>8 DEF ChainInv, KnownChain, OffPrimaryIsExplained

LEMMA NextFallback == ChainInv /\ [Next]_vars => ChainInv'
BY StartStep, ServeStep, FailStep, OtherStep DEF Next

-----------------------------------------------------------------------------
\* The inductive invariant of the partition.
THEOREM ChainInvariant == Spec => []ChainInv
BY InitFallback, NextFallback, PTL DEF Spec

\* partition-state.ts: the partition and the calls keep their types; a call is
\* at a link or nowhere, and no count exceeds failureThreshold.
THEOREM FallbackTypeCorrect == Spec => []TypeOK
<1>1. ChainInv => TypeOK
    BY DEF ChainInv
<1> QED BY <1>1, ChainInvariant, PTL

\* switchAwayTo() and recordSuccess(): whenever the partition is off its
\* primary it knows the failure that led there and has announced it.
THEOREM AwayIsExplained == Spec => []OffPrimaryIsExplained
<1>1. ChainInv => OffPrimaryIsExplained
    BY DEF ChainInv
<1> QED BY <1>1, ChainInvariant, PTL
=============================================================================
