-------------------------- MODULE Compaction_proofs --------------------------
(***************************************************************************)
(* Proofs about Compaction for any sessions and any bounds, on two         *)
(* invariants.  CompInv says who is where: a request that nobody has       *)
(* answered is the one entry of its session, a running operation belongs   *)
(* to such a request or to the open turn, and a request in a queue is      *)
(* there once and was either not answered or told to stop.  RowInv is      *)
(* about what is held of a session, here, by a host or elsewhere: two      *)
(* transcripts with the same record in one place have the same past.       *)
(***************************************************************************)
EXTENDS Compaction, FiniteSetTheorems, SequenceTheorems, TLAPS

Who == Req \cup {NoReq}

Operation == [by : Who, active : BOOLEAN, aborted : BOOLEAN]

Request ==
    [session : Session \cup {NoRequest.session}, queued : BOOLEAN, running : BOOLEAN,
     aborted : BOOLEAN, tied : BOOLEAN, answer : Answers \cup {"unasked", "none"},
     wrote : BOOLEAN]

Job ==
    [session : Session, aborted : BOOLEAN, base : Nat, from : Nat, covers : Seq(Nat), limit : Nat]

\* The types of what is not a session's row.
Shapes ==
    /\ queue \in [Session -> Seq(Who)]
    /\ turn \in [Session -> {"none", "open", "closed"}]
    /\ op \in [Session -> Operation]
    /\ requests \in [Session -> Who] /\ req \in [Req -> Request]
    /\ timers \subseteq Session /\ autoFailed \subseteq Session /\ timedOut \subseteq Session
    /\ jobs \subseteq Job /\ stopped \in BOOLEAN

\* The entry of a session and its unanswered request are one thing.
Entries ==
    /\ \A s \in Session : requests[s] # NoReq =>
          Unanswered(requests[s]) /\ req[requests[s]].session = s
    /\ \A r \in Req : Unanswered(r) =>
          req[r].session \in Session /\ requests[req[r].session] = r

Once(q) == \A i, j \in 1..Len(q) : q[i] = q[j] /\ q[i] # TurnJob => i = j

\* A request waits once, in its own session's queue, as one that is wanted or
\* has been told to stop.
Wanted(r) == IF Unanswered(r) THEN req[r].queued ELSE req[r].aborted

WaitAt(s) ==
    /\ Once(queue[s])
    /\ \A r \in Req : Contains(queue[s], r) => req[r].session = s /\ Wanted(r)

\* An operation runs inside the open turn or at the head of the queue, for a
\* request that nobody has answered or for the turn.
OpAt(s) ==
    /\ turn[s] # "none" => Holds(s, TurnJob)
    /\ op[s].active =>
          \/ turn[s] = "open" /\ (op[s].by # NoReq => ~req[op[s].by].queued)
          \/ turn[s] = "none" /\ Holds(s, op[s].by) /\ op[s].by # NoReq
    /\ op[s].active /\ op[s].by # NoReq =>
          Unanswered(op[s].by) /\ req[op[s].by].running /\ req[op[s].by].session = s
    /\ op[s].active /\ stopped => op[s].aborted

\* Background work runs while nothing else than turns waits.
JobInv ==
    LiveJobs # {} =>
        \A s \in Session : /\ turn[s] = "none" /\ ~op[s].active
                           /\ \A r \in Req : ~Contains(queue[s], r)

EntryInv == Entries /\ AnswerIsTrue
WaitInv == \A s \in Session : WaitAt(s)
OpInv == \A s \in Session : OpAt(s)

CompInv == Shapes /\ EntryInv /\ WaitInv /\ OpInv /\ JobInv

-----------------------------------------------------------------------------
(* Queues. *)

LEMMA WhoFacts == Req \subseteq Nat /\ NoReq \notin Req /\ TurnJob \notin Req /\ TurnJob = NoReq
BY BoundsAssumption DEF Req, NoReq, TurnJob

LEMMA AppendFacts ==
    ASSUME NEW q \in Seq(Who), NEW e \in Who
    PROVE  /\ Append(q, e) \in Seq(Who) /\ Append(q, e) # <<>>
           /\ \A x : Contains(Append(q, e), x) <=> Contains(q, x) \/ x = e
           /\ Once(q) /\ (e = TurnJob \/ ~Contains(q, e)) => Once(Append(q, e))
           /\ q # <<>> => Head(Append(q, e)) = Head(q)
<1>1. /\ Append(q, e) \in Seq(Who) /\ Append(q, e) # <<>>
      /\ Len(Append(q, e)) = Len(q) + 1 /\ Len(q) \in Nat
      /\ \A i \in 1..Len(q) + 1 : Append(q, e)[i] = IF i = Len(q) + 1 THEN e ELSE q[i]
    OBVIOUS
<1>2. ASSUME NEW x PROVE Contains(Append(q, e), x) <=> Contains(q, x) \/ x = e
    <2>1. ASSUME NEW i \in 1..Len(q) + 1, Append(q, e)[i] = x PROVE Contains(q, x) \/ x = e
        BY <1>1, <2>1 DEF Contains
    <2>2. ASSUME NEW i \in 1..Len(q), q[i] = x PROVE Contains(Append(q, e), x)
        <3>1. i \in 1..Len(q) + 1 /\ Append(q, e)[i] = x
            BY <1>1, <2>2
        <3> QED BY <1>1, <3>1 DEF Contains
    <2>3. Contains(Append(q, e), e)
        <3>1. Len(q) + 1 \in 1..Len(q) + 1 /\ Append(q, e)[Len(q) + 1] = e
            BY <1>1
        <3> QED BY <1>1, <3>1 DEF Contains
    <2> QED BY <1>1, <2>1, <2>2, <2>3 DEF Contains
<1>3. ASSUME Once(q), e = TurnJob \/ ~Contains(q, e) PROVE Once(Append(q, e))
    <2> SUFFICES ASSUME NEW i \in 1..Len(q) + 1, NEW j \in 1..Len(q) + 1,
                        Append(q, e)[i] = Append(q, e)[j], Append(q, e)[i] # TurnJob
                 PROVE  i = j
        BY <1>1 DEF Once
    <2>1. CASE i \in 1..Len(q) /\ j \in 1..Len(q)
        <3>1. Append(q, e)[i] = q[i] /\ Append(q, e)[j] = q[j]
            BY <1>1, <2>1
        <3> QED BY <1>3, <2>1, <3>1 DEF Once
    <2>2. CASE i = Len(q) + 1 /\ j \in 1..Len(q)
        BY <1>1, <1>3, <2>2 DEF Contains
    <2>3. CASE i \in 1..Len(q) /\ j = Len(q) + 1
        BY <1>1, <1>3, <2>3 DEF Contains
    <2> QED BY <1>1, <2>1, <2>2, <2>3
<1>4. q # <<>> => Head(Append(q, e)) = Head(q)
    OBVIOUS
<1> QED BY <1>1, <1>2, <1>3, <1>4

LEMMA TailFacts ==
    ASSUME NEW q \in Seq(Who), q # <<>>
    PROVE  /\ Tail(q) \in Seq(Who) /\ Head(q) \in Who /\ Contains(q, Head(q))
           /\ \A x : Contains(Tail(q), x) => Contains(q, x)
           /\ Once(q) => Once(Tail(q))
           /\ Once(q) /\ Head(q) # TurnJob => ~Contains(Tail(q), Head(q))
<1>1. /\ Tail(q) \in Seq(Who) /\ Head(q) \in Who /\ Head(q) = q[1]
      /\ Len(q) \in Nat /\ Len(q) > 0 /\ Len(Tail(q)) = Len(q) - 1
      /\ \A i \in 1..Len(Tail(q)) : i + 1 \in 1..Len(q) /\ Tail(q)[i] = q[i + 1]
    OBVIOUS
<1>2. Contains(q, Head(q))
    BY <1>1 DEF Contains
<1>3. \A x : Contains(Tail(q), x) => Contains(q, x)
    BY <1>1 DEF Contains
<1>4. ASSUME Once(q) PROVE Once(Tail(q))
    <2> SUFFICES ASSUME NEW i \in 1..Len(Tail(q)), NEW j \in 1..Len(Tail(q)),
                        Tail(q)[i] = Tail(q)[j], Tail(q)[i] # TurnJob
                 PROVE  i = j
        BY DEF Once
    <2>1. i + 1 = j + 1
        BY <1>1, <1>4 DEF Once
    <2> QED BY <1>1, <2>1
<1>5. ASSUME Once(q), Head(q) # TurnJob, Contains(Tail(q), Head(q)) PROVE FALSE
    <2>1. PICK i \in 1..Len(Tail(q)) : Tail(q)[i] = Head(q)
        BY <1>5 DEF Contains
    <2>2. i + 1 = 1
        BY <1>1, <1>5, <2>1 DEF Once
    <2> QED BY <1>1, <2>2
<1> QED BY <1>1, <1>2, <1>3, <1>4, <1>5

\* A place after the head is taken out.
LEMMA RemoveFacts ==
    ASSUME NEW q \in Seq(Who), NEW i \in 2..Len(q)
    PROVE  /\ RemoveAt(q, i) \in Seq(Who) /\ RemoveAt(q, i) # <<>>
           /\ Head(RemoveAt(q, i)) = Head(q)
           /\ \A x : Contains(RemoveAt(q, i), x) => Contains(q, x)
           /\ Once(q) => Once(RemoveAt(q, i))
           /\ Once(q) /\ q[i] # TurnJob => ~Contains(RemoveAt(q, i), q[i])
<1> DEFINE a == SubSeq(q, 1, i - 1)
           b == SubSeq(q, i + 1, Len(q))
           p == RemoveAt(q, i)
           at(k) == IF k < i THEN k ELSE k + 1
<1>0. Len(q) \in Nat /\ i \in Nat /\ i >= 2 /\ i <= Len(q)
    OBVIOUS
<1>1. /\ a \in Seq(Who) /\ b \in Seq(Who) /\ Len(a) = i - 1 /\ Len(b) = Len(q) - i
      /\ \A k \in 1..i - 1 : a[k] = q[k]
      /\ \A k \in 1..Len(q) - i : b[k] = q[k + i]
    BY <1>0
<1>2. p = a \o b
    BY DEF RemoveAt
<1> HIDE DEF a, b, p
<1>3. /\ p \in Seq(Who) /\ Len(p) = Len(q) - 1
      /\ \A k \in 1..Len(q) - 1 : p[k] = IF k <= i - 1 THEN a[k] ELSE b[k - (i - 1)]
    <2>1. /\ a \o b \in Seq(Who) /\ Len(a \o b) = Len(a) + Len(b)
          /\ \A k \in 1..Len(a) + Len(b) :
                (a \o b)[k] = IF k <= Len(a) THEN a[k] ELSE b[k - Len(a)]
        BY <1>1, ConcatProperties
    <2>2. Len(a) + Len(b) = Len(q) - 1
        BY <1>0, <1>1
    <2> QED BY <1>1, <1>2, <2>1, <2>2
<1>4. \A k \in 1..Len(p) : at(k) \in 1..Len(q) /\ at(k) # i /\ p[k] = q[at(k)]
    <2> SUFFICES ASSUME NEW k \in 1..Len(p)
                 PROVE  at(k) \in 1..Len(q) /\ at(k) # i /\ p[k] = q[at(k)]
        OBVIOUS
    <2>1. CASE k < i
        <3>1. k \in 1..i - 1 /\ k \in 1..Len(q) - 1 /\ k \in 1..Len(q)
            BY <1>0, <1>3, <2>1
        <3>2. p[k] = a[k] /\ a[k] = q[k]
            BY <1>0, <1>1, <1>3, <3>1
        <3> QED BY <2>1, <3>1, <3>2
    <2>2. CASE ~(k < i)
        <3>1. /\ k \in 1..Len(q) - 1 /\ k + 1 \in 1..Len(q) /\ k + 1 # i
              /\ k - (i - 1) \in 1..Len(q) - i /\ k - (i - 1) + i = k + 1 /\ ~(k <= i - 1)
            BY <1>0, <1>3, <2>2
        <3>2. p[k] = b[k - (i - 1)] /\ b[k - (i - 1)] = q[k + 1]
            BY <1>1, <1>3, <3>1
        <3> QED BY <2>2, <3>1, <3>2
    <2> QED BY <2>1, <2>2
<1>5. p # <<>> /\ Head(p) = Head(q)
    <2>1. Len(p) >= 1 /\ 1 \in 1..Len(p) /\ at(1) = 1
        BY <1>0, <1>3
    <2>2. p[1] = q[1]
        BY <1>4, <2>1
    <2> QED BY <1>0, <1>3, <2>1, <2>2
<1>6. \A k, l \in 1..Len(p) : at(k) = at(l) => k = l
    BY <1>0, <1>3
<1> HIDE DEF at
<1>7. \A x : Contains(p, x) => Contains(q, x)
    BY <1>4 DEF Contains
<1>8. ASSUME Once(q) PROVE Once(p)
    <2> SUFFICES ASSUME NEW k \in 1..Len(p), NEW l \in 1..Len(p), p[k] = p[l], p[k] # TurnJob
                 PROVE  k = l
        BY DEF Once
    <2>1. at(k) = at(l)
        BY <1>4, <1>8 DEF Once
    <2> QED BY <1>6, <2>1
<1>9. ASSUME Once(q), q[i] # TurnJob, Contains(p, q[i]) PROVE FALSE
    <2>1. PICK k \in 1..Len(p) : p[k] = q[i]
        BY <1>9 DEF Contains
    <2>2. at(k) = i
        BY <1>0, <1>4, <1>9, <2>1 DEF Once
    <2> QED BY <1>4, <2>2
<1> QED BY <1>3, <1>5, <1>7, <1>8, <1>9 DEF p

\* The sequence of a set with at most one member.
LEMMA SmallSetToSeq ==
    ASSUME NEW e
    PROVE  SetToSeq({}) = <<>> /\ SetToSeq({e}) = <<e>>
<1>1. Cardinality({}) = 0 /\ Cardinality({e}) = 1
    BY FS_EmptySet, FS_Singleton
<1>2. SetToSeq({}) = <<>>
    <2>1. <<>> \in [1..0 -> {}] /\ IsInjective(<<>>)
        BY DEF IsInjective
    <2>2. \A f \in [1..0 -> {}] : f = <<>>
        OBVIOUS
    <2> QED BY <1>1, <2>1, <2>2 DEF SetToSeq
<1>3. SetToSeq({e}) = <<e>>
    <2>1. <<e>> \in [1..1 -> {e}] /\ IsInjective(<<e>>)
        BY DEF IsInjective
    <2>2. \A f \in [1..1 -> {e}] : f = <<e>>
        OBVIOUS
    <2> QED BY <1>1, <2>1, <2>2 DEF SetToSeq
<1> QED BY <1>2, <1>3

-----------------------------------------------------------------------------
(* Requests and their entries. *)

\* What is left of a request.
LEMMA AnsweredIs ==
    ASSUME NEW q \in Request, NEW a \in Answers
    PROVE  /\ Answered(q, a) \in Request
           /\ Answered(q, a).session = q.session
           /\ Answered(q, a).answer = IF q.answer = "none" THEN a ELSE q.answer
           /\ Answered(q, a).answer # "none"
           /\ Answered(q, a).wrote = (q.wrote \/ a = "compacted")
<1> DEFINE w == q.wrote \/ a = "compacted"
           x == IF q.answer = "none" THEN a ELSE q.answer
<1>0. /\ q.session \in Session \cup {NoRequest.session} /\ w \in BOOLEAN
      /\ x \in Answers \cup {"unasked"} /\ x # "none"
    BY DEF Request, Answers
<1>1. /\ NoRequest = [session |-> NoRequest.session, queued |-> FALSE, running |-> FALSE,
                      aborted |-> FALSE, tied |-> FALSE, answer |-> "unasked", wrote |-> FALSE]
      /\ NoRequest \in Request
    BY DEF NoRequest, Request
<1>2. Answered(q, a) =
        [[[NoRequest EXCEPT !.session = q.session] EXCEPT !.wrote = w] EXCEPT !.answer = x]
    BY DEF Answered
<1> HIDE DEF w, x
<1>3. /\ Answered(q, a) \in Request /\ Answered(q, a).session = q.session
      /\ Answered(q, a).answer = x /\ Answered(q, a).wrote = w
    BY <1>0, <1>1, <1>2 DEF Request
<1> QED BY <1>0, <1>3 DEF w, x

\* settle(): one request is answered, and its entry goes.
LEMMA SettleKeeps ==
    ASSUME Shapes, EntryInv, NEW r \in Req, NEW a \in Answers, req[r].session \in Session,
           Settle(r, a), a = "compacted" => Unanswered(r)
    PROVE  /\ requests' \in [Session -> Who] /\ req' \in [Req -> Request] /\ EntryInv'
           /\ \A q \in Req \ {r} : req'[q] = req[q]
<1> DEFINE s == req[r].session
           q == Answered(req[r], a)
<1>0. req[r] \in Request /\ requests \in [Session -> Who] /\ req \in [Req -> Request]
    BY DEF Shapes
<1>1. /\ q \in Request /\ q.session = s /\ q.answer # "none"
      /\ q.answer = IF req[r].answer = "none" THEN a ELSE req[r].answer
      /\ q.wrote = (req[r].wrote \/ a = "compacted")
    BY <1>0, AnsweredIs
<1>2. /\ requests' = [requests EXCEPT ![s] = IF @ = r THEN NoReq ELSE @]
      /\ req' = [req EXCEPT ![r] = q]
    BY DEF Settle
<1> HIDE DEF s, q
<1>3. requests' \in [Session -> Who] /\ req' \in [Req -> Request]
    BY <1>0, <1>1, <1>2 DEF Who
<1>4. req'[r] = q /\ \A p \in Req \ {r} : req'[p] = req[p]
    BY <1>0, <1>2
<1>5. /\ s \in Session /\ requests'[s] = IF requests[s] = r THEN NoReq ELSE requests[s]
      /\ \A t \in Session \ {s} : requests'[t] = requests[t]
    BY <1>0, <1>2 DEF s
<1>6. ASSUME NEW t \in Session, requests'[t] # NoReq
      PROVE  req'[requests'[t]].answer = "none" /\ req'[requests'[t]].session = t
    <2>1. requests'[t] = requests[t]
        BY <1>5, <1>6
    <2>2. /\ requests[t] \in Req /\ req[requests[t]].answer = "none"
          /\ req[requests[t]].session = t
        BY <1>0, <1>6, <2>1 DEF EntryInv, Entries, Unanswered, Who
    <2>3. requests[t] # r
        BY <1>5, <1>6, <2>1, <2>2 DEF s
    <2> QED BY <1>4, <2>1, <2>2, <2>3
<1>7. ASSUME NEW p \in Req, req'[p].answer = "none"
      PROVE  req'[p].session \in Session /\ requests'[req'[p].session] = p
    <2>1. p # r /\ req'[p] = req[p]
        BY <1>1, <1>4, <1>7
    <2>2. req[p].session \in Session /\ requests[req[p].session] = p
        BY <1>7, <2>1 DEF EntryInv, Entries, Unanswered
    <2> QED BY <1>5, <2>1, <2>2
<1>8. ASSUME NEW p \in Req PROVE req'[p].wrote <=> req'[p].answer = "compacted"
    <2>1. req[p].wrote <=> req[p].answer = "compacted"
        BY DEF EntryInv, AnswerIsTrue
    <2>2. CASE p # r
        BY <1>4, <2>1, <2>2
    <2>3. CASE p = r
        BY <1>1, <1>4, <2>1, <2>3 DEF Unanswered
    <2> QED BY <2>2, <2>3
<1>9. EntryInv'
    BY <1>6, <1>7, <1>8 DEF EntryInv, Entries, AnswerIsTrue, Unanswered
<1> QED BY <1>3, <1>4, <1>9

\* The signals of requests: what is not running is answered, the others only
\* hear of it.
LEMMA AbortKeeps ==
    ASSUME Shapes, EntryInv, NEW rs, rs \subseteq Req, AbortRequests(rs)
    PROVE  /\ requests' \in [Session -> Who] /\ req' \in [Req -> Request] /\ EntryInv'
           /\ \A q \in Req : req'[q].session = req[q].session
           /\ \A q \in Req : Wanted(q) => Wanted(q)'
           /\ \A q \in Req : Unanswered(q) /\ req[q].running =>
                 /\ Unanswered(q)' /\ req'[q].running /\ req'[q].queued = req[q].queued
<1> DEFINE gone(q) == [Answered(req[q], "cancelled") EXCEPT !.aborted = req[q].queued]
           heard(q) == [req[q] EXCEPT !.aborted = TRUE]
<1>0. requests \in [Session -> Who] /\ req \in [Req -> Request]
    BY DEF Shapes
<1>1. ASSUME NEW q \in Req
      PROVE  req'[q] = IF q \in rs /\ Unanswered(q)
                       THEN IF req[q].running THEN heard(q) ELSE gone(q)
                       ELSE req[q]
    BY DEF AbortRequests
<1>2. ASSUME NEW q \in Req, Unanswered(q)
      PROVE  /\ gone(q) \in Request /\ gone(q).session = req[q].session
             /\ gone(q).answer = "cancelled" /\ gone(q).wrote = req[q].wrote
             /\ gone(q).aborted = req[q].queued
    <2>1. req[q] \in Request /\ "cancelled" \in Answers
        BY <1>0 DEF Answers
    <2> DEFINE b == Answered(req[q], "cancelled")
    <2>2. /\ b \in Request /\ b.session = req[q].session /\ b.answer = "cancelled"
          /\ b.wrote = (req[q].wrote \/ FALSE)
        BY <1>2, <2>1, AnsweredIs DEF Unanswered
    <2>3. req[q].queued \in BOOLEAN /\ req[q].wrote \in BOOLEAN
        BY <2>1 DEF Request
    <2> HIDE DEF b
    <2>4. LET c == [b EXCEPT !.aborted = req[q].queued] IN
          /\ c \in Request /\ c.session = b.session /\ c.answer = b.answer
          /\ c.wrote = b.wrote /\ c.aborted = req[q].queued
        BY <2>2, <2>3 DEF Request
    <2> QED BY <2>2, <2>3, <2>4 DEF b
<1>3. ASSUME NEW q \in Req
      PROVE  /\ heard(q) \in Request /\ heard(q).session = req[q].session
             /\ heard(q).answer = req[q].answer /\ heard(q).wrote = req[q].wrote
             /\ heard(q).queued = req[q].queued /\ heard(q).running = req[q].running
    <2>1. req[q] \in Request
        BY <1>0
    <2> QED BY <2>1 DEF Request
<1> HIDE DEF gone, heard
<1>4. req' \in [Req -> Request]
    <2>1. \A q \in Req : req'[q] \in Request
        BY <1>0, <1>1, <1>2, <1>3
    <2>2. req' = [q \in Req |-> req'[q]]
        BY DEF AbortRequests
    <2> QED BY <2>1, <2>2
<1>5. ASSUME NEW t \in Session
      PROVE  requests'[t] = IF requests[t] \in rs /\ ~req[requests[t]].running
                            THEN NoReq ELSE requests[t]
    BY DEF AbortRequests
<1>6. requests' \in [Session -> Who]
    <2>1. requests' = [t \in Session |-> requests'[t]]
        BY DEF AbortRequests
    <2>2. \A t \in Session : requests'[t] \in Who
        BY <1>0, <1>5 DEF Who
    <2> QED BY <2>1, <2>2
<1>7. \A q \in Req : req'[q].session = req[q].session
    BY <1>1, <1>2, <1>3
<1>8. ASSUME NEW t \in Session, requests'[t] # NoReq
      PROVE  req'[requests'[t]].answer = "none" /\ req'[requests'[t]].session = t
    <2>1. requests'[t] = requests[t] /\ ~(requests[t] \in rs /\ ~req[requests[t]].running)
        BY <1>5, <1>8
    <2>2. /\ requests[t] \in Req /\ req[requests[t]].answer = "none"
          /\ req[requests[t]].session = t
        BY <1>0, <1>8, <2>1 DEF EntryInv, Entries, Unanswered, Who
    <2> QED BY <1>1, <1>3, <1>7, <2>1, <2>2
<1>9. ASSUME NEW p \in Req, req'[p].answer = "none"
      PROVE  req'[p].session \in Session /\ requests'[req'[p].session] = p
    <2>1. Unanswered(p) /\ (p \in rs => req[p].running)
        BY <1>1, <1>2, <1>9 DEF Unanswered
    <2>2. req[p].session \in Session /\ requests[req[p].session] = p
        BY <2>1 DEF EntryInv, Entries
    <2> QED BY <1>5, <1>7, <2>1, <2>2
<1>10. ASSUME NEW p \in Req PROVE req'[p].wrote <=> req'[p].answer = "compacted"
    <2>1. req[p].wrote <=> req[p].answer = "compacted"
        BY DEF EntryInv, AnswerIsTrue
    <2> QED BY <1>1, <1>2, <1>3, <2>1 DEF Unanswered
<1>11. EntryInv'
    BY <1>8, <1>9, <1>10 DEF EntryInv, Entries, AnswerIsTrue, Unanswered
<1>12. ASSUME NEW q \in Req, Wanted(q) PROVE Wanted(q)'
    <2>1. CASE ~(q \in rs /\ Unanswered(q))
        BY <1>1, <1>12, <2>1 DEF Wanted, Unanswered
    <2>2. CASE q \in rs /\ Unanswered(q) /\ req[q].running
        <3>1. req'[q] = heard(q) /\ req[q].queued
            BY <1>1, <1>12, <2>2 DEF Wanted
        <3> QED BY <1>3, <2>2, <3>1 DEF Wanted, Unanswered
    <2>3. CASE q \in rs /\ Unanswered(q) /\ ~req[q].running
        <3>1. req'[q] = gone(q) /\ req[q].queued
            BY <1>1, <1>12, <2>3 DEF Wanted
        <3> QED BY <1>2, <2>3, <3>1 DEF Wanted, Unanswered
    <2> QED BY <2>1, <2>2, <2>3
<1>13. ASSUME NEW q \in Req, Unanswered(q), req[q].running
       PROVE  Unanswered(q)' /\ req'[q].running /\ req'[q].queued = req[q].queued
    BY <1>1, <1>3, <1>13 DEF Unanswered
<1> QED BY <1>4, <1>6, <1>7, <1>11, <1>12, <1>13

\* Frames: a session whose queue, turn and operation a step leaves alone.
LEMMA WaitFrame ==
    ASSUME NEW t \in Session, WaitAt(t), queue'[t] = queue[t],
           \A r \in Req : Contains(queue[t], r) =>
                req'[r].session = req[r].session /\ (Wanted(r) => Wanted(r)')
    PROVE  WaitAt(t)'
BY DEF WaitAt

LEMMA OpFrame ==
    ASSUME NEW t \in Session, OpAt(t), turn'[t] = turn[t],
           op'[t].by = op[t].by, op'[t].active = op[t].active,
           queue[t] # <<>> => queue'[t] # <<>> /\ Head(queue'[t]) = Head(queue[t]),
           op[t].active /\ stopped' => op'[t].aborted,
           op[t].active /\ op[t].by # NoReq =>
                /\ req'[op[t].by].answer = "none" /\ req'[op[t].by].running
                /\ req'[op[t].by].session = req[op[t].by].session
                /\ req'[op[t].by].queued = req[op[t].by].queued
    PROVE  OpAt(t)'
<1>1. \A w : Holds(t, w) => Holds(t, w)'
    BY DEF Holds, isBusy
<1>2. turn'[t] # "none" => Holds(t, TurnJob)'
    BY <1>1 DEF OpAt
<1>3. op'[t].active => \/ turn'[t] = "open" /\ (op'[t].by # NoReq => ~req'[op'[t].by].queued)
                       \/ turn'[t] = "none" /\ Holds(t, op[t].by)' /\ op'[t].by # NoReq
    BY <1>1 DEF OpAt
<1>4. op'[t].active /\ op'[t].by # NoReq =>
          Unanswered(op[t].by)' /\ req'[op'[t].by].running /\ req'[op'[t].by].session = t
    BY DEF OpAt, Unanswered
<1> QED BY <1>2, <1>3, <1>4 DEF OpAt, Holds, isBusy, Unanswered

\* Jobs that are gone or aborted, and queues that get no request.
LEMMA JobFrame ==
    ASSUME JobInv, jobs' \subseteq jobs,
           \A t \in Session : turn[t] = "none" /\ ~op[t].active =>
                turn'[t] = "none" /\ ~op'[t].active,
           \A t \in Session, r \in Req : Contains(queue'[t], r) => Contains(queue[t], r)
    PROVE  JobInv'
BY DEF JobInv, LiveJobs

LEMMA AbortedJobs ==
    ASSUME Shapes, JobInv, jobs' = {[j EXCEPT !.aborted = TRUE] : j \in jobs}
    PROVE  jobs' \subseteq Job /\ LiveJobs' = {} /\ JobInv'
<1>1. ASSUME NEW j \in jobs
      PROVE  LET k == [j EXCEPT !.aborted = TRUE] IN
             k \in Job /\ k.aborted = TRUE
    <2>1. j \in Job
        BY DEF Shapes
    <2> QED BY <2>1 DEF Job
<1>2. \A k \in jobs' : k \in Job /\ k.aborted = TRUE
    BY <1>1
<1>3. LiveJobs' = {}
    BY <1>2 DEF LiveJobs
<1> QED BY <1>2, <1>3 DEF JobInv

\* cancel(): whatever ran in the background is told to stop.
LEMMA CancelJobsIs ==
    ASSUME Shapes, JobInv, NEW s \in Session, CancelJobs(s)
    PROVE  jobs' \subseteq Job /\ timers' \subseteq Session /\ LiveJobs' = {} /\ JobInv'
<1>1. jobs' = {[j EXCEPT !.aborted = TRUE] : j \in jobs}
    BY DEF CancelJobs
<1>2. \A j \in jobs : j.session \in Session
    BY DEF Shapes, Job
<1>3. timers' \subseteq Session
    BY <1>2 DEF CancelJobs, Scheduled, LiveJobs, Shapes
<1> QED BY <1>1, <1>3, AbortedJobs

LEMMA InitComp == Init => CompInv
<1> SUFFICES ASSUME Init PROVE CompInv
    OBVIOUS
<1>0. NoRequest \in Request /\ NoRequest.answer = "unasked" /\ NoRequest.wrote = FALSE
    BY DEF NoRequest, Request
<1>1. NoOp \in Operation /\ NoOp.active = FALSE
    BY DEF NoOp, Operation, Who
<1>2. <<>> \in Seq(Who) /\ Once(<<>>) /\ \A r : ~Contains(<<>>, r)
    BY DEF Once, Contains
<1>3. Shapes
    <2>1. /\ queue \in [Session -> Seq(Who)] /\ op \in [Session -> Operation]
          /\ requests \in [Session -> Who] /\ req \in [Req -> Request]
        BY <1>0, <1>1, <1>2 DEF Init, Who
    <2>2. turn \in [Session -> {"none", "open", "closed"}]
        BY DEF Init
    <2> QED BY <2>1, <2>2 DEF Init, Shapes
<1>4. EntryInv
    BY <1>0 DEF Init, EntryInv, Entries, AnswerIsTrue, Unanswered
<1>5. WaitInv
    BY <1>2 DEF Init, WaitInv, WaitAt
<1>6. OpInv
    BY <1>1 DEF Init, OpInv, OpAt
<1>7. JobInv
    BY DEF Init, JobInv, LiveJobs
<1> QED BY <1>3, <1>4, <1>5, <1>6, <1>7 DEF CompInv

-----------------------------------------------------------------------------
(* The steps that only stop things. *)

LEMMA StopsKeep ==
    ASSUME CompInv, NEW rs, rs \subseteq Req, AbortRequests(rs),
           op' \in [Session -> Operation],
           \A t \in Session :
              /\ op'[t].by = op[t].by /\ op'[t].active = op[t].active
              /\ op[t].active /\ (op[t].aborted \/ (stopped' /\ ~stopped)) => op'[t].aborted,
           UNCHANGED <<queue, turn>>,
           timers' \subseteq Session, autoFailed' \subseteq Session, timedOut' \subseteq Session,
           stopped' \in BOOLEAN,
           jobs' = jobs \/ jobs' = {[j EXCEPT !.aborted = TRUE] : j \in jobs}
    PROVE  CompInv'
<1>0. Shapes /\ EntryInv /\ WaitInv /\ OpInv /\ JobInv
    BY DEF CompInv
<1>1. /\ requests' \in [Session -> Who] /\ req' \in [Req -> Request] /\ EntryInv'
      /\ \A q \in Req : req'[q].session = req[q].session
      /\ \A q \in Req : Wanted(q) => Wanted(q)'
      /\ \A q \in Req : Unanswered(q) /\ req[q].running =>
            Unanswered(q)' /\ req'[q].running /\ req'[q].queued = req[q].queued
    BY <1>0, AbortKeeps
<1>2. jobs' \subseteq Job /\ JobInv'
    <2>1. CASE jobs' = jobs
        BY <1>0, <2>1, JobFrame DEF Shapes
    <2>2. CASE jobs' = {[j EXCEPT !.aborted = TRUE] : j \in jobs}
        BY <1>0, <2>2, AbortedJobs
    <2> QED BY <2>1, <2>2
<1>3. Shapes'
    BY <1>0, <1>1, <1>2 DEF Shapes
<1>4. WaitInv'
    BY <1>0, <1>1, WaitFrame DEF WaitInv
<1>5. ASSUME NEW t \in Session PROVE OpAt(t)'
    <2>1. OpAt(t) /\ op[t] \in Operation
        BY <1>0 DEF OpInv, Shapes
    <2>2. op[t].active /\ op[t].by # NoReq =>
              /\ op[t].by \in Req /\ Unanswered(op[t].by) /\ req[op[t].by].running
        BY <2>1 DEF OpAt, Operation, Who
    <2>3. op[t].active /\ op[t].by # NoReq =>
              /\ req'[op[t].by].answer = "none" /\ req'[op[t].by].running
              /\ req'[op[t].by].session = req[op[t].by].session
              /\ req'[op[t].by].queued = req[op[t].by].queued
        BY <1>1, <2>2 DEF Unanswered
    <2>4. op[t].active /\ stopped' => op'[t].aborted
        BY <2>1 DEF OpAt
    <2> QED BY <2>1, <2>3, <2>4, OpFrame
<1> QED BY <1>1, <1>2, <1>3, <1>4, <1>5 DEF CompInv, OpInv

LEMMA StopSteps ==
    ASSUME CompInv,
           \/ Shutdown
           \/ \E r \in Req : CallerAborts(r)
           \/ \E s \in Session : CancelCompaction(s) \/ AbortTurn(s)
    PROVE  CompInv'
<1>0. /\ Shapes /\ op \in [Session -> Operation] /\ requests \in [Session -> Who]
      /\ \A t \in Session : /\ op[t] \in Operation
                            /\ op[t].active \in BOOLEAN /\ op[t].aborted \in BOOLEAN
    BY DEF CompInv, Shapes, Operation
<1>1. ASSUME NEW t \in Session, NEW b \in BOOLEAN
      PROVE  LET o == [op[t] EXCEPT !.aborted = b] IN
             o \in Operation /\ o.by = op[t].by /\ o.active = op[t].active /\ o.aborted = b
    <2>1. op[t] \in Operation
        BY <1>0
    <2> QED BY <2>1 DEF Operation
<1>2. CASE Shutdown
    <2>1. {requests[s] : s \in Session} \ {NoReq} \subseteq Req
        BY <1>0 DEF Who
    <2>2. op' = [s \in Session |-> [op[s] EXCEPT !.aborted = op[s].active]]
        BY <1>2 DEF Shutdown
    <2>3. /\ op' \in [Session -> Operation]
          /\ \A t \in Session : /\ op'[t].by = op[t].by /\ op'[t].active = op[t].active
                                /\ op[t].active => op'[t].aborted
        BY <1>0, <1>1, <2>2
    <2>4. /\ AbortRequests({requests[s] : s \in Session} \ {NoReq})
          /\ UNCHANGED <<queue, turn>>
          /\ timers' \subseteq Session /\ autoFailed' \subseteq Session
          /\ timedOut' \subseteq Session /\ stopped' \in BOOLEAN
          /\ jobs' = {[j EXCEPT !.aborted = TRUE] : j \in jobs}
        BY <1>2 DEF Shutdown, turnVars
    <2> QED BY <2>1, <2>3, <2>4, StopsKeep
<1>3. ASSUME NEW r \in Req, CallerAborts(r) PROVE CompInv'
    <2>1. op' = [s \in Session |->
                   [op[s] EXCEPT !.aborted = op[s].aborted \/ (op[s].active /\ op[s].by = r)]]
        BY <1>3 DEF CallerAborts
    <2>2. /\ op' \in [Session -> Operation]
          /\ \A t \in Session : /\ op'[t].by = op[t].by /\ op'[t].active = op[t].active
                                /\ op[t].aborted => op'[t].aborted
        BY <1>0, <1>1, <2>1
    <2>3. /\ AbortRequests({r}) /\ UNCHANGED <<queue, turn, copy, stored, stopped, jobs>>
          /\ timers' \subseteq Session /\ autoFailed' \subseteq Session
          /\ timedOut' \subseteq Session /\ stopped' \in BOOLEAN
        BY <1>0, <1>3 DEF CallerAborts, turnVars, jobVars, Shapes
    <2>4. {r} \subseteq Req
        OBVIOUS
    <2> QED BY <2>2, <2>3, <2>4, StopsKeep
<1>4. ASSUME NEW s \in Session, NEW rs, rs \subseteq Req, AbortRequests(rs),
             op' = [op EXCEPT ![s].aborted = op[s].active],
             UNCHANGED <<queue, turn, copy, stored, autoFailed, jobVars, stopped>>
      PROVE  CompInv'
    <2>1. /\ op' \in [Session -> Operation]
          /\ \A t \in Session : /\ op'[t].by = op[t].by /\ op'[t].active = op[t].active
                                /\ op[t].active /\ op[t].aborted => op'[t].aborted
        <3>1. op' = [op EXCEPT ![s] = [op[s] EXCEPT !.aborted = op[s].active]]
            BY <1>4
        <3> QED BY <1>0, <1>1, <3>1
    <2>2. /\ timers' \subseteq Session /\ autoFailed' \subseteq Session
          /\ timedOut' \subseteq Session /\ stopped' \in BOOLEAN /\ jobs' = jobs
        BY <1>0, <1>4 DEF jobVars, Shapes
    <2> QED BY <1>4, <2>1, <2>2, StopsKeep
<1>5. ASSUME NEW s \in Session, CancelCompaction(s) PROVE CompInv'
    <2>1. {requests[s]} \ {NoReq} \subseteq Req
        BY <1>0 DEF Who
    <2> QED BY <1>4, <1>5, <2>1 DEF CancelCompaction, turnVars
<1>6. ASSUME NEW s \in Session, AbortTurn(s) PROVE CompInv'
    <2>1. {r \in Req : req[r].session = s /\ req[r].tied /\ ~req[r].queued} \subseteq Req
        OBVIOUS
    <2> QED BY <1>4, <1>6, <2>1 DEF AbortTurn
<1> QED BY <1>2, <1>3, <1>5, <1>6

-----------------------------------------------------------------------------
(* The steps of jobs and of queues. *)

LEMMA EntryFrame ==
    ASSUME EntryInv, UNCHANGED <<req, requests>>
    PROVE  EntryInv'
BY DEF EntryInv, Entries, AnswerIsTrue, Unanswered

LEMMA IdleIs ==
    ASSUME OpInv, NEW t \in Session, ~isBusy(t)
    PROVE  turn[t] = "none" /\ ~op[t].active /\ \A r : ~Contains(queue[t], r)
<1>1. queue[t] = <<>> /\ OpAt(t)
    BY DEF isBusy, OpInv
<1>2. \A w : ~Holds(t, w)
    BY <1>1 DEF Holds, isBusy
<1>3. \A r : ~Contains(<<>>, r)
    BY DEF Contains
<1> QED BY <1>1, <1>2, <1>3 DEF OpAt

LEMMA SubmitStep ==
    ASSUME CompInv, NEW s \in Session, SubmitTurn(s)
    PROVE  CompInv'
<1>0. Shapes /\ EntryInv /\ WaitInv /\ OpInv /\ JobInv
    BY DEF CompInv
<1>1. /\ queue' = [queue EXCEPT ![s] = Append(queue[s], TurnJob)]
      /\ UNCHANGED <<turn, copy, stored, op, requests, req, autoFailed, timers, jobs,
                     timedOut, stopped>>
    BY DEF SubmitTurn, jobVars
<1>2. queue[s] \in Seq(Who) /\ TurnJob \in Who /\ queue \in [Session -> Seq(Who)]
    BY <1>0 DEF Shapes, Who, NoReq, TurnJob
<1> DEFINE q == Append(queue[s], TurnJob)
<1>3. /\ q \in Seq(Who) /\ q # <<>>
      /\ \A x : Contains(q, x) <=> Contains(queue[s], x) \/ x = TurnJob
      /\ Once(queue[s]) => Once(q)
      /\ queue[s] # <<>> => Head(q) = Head(queue[s])
    BY <1>2, AppendFacts
<1>4. queue' = [queue EXCEPT ![s] = q]
    BY <1>1
<1> HIDE DEF q
<1>5. /\ queue' \in [Session -> Seq(Who)] /\ queue'[s] = q
      /\ \A t \in Session \ {s} : queue'[t] = queue[t]
    BY <1>2, <1>3, <1>4
<1>6. \A t \in Session, r \in Req : Contains(queue'[t], r) => Contains(queue[t], r)
    BY <1>3, <1>5, WhoFacts
<1>7. Shapes'
    BY <1>0, <1>1, <1>5 DEF Shapes
<1>8. EntryInv'
    BY <1>0, <1>1, EntryFrame
<1>9. WaitInv'
    <2>1. \A r : Wanted(r) => Wanted(r)'
        BY <1>1 DEF Wanted, Unanswered
    <2>2. ASSUME NEW t \in Session \ {s} PROVE WaitAt(t)'
        BY <1>0, <1>1, <1>5, <2>1, WaitFrame DEF WaitInv
    <2>3. WaitAt(s)'
        BY <1>0, <1>1, <1>3, <1>5, <1>6, <2>1 DEF WaitInv, WaitAt
    <2> QED BY <2>2, <2>3 DEF WaitInv
<1>10. ASSUME NEW t \in Session PROVE OpAt(t)'
    <2>1. OpAt(t)
        BY <1>0 DEF OpInv
    <2>2. queue[t] # <<>> => queue'[t] # <<>> /\ Head(queue'[t]) = Head(queue[t])
        BY <1>3, <1>5
    <2>3. /\ op[t].active /\ stopped' => op'[t].aborted
          /\ op[t].active /\ op[t].by # NoReq => req'[op[t].by].answer = "none" /\ req'[op[t].by].running
        BY <1>1, <2>1 DEF OpAt, Unanswered
    <2> QED BY <1>1, <2>1, <2>2, <2>3, OpFrame
<1>11. JobInv'
    BY <1>0, <1>1, <1>6, JobFrame
<1> QED BY <1>7, <1>8, <1>9, <1>10, <1>11 DEF CompInv, OpInv

\* What a step that leaves queues, turns, operations and requests alone keeps.
LEMMA QuietFrame ==
    ASSUME CompInv, UNCHANGED <<queue, turn, op, requests, req, stopped>>
    PROVE  EntryInv' /\ WaitInv' /\ OpInv'
<1>0. Shapes /\ EntryInv /\ WaitInv /\ OpInv /\ JobInv
    BY DEF CompInv
<1>1. EntryInv'
    BY <1>0, EntryFrame
<1>2. \A r : Wanted(r) => Wanted(r)'
    BY DEF Wanted, Unanswered
<1>3. WaitInv'
    BY <1>0, <1>2, WaitFrame DEF WaitInv
<1>4. OpInv'
    BY <1>0 DEF OpInv, OpAt, Holds, isBusy, Unanswered
<1> QED BY <1>1, <1>3, <1>4

LEMMA TurnOpensStep ==
    ASSUME CompInv, NEW s \in Session, TurnOpens(s)
    PROVE  CompInv'
<1>0. Shapes /\ EntryInv /\ WaitInv /\ OpInv /\ JobInv
    BY DEF CompInv
<1>1. /\ turn' = [turn EXCEPT ![s] = "open"]
      /\ autoFailed' = autoFailed \ {s} /\ CancelJobs(s)
      /\ UNCHANGED <<queue, op, requests, req, timedOut, stopped>>
      /\ Holds(s, TurnJob) /\ turn[s] = "none"
    BY DEF TurnOpens
<1>2. ~op[s].active
    <2>1. OpAt(s)
        BY <1>0 DEF OpInv
    <2>2. ~(Holds(s, op[s].by) /\ op[s].by # NoReq)
        BY <1>1, WhoFacts DEF Holds
    <2> QED BY <1>1, <2>1, <2>2 DEF OpAt
<1>3. jobs' \subseteq Job /\ timers' \subseteq Session /\ JobInv'
    BY <1>0, <1>1, CancelJobsIs
<1>4. /\ turn' \in [Session -> {"none", "open", "closed"}] /\ turn'[s] = "open"
      /\ \A t \in Session \ {s} : turn'[t] = turn[t]
    BY <1>0, <1>1 DEF Shapes
<1>5. Shapes'
    BY <1>0, <1>1, <1>3, <1>4 DEF Shapes
<1>6. EntryInv'
    BY <1>0, <1>1, EntryFrame
<1>7. WaitInv'
    <2>1. \A r : Wanted(r) => Wanted(r)'
        BY <1>1 DEF Wanted, Unanswered
    <2> QED BY <1>0, <1>1, <2>1, WaitFrame DEF WaitInv
<1>8. ASSUME NEW t \in Session PROVE OpAt(t)'
    <2>1. OpAt(t)
        BY <1>0 DEF OpInv
    <2>2. CASE t # s
        BY <1>1, <1>4, <2>1, <2>2 DEF OpAt, Holds, isBusy, Unanswered
    <2>3. CASE t = s
        BY <1>1, <1>2, <1>4, <2>3 DEF OpAt, Holds, isBusy
    <2> QED BY <2>2, <2>3
<1> QED BY <1>3, <1>5, <1>6, <1>7, <1>8 DEF CompInv, OpInv

\* What a row says has been summed up.
LEMMA RollingIs ==
    ASSUME NEW state \in Record
    PROVE  /\ state.turns \in Seq(Nat) /\ Len(state.turns) \in Nat /\ state.base \in Nat
           /\ state.rolling \in [from : Nat, covers : Seq(Nat)]
           /\ Rolling(state) \in Nat /\ Rolling(state) >= state.base
<1>1. /\ state.turns \in Seq(Nat) /\ state.base \in Nat
      /\ state.rolling \in [from : Nat, covers : Seq(Nat)]
    BY DEF Record
<1>2. Len(state.turns) \in Nat /\ state.rolling.covers \in Seq(Nat)
    BY <1>1
<1>3. Len(state.rolling.covers) \in Nat
    BY <1>2
<1>4. ValidRolling(state) => Len(state.rolling.covers) > state.base
    BY DEF ValidRolling
<1> QED BY <1>1, <1>2, <1>3, <1>4 DEF Rolling

\* The call of a background job that starts.
LEMMA NewJob ==
    ASSUME NEW s \in Session, JobStarts(s), stored[s] \in Record
    PROVE  \E k \in Job, n \in Nat :
               /\ jobs' = jobs \cup {k} /\ k.session = s
               /\ n \in 1..Len(stored[s].turns) /\ n > k.base
               /\ k.covers = SubSeq(stored[s].turns, 1, n)
<1>1. PICK n \in Rolling(stored[s]) + 1 .. Len(stored[s].turns) :
        jobs' = jobs \cup {[session |-> s, aborted |-> FALSE, base |-> stored[s].base,
                            from |-> Rolling(stored[s]),
                            covers |-> SubSeq(stored[s].turns, 1, n),
                            limit |-> Len(stored[s].turns)]}
    BY DEF JobStarts
<1>2. /\ stored[s].turns \in Seq(Nat) /\ Len(stored[s].turns) \in Nat /\ stored[s].base \in Nat
      /\ Rolling(stored[s]) \in Nat /\ Rolling(stored[s]) >= stored[s].base
    BY RollingIs
<1>3. n \in Nat /\ n \in 1..Len(stored[s].turns) /\ n > stored[s].base
    BY <1>2
<1>4. SubSeq(stored[s].turns, 1, n) \in Seq(Nat)
    BY <1>2, <1>3
<1> DEFINE c == SubSeq(stored[s].turns, 1, n)
           k == [session |-> s, aborted |-> FALSE, base |-> stored[s].base,
                 from |-> Rolling(stored[s]), covers |-> c, limit |-> Len(stored[s].turns)]
<1>5. jobs' = jobs \cup {k} /\ c \in Seq(Nat)
    BY <1>1, <1>4
<1> HIDE DEF c
<1>6. k \in Job /\ k.session = s /\ k.base = stored[s].base /\ k.covers = c
    BY <1>2, <1>5 DEF Job
<1> HIDE DEF k
<1> QED BY <1>3, <1>5, <1>6 DEF c

LEMMA JobStartsStep ==
    ASSUME CompInv, NEW s \in Session, JobStarts(s), stored[s] \in Record
    PROVE  CompInv'
<1>0. Shapes /\ EntryInv /\ WaitInv /\ OpInv /\ JobInv
    BY DEF CompInv
<1>1. /\ timers' = timers \ {s} /\ \A t \in Session : ~isBusy(t)
      /\ UNCHANGED <<queue, turn, op, requests, req, autoFailed, timedOut, stopped>>
    BY DEF JobStarts, turnVars
<1>2. PICK k \in Job : jobs' = jobs \cup {k}
    BY NewJob
<1>3. Shapes'
    BY <1>0, <1>1, <1>2 DEF Shapes
<1>4. JobInv'
    <2>1. \A t \in Session : turn[t] = "none" /\ ~op[t].active /\ \A r \in Req : ~Contains(queue[t], r)
        BY <1>0, <1>1, IdleIs
    <2> QED BY <1>1, <2>1 DEF JobInv
<1> QED BY <1>1, <1>3, <1>4, QuietFrame DEF CompInv

LEMMA JobNotNeededStep ==
    ASSUME CompInv, NEW s \in Session, JobNotNeeded(s)
    PROVE  CompInv'
<1>0. Shapes /\ JobInv
    BY DEF CompInv
<1>1. /\ timers' = timers \ {s}
      /\ UNCHANGED <<queue, turn, op, requests, req, autoFailed, jobs, timedOut, stopped>>
    BY DEF JobNotNeeded, turnVars
<1>2. Shapes' /\ JobInv'
    BY <1>0, <1>1, JobFrame DEF Shapes
<1> QED BY <1>1, <1>2, QuietFrame DEF CompInv

LEMMA JobFailsStep ==
    ASSUME CompInv, NEW j \in jobs, JobFails(j)
    PROVE  CompInv'
<1>0. Shapes /\ JobInv
    BY DEF CompInv
<1>1. /\ jobs' = jobs \ {j} /\ timedOut' \subseteq timedOut \cup {j.session}
      /\ UNCHANGED <<queue, turn, op, requests, req, autoFailed, timers, stopped>>
    BY DEF JobFails, turnVars
<1>2. j.session \in Session
    BY <1>0 DEF Shapes, Job
<1>3. Shapes'
    BY <1>0, <1>1, <1>2 DEF Shapes
<1>4. JobInv'
    BY <1>0, <1>1, JobFrame
<1> QED BY <1>1, <1>3, <1>4, QuietFrame DEF CompInv

LEMMA JobAnswersStep ==
    ASSUME CompInv, NEW j \in jobs, JobAnswers(j)
    PROVE  CompInv'
<1>0. Shapes /\ JobInv
    BY DEF CompInv
<1>1. /\ jobs' = jobs \ {j} /\ timers' \subseteq timers \cup {j.session}
      /\ UNCHANGED <<queue, turn, op, requests, req, autoFailed, timedOut, stopped>>
    BY DEF JobAnswers, turnVars, Scheduled
<1>2. j.session \in Session
    BY <1>0 DEF Shapes, Job
<1>3. Shapes'
    BY <1>0, <1>1, <1>2 DEF Shapes
<1>4. JobInv'
    BY <1>0, <1>1, JobFrame
<1> QED BY <1>1, <1>3, <1>4, QuietFrame DEF CompInv

\* A step that touches rows only: a save here, a host's or another process's.
LEMMA RowStep ==
    ASSUME CompInv, UNCHANGED <<queue, turn, op, requests, req, autoFailed, jobVars, stopped>>
    PROVE  CompInv'
<1>0. Shapes /\ JobInv
    BY DEF CompInv
<1>1. UNCHANGED <<timers, jobs, timedOut>>
    BY DEF jobVars
<1>2. Shapes' /\ JobInv'
    BY <1>0, <1>1, JobFrame DEF Shapes
<1> QED BY <1>2, QuietFrame DEF CompInv

-----------------------------------------------------------------------------
(* The steps that start, serve and answer requests. *)

\* A step that touches one request, in a queue that does not hold it.
LEMMA WaitOthers ==
    ASSUME WaitInv, NEW t \in Session, NEW r \in Req,
           \A q \in Req \ {r} : req'[q] = req[q],
           Once(queue'[t]), ~Contains(queue'[t], r),
           \A q \in Req : Contains(queue'[t], q) => Contains(queue[t], q)
    PROVE  WaitAt(t)'
<1>1. WaitAt(t)
    BY DEF WaitInv
<1>2. ASSUME NEW q \in Req, Contains(queue'[t], q)
      PROVE  req'[q].session = t /\ Wanted(q)'
    <2>1. q # r /\ req'[q] = req[q] /\ Contains(queue[t], q)
        BY <1>2
    <2> QED BY <1>1, <2>1 DEF WaitAt, Wanted, Unanswered
<1> QED BY <1>2 DEF WaitAt

\* A step that touches one request, and an operation that is not for it.
LEMMA OpOthers ==
    ASSUME Shapes, OpInv, NEW t \in Session, NEW r \in Req,
           \A q \in Req \ {r} : req'[q] = req[q],
           ~(op[t].active /\ op[t].by = r),
           turn'[t] = turn[t], op'[t] = op[t], stopped' = stopped,
           queue[t] # <<>> => queue'[t] # <<>> /\ Head(queue'[t]) = Head(queue[t])
    PROVE  OpAt(t)'
<1>1. OpAt(t) /\ op[t] \in Operation
    BY DEF OpInv, Shapes
<1>2. op[t].active /\ op[t].by # NoReq => op[t].by \in Req /\ req'[op[t].by] = req[op[t].by]
    BY <1>1 DEF Operation, Who
<1>3. op[t].active /\ op[t].by # NoReq => Unanswered(op[t].by) /\ req[op[t].by].running
    BY <1>1 DEF OpAt
<1>4. op[t].active /\ stopped' => op'[t].aborted
    BY <1>1 DEF OpAt
<1> QED BY <1>1, <1>2, <1>3, <1>4, OpFrame DEF Unanswered

\* A request of which a session's queue knows nothing.
LEMMA NotWaiting ==
    ASSUME WaitInv, NEW t \in Session, NEW r \in Req,
           req[r].session # t \/ (Unanswered(r) /\ ~req[r].queued)
    PROVE  ~Contains(queue[t], r)
BY DEF WaitInv, WaitAt, Wanted

\* perform(): an operation starts for a request of the session, or for the turn.
LEMMA PerformKeeps ==
    ASSUME Shapes, EntryInv, NEW s \in Session, NEW r \in Who, Perform(s, r)
    PROVE  /\ op' \in [Session -> Operation] /\ req' \in [Req -> Request] /\ EntryInv'
           /\ requests' = requests
           /\ op'[s].by = r /\ op'[s].active = TRUE
           /\ \A t \in Session \ {s} : op'[t] = op[t]
           /\ \A q \in Req : /\ req'[q].session = req[q].session /\ req'[q].queued = req[q].queued
                             /\ req'[q].answer = req[q].answer /\ req'[q].aborted = req[q].aborted
                             /\ req[q].running => req'[q].running
           /\ r # NoReq => req'[r].running
<1>0. /\ op \in [Session -> Operation] /\ req \in [Req -> Request]
    BY DEF Shapes
<1> DEFINE o == [by |-> r, active |-> TRUE, aborted |-> FALSE]
<1>1. o \in Operation /\ o.by = r /\ o.active = TRUE
    BY DEF Operation
<1>2. op' = [op EXCEPT ![s] = o] /\ requests' = requests
    BY DEF Perform
<1> HIDE DEF o
<1>3. /\ op' \in [Session -> Operation] /\ op'[s] = o
      /\ \A t \in Session \ {s} : op'[t] = op[t]
    BY <1>0, <1>1, <1>2
<1>4. /\ req' \in [Req -> Request]
      /\ \A q \in Req : /\ req'[q].session = req[q].session /\ req'[q].queued = req[q].queued
                        /\ req'[q].answer = req[q].answer /\ req'[q].aborted = req[q].aborted
                        /\ req'[q].wrote = req[q].wrote
                        /\ req[q].running => req'[q].running
      /\ r # NoReq => req'[r].running
    <2>1. CASE r = NoReq
        BY <1>0, <2>1 DEF Perform
    <2>2. CASE r # NoReq
        <3> DEFINE n == [req[r] EXCEPT !.running = TRUE]
        <3>1. r \in Req /\ req[r] \in Request
            BY <1>0, <2>2 DEF Who
        <3>2. /\ n \in Request /\ n.session = req[r].session /\ n.queued = req[r].queued
              /\ n.answer = req[r].answer /\ n.aborted = req[r].aborted
              /\ n.wrote = req[r].wrote /\ n.running = TRUE
            BY <3>1 DEF Request
        <3>3. req' = [req EXCEPT ![r] = n]
            BY <2>2 DEF Perform
        <3> HIDE DEF n
        <3>4. req' \in [Req -> Request] /\ req'[r] = n /\ \A q \in Req \ {r} : req'[q] = req[q]
            BY <1>0, <3>1, <3>2, <3>3
        <3> QED BY <3>1, <3>2, <3>4
    <2> QED BY <2>1, <2>2
<1>5. EntryInv'
    <2>1. \A t \in Session : requests[t] # NoReq => requests[t] \in Req
        BY DEF Shapes, Who
    <2> QED BY <1>2, <1>4, <2>1 DEF EntryInv, Entries, AnswerIsTrue, Unanswered
<1> QED BY <1>1, <1>2, <1>3, <1>4, <1>5

\* What starting an operation of s keeps, given where it starts.
LEMMA PerformSteps ==
    ASSUME CompInv, NEW s \in Session, NEW r \in Who, Perform(s, r), ~op[s].active, ~stopped,
           r # NoReq => Unanswered(r) /\ req[r].session = s,
           \/ turn[s] = "open" /\ (r # NoReq => ~req[r].queued)
           \/ turn[s] = "none" /\ Holds(s, r) /\ r # NoReq,
           UNCHANGED <<queue, turn, stopped>>
    PROVE  WaitInv' /\ OpInv'
<1>0. Shapes /\ EntryInv /\ WaitInv /\ OpInv
    BY DEF CompInv
<1>1. /\ op' \in [Session -> Operation] /\ op'[s].by = r /\ op'[s].active = TRUE
      /\ \A t \in Session \ {s} : op'[t] = op[t]
      /\ \A q \in Req : /\ req'[q].session = req[q].session /\ req'[q].queued = req[q].queued
                        /\ req'[q].answer = req[q].answer /\ req'[q].aborted = req[q].aborted
                        /\ req[q].running => req'[q].running
      /\ r # NoReq => req'[r].running
    BY <1>0, PerformKeeps
<1>2. WaitInv'
    <2>1. \A q \in Req : Wanted(q) => Wanted(q)'
        BY <1>1 DEF Wanted, Unanswered
    <2> QED BY <1>0, <1>1, <2>1, WaitFrame DEF WaitInv
<1>3. ASSUME NEW t \in Session \ {s} PROVE OpAt(t)'
    <2>1. OpAt(t) /\ op[t] \in Operation
        BY <1>0 DEF OpInv, Shapes
    <2>2. op[t].active /\ op[t].by # NoReq =>
              /\ op[t].by \in Req /\ Unanswered(op[t].by) /\ req[op[t].by].running
        BY <2>1 DEF OpAt, Operation, Who
    <2>3. op[t].active /\ stopped' => op'[t].aborted
        OBVIOUS
    <2> QED BY <1>1, <2>1, <2>2, <2>3, OpFrame DEF Unanswered
<1>4. OpAt(s)'
    <2>1. OpAt(s)
        BY <1>0 DEF OpInv
    <2>2. r # NoReq => r \in Req
        BY DEF Who
    <2>3. turn'[s] # "none" => Holds(s, TurnJob)'
        BY <2>1 DEF OpAt, Holds, isBusy
    <2>4. \/ turn'[s] = "open" /\ (op'[s].by # NoReq => ~req'[op'[s].by].queued)
          \/ turn'[s] = "none" /\ Holds(s, r)' /\ op'[s].by # NoReq
        BY <1>1, <2>2 DEF Holds, isBusy
    <2>5. op'[s].by # NoReq =>
             Unanswered(r)' /\ req'[op'[s].by].running /\ req'[op'[s].by].session = s
        BY <1>1, <2>2 DEF Unanswered
    <2> QED BY <1>1, <2>3, <2>4, <2>5 DEF OpAt, Holds, isBusy, Unanswered
<1> QED BY <1>2, <1>3, <1>4 DEF OpInv

LEMMA BeforeStepStep ==
    ASSUME CompInv, NEW s \in Session, BeforeStep(s)
    PROVE  CompInv'
<1>0. Shapes /\ EntryInv /\ WaitInv /\ OpInv /\ JobInv
    BY DEF CompInv
<1>1. /\ UNCHANGED <<queue, turn, copy, stored, autoFailed, timedOut, stopped>>
      /\ turn[s] = "open" /\ ~op[s].active /\ CancelJobs(s)
    BY DEF BeforeStep, turnVars
<1>2. jobs' \subseteq Job /\ timers' \subseteq Session /\ JobInv'
    BY <1>0, <1>1, CancelJobsIs
<1> DEFINE r == ForStep(s)
<1>3. r \in Who /\ (r # NoReq => /\ r \in Req /\ Unanswered(r) /\ req[r].session = s
                                 /\ ~req[r].queued)
    BY <1>0 DEF ForStep, Shapes, Who, EntryInv, Entries
<1>4. \/ UNCHANGED op /\ r # NoReq /\ (Settle(r, "cancelled") \/ Settle(r, "noop"))
      \/ ~stopped /\ Perform(s, r)
    BY DEF BeforeStep
<1> HIDE DEF r
<1>5. CASE ~stopped /\ Perform(s, r)
    <2>1. /\ op' \in [Session -> Operation] /\ req' \in [Req -> Request] /\ EntryInv'
          /\ requests' = requests /\ \A t \in Session \ {s} : op'[t] = op[t]
        BY <1>0, <1>3, <1>5, PerformKeeps
    <2>2. WaitInv' /\ OpInv'
        BY <1>1, <1>3, <1>5, PerformSteps
    <2>3. Shapes'
        BY <1>0, <1>1, <1>2, <2>1 DEF Shapes
    <2> QED BY <1>2, <2>1, <2>2, <2>3 DEF CompInv
<1>6. CASE UNCHANGED op /\ r # NoReq /\ (Settle(r, "cancelled") \/ Settle(r, "noop"))
    <2>1. PICK a \in Answers \ {"compacted"} : Settle(r, a)
        BY <1>6 DEF Answers
    <2>2. /\ requests' \in [Session -> Who] /\ req' \in [Req -> Request] /\ EntryInv'
          /\ \A q \in Req \ {r} : req'[q] = req[q]
        BY <1>0, <1>3, <1>6, <2>1, SettleKeeps
    <2>3. ASSUME NEW t \in Session PROVE WaitAt(t)' /\ OpAt(t)'
        <3>1. ~Contains(queue[t], r) /\ Once(queue[t])
            BY <1>0, <1>3, <1>6, NotWaiting DEF WaitInv, WaitAt
        <3>2. ~(op[t].active /\ op[t].by = r)
            BY <1>0, <1>1, <1>3, <1>6 DEF OpInv, OpAt
        <3>3. WaitAt(t)'
            BY <1>0, <1>1, <1>3, <1>6, <2>2, <3>1, WaitOthers
        <3>4. OpAt(t)'
            BY <1>0, <1>1, <1>3, <1>6, <2>2, <3>2, OpOthers
        <3> QED BY <3>3, <3>4
    <2>4. Shapes'
        BY <1>0, <1>1, <1>2, <1>6, <2>2 DEF Shapes
    <2> QED BY <1>2, <2>2, <2>3, <2>4 DEF CompInv, WaitInv, OpInv
<1> QED BY <1>4, <1>5, <1>6

\* The head of a queue leaves it.
LEMMA QueueTail ==
    ASSUME Shapes, WaitInv, NEW s \in Session, isBusy(s),
           queue' = [queue EXCEPT ![s] = Tail(@)]
    PROVE  /\ queue' \in [Session -> Seq(Who)]
           /\ \A t \in Session : /\ Once(queue'[t])
                                 /\ \A q : Contains(queue'[t], q) => Contains(queue[t], q)
           /\ \A t \in Session \ {s} : queue'[t] = queue[t]
           /\ Head(queue[s]) # TurnJob => ~Contains(queue'[s], Head(queue[s]))
           /\ Contains(queue[s], Head(queue[s]))
<1>1. /\ queue \in [Session -> Seq(Who)] /\ queue[s] \in Seq(Who) /\ queue[s] # <<>>
      /\ \A t \in Session : Once(queue[t])
    BY DEF Shapes, isBusy, WaitInv, WaitAt
<1> DEFINE q == Tail(queue[s])
<1>2. /\ q \in Seq(Who) /\ Contains(queue[s], Head(queue[s])) /\ Once(q)
      /\ \A x : Contains(q, x) => Contains(queue[s], x)
      /\ Head(queue[s]) # TurnJob => ~Contains(q, Head(queue[s]))
    BY <1>1, TailFacts
<1>3. queue' = [queue EXCEPT ![s] = q]
    OBVIOUS
<1> HIDE DEF q
<1>4. /\ queue' \in [Session -> Seq(Who)] /\ queue'[s] = q
      /\ \A t \in Session \ {s} : queue'[t] = queue[t]
    BY <1>1, <1>2, <1>3
<1> QED BY <1>1, <1>2, <1>4

LEMMA TurnLeavesStep ==
    ASSUME CompInv, NEW s \in Session, TurnLeaves(s)
    PROVE  CompInv'
<1>0. Shapes /\ EntryInv /\ WaitInv /\ OpInv /\ JobInv
    BY DEF CompInv
<1>1. /\ turn[s] = "closed" /\ turn' = [turn EXCEPT ![s] = "none"]
      /\ queue' = [queue EXCEPT ![s] = Tail(@)]
      /\ UNCHANGED <<op, requests, req, autoFailed, timers, jobs, timedOut, stopped>>
    BY DEF TurnLeaves, jobVars
<1>2. isBusy(s) /\ ~op[s].active
    BY <1>0, <1>1 DEF OpInv, OpAt, Holds
<1>3. /\ queue' \in [Session -> Seq(Who)]
      /\ \A t \in Session : /\ Once(queue'[t])
                            /\ \A q : Contains(queue'[t], q) => Contains(queue[t], q)
      /\ \A t \in Session \ {s} : queue'[t] = queue[t]
    BY <1>0, <1>1, <1>2, QueueTail
<1>4. /\ turn' \in [Session -> {"none", "open", "closed"}] /\ turn'[s] = "none"
      /\ \A t \in Session \ {s} : turn'[t] = turn[t]
    BY <1>0, <1>1 DEF Shapes
<1>5. Shapes'
    BY <1>0, <1>1, <1>3, <1>4 DEF Shapes
<1>6. EntryInv'
    BY <1>0, <1>1, EntryFrame
<1>7. ASSUME NEW t \in Session PROVE WaitAt(t)'
    <2>1. WaitAt(t)
        BY <1>0 DEF WaitInv
    <2>2. \A r : Wanted(r) => Wanted(r)'
        BY <1>1 DEF Wanted, Unanswered
    <2> QED BY <1>1, <1>3, <2>1, <2>2 DEF WaitAt
<1>8. ASSUME NEW t \in Session PROVE OpAt(t)'
    <2>1. CASE t = s
        BY <1>1, <1>2, <1>4, <2>1 DEF OpAt
    <2>2. CASE t # s
        <3>1. OpAt(t)
            BY <1>0 DEF OpInv
        <3> QED BY <1>1, <1>3, <1>4, <2>2, <3>1 DEF OpAt, Holds, isBusy, Unanswered
    <2> QED BY <2>1, <2>2
<1>9. JobInv'
    BY <1>0, <1>1, <1>3, <1>4, JobFrame
<1> QED BY <1>5, <1>6, <1>7, <1>8, <1>9 DEF CompInv, WaitInv, OpInv

\* close(): what waited for a step is submitted behind the turn.
LEMMA TurnClosesStep ==
    ASSUME CompInv, NEW s \in Session, TurnCloses(s)
    PROVE  CompInv'
<1>0. Shapes /\ EntryInv /\ WaitInv /\ OpInv /\ JobInv
    BY DEF CompInv
<1>1. /\ turn[s] = "open" /\ ~op[s].active /\ turn' = [turn EXCEPT ![s] = "closed"]
      /\ req' = [r \in Req |-> IF r \in Waiting(s) THEN [req[r] EXCEPT !.queued = TRUE] ELSE req[r]]
      /\ queue' = [queue EXCEPT ![s] = @ \o SetToSeq(Waiting(s))]
      /\ timers' = timers \cup Scheduled(s) /\ autoFailed' = autoFailed \ {s}
      /\ UNCHANGED <<copy, stored, op, requests, jobs, timedOut, stopped>>
    BY DEF TurnCloses
<1>2. /\ queue \in [Session -> Seq(Who)] /\ queue[s] \in Seq(Who)
      /\ requests[s] \in Who /\ req \in [Req -> Request] /\ OpAt(s)
      /\ \A t \in Session : WaitAt(t) /\ Once(queue[t])
    BY <1>0 DEF Shapes, OpInv, WaitInv, WaitAt
<1>3. LiveJobs = {}
    BY <1>0, <1>1 DEF JobInv
<1>4. \/ Waiting(s) = {}
      \/ /\ Waiting(s) = {requests[s]} /\ requests[s] \in Req
         /\ Unanswered(requests[s]) /\ req[requests[s]].session = s /\ ~req[requests[s]].queued
    <2>1. Waiting(s) = {} \/ Waiting(s) = {requests[s]}
        BY DEF Waiting
    <2>2. requests[s] \in Waiting(s) => requests[s] \in Req /\ ~req[requests[s]].queued
        BY DEF Waiting
    <2>3. requests[s] \in Req =>
              Unanswered(requests[s]) /\ req[requests[s]].session = s
        BY <1>0, WhoFacts DEF EntryInv, Entries
    <2> QED BY <2>1, <2>2, <2>3
<1>5. ASSUME NEW q \in Req
      PROVE  /\ req'[q] \in Request
             /\ req'[q].session = req[q].session /\ req'[q].answer = req[q].answer
             /\ req'[q].aborted = req[q].aborted /\ req'[q].running = req[q].running
             /\ req'[q].wrote = req[q].wrote
             /\ q \in Waiting(s) => req'[q].queued
             /\ q \notin Waiting(s) => req'[q] = req[q]
    <2>1. req[q] \in Request
        BY <1>2 DEF Request
    <2>2. CASE q \in Waiting(s)
        <3>1. req'[q] = [req[q] EXCEPT !.queued = TRUE]
            BY <1>1, <2>2
        <3> QED BY <2>1, <2>2, <3>1 DEF Request
    <2>3. CASE q \notin Waiting(s)
        <3>1. req'[q] = req[q]
            BY <1>1, <2>3
        <3> QED BY <2>1, <2>3, <3>1
    <2> QED BY <2>2, <2>3
<1>6. req' \in [Req -> Request]
    <2>1. req' = [q \in Req |-> req'[q]]
        BY <1>1
    <2> QED BY <1>5, <2>1
<1>7. PICK p \in Seq(Who) :
        /\ queue' = [queue EXCEPT ![s] = p] /\ p # <<>> /\ Head(p) = Head(queue[s]) /\ Once(p)
        /\ \A q \in Req : Contains(p, q) => Contains(queue[s], q) \/ q \in Waiting(s)
    <2>1. Head(queue[s]) = TurnJob /\ queue[s] # <<>>
        BY <1>1, <1>2 DEF OpAt, Holds, isBusy
    <2>2. CASE Waiting(s) = {}
        <3>0. SetToSeq(Waiting(s)) = <<>>
            BY <2>2, SmallSetToSeq
        <3>1. queue[s] \o SetToSeq(Waiting(s)) = queue[s]
            BY <1>2, <3>0, ConcatEmptySeq
        <3>2. queue' = [queue EXCEPT ![s] = queue[s]]
            BY <1>1, <3>1
        <3> QED BY <1>2, <2>1, <3>2
    <2>3. CASE /\ Waiting(s) = {requests[s]} /\ requests[s] \in Req
               /\ Unanswered(requests[s]) /\ req[requests[s]].session = s
               /\ ~req[requests[s]].queued
        <3> DEFINE r == requests[s]
                   p == Append(queue[s], r)
        <3>1. SetToSeq(Waiting(s)) = <<r>>
            BY <2>3, SmallSetToSeq
        <3>2. queue[s] \o <<r>> = p
            BY <1>2
        <3>3. queue' = [queue EXCEPT ![s] = p]
            BY <1>1, <3>1, <3>2
        <3>4. ~Contains(queue[s], r)
            BY <1>0, <2>3, NotWaiting
        <3>5. /\ p \in Seq(Who) /\ p # <<>> /\ Head(p) = Head(queue[s]) /\ Once(p)
              /\ \A x : Contains(p, x) <=> Contains(queue[s], x) \/ x = r
            BY <1>2, <2>1, <3>4, AppendFacts
        <3> HIDE DEF p
        <3> QED BY <2>3, <3>3, <3>5
    <2> QED BY <1>4, <2>2, <2>3
<1>8. /\ queue' \in [Session -> Seq(Who)] /\ queue'[s] = p
      /\ \A t \in Session \ {s} : queue'[t] = queue[t]
    BY <1>2, <1>7
<1>9. /\ turn' \in [Session -> {"none", "open", "closed"}] /\ turn'[s] = "closed"
      /\ \A t \in Session \ {s} : turn'[t] = turn[t]
    BY <1>0, <1>1 DEF Shapes
<1>10. Shapes'
    <2>1. timers' \subseteq Session
        BY <1>0, <1>1 DEF Shapes, Scheduled
    <2> QED BY <1>0, <1>1, <1>6, <1>8, <1>9, <2>1 DEF Shapes
<1>11. EntryInv'
    <2>1. \A t \in Session : requests[t] # NoReq => requests[t] \in Req
        BY <1>0 DEF Shapes, Who
    <2> QED BY <1>0, <1>1, <1>5, <2>1 DEF EntryInv, Entries, AnswerIsTrue, Unanswered
<1>12. ASSUME NEW q \in Req, Wanted(q) PROVE Wanted(q)'
    <2>1. CASE q \in Waiting(s)
        BY <1>5, <1>12, <2>1 DEF Wanted, Unanswered
    <2>2. CASE q \notin Waiting(s)
        BY <1>5, <1>12, <2>2 DEF Wanted, Unanswered
    <2> QED BY <2>1, <2>2
<1>13. ASSUME NEW t \in Session PROVE WaitAt(t)'
    <2>1. CASE t # s
        BY <1>2, <1>5, <1>8, <1>12, <2>1, WaitFrame
    <2>2. CASE t = s
        <3>1. ASSUME NEW q \in Req, q \in Waiting(s) PROVE req'[q].session = s /\ Wanted(q)'
            <4>1. Unanswered(q) /\ req[q].session = s
                BY <1>4, <3>1
            <4>2. req'[q].session = s /\ req'[q].answer = "none" /\ req'[q].queued
                BY <1>5, <3>1, <4>1 DEF Unanswered
            <4> QED BY <4>2 DEF Wanted, Unanswered
        <3>2. ASSUME NEW q \in Req, Contains(queue[s], q) PROVE req'[q].session = s /\ Wanted(q)'
            BY <1>2, <1>5, <1>12, <3>2 DEF WaitAt
        <3> QED BY <1>7, <1>8, <2>2, <3>1, <3>2 DEF WaitAt
    <2> QED BY <2>1, <2>2
<1>14. ASSUME NEW t \in Session PROVE OpAt(t)'
    <2>1. OpAt(t) /\ op[t] \in Operation
        BY <1>0 DEF OpInv, Shapes
    <2>2. CASE t = s
        <3>1. Holds(s, TurnJob)'
            BY <1>1, <1>2, <1>7, <1>8 DEF OpAt, Holds, isBusy
        <3> QED BY <1>1, <2>2, <3>1 DEF OpAt
    <2>3. CASE t # s
        <3>1. op[t].active /\ op[t].by # NoReq =>
                 /\ op[t].by \in Req /\ Unanswered(op[t].by) /\ req[op[t].by].running
                 /\ req[op[t].by].session = t
            BY <2>1 DEF OpAt, Operation, Who
        <3>2. op[t].active /\ op[t].by # NoReq => op[t].by \notin Waiting(s)
            BY <1>4, <2>3, <3>1
        <3>3. op[t].active /\ op[t].by # NoReq =>
                 /\ req'[op[t].by].answer = "none" /\ req'[op[t].by].running
                 /\ req'[op[t].by].session = req[op[t].by].session
                 /\ req'[op[t].by].queued = req[op[t].by].queued
            <4>1. op[t].active /\ op[t].by # NoReq => req'[op[t].by] = req[op[t].by]
                BY <1>5, <3>1, <3>2
            <4> QED BY <3>1, <4>1 DEF Unanswered
        <3>4. op[t].active /\ stopped' => op'[t].aborted
            BY <1>1, <2>1 DEF OpAt
        <3>5. /\ turn'[t] = turn[t] /\ op'[t] = op[t] /\ queue'[t] = queue[t]
            BY <1>1, <1>8, <1>9, <2>3
        <3> QED BY <2>1, <3>3, <3>4, <3>5, OpFrame
    <2> QED BY <2>2, <2>3
<1>15. JobInv'
    BY <1>0, <1>1, <1>3 DEF JobInv, LiveJobs
<1> QED BY <1>10, <1>11, <1>13, <1>14, <1>15 DEF CompInv, WaitInv, OpInv

\* A queued request gets the lock.
LEMMA CompactionRunsStep ==
    ASSUME CompInv, NEW s \in Session, CompactionRuns(s)
    PROVE  CompInv'
<1>0. Shapes /\ EntryInv /\ WaitInv /\ OpInv /\ JobInv
    BY DEF CompInv
<1> DEFINE r == Head(queue[s])
<1>1. /\ isBusy(s) /\ r \in Req /\ ~op[s].active /\ turn[s] = "none"
      /\ UNCHANGED <<turn, autoFailed, timers, jobs, timedOut, stopped>>
    BY DEF CompactionRuns, jobVars
<1>2. \/ /\ Settle(r, "cancelled") \/ Settle(r, "noop") \/ Settle(r, "failed")
         /\ queue' = [queue EXCEPT ![s] = Tail(@)] /\ UNCHANGED op
      \/ /\ ~req[r].aborted /\ ~stopped
         /\ Perform(s, r) /\ UNCHANGED queue
    BY DEF CompactionRuns, Withdrawn
<1>3. r # TurnJob /\ r # NoReq /\ r \in Who
    BY <1>1, WhoFacts DEF Who
<1>4. Contains(queue[s], r) /\ req[r].session = s /\ Wanted(r)
    <2>1. Contains(queue[s], r)
        BY <1>0, <1>1, TailFacts DEF Shapes, isBusy
    <2> QED BY <1>0, <1>1, <2>1 DEF WaitInv, WaitAt
<1>5. CASE /\ Settle(r, "cancelled") \/ Settle(r, "noop") \/ Settle(r, "failed")
           /\ queue' = [queue EXCEPT ![s] = Tail(@)] /\ UNCHANGED op
    <2>1. PICK a \in Answers \ {"compacted"} : Settle(r, a)
        BY <1>5 DEF Answers
    <2>2. /\ queue' \in [Session -> Seq(Who)]
          /\ \A t \in Session : /\ Once(queue'[t])
                                /\ \A q : Contains(queue'[t], q) => Contains(queue[t], q)
          /\ \A t \in Session \ {s} : queue'[t] = queue[t]
          /\ ~Contains(queue'[s], r)
        BY <1>0, <1>1, <1>3, <1>5, QueueTail
    <2> HIDE DEF r
    <2>3. /\ requests' \in [Session -> Who] /\ req' \in [Req -> Request] /\ EntryInv'
          /\ \A q \in Req \ {r} : req'[q] = req[q]
        BY <1>0, <1>1, <1>4, <2>1, SettleKeeps
    <2>4. ASSUME NEW t \in Session PROVE WaitAt(t)'
        <3>1. ~Contains(queue'[t], r)
            BY <1>0, <1>1, <1>4, <2>2, NotWaiting
        <3> QED BY <1>0, <1>1, <2>2, <2>3, <3>1, WaitOthers
    <2>5. ASSUME NEW t \in Session PROVE OpAt(t)'
        <3>1. CASE t = s
            BY <1>1, <1>5, <3>1 DEF OpAt
        <3>2. CASE t # s
            <4>1. ~(op[t].active /\ op[t].by = r)
                BY <1>0, <1>3, <1>4, <3>2 DEF OpInv, OpAt
            <4> QED BY <1>0, <1>1, <1>5, <2>2, <2>3, <3>2, <4>1, OpOthers
        <3> QED BY <3>1, <3>2
    <2>6. Shapes'
        BY <1>0, <1>1, <1>5, <2>2, <2>3 DEF Shapes
    <2>7. JobInv'
        BY <1>0, <1>1, <1>5, <2>2, JobFrame
    <2> QED BY <2>3, <2>4, <2>5, <2>6, <2>7 DEF CompInv, WaitInv, OpInv
<1>6. CASE /\ ~req[r].aborted /\ ~stopped
           /\ Perform(s, r) /\ UNCHANGED queue
    <2>1. Unanswered(r) /\ Holds(s, r)
        BY <1>1, <1>4, <1>6 DEF Wanted, Holds
    <2> HIDE DEF r
    <2>2. /\ op' \in [Session -> Operation] /\ req' \in [Req -> Request] /\ EntryInv'
          /\ requests' = requests /\ \A t \in Session \ {s} : op'[t] = op[t]
        BY <1>0, <1>3, <1>6, PerformKeeps
    <2>3. WaitInv' /\ OpInv'
        BY <1>1, <1>3, <1>4, <1>6, <2>1, PerformSteps
    <2>4. Shapes'
        BY <1>0, <1>1, <1>6, <2>2 DEF Shapes
    <2>7. LiveJobs = {}
        BY <1>0, <1>1, <1>4 DEF JobInv
    <2>8. JobInv'
        BY <1>0, <1>1, <2>7 DEF JobInv, LiveJobs
    <2> QED BY <2>2, <2>3, <2>4, <2>8 DEF CompInv
<1> QED BY <1>2, <1>5, <1>6

\* An operation is over, and its request answered.
LEMMA CompactionEndsStep ==
    ASSUME CompInv, NEW s \in Session, CompactionEnds(s)
    PROVE  CompInv'
<1>0. Shapes /\ EntryInv /\ WaitInv /\ OpInv /\ JobInv
    BY DEF CompInv
<1> DEFINE r == op[s].by
<1>1. PICK outcome \in Outcomes(s) :
        /\ autoFailed' = IF outcome = "failed" /\ r = NoReq THEN autoFailed \cup {s} ELSE autoFailed
        /\ IF r = NoReq THEN UNCHANGED <<requests, req>> ELSE Settle(r, outcome)
    BY DEF CompactionEnds
<1>2. /\ op[s].active /\ op' = [op EXCEPT ![s] = NoOp]
      /\ queue' = IF turn[s] = "none" THEN [queue EXCEPT ![s] = Tail(@)] ELSE queue
      /\ UNCHANGED <<turn, timers, jobs, timedOut, stopped>>
    BY DEF CompactionEnds, jobVars
<1> HIDE DEF r
<1>3. r \in Who /\ OpAt(s) /\ (r # NoReq => r \in Req)
    BY <1>0 DEF r, Shapes, Operation, Who, OpInv
<1>4. /\ r # NoReq => Unanswered(r) /\ req[r].running /\ req[r].session = s
      /\ \/ turn[s] = "open" /\ (r # NoReq => ~req[r].queued)
         \/ turn[s] = "none" /\ Holds(s, r) /\ r # NoReq
      /\ turn[s] # "none" => Holds(s, TurnJob)
    BY <1>2, <1>3 DEF OpAt, r
<1>5. isBusy(s)
    BY <1>4 DEF Holds
<1>6. /\ queue' \in [Session -> Seq(Who)]
      /\ \A t \in Session : /\ Once(queue'[t])
                            /\ \A q : Contains(queue'[t], q) => Contains(queue[t], q)
      /\ \A t \in Session \ {s} : queue'[t] = queue[t]
      /\ r # NoReq => ~Contains(queue'[s], r)
    <2>1. CASE turn[s] = "none"
        <3>1. Head(queue[s]) = r /\ r # TurnJob
            BY <1>4, <2>1, WhoFacts DEF Holds
        <3> QED BY <1>0, <1>2, <1>5, <2>1, <3>1, QueueTail
    <2>2. CASE turn[s] # "none"
        <3>1. r # NoReq => ~Contains(queue[s], r)
            BY <1>0, <1>3, <1>4, <2>2, NotWaiting
        <3> QED BY <1>0, <1>2, <2>2, <3>1 DEF Shapes, WaitInv, WaitAt
    <2> QED BY <2>1, <2>2
<1>7. outcome \in Answers
    BY DEF Outcomes, Answers
<1>8. /\ requests' \in [Session -> Who] /\ req' \in [Req -> Request] /\ EntryInv'
      /\ \A q \in Req \ {r} : req'[q] = req[q]
    <2>1. CASE r = NoReq
        BY <1>0, <1>1, <2>1, EntryFrame DEF Shapes
    <2>2. CASE r # NoReq
        BY <1>0, <1>1, <1>3, <1>4, <1>7, <2>2, SettleKeeps
    <2> QED BY <2>1, <2>2
<1>9. /\ op' \in [Session -> Operation] /\ ~op'[s].active
      /\ \A t \in Session \ {s} : op'[t] = op[t]
    <2>1. NoOp \in Operation /\ NoOp.active = FALSE
        BY DEF NoOp, Operation, Who
    <2> QED BY <1>0, <1>2, <2>1 DEF Shapes
<1>10. Shapes'
    <2>1. autoFailed' \subseteq Session
        BY <1>0, <1>1 DEF Shapes
    <2> QED BY <1>0, <1>2, <1>6, <1>8, <1>9, <2>1 DEF Shapes
<1>11. ASSUME NEW t \in Session PROVE WaitAt(t)'
    <2>1. CASE r # NoReq
        <3>1. ~Contains(queue'[t], r)
            BY <1>0, <1>3, <1>4, <1>6, <2>1, NotWaiting
        <3> QED BY <1>0, <1>3, <1>6, <1>8, <2>1, <3>1, WaitOthers
    <2>2. CASE r = NoReq
        <3>1. UNCHANGED req /\ queue' = queue
            BY <1>1, <1>2, <1>4, <2>2
        <3> QED BY <1>0, <3>1 DEF WaitInv, WaitAt, Wanted, Unanswered
    <2> QED BY <2>1, <2>2
<1>12. ASSUME NEW t \in Session PROVE OpAt(t)'
    <2>1. CASE t = s
        <3>1. turn'[s] # "none" => Holds(s, TurnJob)'
            BY <1>2, <1>4 DEF Holds, isBusy
        <3> QED BY <1>9, <2>1, <3>1 DEF OpAt
    <2>2. CASE t # s /\ r # NoReq
        <3>1. ~(op[t].active /\ op[t].by = r)
            BY <1>0, <1>3, <1>4, <2>2 DEF OpInv, OpAt
        <3> QED BY <1>0, <1>2, <1>3, <1>6, <1>8, <1>9, <2>2, <3>1, OpOthers
    <2>3. CASE t # s /\ r = NoReq
        <3>1. UNCHANGED req /\ queue'[t] = queue[t] /\ op'[t] = op[t] /\ OpAt(t)
            BY <1>0, <1>1, <1>6, <1>9, <2>3 DEF OpInv
        <3> QED BY <1>2, <3>1 DEF OpAt, Holds, isBusy, Unanswered
    <2> QED BY <2>1, <2>2, <2>3
<1>13. JobInv'
    BY <1>0, <1>2, <1>6, <1>9, JobFrame
<1> QED BY <1>8, <1>10, <1>11, <1>12, <1>13 DEF CompInv, WaitInv, OpInv

\* enqueue() rejects what was told to stop while it waited.
LEMMA QueueDropsStep ==
    ASSUME CompInv, NEW s \in Session, QueueDropsAborted(s)
    PROVE  CompInv'
<1>0. Shapes /\ EntryInv /\ WaitInv /\ OpInv /\ JobInv
    BY DEF CompInv
<1>1. PICK i \in 2..Len(queue[s]) :
        /\ queue[s][i] # TurnJob
        /\ queue' = [queue EXCEPT ![s] = RemoveAt(@, i)]
        /\ Settle(queue[s][i], "cancelled")
        /\ UNCHANGED <<turn, copy, stored, op, autoFailed, timers, jobs, timedOut, stopped>>
    BY DEF QueueDropsAborted, jobVars
<1> DEFINE r == queue[s][i]
           p == RemoveAt(queue[s], i)
<1>2. /\ queue \in [Session -> Seq(Who)] /\ queue[s] \in Seq(Who) /\ Once(queue[s])
      /\ i \in 1..Len(queue[s]) /\ 1 \in 1..Len(queue[s]) /\ i # 1 /\ queue[s] # <<>>
      /\ \A t \in Session : Once(queue[t])
    BY <1>0 DEF Shapes, WaitInv, WaitAt
<1>3. r \in Req /\ Contains(queue[s], r)
    BY <1>1, <1>2, WhoFacts DEF Who, Contains
<1>4. req[r].session = s /\ Wanted(r)
    BY <1>0, <1>3 DEF WaitInv, WaitAt
<1>5. /\ p \in Seq(Who) /\ p # <<>> /\ Head(p) = Head(queue[s]) /\ Once(p) /\ ~Contains(p, r)
      /\ \A x : Contains(p, x) => Contains(queue[s], x)
    BY <1>1, <1>2, RemoveFacts
<1>6. Head(queue[s]) # r
    BY <1>1, <1>2 DEF Once
<1>7. queue' = [queue EXCEPT ![s] = p] /\ Settle(r, "cancelled")
    BY <1>1
<1> HIDE DEF r, p
<1>8. /\ queue' \in [Session -> Seq(Who)] /\ queue'[s] = p
      /\ \A t \in Session \ {s} : queue'[t] = queue[t]
    BY <1>2, <1>5, <1>7
<1>9. "cancelled" \in Answers /\ "cancelled" # "compacted"
    BY DEF Answers
<1>10. /\ requests' \in [Session -> Who] /\ req' \in [Req -> Request] /\ EntryInv'
       /\ \A q \in Req \ {r} : req'[q] = req[q]
    BY <1>0, <1>3, <1>4, <1>7, <1>9, SettleKeeps
<1>11. ASSUME NEW t \in Session PROVE WaitAt(t)' /\ OpAt(t)'
    <2>1. ~Contains(queue'[t], r)
        BY <1>0, <1>3, <1>4, <1>5, <1>8, NotWaiting
    <2>2. WaitAt(t)'
        BY <1>0, <1>2, <1>3, <1>5, <1>8, <1>10, <2>1, WaitOthers
    <2>3. ~(op[t].active /\ op[t].by = r)
        <3> SUFFICES ASSUME op[t].active, op[t].by = r PROVE FALSE
            OBVIOUS
        <3>1. r # NoReq /\ OpAt(t)
            BY <1>0, <1>3, WhoFacts DEF OpInv
        <3>2. Unanswered(r) /\ t = s
            BY <1>4, <3>1 DEF OpAt
        <3>3. req[r].queued
            BY <1>4, <3>2 DEF Wanted
        <3> QED BY <1>6, <3>1, <3>2, <3>3 DEF OpAt, Holds
    <2>4. queue[t] # <<>> => queue'[t] # <<>> /\ Head(queue'[t]) = Head(queue[t])
        BY <1>5, <1>8
    <2>5. OpAt(t)'
        BY <1>0, <1>1, <1>3, <1>10, <2>3, <2>4, OpOthers
    <2> QED BY <2>2, <2>5
<1>12. Shapes'
    BY <1>0, <1>1, <1>8, <1>10 DEF Shapes
<1>13. JobInv'
    BY <1>0, <1>1, <1>5, <1>8, JobFrame
<1> QED BY <1>10, <1>11, <1>12, <1>13 DEF CompInv, WaitInv, OpInv

\* compactSession() with a record that nobody waits on and no queue holds.
LEMMA CompactStep ==
    ASSUME CompInv, NEW s \in Session, NEW r \in Req, Compact(s, r)
    PROVE  CompInv'
<1>0. Shapes /\ EntryInv /\ WaitInv /\ OpInv /\ JobInv
    BY DEF CompInv
<1>1. /\ ~Unanswered(r) /\ \A t \in Session : ~Contains(queue[t], r)
      /\ UNCHANGED <<turn, copy, stored, op, autoFailed, timedOut, stopped>>
    BY DEF Compact, Free
<1> DEFINE asked(answer, queued) ==
        [NoRequest EXCEPT !.session = s, !.answer = answer, !.queued = queued,
                          !.tied = turn[s] = "open" /\ answer = "none"]
<1>2. ASSUME NEW a \in Answers \cup {"none"}, NEW b \in BOOLEAN
      PROVE  /\ asked(a, b) \in Request /\ asked(a, b).session = s
             /\ asked(a, b).answer = a /\ asked(a, b).queued = b /\ asked(a, b).wrote = FALSE
    <2> DEFINE c == turn[s] = "open" /\ a = "none"
    <2>1. /\ NoRequest = [session |-> NoRequest.session, queued |-> FALSE, running |-> FALSE,
                          aborted |-> FALSE, tied |-> FALSE, answer |-> "unasked", wrote |-> FALSE]
          /\ NoRequest \in Request
        BY DEF NoRequest, Request
    <2>2. asked(a, b) = [[[[NoRequest EXCEPT !.session = s] EXCEPT !.answer = a]
                           EXCEPT !.queued = b] EXCEPT !.tied = c]
        OBVIOUS
    <2>3. c \in BOOLEAN
        OBVIOUS
    <2> DEFINE n1 == [NoRequest EXCEPT !.session = s]
               n2 == [n1 EXCEPT !.answer = a]
               n3 == [n2 EXCEPT !.queued = b]
    <2>4. asked(a, b) = [n3 EXCEPT !.tied = c]
        BY <2>2
    <2> HIDE DEF c, asked, n1, n2, n3
    <2>5. n1 \in Request /\ n1.session = s /\ n1.wrote = FALSE
        BY <2>1 DEF n1, Request
    <2>6. n2 \in Request /\ n2.session = s /\ n2.wrote = FALSE /\ n2.answer = a
        BY <2>5 DEF n2, Request
    <2>7. /\ n3 \in Request /\ n3.session = s /\ n3.wrote = FALSE
          /\ n3.answer = a /\ n3.queued = b
        BY <2>6 DEF n3, Request
    <2> QED BY <2>3, <2>4, <2>7 DEF Request
<1>3. \/ /\ \E a \in {"cancelled", "busy"} : req' = [req EXCEPT ![r] = asked(a, FALSE)]
         /\ UNCHANGED <<queue, requests>> /\ (UNCHANGED <<timers, jobs>> \/ CancelJobs(s))
      \/ /\ requests[s] = NoReq /\ ~op[s].active /\ CancelJobs(s)
         /\ req' = [req EXCEPT ![r] = asked("none", turn[s] # "open")]
         /\ requests' = [requests EXCEPT ![s] = r]
         /\ queue' = IF turn[s] = "open" THEN queue ELSE [queue EXCEPT ![s] = Append(@, r)]
    BY DEF Compact
<1> HIDE DEF asked
<1>4. PICK n \in Request :
        /\ req' = [req EXCEPT ![r] = n] /\ n.session = s /\ n.wrote = FALSE
        /\ \/ /\ n.answer \in {"cancelled", "busy"} /\ UNCHANGED <<queue, requests>>
              /\ UNCHANGED <<timers, jobs>> \/ CancelJobs(s)
           \/ /\ n.answer = "none" /\ (turn[s] # "open" => n.queued)
              /\ requests[s] = NoReq /\ CancelJobs(s)
              /\ requests' = [requests EXCEPT ![s] = r]
              /\ queue' = IF turn[s] = "open" THEN queue ELSE [queue EXCEPT ![s] = Append(@, r)]
    <2>1. ASSUME NEW a \in {"cancelled", "busy"}
          PROVE  asked(a, FALSE) \in Request /\ asked(a, FALSE).session = s
                 /\ asked(a, FALSE).answer = a /\ asked(a, FALSE).wrote = FALSE
        BY <1>2 DEF Answers
    <2> DEFINE w == asked("none", turn[s] # "open")
    <2>2. /\ w \in Request /\ w.session = s /\ w.answer = "none" /\ w.wrote = FALSE
          /\ w.queued = (turn[s] # "open")
        <3>1. (turn[s] # "open") \in BOOLEAN
            OBVIOUS
        <3> QED BY <1>2, <3>1
    <2> HIDE DEF w
    <2>3. CASE /\ \E a \in {"cancelled", "busy"} : req' = [req EXCEPT ![r] = asked(a, FALSE)]
               /\ UNCHANGED <<queue, requests>> /\ (UNCHANGED <<timers, jobs>> \/ CancelJobs(s))
        BY <2>1, <2>3
    <2>4. CASE /\ requests[s] = NoReq /\ ~op[s].active /\ CancelJobs(s)
               /\ req' = [req EXCEPT ![r] = asked("none", turn[s] # "open")]
               /\ requests' = [requests EXCEPT ![s] = r]
               /\ queue' = IF turn[s] = "open" THEN queue ELSE [queue EXCEPT ![s] = Append(@, r)]
        <3>1. req' = [req EXCEPT ![r] = w] /\ (turn[s] # "open" => w.queued)
            BY <2>2, <2>4 DEF w
        <3> QED BY <2>2, <2>4, <3>1
    <2> QED BY <1>3, <2>3, <2>4
<1>5. /\ req' \in [Req -> Request] /\ req'[r] = n /\ \A q \in Req \ {r} : req'[q] = req[q]
    BY <1>0, <1>4 DEF Shapes
<1>6. /\ requests \in [Session -> Who] /\ r # NoReq /\ r # TurnJob /\ r \in Who
      /\ \A t \in Session : requests[t] # r
      /\ \A t \in Session : requests[t] # NoReq => requests[t] \in Req
    BY <1>0, <1>1, WhoFacts DEF Shapes, EntryInv, Entries, Who
<1>7. /\ requests' \in [Session -> Who]
      /\ \A t \in Session \ {s} : requests'[t] = requests[t]
      /\ n.answer = "none" => requests[s] = NoReq /\ requests'[s] = r
      /\ n.answer # "none" => requests'[s] = requests[s]
    BY <1>4, <1>6
<1>8. EntryInv'
    <2>1. ASSUME NEW t \in Session, requests'[t] # NoReq
          PROVE  req'[requests'[t]].answer = "none" /\ req'[requests'[t]].session = t
        <3>1. CASE requests'[t] = r
            <4>1. t = s /\ n.answer = "none"
                BY <1>6, <1>7, <3>1
            <4> QED BY <1>4, <1>5, <3>1, <4>1
        <3>2. CASE requests'[t] # r
            <4>1. requests'[t] = requests[t]
                BY <1>7, <3>2
            <4>2. requests[t] \in Req /\ req[requests[t]].answer = "none" /\ req[requests[t]].session = t
                BY <1>0, <1>6, <2>1, <4>1 DEF EntryInv, Entries, Unanswered
            <4> QED BY <1>5, <3>2, <4>1, <4>2
        <3> QED BY <3>1, <3>2
    <2>2. ASSUME NEW q \in Req, req'[q].answer = "none"
          PROVE  req'[q].session \in Session /\ requests'[req'[q].session] = q
        <3>1. CASE q = r
            BY <1>4, <1>5, <1>7, <2>2, <3>1
        <3>2. CASE q # r
            <4>1. req'[q] = req[q] /\ req[q].session \in Session /\ requests[req[q].session] = q
                BY <1>0, <1>5, <2>2, <3>2 DEF EntryInv, Entries, Unanswered
            <4>2. q # NoReq
                BY WhoFacts
            <4> QED BY <1>7, <4>1, <4>2
        <3> QED BY <3>1, <3>2
    <2>3. ASSUME NEW q \in Req PROVE req'[q].wrote <=> req'[q].answer = "compacted"
        <3>1. CASE q = r
            BY <1>4, <1>5, <3>1
        <3>2. CASE q # r
            BY <1>0, <1>5, <3>2 DEF EntryInv, AnswerIsTrue
        <3> QED BY <3>1, <3>2
    <2> QED BY <2>1, <2>2, <2>3 DEF EntryInv, Entries, AnswerIsTrue, Unanswered
<1>9. /\ queue' \in [Session -> Seq(Who)] /\ \A t \in Session \ {s} : queue'[t] = queue[t]
      /\ Once(queue'[s]) /\ (queue[s] # <<>> => queue'[s] # <<>> /\ Head(queue'[s]) = Head(queue[s]))
      /\ \A q : Contains(queue'[s], q) => Contains(queue[s], q) \/ q = r
      /\ Contains(queue'[s], r) => n.answer = "none" /\ n.queued
    <2>1. queue \in [Session -> Seq(Who)] /\ queue[s] \in Seq(Who) /\ Once(queue[s])
        BY <1>0 DEF Shapes, WaitInv, WaitAt
    <2>2. CASE queue' = queue
        BY <1>1, <2>1, <2>2
    <2>3. CASE n.answer = "none" /\ n.queued /\ queue' = [queue EXCEPT ![s] = Append(@, r)]
        <3> DEFINE p == Append(queue[s], r)
        <3>1. /\ p \in Seq(Who) /\ p # <<>> /\ Once(p)
              /\ \A x : Contains(p, x) <=> Contains(queue[s], x) \/ x = r
              /\ queue[s] # <<>> => Head(p) = Head(queue[s])
            BY <1>1, <1>6, <2>1, AppendFacts
        <3>2. queue' = [queue EXCEPT ![s] = p]
            BY <2>3
        <3> HIDE DEF p
        <3>3. queue' \in [Session -> Seq(Who)] /\ queue'[s] = p /\ \A t \in Session \ {s} : queue'[t] = queue[t]
            BY <2>1, <3>1, <3>2
        <3> QED BY <2>3, <3>1, <3>3
    <2> QED BY <1>4, <2>2, <2>3
<1>10. ASSUME NEW t \in Session PROVE WaitAt(t)'
    <2>1. WaitAt(t) /\ Once(queue[t])
        BY <1>0 DEF WaitInv, WaitAt
    <2>2. CASE t # s
        BY <1>0, <1>1, <1>5, <1>9, <2>1, <2>2, WaitOthers
    <2>3. CASE t = s
        <3>1. ASSUME NEW q \in Req, Contains(queue'[s], q) PROVE req'[q].session = s /\ Wanted(q)'
            <4>1. CASE q = r
                BY <1>4, <1>5, <1>9, <3>1, <4>1 DEF Wanted, Unanswered
            <4>2. CASE q # r
                BY <1>5, <1>9, <2>1, <2>3, <3>1, <4>2 DEF WaitAt, Wanted, Unanswered
            <4> QED BY <4>1, <4>2
        <3> QED BY <1>9, <2>3, <3>1 DEF WaitAt
    <2> QED BY <2>2, <2>3
<1>11. ASSUME NEW t \in Session PROVE OpAt(t)'
    <2>1. ~(op[t].active /\ op[t].by = r)
        BY <1>0, <1>1, <1>6 DEF OpInv, OpAt
    <2>2. queue[t] # <<>> => queue'[t] # <<>> /\ Head(queue'[t]) = Head(queue[t])
        BY <1>9
    <2> QED BY <1>0, <1>1, <1>5, <2>1, <2>2, OpOthers
<1>12. jobs' \subseteq Job /\ timers' \subseteq Session /\ JobInv'
    <2>1. CASE CancelJobs(s)
        BY <1>0, <2>1, CancelJobsIs
    <2>2. CASE UNCHANGED <<timers, jobs>> /\ UNCHANGED <<queue, requests>>
        BY <1>0, <1>1, <2>2, JobFrame DEF Shapes
    <2> QED BY <1>4, <2>1, <2>2
<1>13. Shapes'
    BY <1>0, <1>1, <1>5, <1>7, <1>9, <1>12 DEF Shapes
<1> QED BY <1>8, <1>10, <1>11, <1>12, <1>13 DEF CompInv, WaitInv, OpInv

LEMMA StepComp ==
    ASSUME CompInv, stored \in [Session -> Record], [Next]_vars
    PROVE  CompInv'
<1>0. Shared \subseteq Session
    BY BoundsAssumption
<1>1. CASE UNCHANGED vars
    BY <1>1, RowStep DEF vars, turnVars
<1>2. CASE Shutdown
    BY <1>2, StopSteps
<1>3. ASSUME NEW s \in Session,
             SubmitTurn(s) \/ TurnOpens(s) \/ AbortTurn(s) \/ BeforeStep(s)
                \/ TurnCloses(s) \/ TurnLeaves(s)
      PROVE  CompInv'
    BY <1>3, SubmitStep, TurnOpensStep, StopSteps, BeforeStepStep, TurnClosesStep, TurnLeavesStep
<1>4. ASSUME NEW s \in Session,
             CompactionRuns(s) \/ CompactionEnds(s) \/ QueueDropsAborted(s)
                \/ CancelCompaction(s) \/ JobStarts(s) \/ JobNotNeeded(s)
      PROVE  CompInv'
    BY <1>4, CompactionRunsStep, CompactionEndsStep, QueueDropsStep, StopSteps, JobStartsStep,
       JobNotNeededStep
<1>5. ASSUME NEW r \in Req, CallerAborts(r) \/ \E s \in Shared : Compact(s, r) PROVE CompInv'
    BY <1>0, <1>5, StopSteps, CompactStep
<1>6. ASSUME NEW s \in Session, ContextSaved(s) \/ HostStep(s) \/ ForeignStep(s) PROVE CompInv'
    <2>1. UNCHANGED <<queue, turn, op, requests, req, autoFailed, jobVars, stopped>>
        BY <1>6 DEF ContextSaved, HostStep, HostReads, HostSaves, ForeignStep, ForeignBegins,
                    ForeignSaves, ForeignEnds, ForeignSummary, turnVars
    <2> QED BY <2>1, RowStep
<1>7. ASSUME NEW j \in jobs, JobAnswers(j) \/ JobFails(j) PROVE CompInv'
    BY <1>7, JobAnswersStep, JobFailsStep
<1> QED BY <1>0, <1>1, <1>2, <1>3, <1>4, <1>5, <1>6, <1>7 DEF Next

-----------------------------------------------------------------------------
(* Rows. *)

\* c is how q begins.
Begins(c, q) == Len(c) <= Len(q) /\ \A i \in 1..Len(c) : c[i] = q[i]

\* A row's summary extends the checkpoint beside it and is of the row's records.
Fits(row) ==
    row.rolling # NoRolling =>
        /\ row.rolling.from = row.base /\ Len(row.rolling.covers) > row.base
        /\ Begins(row.rolling.covers, row.turns)

\* Two transcripts with the same record in some place have the same past.
Agree(a, b) ==
    \A i \in Nat : i <= Len(a) /\ i <= Len(b) /\ a[i] = b[i] => \A k \in 1..i : a[k] = b[k]

Coherent(held, n) ==
    /\ held \subseteq Seq(Nat)
    /\ \A a \in held : \A i \in 1..Len(a) : a[i] <= n
    /\ \A a, b \in held : Agree(a, b)

\* What is held of a session, here or elsewhere, and what its jobs were given.
RowsOf(s) == {stored[s], copy[s], mirror[s], away[s]}
Given(s) == {j.covers : j \in {k \in jobs : k.session = s}}
Held(s) == {row.turns : row \in RowsOf(s)} \cup Given(s)

RowsAt(s) == (\A row \in RowsOf(s) : Fits(row)) /\ Coherent(Held(s), records[s])

RowInv ==
    /\ stored \in [Session -> Record] /\ copy \in [Session -> Record]
    /\ mirror \in [Session -> Record] /\ away \in [Session -> Record]
    /\ records \in [Session -> Nat]
    /\ \A j \in jobs : Len(j.covers) > j.base
    /\ \A s \in Session : RowsAt(s)

LEMMA CoherentPart ==
    ASSUME NEW h, NEW n \in Nat, Coherent(h, n), NEW a \in h, NEW m \in 0..Len(a)
    PROVE  Coherent(h \cup {SubSeq(a, 1, m)}, n)
<1> DEFINE c == SubSeq(a, 1, m)
<1>0. /\ a \in Seq(Nat) /\ Len(a) \in Nat /\ m \in Nat /\ m <= Len(a)
      /\ \A i \in 1..Len(a) : a[i] <= n
      /\ \A b \in h : b \in Seq(Nat) /\ Len(b) \in Nat /\ Agree(a, b) /\ Agree(b, a)
    BY DEF Coherent
<1>1. c \in Seq(Nat) /\ Len(c) = m /\ \A i \in 1..m : c[i] = a[i]
    BY <1>0
<1> HIDE DEF c
<1>2. \A i \in 1..Len(c) : c[i] <= n
    BY <1>0, <1>1
<1>3. Agree(c, c)
    BY DEF Agree
<1>4. ASSUME NEW b \in h PROVE Agree(c, b) /\ Agree(b, c)
    <2> SUFFICES ASSUME NEW i \in Nat, i <= m, i <= Len(b), c[i] = b[i], NEW k \in 1..i
                 PROVE  c[k] = b[k]
        BY <1>1 DEF Agree
    <2>1. i \in 1..m /\ k \in 1..m /\ i <= Len(a)
        BY <1>0
    <2>2. a[i] = b[i] /\ c[k] = a[k]
        BY <1>1, <2>1
    <2> QED BY <1>0, <2>1, <2>2 DEF Agree
<1>5. ASSUME NEW x \in h \cup {c}, NEW y \in h \cup {c} PROVE Agree(x, y)
    BY <1>3, <1>4, <1>5 DEF Coherent
<1>6. h \cup {c} \subseteq Seq(Nat) /\ \A x \in h \cup {c} : \A i \in 1..Len(x) : x[i] <= n
    BY <1>1, <1>2 DEF Coherent
<1> QED BY <1>5, <1>6 DEF Coherent, c

LEMMA CoherentLonger ==
    ASSUME NEW h, NEW n \in Nat, Coherent(h, n), NEW a \in h
    PROVE  Coherent(h \cup {Append(a, n + 1)}, n + 1)
<1> DEFINE c == Append(a, n + 1)
<1>0. /\ a \in Seq(Nat) /\ Len(a) \in Nat
      /\ \A b \in h : b \in Seq(Nat) /\ Len(b) \in Nat /\ Agree(a, b) /\ Agree(b, a)
      /\ \A b \in h : \A i \in 1..Len(b) : b[i] \in Nat /\ b[i] <= n
    BY DEF Coherent
<1>1. /\ c \in Seq(Nat) /\ Len(c) = Len(a) + 1 /\ c[Len(a) + 1] = n + 1
      /\ \A i \in 1..Len(a) : c[i] = a[i]
    BY <1>0
<1> HIDE DEF c
<1>2. ASSUME NEW i \in 1..Len(c) PROVE c[i] <= n + 1
    <2>1. CASE i \in 1..Len(a)
        BY <1>0, <1>1, <2>1
    <2>2. CASE i = Len(a) + 1
        BY <1>1, <2>2
    <2> QED BY <1>0, <1>1, <2>1, <2>2
<1>3. Agree(c, c)
    BY DEF Agree
<1>4. ASSUME NEW b \in h PROVE Agree(c, b) /\ Agree(b, c)
    <2> SUFFICES ASSUME NEW i \in Nat, i <= Len(a) + 1, i <= Len(b), c[i] = b[i], NEW k \in 1..i
                 PROVE  c[k] = b[k]
        BY <1>1 DEF Agree
    <2>0. i \in 1..Len(b)
        BY <1>0
    <2>1. i # Len(a) + 1
        BY <1>0, <1>1, <2>0
    <2>2. i \in 1..Len(a) /\ k \in 1..Len(a) /\ i <= Len(a)
        BY <1>0, <2>1
    <2>3. a[i] = b[i] /\ c[k] = a[k]
        BY <1>1, <2>2
    <2> QED BY <1>0, <2>2, <2>3 DEF Agree
<1>5. ASSUME NEW x \in h \cup {c}, NEW y \in h \cup {c} PROVE Agree(x, y)
    BY <1>3, <1>4, <1>5 DEF Coherent
<1>6. ASSUME NEW x \in h \cup {c}, NEW i \in 1..Len(x) PROVE x[i] <= n + 1
    BY <1>0, <1>2
<1>7. h \cup {c} \subseteq Seq(Nat)
    BY <1>1 DEF Coherent
<1> QED BY <1>5, <1>6, <1>7 DEF Coherent, c

LEMMA CoherentSub ==
    ASSUME NEW h, NEW n \in Nat, Coherent(h, n), NEW g, g \subseteq h \cup {<<>>}
    PROVE  Coherent(g, n)
<1>1. /\ <<>> \in Seq(Nat) /\ Len(<<>>) = 0
      /\ \A b \in h : b \in Seq(Nat) /\ Len(b) \in Nat
    BY DEF Coherent
<1>2. ASSUME NEW b, Len(b) \in Nat PROVE Agree(<<>>, b) /\ Agree(b, <<>>)
    BY <1>1, <1>2 DEF Agree
<1>3. ASSUME NEW x \in g, NEW y \in g PROVE Agree(x, y)
    <2>1. CASE x = <<>> \/ y = <<>>
        BY <1>1, <1>2, <2>1
    <2>2. CASE x \in h /\ y \in h
        BY <2>2 DEF Coherent
    <2> QED BY <2>1, <2>2
<1>4. ASSUME NEW x \in g, NEW i \in 1..Len(x) PROVE x[i] <= n
    BY <1>1 DEF Coherent
<1>5. g \subseteq Seq(Nat)
    BY <1>1
<1> QED BY <1>3, <1>4, <1>5 DEF Coherent

\* The rows that saves and compactions hand on.
LEMMA RowFacts ==
    ASSUME NEW row \in Record
    PROVE  /\ Checkpointed(row) \in Record /\ Checkpointed(row).turns = row.turns
           /\ Fits(Checkpointed(row))
           /\ Fresh \in Record /\ Fresh.turns = <<>> /\ Fits(Fresh)
<1>0. /\ NoRolling \in [from : Nat, covers : Seq(Nat)] /\ <<>> \in Seq(Nat)
      /\ row.turns \in Seq(Nat) /\ Len(row.turns) \in Nat
    BY RollingIs DEF NoRolling
<1>1. Fresh \in Record /\ Fresh.turns = <<>> /\ Fresh.rolling = NoRolling
    BY <1>0 DEF Fresh, Record
<1>2. /\ Checkpointed(row) \in Record /\ Checkpointed(row).turns = row.turns
      /\ Checkpointed(row).rolling = NoRolling
    BY <1>0 DEF Checkpointed, Record
<1> QED BY <1>1, <1>2 DEF Fits

LEMMA LongerIs ==
    ASSUME NEW row \in Record, Fits(row), NEW s \in Session, records[s] \in Nat
    PROVE  /\ Longer(row, s) \in Record /\ Fits(Longer(row, s))
           /\ Longer(row, s).turns = Append(row.turns, records[s] + 1)
<1> DEFINE q == Append(row.turns, records[s] + 1)
<1>0. /\ row.turns \in Seq(Nat) /\ Len(row.turns) \in Nat /\ records[s] + 1 \in Nat
      /\ row.rolling \in [from : Nat, covers : Seq(Nat)]
    BY RollingIs
<1>1. /\ q \in Seq(Nat) /\ Len(q) = Len(row.turns) + 1
      /\ \A i \in 1..Len(row.turns) : q[i] = row.turns[i]
    BY <1>0
<1>2. Longer(row, s) = [row EXCEPT !.turns = q]
    BY DEF Longer
<1> HIDE DEF q
<1>3. /\ Longer(row, s) \in Record /\ Longer(row, s).turns = q
      /\ Longer(row, s).base = row.base /\ Longer(row, s).rolling = row.rolling
    BY <1>1, <1>2 DEF Record
<1>4. ASSUME NEW c \in Seq(Nat), Begins(c, row.turns) PROVE Begins(c, q)
    <2>1. Len(c) \in Nat
        OBVIOUS
    <2> QED BY <1>0, <1>1, <1>4, <2>1 DEF Begins
<1>5. row.rolling.covers \in Seq(Nat)
    BY <1>0
<1> QED BY <1>3, <1>4, <1>5 DEF Fits, q

\* A summary of the row's own records, up to n of them.
LEMMA SummedIs ==
    ASSUME NEW row \in Record, NEW c \in Seq(Nat), Len(c) > row.base, Begins(c, row.turns)
    PROVE  LET new == [row EXCEPT !.rolling = [from |-> row.base, covers |-> c]] IN
           new \in Record /\ new.turns = row.turns /\ Fits(new)
<1> DEFINE y == [from |-> row.base, covers |-> c]
           new == [row EXCEPT !.rolling = y]
<1>1. row.base \in Nat
    BY RollingIs
<1>2. y \in [from : Nat, covers : Seq(Nat)] /\ y.from = row.base /\ y.covers = c
    BY <1>1
<1> HIDE DEF y
<1>3. new \in Record /\ new.turns = row.turns /\ new.base = row.base /\ new.rolling = y
    BY <1>2 DEF Record
<1> HIDE DEF new
<1>4. Fits(new)
    BY <1>2, <1>3 DEF Fits
<1> QED BY <1>3, <1>4 DEF new, y

\* One session's entry of f is written with a row of A, or nothing is.
Wrote(f, g, s, A) == g = f \/ \E a \in A : g = [f EXCEPT ![s] = a]

\* A step that writes rows of one session.
LEMMA RowsMove ==
    ASSUME RowInv, NEW s \in Session, NEW A, A \subseteq Record, \A a \in A : Fits(a),
           Wrote(stored, stored', s, A), Wrote(copy, copy', s, A),
           Wrote(mirror, mirror', s, A), Wrote(away, away', s, A),
           NEW n \in Nat, records' = [records EXCEPT ![s] = n],
           \A j \in jobs' : Len(j.covers) > j.base,
           \A t \in Session \ {s} : Given(t)' \subseteq Given(t),
           Coherent(Held(s) \cup {a.turns : a \in A} \cup Given(s)', n)
    PROVE  RowInv'
<1>0. /\ stored \in [Session -> Record] /\ copy \in [Session -> Record]
      /\ mirror \in [Session -> Record] /\ away \in [Session -> Record]
    BY DEF RowInv
<1>1. /\ stored' \in [Session -> Record] /\ \A t \in Session \ {s} : stored'[t] = stored[t]
      /\ stored'[s] = stored[s] \/ stored'[s] \in A
    BY ONLY <1>0, A \subseteq Record, s \in Session, Wrote(stored, stored', s, A) DEF Wrote
<1>2. /\ copy' \in [Session -> Record] /\ \A t \in Session \ {s} : copy'[t] = copy[t]
      /\ copy'[s] = copy[s] \/ copy'[s] \in A
    BY ONLY <1>0, A \subseteq Record, s \in Session, Wrote(copy, copy', s, A) DEF Wrote
<1>3. /\ mirror' \in [Session -> Record] /\ \A t \in Session \ {s} : mirror'[t] = mirror[t]
      /\ mirror'[s] = mirror[s] \/ mirror'[s] \in A
    BY ONLY <1>0, A \subseteq Record, s \in Session, Wrote(mirror, mirror', s, A) DEF Wrote
<1>4. /\ away' \in [Session -> Record] /\ \A t \in Session \ {s} : away'[t] = away[t]
      /\ away'[s] = away[s] \/ away'[s] \in A
    BY ONLY <1>0, A \subseteq Record, s \in Session, Wrote(away, away', s, A) DEF Wrote
<1>5. /\ records' \in [Session -> Nat] /\ records'[s] = n
      /\ \A t \in Session \ {s} : records'[t] = records[t] /\ records[t] \in Nat
    BY DEF RowInv
<1>6. ASSUME NEW t \in Session \ {s} PROVE RowsAt(t)'
    <2>1. RowsOf(t)' = RowsOf(t)
        BY <1>1, <1>2, <1>3, <1>4 DEF RowsOf
    <2>2. Held(t)' \subseteq Held(t)
        BY <2>1 DEF Held
    <2>3. RowsAt(t) /\ records'[t] = records[t] /\ records[t] \in Nat
        BY <1>5 DEF RowInv
    <2>4. Coherent(Held(t)', records[t])
        BY <2>2, <2>3, CoherentSub DEF RowsAt
    <2> QED BY <2>1, <2>3, <2>4 DEF RowsAt
<1>7. RowsAt(s)'
    <2>1. RowsOf(s)' \subseteq RowsOf(s) \cup A
        BY <1>1, <1>2, <1>3, <1>4 DEF RowsOf
    <2>2. Held(s)' \subseteq Held(s) \cup {a.turns : a \in A} \cup Given(s)'
        BY <2>1 DEF Held
    <2>3. Coherent(Held(s)', n)
        BY <2>2, CoherentSub
    <2>4. \A row \in RowsOf(s)' : Fits(row)
        BY <2>1 DEF RowInv, RowsAt
    <2> QED BY <1>5, <2>3, <2>4 DEF RowsAt
<1> QED BY <1>1, <1>2, <1>3, <1>5, <1>6, <1>7, <1>4 DEF RowInv

\* What jobs were given, when some are over or told to stop.
LEMMA GivenKept ==
    ASSUME jobs \subseteq Job, \A j \in jobs : Len(j.covers) > j.base,
           jobs' \subseteq jobs \/ jobs' = {[j EXCEPT !.aborted = TRUE] : j \in jobs}
    PROVE  /\ \A t : Given(t)' \subseteq Given(t)
           /\ \A j \in jobs' : Len(j.covers) > j.base
<1>1. ASSUME NEW j \in jobs
      PROVE  LET k == [j EXCEPT !.aborted = TRUE] IN
             k.session = j.session /\ k.covers = j.covers /\ k.base = j.base
    <2>1. j \in Job
        OBVIOUS
    <2> QED BY <2>1 DEF Job
<1>2. ASSUME NEW k \in jobs'
      PROVE  \E j \in jobs : k.session = j.session /\ k.covers = j.covers /\ k.base = j.base
    <2>1. CASE k \in jobs
        BY <2>1
    <2>2. CASE jobs' = {[j EXCEPT !.aborted = TRUE] : j \in jobs}
        <3>1. PICK j \in jobs : k = [j EXCEPT !.aborted = TRUE]
            BY <2>2
        <3> QED BY <1>1, <3>1
    <2> QED BY <2>1, <2>2
<1>3. \A j \in jobs' : Len(j.covers) > j.base
    BY <1>2
<1>4. ASSUME NEW t PROVE Given(t)' \subseteq Given(t)
    BY <1>2 DEF Given
<1> QED BY <1>3, <1>4

\* Copies, checkpoints and fresh rows of a session: what saves hand on.
Copies(s) == RowsOf(s) \cup {Fresh} \cup {Checkpointed(row) : row \in RowsOf(s)}

LEMMA CopiesKeep ==
    ASSUME RowInv, jobs \subseteq Job, NEW s \in Session,
           Wrote(stored, stored', s, Copies(s)), Wrote(copy, copy', s, Copies(s)),
           Wrote(mirror, mirror', s, Copies(s)), Wrote(away, away', s, Copies(s)),
           records' = records,
           jobs' \subseteq jobs \/ jobs' = {[j EXCEPT !.aborted = TRUE] : j \in jobs}
    PROVE  RowInv'
<1>1. /\ \A row \in RowsOf(s) : row \in Record /\ Fits(row)
      /\ Coherent(Held(s), records[s]) /\ records[s] \in Nat /\ RowsOf(s) # {}
    BY DEF RowInv, RowsAt, RowsOf
<1>2. \A a \in Copies(s) : a \in Record /\ Fits(a) /\ a.turns \in Held(s) \cup {<<>>}
    <2>1. ASSUME NEW row \in RowsOf(s)
          PROVE  /\ row \in Record /\ Fits(row) /\ row.turns \in Held(s)
                 /\ Checkpointed(row) \in Record /\ Fits(Checkpointed(row))
                 /\ Checkpointed(row).turns \in Held(s)
                 /\ Fresh \in Record /\ Fits(Fresh) /\ Fresh.turns = <<>>
        BY <1>1, <2>1, RowFacts DEF Held
    <2> QED BY <1>1, <2>1 DEF Copies
<1>3. /\ \A t : Given(t)' \subseteq Given(t)
      /\ \A j \in jobs' : Len(j.covers) > j.base
    BY GivenKept DEF RowInv
<1>4. Given(s)' \subseteq Held(s)
    BY <1>3 DEF Held
<1>5. Coherent(Held(s) \cup {a.turns : a \in Copies(s)} \cup Given(s)', records[s])
    BY <1>1, <1>2, <1>4, CoherentSub
<1>6. records' = [records EXCEPT ![s] = records[s]]
    BY DEF RowInv
<1> QED BY <1>1, <1>2, <1>3, <1>5, <1>6, RowsMove

\* Steps that leave every row alone.
LEMMA NoRowStep ==
    ASSUME RowInv, jobs \subseteq Job, UNCHANGED <<stored, copy, hostVars>>,
           jobs' \subseteq jobs \/ jobs' = {[j EXCEPT !.aborted = TRUE] : j \in jobs}
    PROVE  RowInv'
<1>0. UNCHANGED <<mirror, away, records>>
    BY DEF hostVars
<1>1. /\ \A t : Given(t)' \subseteq Given(t)
      /\ \A j \in jobs' : Len(j.covers) > j.base
    BY GivenKept DEF RowInv
<1>2. ASSUME NEW s \in Session PROVE RowsAt(s)'
    <2>1. RowsOf(s)' = RowsOf(s) /\ Held(s)' \subseteq Held(s)
        BY <1>0, <1>1 DEF RowsOf, Held
    <2>2. RowsAt(s) /\ records[s] \in Nat
        BY DEF RowInv
    <2>3. Coherent(Held(s)', records[s])
        BY <2>1, <2>2, CoherentSub DEF RowsAt
    <2> QED BY <1>0, <2>1, <2>2, <2>3 DEF RowsAt
<1> QED BY <1>0, <1>1, <1>2 DEF RowInv

\* Steps that save, load or drop rows of one session.
LEMMA CopySteps ==
    ASSUME RowInv, jobs \subseteq Job, NEW s \in Session,
           \/ ContextSaved(s) \/ TurnLeaves(s) \/ CompactionRuns(s) \/ CompactionEnds(s)
           \/ HostStep(s) \/ ForeignSaves(s) \/ ForeignEnds(s)
    PROVE  RowInv'
<1>0. /\ {stored[s], copy[s], mirror[s], away[s], Fresh} \subseteq Copies(s)
      /\ {Checkpointed(copy[s]), Checkpointed(away[s])} \subseteq Copies(s)
      /\ \A f, A : Wrote(f, f, s, A)
      /\ \A f, A : \A a \in A : Wrote(f, [f EXCEPT ![s] = a], s, A)
    BY DEF Copies, RowsOf, Wrote
<1>1. CASE ContextSaved(s)
    <2>1. stored' = [stored EXCEPT ![s] = copy[s]] /\ UNCHANGED <<copy, mirror, away, records, jobs>>
        BY <1>1 DEF ContextSaved, turnVars, hostVars, jobVars
    <2> QED BY <1>0, <2>1, CopiesKeep
<1>2. CASE TurnLeaves(s)
    <2>1. /\ stored' \in {stored, [stored EXCEPT ![s] = copy[s]]}
          /\ copy' = [copy EXCEPT ![s] = Fresh] /\ UNCHANGED <<mirror, away, records, jobs>>
        BY <1>2 DEF TurnLeaves, hostVars, jobVars
    <2>2. Wrote(stored, stored', s, Copies(s))
        BY <1>0, <2>1
    <2>3. Wrote(copy, copy', s, Copies(s))
        BY <1>0, <2>1
    <2>4. Wrote(mirror, mirror', s, Copies(s)) /\ Wrote(away, away', s, Copies(s))
        BY <1>0, <2>1
    <2> QED BY <2>1, <2>2, <2>3, <2>4, CopiesKeep
<1>3. CASE CompactionRuns(s)
    <2>1. /\ copy' \in {copy, [copy EXCEPT ![s] = stored[s]]}
          /\ UNCHANGED <<stored, mirror, away, records, jobs>>
        BY <1>3 DEF CompactionRuns, hostVars, jobVars
    <2>2. Wrote(copy, copy', s, Copies(s)) /\ Wrote(stored, stored', s, Copies(s))
        BY <1>0, <2>1
    <2>3. Wrote(mirror, mirror', s, Copies(s)) /\ Wrote(away, away', s, Copies(s))
        BY <1>0, <2>1
    <2> QED BY <2>1, <2>2, <2>3, CopiesKeep
<1>4. CASE CompactionEnds(s)
    <2>1. PICK outcome \in Outcomes(s) :
            /\ copy' = [copy EXCEPT ![s] = IF turn[s] = "none" THEN Fresh
                                           ELSE IF outcome = "compacted" THEN Checkpointed(copy[s])
                                           ELSE copy[s]]
            /\ stored' = IF outcome = "compacted" THEN [stored EXCEPT ![s] = Checkpointed(copy[s])]
                         ELSE stored
        BY <1>4 DEF CompactionEnds
    <2>2. UNCHANGED <<mirror, away, records, jobs>>
        BY <1>4 DEF CompactionEnds, hostVars, jobVars
    <2>3. Wrote(copy, copy', s, Copies(s))
        BY <1>0, <2>1
    <2>4. Wrote(stored, stored', s, Copies(s))
        BY <1>0, <2>1
    <2> QED BY <1>0, <2>2, <2>3, <2>4, CopiesKeep
<1>5. CASE HostStep(s)
    <2>1. /\ \/ mirror' = [mirror EXCEPT ![s] = stored[s]] /\ UNCHANGED stored
             \/ stored' = [stored EXCEPT ![s] = mirror[s]] /\ UNCHANGED mirror
          /\ UNCHANGED <<copy, away, records, jobs>>
        BY <1>5 DEF HostStep, HostReads, HostSaves, turnVars, jobVars
    <2> QED BY <1>0, <2>1, CopiesKeep
<1>6. CASE ForeignSaves(s)
    <2>1. /\ away' \in {away, [away EXCEPT ![s] = Checkpointed(away[s])]}
          /\ stored' = [stored EXCEPT ![s] = away'[s]] /\ UNCHANGED <<copy, mirror, records, jobs>>
        BY <1>6 DEF ForeignSaves, turnVars, jobVars
    <2>2. away'[s] \in Copies(s) /\ Wrote(away, away', s, Copies(s))
        <3>1. CASE away' = away
            BY <1>0, <3>1
        <3>2. CASE away' = [away EXCEPT ![s] = Checkpointed(away[s])]
            BY <1>0, <3>2 DEF RowInv
        <3> QED BY <2>1, <3>1, <3>2
    <2>3. Wrote(stored, stored', s, Copies(s))
        BY <1>0, <2>1, <2>2
    <2>4. Wrote(copy, copy', s, Copies(s)) /\ Wrote(mirror, mirror', s, Copies(s))
        BY <1>0, <2>1
    <2> QED BY <2>1, <2>2, <2>3, <2>4, CopiesKeep
<1>7. CASE ForeignEnds(s)
    <2>1. /\ away' = [away EXCEPT ![s] = Fresh]
          /\ stored' \in {stored, [stored EXCEPT ![s] = away[s]]}
          /\ UNCHANGED <<copy, mirror, records, jobs>>
        BY <1>7 DEF ForeignEnds, turnVars, jobVars
    <2>2. Wrote(stored, stored', s, Copies(s))
        BY <1>0, <2>1
    <2>3. Wrote(away, away', s, Copies(s))
        BY <1>0, <2>1
    <2>4. Wrote(copy, copy', s, Copies(s)) /\ Wrote(mirror, mirror', s, Copies(s))
        BY <1>0, <2>1
    <2> QED BY <2>1, <2>2, <2>3, <2>4, CopiesKeep
<1> QED BY <1>1, <1>2, <1>3, <1>4, <1>5, <1>6, <1>7

\* A turn records its message, here or elsewhere.
LEMMA OpenSteps ==
    ASSUME RowInv, jobs \subseteq Job, NEW s \in Session, TurnOpens(s) \/ ForeignBegins(s)
    PROVE  RowInv'
<1> DEFINE row == Longer(stored[s], s)
           n == records[s] + 1
<1>1. /\ stored[s] \in Record /\ Fits(stored[s]) /\ records[s] \in Nat
      /\ Coherent(Held(s), records[s]) /\ stored[s].turns \in Held(s)
    BY DEF RowInv, RowsAt, RowsOf, Held
<1>2. row \in Record /\ Fits(row) /\ row.turns = Append(stored[s].turns, n)
    BY <1>1, LongerIs
<1>3. /\ records' = [records EXCEPT ![s] = n]
      /\ \/ copy' = [copy EXCEPT ![s] = row] /\ UNCHANGED away
         \/ away' = [away EXCEPT ![s] = row] /\ UNCHANGED copy
      /\ UNCHANGED <<stored, mirror>>
      /\ jobs' \subseteq jobs \/ jobs' = {[j EXCEPT !.aborted = TRUE] : j \in jobs}
    BY DEF TurnOpens, ForeignBegins, NextRecord, CancelJobs, turnVars, jobVars
<1>4. /\ \A t : Given(t)' \subseteq Given(t)
      /\ \A j \in jobs' : Len(j.covers) > j.base
    BY <1>3, GivenKept DEF RowInv
<1>5. Coherent(Held(s) \cup {row.turns}, n)
    BY <1>1, <1>2, CoherentLonger
<1> HIDE DEF row
<1>6. n \in Nat /\ {a.turns : a \in {row}} = {row.turns} /\ Given(s)' \subseteq Held(s)
    BY <1>1, <1>4 DEF Held
<1> HIDE DEF n
<1>7. Coherent(Held(s) \cup {a.turns : a \in {row}} \cup Given(s)', n)
    BY <1>5, <1>6, CoherentSub
<1>8. /\ Wrote(stored, stored', s, {row}) /\ Wrote(copy, copy', s, {row})
      /\ Wrote(mirror, mirror', s, {row}) /\ Wrote(away, away', s, {row})
    BY <1>3 DEF Wrote
<1> QED BY <1>2, <1>3, <1>4, <1>6, <1>7, <1>8, RowsMove

\* A background job is given how its row begins.
LEMMA JobStartsRows ==
    ASSUME RowInv, jobs \subseteq Job, NEW s \in Session, JobStarts(s)
    PROVE  RowInv'
<1>1. /\ stored[s] \in Record /\ records[s] \in Nat /\ Coherent(Held(s), records[s])
      /\ stored[s].turns \in Held(s)
    BY DEF RowInv, RowsAt, RowsOf, Held
<1>2. PICK k \in Job, n \in Nat :
        /\ jobs' = jobs \cup {k} /\ k.session = s
        /\ n \in 1..Len(stored[s].turns) /\ n > k.base
        /\ k.covers = SubSeq(stored[s].turns, 1, n)
    BY <1>1, NewJob
<1>3. stored[s].turns \in Seq(Nat) /\ Len(stored[s].turns) \in Nat
    BY <1>1, RollingIs
<1>4. Len(k.covers) = n /\ n \in 0..Len(stored[s].turns)
    BY <1>2, <1>3
<1>5. Coherent(Held(s) \cup {k.covers}, records[s])
    BY <1>1, <1>2, <1>4, CoherentPart
<1>6. /\ \A t \in Session \ {s} : Given(t)' \subseteq Given(t)
      /\ Given(s)' \subseteq Given(s) \cup {k.covers}
      /\ \A j \in jobs' : Len(j.covers) > j.base
    BY <1>2, <1>4 DEF Given, RowInv
<1>7. UNCHANGED <<stored, copy, mirror, away, records>>
    BY DEF JobStarts, turnVars, hostVars
<1>8. Held(s) \cup {a.turns : a \in {}} \cup Given(s)' \subseteq Held(s) \cup {k.covers}
    BY <1>6 DEF Held
<1>9. Coherent(Held(s) \cup {a.turns : a \in {}} \cup Given(s)', records[s])
    BY <1>1, <1>5, <1>8, CoherentSub
<1>10. records' = [records EXCEPT ![s] = records[s]]
    BY <1>7 DEF RowInv
<1>11. /\ Wrote(stored, stored', s, {}) /\ Wrote(copy, copy', s, {})
       /\ Wrote(mirror, mirror', s, {}) /\ Wrote(away, away', s, {})
    BY <1>7 DEF Wrote
<1> QED BY <1>1, <1>6, <1>9, <1>10, <1>11, RowsMove

\* A summary is written into the row, of records the row begins with.
LEMMA SummaryKeeps ==
    ASSUME RowInv, jobs \subseteq Job, NEW s \in Session, NEW c \in Seq(Nat),
           Len(c) > stored[s].base, Begins(c, stored[s].turns),
           stored' = [stored EXCEPT ![s].rolling = [from |-> stored[s].base, covers |-> c]],
           UNCHANGED <<copy, mirror, away, records>>, jobs' \subseteq jobs
    PROVE  RowInv'
<1> DEFINE new == [stored[s] EXCEPT !.rolling = [from |-> stored[s].base, covers |-> c]]
<1>1. /\ stored[s] \in Record /\ records[s] \in Nat /\ Coherent(Held(s), records[s])
      /\ stored[s].turns \in Held(s)
    BY DEF RowInv, RowsAt, RowsOf, Held
<1>2. new \in Record /\ new.turns = stored[s].turns /\ Fits(new)
    BY <1>1, SummedIs
<1>3. stored' = [stored EXCEPT ![s] = new]
    OBVIOUS
<1> HIDE DEF new
<1>4. /\ \A t : Given(t)' \subseteq Given(t)
      /\ \A j \in jobs' : Len(j.covers) > j.base
    BY GivenKept DEF RowInv
<1>5. Held(s) \cup {a.turns : a \in {new}} \cup Given(s)' \subseteq Held(s)
    BY <1>1, <1>2, <1>4 DEF Held
<1>6. Coherent(Held(s) \cup {a.turns : a \in {new}} \cup Given(s)', records[s])
    BY <1>1, <1>5, CoherentSub
<1>7. records' = [records EXCEPT ![s] = records[s]]
    BY DEF RowInv
<1>8. /\ Wrote(stored, stored', s, {new}) /\ Wrote(copy, copy', s, {new})
      /\ Wrote(mirror, mirror', s, {new}) /\ Wrote(away, away', s, {new})
    BY <1>3 DEF Wrote
<1> QED BY <1>1, <1>2, <1>4, <1>6, <1>7, <1>8, RowsMove

\* extend() after its await: an unchanged boundary is an unchanged past.
LEMMA JobAnswersRows ==
    ASSUME RowInv, jobs \subseteq Job, NEW j \in jobs, JobAnswers(j)
    PROVE  RowInv'
<1>0. j \in Job /\ j.session \in Session /\ j.covers \in Seq(Nat) /\ j.base \in Nat
    BY DEF Job
<1>1. UNCHANGED <<copy, mirror, away, records>> /\ jobs' \subseteq jobs
    BY DEF JobAnswers, turnVars, hostVars
<1>2. CASE ~MaySave(j)
    <2>1. UNCHANGED <<stored, hostVars>>
        BY <1>2 DEF JobAnswers
    <2> QED BY <1>1, <2>1, NoRowStep
<1>3. CASE MaySave(j)
    <2> DEFINE s == j.session
    <2>1. /\ stored[s].base = j.base /\ Len(j.covers) <= Len(stored[s].turns)
          /\ stored[s].turns[Len(j.covers)] = j.covers[Len(j.covers)]
        BY <1>3 DEF MaySave, Boundary
    <2>2. Len(j.covers) > j.base /\ Len(j.covers) \in Nat
        BY <1>0 DEF RowInv
    <2>3. Agree(j.covers, stored[s].turns)
        <3>1. RowsAt(s)
            BY <1>0 DEF RowInv
        <3>2. j.covers \in Held(s) /\ stored[s].turns \in Held(s)
            BY DEF Held, Given, RowsOf
        <3> QED BY <3>1, <3>2 DEF RowsAt, Coherent
    <2>4. Begins(j.covers, stored[s].turns)
        BY <2>1, <2>2, <2>3 DEF Agree, Begins
    <2>5. stored' = [stored EXCEPT ![s].rolling = [from |-> stored[s].base, covers |-> j.covers]]
        BY <1>3, <2>1 DEF JobAnswers
    <2> QED BY <1>0, <1>1, <2>1, <2>2, <2>4, <2>5, SummaryKeeps
<1> QED BY <1>2, <1>3

LEMMA ForeignSummaryRows ==
    ASSUME RowInv, jobs \subseteq Job, NEW s \in Session, ForeignSummary(s)
    PROVE  RowInv'
<1>1. PICK n \in Rolling(stored[s]) + 1 .. Len(stored[s].turns) :
        stored' = [stored EXCEPT ![s].rolling =
            [from |-> stored[s].base, covers |-> SubSeq(stored[s].turns, 1, n)]]
    BY DEF ForeignSummary
<1>2. stored[s] \in Record
    BY DEF RowInv
<1>3. /\ stored[s].turns \in Seq(Nat) /\ Len(stored[s].turns) \in Nat /\ stored[s].base \in Nat
      /\ Rolling(stored[s]) \in Nat /\ Rolling(stored[s]) >= stored[s].base
    BY <1>2, RollingIs
<1> DEFINE c == SubSeq(stored[s].turns, 1, n)
<1>4. /\ c \in Seq(Nat) /\ Len(c) = n /\ Len(c) > stored[s].base
      /\ Begins(c, stored[s].turns)
    BY <1>3 DEF Begins
<1>5. UNCHANGED <<copy, mirror, away, records, jobs>>
    BY DEF ForeignSummary, turnVars, jobVars
<1>6. stored' = [stored EXCEPT ![s].rolling = [from |-> stored[s].base, covers |-> c]]
    BY <1>1
<1> HIDE DEF c
<1> QED BY <1>4, <1>5, <1>6, SummaryKeeps

LEMMA InitRows == Init => RowInv
<1> SUFFICES ASSUME Init PROVE RowInv
    OBVIOUS
<1>1. Fresh \in Record /\ Fresh.turns = <<>> /\ Fits(Fresh)
    <2>1. NoRolling \in [from : Nat, covers : Seq(Nat)]
        BY DEF NoRolling
    <2> QED BY <2>1 DEF Fresh, Record, Fits
<1>2. ASSUME NEW s \in Session PROVE RowsAt(s)
    <2>1. RowsOf(s) = {Fresh} /\ Held(s) = {<<>>} /\ records[s] = 0
        BY <1>1 DEF Init, RowsOf, Held, Given
    <2>2. Coherent({}, 0)
        BY DEF Coherent
    <2>3. Coherent({<<>>}, 0)
        BY <2>2, CoherentSub
    <2> QED BY <1>1, <2>1, <2>3 DEF RowsAt
<1> QED BY <1>1, <1>2 DEF Init, RowInv

LEMMA StepRows ==
    ASSUME RowInv, jobs \subseteq Job, [Next]_vars
    PROVE  RowInv'
<1>0. Shared \subseteq Session
    BY BoundsAssumption
<1>1. CASE UNCHANGED vars
    BY <1>1, NoRowStep DEF vars, turnVars, jobVars
<1>2. CASE Shutdown
    BY <1>2, NoRowStep DEF Shutdown, turnVars
<1>3. ASSUME NEW s \in Session, AbortTurn(s) \/ BeforeStep(s) \/ TurnCloses(s)
      PROVE  RowInv'
    BY <1>3, NoRowStep DEF AbortTurn, BeforeStep, TurnCloses, CancelJobs, turnVars, jobVars
<1>4. ASSUME NEW s \in Session, QueueDropsAborted(s) \/ CancelCompaction(s) \/ JobNotNeeded(s)
      PROVE  RowInv'
    BY <1>4, NoRowStep DEF QueueDropsAborted, CancelCompaction, JobNotNeeded, turnVars, jobVars
<1>5. ASSUME NEW s \in Session, SubmitTurn(s) PROVE RowInv'
    <2>1. UNCHANGED <<stored, copy, mirror, away, records, jobs>>
        BY <1>5 DEF SubmitTurn, jobVars
    <2>2. \A f, A : Wrote(f, f, s, A)
        BY DEF Wrote
    <2> QED BY <2>1, <2>2, CopiesKeep
<1>6. ASSUME NEW r \in Req, CallerAborts(r) \/ \E s \in Shared : Compact(s, r) PROVE RowInv'
    BY <1>6, NoRowStep DEF CallerAborts, Compact, CancelJobs, turnVars, jobVars
<1>7. ASSUME NEW s \in Session,
             \/ ContextSaved(s) \/ TurnLeaves(s) \/ CompactionRuns(s) \/ CompactionEnds(s)
             \/ TurnOpens(s) \/ JobStarts(s)
      PROVE  RowInv'
    BY <1>7, CopySteps, OpenSteps, JobStartsRows
<1>8. ASSUME NEW s \in Session, HostStep(s) \/ ForeignStep(s) PROVE RowInv'
    BY <1>8, CopySteps, OpenSteps, ForeignSummaryRows DEF ForeignStep
<1>9. ASSUME NEW j \in jobs, JobAnswers(j) \/ JobFails(j) PROVE RowInv'
    <2>1. CASE JobFails(j)
        BY <2>1, NoRowStep DEF JobFails, turnVars
    <2> QED BY <1>9, <2>1, JobAnswersRows
<1> QED BY <1>0, <1>1, <1>2, <1>3, <1>4, <1>5, <1>6, <1>7, <1>8, <1>9 DEF Next

-----------------------------------------------------------------------------
(* The theorems. *)

\* Who is where, and what is held of a session: the inductive invariant of the
\* compaction service, the queues, the background jobs and the rows together.
THEOREM CompInvariant == Spec => [](CompInv /\ RowInv)
<1>1. CompInv /\ RowInv /\ [Next]_vars => (CompInv /\ RowInv)'
    BY StepComp, StepRows DEF CompInv, Shapes, RowInv
<1> QED BY <1>1, InitComp, InitRows, PTL DEF Spec

\* The service never leaves its shape: an operation belongs to whoever holds
\* the session's lock, and a session's entry to an unanswered request.
THEOREM CompactionTypeCorrect == Spec => []TypeOK
<1>1. CompInv /\ RowInv => TypeOK
    <2> SUFFICES ASSUME CompInv, RowInv PROVE TypeOK
        OBVIOUS
    <2>0. Shapes /\ EntryInv /\ OpInv
        BY DEF CompInv
    <2>1. /\ stored \in [Session -> Record] /\ copy \in [Session -> Record]
          /\ mirror \in [Session -> Record] /\ away \in [Session -> Record]
        BY DEF RowInv
    <2>2. \A r \in Req : req[r].answer \in Answers \cup {"unasked", "none"}
        BY <2>0 DEF Shapes, Request
    <2>3. ASSUME NEW s \in Session
          PROVE  /\ op[s].active => isBusy(s) /\ Head(queue[s]) \in {TurnJob, op[s].by}
                 /\ turn[s] # "none" => Holds(s, TurnJob)
                 /\ requests[s] # NoReq => Unanswered(requests[s]) /\ req[requests[s]].session = s
        BY <2>0 DEF OpInv, OpAt, Holds, EntryInv, Entries
    <2> QED BY <2>0, <2>1, <2>2, <2>3 DEF TypeOK, Shapes
<1> QED BY <1>1, CompInvariant, PTL

\* compactSession() has at most one request of a session without an answer:
\* whatever is unanswered is the session's entry.
THEOREM OneRequestAtATime == Spec => []OneRequestPerSession
<1>1. CompInv => OneRequestPerSession
    <2> SUFFICES ASSUME CompInv, NEW s \in Session
                 PROVE  Cardinality({r \in Req : Unanswered(r) /\ req[r].session = s}) <= 1
        BY DEF OneRequestPerSession
    <2> DEFINE open == {r \in Req : Unanswered(r) /\ req[r].session = s}
    <2>1. open \subseteq {requests[s]}
        BY DEF CompInv, EntryInv, Entries
    <2>2. IsFiniteSet({requests[s]}) /\ Cardinality({requests[s]}) = 1
        BY FS_Singleton
    <2> QED BY <2>1, <2>2, FS_Subset
<1> QED BY <1>1, CompInvariant, PTL

\* A caller is told `compacted` exactly when its checkpoint was saved, even
\* when an abort, a shutdown and the queue settle the same request again.
THEOREM AnswersAreTrue == Spec => []AnswerIsTrue
<1>1. CompInv => AnswerIsTrue
    BY DEF CompInv, EntryInv
<1> QED BY <1>1, CompInvariant, PTL

\* No background call is live while a turn accepts steps or a compaction
\* runs, in whatever session.
THEOREM BackgroundWorkYields == Spec => []BackgroundYields
<1>1. CompInv => BackgroundYields
    BY DEF CompInv, JobInv, BackgroundYields
<1> QED BY <1>1, CompInvariant, PTL

\* A stored summary is of the first records of its own row and extends the
\* row's own checkpoint, whatever rows hosts and other processes put back
\* while the summary was made: extend() compares one record, and transcripts
\* that agree in one record agree in all before it.
THEOREM SummariesFit == Spec => []SummaryFitsItsRow
<1>1. RowInv => SummaryFitsItsRow
    <2> SUFFICES ASSUME RowInv, NEW s \in Session, stored[s].rolling # NoRolling
                 PROVE  /\ stored[s].rolling.from = stored[s].base
                        /\ Len(stored[s].rolling.covers) > stored[s].base
                        /\ IsPrefix(stored[s].rolling.covers, stored[s].turns)
        BY DEF SummaryFitsItsRow
    <2> DEFINE c == stored[s].rolling.covers
               q == stored[s].turns
    <2>1. stored[s] \in Record /\ Fits(stored[s])
        BY DEF RowInv, RowsAt, RowsOf
    <2>2. /\ stored[s].rolling.from = stored[s].base /\ Len(c) > stored[s].base
          /\ Len(c) <= Len(q) /\ \A i \in 1..Len(c) : c[i] = q[i]
        BY <2>1 DEF Fits, Begins
    <2>3. c \in Seq(Nat) /\ q \in Seq(Nat) /\ Len(c) \in Nat /\ Len(q) \in Nat
        BY <2>1 DEF Record
    <2> HIDE DEF c, q
    <2>4. SubSeq(c, 1, Len(c)) = SubSeq(q, 1, Len(c))
        BY <2>2, <2>3
    <2> QED BY <2>2, <2>4 DEF IsPrefix, c, q
<1> QED BY <1>1, CompInvariant, PTL

\* After shutdown() neither a compaction nor a job reaches the store: what is
\* still running has been told to stop, and stopping wins over a summary.
THEOREM StoppedIsQuiet == Spec => StoppedWritesNothing
<1>1. ASSUME CompInv, [Next]_vars, stopped, <<jobs, op>>' # <<jobs, op>>
      PROVE  stored' = stored
    <2>0. ~UNCHANGED <<jobs, op>> /\ OpInv
        BY <1>1 DEF CompInv
    <2>1. ASSUME NEW s \in Session, CompactionEnds(s) PROVE stored' = stored
        <3>1. op[s].active /\ op[s].aborted
            BY <1>1, <2>0, <2>1 DEF CompactionEnds, OpInv, OpAt
        <3> QED BY <2>1, <3>1 DEF CompactionEnds, Outcomes
    <2>2. ASSUME NEW j \in jobs, JobAnswers(j) PROVE stored' = stored
        BY <1>1, <2>2 DEF JobAnswers, MaySave
    <2>3. ASSUME NEW s \in Session,
                 ContextSaved(s) \/ TurnLeaves(s) \/ HostStep(s) \/ ForeignStep(s)
          PROVE  FALSE
        BY <2>0, <2>3 DEF ContextSaved, TurnLeaves, HostStep, HostReads, HostSaves, ForeignStep,
                          ForeignBegins, ForeignSaves, ForeignEnds, ForeignSummary, jobVars
    <2>4. ASSUME NEW s \in Session,
                 \/ SubmitTurn(s) \/ TurnOpens(s) \/ AbortTurn(s) \/ BeforeStep(s) \/ TurnCloses(s)
                 \/ CompactionRuns(s) \/ QueueDropsAborted(s) \/ CancelCompaction(s)
                 \/ JobStarts(s) \/ JobNotNeeded(s)
          PROVE  stored' = stored
        BY <2>4 DEF SubmitTurn, TurnOpens, AbortTurn, BeforeStep, TurnCloses, CompactionRuns,
                    QueueDropsAborted, CancelCompaction, JobStarts, JobNotNeeded
    <2>5. ASSUME NEW r \in Req, CallerAborts(r) \/ \E s \in Shared : Compact(s, r)
          PROVE  stored' = stored
        BY <2>5 DEF CallerAborts, Compact
    <2>6. CASE UNCHANGED vars \/ Shutdown
        BY <2>6 DEF vars, Shutdown
    <2>7. ASSUME NEW j \in jobs, JobFails(j) PROVE stored' = stored
        BY <2>7 DEF JobFails
    <2>8. Shared \subseteq Session
        BY BoundsAssumption
    <2> QED BY <1>1, <2>1, <2>2, <2>3, <2>4, <2>5, <2>6, <2>7, <2>8 DEF Next
<1>2. CompInv /\ [Next]_vars =>
        [stopped /\ <<jobs, op>>' # <<jobs, op>> => stored' = stored]_vars
    BY <1>1
<1> QED BY <1>2, CompInvariant, PTL DEF Spec, StoppedWritesNothing
==============================================================================
