------------------------ MODULE TurnController_proofs ------------------------
(***************************************************************************)
(* Proofs about TurnController for every set of sessions and submissions:  *)
(* its type, the safety invariants the run MCTurnController checks, and    *)
(* that it implements SessionLock.  The inductive invariant says what the  *)
(* chain of promises is: per session a line ordered by arrival, each       *)
(* submission waiting for its direct predecessor, whose released           *)
(* submissions form a prefix.                                              *)
(***************************************************************************)
EXTENDS TurnController, TLAPS

\* A submission has a ticket from its enqueue() on.
HasTicket(s) == ticket[s] # 0

\* Tickets: who has one, and that no two are equal.
TicketInv ==
    /\ \A s \in Sub : HasTicket(s) <=> pc[s] \notin {"new", "rejected"}
    /\ \A s \in Sub : ticket[s] < clock
    /\ \A s, t \in Sub : HasTicket(s) /\ ticket[s] = ticket[t] => s = t

\* The released promises are those of the calls that are over, and with
\* a submission at the front (or released) all earlier ones are released.
PrefixInv ==
    /\ \A s \in Sub : s \in released <=> pc[s] \in {"done", "dropped"}
    /\ \A s, u \in Sub :
        /\ Earlier(u, s)
        /\ s \in released \/ pc[s] \in {"front", "running"}
        => u \in released

\* What a submission waits for: its direct predecessor, or nothing when
\* everything before it was over when it arrived.
PrevInv ==
    \A s \in Sub : HasTicket(s) =>
        /\ prev[s] # None =>
            /\ Earlier(prev[s], s)
            /\ \A u \in Sub : Earlier(u, s) => u = prev[s] \/ Earlier(u, prev[s])
        /\ prev[s] = None => \A u \in Sub : Earlier(u, s) => u \in released

\* What the map entry is: the last arrival, still unreleased; no entry
\* means that everything on the session is released.
TailInv ==
    \A x \in Session :
        /\ queues[x] # None =>
            /\ SessionOf[queues[x]] = x
            /\ HasTicket(queues[x])
            /\ queues[x] \notin released
            /\ \A u \in Sub : SessionOf[u] = x /\ HasTicket(u)
                => u = queues[x] \/ Earlier(u, queues[x])
        /\ queues[x] = None =>
            \A u \in Sub : SessionOf[u] = x /\ HasTicket(u) => u \in released

BusyInv ==
    \A x \in Session :
        x \in busy <=> \E s \in Sub : SessionOf[s] = x /\ pc[s] = "running"

ChainInv ==
    /\ TypeOK
    /\ TicketInv
    /\ PrefixInv
    /\ PrevInv
    /\ TailInv
    /\ BusyInv
    /\ HookBelongsToRunner

-----------------------------------------------------------------------------
\* Submissions on one session that have arrived are ordered by arrival.
LEMMA EarlierTotal ==
    ASSUME TypeOK, TicketInv, NEW s \in Sub, NEW t \in Sub, s # t,
           HasTicket(s), HasTicket(t), SessionOf[s] = SessionOf[t]
    PROVE  Earlier(s, t) \/ Earlier(t, s)
BY DEF TypeOK, TicketInv, HasTicket, Earlier

\* Once its predecessor has settled, everything ahead of a submission has:
\* the reason why waiting for one promise is enough.
LEMMA SettledPrefix ==
    ASSUME ChainInv, NEW s \in Sub, HasTicket(s), PreviousSettled(s)
    PROVE  \A u \in Sub : Earlier(u, s) => u \in released
<1>1. CASE prev[s] = None
    BY <1>1 DEF ChainInv, PrevInv
<1>2. CASE prev[s] # None
    <2>1. prev[s] \in Sub /\ prev[s] \in released
        BY <1>2 DEF ChainInv, TypeOK, PreviousSettled
    <2>2. \A u \in Sub : Earlier(u, s) => u = prev[s] \/ Earlier(u, prev[s])
        BY <1>2 DEF ChainInv, PrevInv
    <2>3. \A u \in Sub : Earlier(u, prev[s]) => u \in released
        BY <2>1 DEF ChainInv, PrefixInv
    <2> QED BY <2>1, <2>2, <2>3
<1> QED BY <1>1, <1>2

\* Two submissions of one session are never both past the wait.
LEMMA OneAtFront ==
    ASSUME ChainInv, NEW s \in Sub, NEW t \in Sub, SessionOf[s] = SessionOf[t],
           pc[s] \in {"front", "running"}, pc[t] \in {"front", "running"}
    PROVE  s = t
<1> SUFFICES ASSUME s # t PROVE FALSE
    OBVIOUS
<1>1. HasTicket(s) /\ HasTicket(t)
    BY DEF ChainInv, TicketInv
<1>2. Earlier(s, t) \/ Earlier(t, s)
    BY <1>1, EarlierTotal DEF ChainInv
<1>3. s \notin released /\ t \notin released
    BY DEF ChainInv, PrefixInv
<1> QED BY <1>2, <1>3 DEF ChainInv, PrefixInv

\* The order of arrival is settled by the tickets alone.
LEMMA EarlierStable ==
    ASSUME UNCHANGED ticket, NEW s, NEW u
    PROVE  Earlier(u, s)' <=> Earlier(u, s)
BY DEF Earlier

LEMMA InitChain == Init => ChainInv
<1> SUFFICES ASSUME Init PROVE ChainInv
    OBVIOUS
<1> USE DEF Init
<1>1. TypeOK
    BY SessionOfType DEF TypeOK, Stage
<1>2. TicketInv
    BY DEF TicketInv, HasTicket
<1>3. PrefixInv
    BY DEF PrefixInv, Earlier
<1>4. PrevInv /\ TailInv
    BY DEF PrevInv, TailInv, HasTicket, Earlier
<1>5. BusyInv /\ HookBelongsToRunner
    BY DEF BusyInv, HookBelongsToRunner
<1> QED BY <1>1, <1>2, <1>3, <1>4, <1>5 DEF ChainInv

\* enqueue(): the newcomer is last in the line of its session.
LEMMA EnqueueChain ==
    ASSUME ChainInv, NEW s \in Sub, Enqueue(s)
    PROVE  ChainInv'
<1> DEFINE x == SessionOf[s]
<1> USE SessionOfType, NoneIsNoSub
<1>0. x \in Session /\ pc[s] = "new" /\ ~HasTicket(s) /\ s \notin released
    BY DEF ChainInv, Enqueue, TicketInv, PrefixInv
<1>1. TypeOK'
    <2>1. TypeOK
        BY DEF ChainInv
    <2>2. clock' \in Nat \ {0} /\ ticket' \in [Sub -> Nat]
        BY <2>1 DEF TypeOK, Enqueue
    <2>3. pc' \in [Sub -> Stage]
        BY <2>1 DEF TypeOK, Enqueue, Stage
    <2>4. queues' \in [Session -> Sub \cup {None}] /\ prev' \in [Sub -> Sub \cup {None}]
        BY <2>1, <1>0 DEF TypeOK, Enqueue
    <2> QED BY <2>1, <2>2, <2>3, <2>4 DEF TypeOK, Enqueue
<1>2. TicketInv'
    BY DEF ChainInv, TypeOK, TicketInv, HasTicket, Enqueue
<1>3. /\ \A u, t \in Sub : t # s => (Earlier(u, t)' <=> Earlier(u, t))
      /\ \A u \in Sub : Earlier(u, s)' <=> (SessionOf[u] = x /\ HasTicket(u))
    BY <1>0 DEF ChainInv, TypeOK, TicketInv, HasTicket, Enqueue, Earlier
<1>4. PrefixInv'
    BY <1>0, <1>3 DEF ChainInv, TypeOK, PrefixInv, Enqueue
<1>5. PrevInv'
    <2> SUFFICES ASSUME NEW t \in Sub, HasTicket(t)'
                 PROVE  /\ prev'[t] # None =>
                            /\ Earlier(prev[t], t)'
                            /\ \A u \in Sub : Earlier(u, t)' =>
                                u = prev'[t] \/ Earlier(u, prev[t])'
                        /\ prev'[t] = None =>
                            \A u \in Sub : Earlier(u, t)' => u \in released'
        BY DEF PrevInv
    <2>1. CASE t = s
        <3>1. prev'[s] = queues[x] /\ released' = released
            BY DEF ChainInv, TypeOK, Enqueue
        <3>2. CASE queues[x] = None
            BY <2>1, <3>1, <3>2, <1>0, <1>3 DEF ChainInv, TailInv
        <3>3. CASE queues[x] # None
            <4>1. queues[x] \in Sub /\ queues[x] # s
                BY <3>3, <1>0 DEF ChainInv, TypeOK, TailInv
            <4> QED BY <2>1, <3>1, <3>3, <4>1, <1>0, <1>3 DEF ChainInv, TailInv
        <3> QED BY <3>2, <3>3
    <2>2. CASE t # s
        <3>1. HasTicket(t) /\ prev'[t] = prev[t] /\ released' = released
            BY <2>2 DEF ChainInv, TypeOK, Enqueue, HasTicket
        <3>2. CASE prev[t] = None
            BY <2>2, <3>1, <3>2, <1>3 DEF ChainInv, PrevInv
        <3>3. CASE prev[t] # None
            <4>1. prev[t] \in Sub /\ prev[t] # s
                BY <3>1, <3>3, <1>0 DEF ChainInv, TypeOK, PrevInv, Earlier, HasTicket
            <4> QED BY <2>2, <3>1, <3>3, <4>1, <1>3 DEF ChainInv, PrevInv
        <3> QED BY <3>2, <3>3
    <2> QED BY <2>1, <2>2
<1>6. TailInv'
    <2> SUFFICES ASSUME NEW y \in Session
                 PROVE  /\ queues'[y] # None =>
                            /\ SessionOf[queues'[y]] = y
                            /\ HasTicket(queues[y])'
                            /\ queues'[y] \notin released'
                            /\ \A u \in Sub : SessionOf[u] = y /\ HasTicket(u)'
                                => u = queues'[y] \/ Earlier(u, queues[y])'
                        /\ queues'[y] = None =>
                            \A u \in Sub : SessionOf[u] = y /\ HasTicket(u)'
                                => u \in released'
        BY DEF TailInv
    <2>0. released' = released
        BY DEF Enqueue
    <2>1. CASE y = x
        <3>1. queues'[y] = s
            BY <2>1, <1>0 DEF ChainInv, TypeOK, Enqueue
        <3>2. HasTicket(s)'
            BY DEF ChainInv, TypeOK, Enqueue, HasTicket
        <3>3. \A u \in Sub : u # s /\ HasTicket(u)' => HasTicket(u)
            BY DEF ChainInv, TypeOK, Enqueue, HasTicket
        <3> QED BY <2>0, <2>1, <3>1, <3>2, <3>3, <1>0, <1>3
    <2>2. CASE y # x
        <3>1. queues'[y] = queues[y]
            BY <2>2, <1>0 DEF ChainInv, TypeOK, Enqueue
        <3>2. \A u \in Sub : SessionOf[u] = y => u # s
            BY <2>2
        <3>3. \A u \in Sub : u # s => (HasTicket(u)' <=> HasTicket(u))
            BY DEF ChainInv, TypeOK, Enqueue, HasTicket
        <3>4. queues[y] \in Sub \cup {None}
            BY DEF ChainInv, TypeOK
        <3> HIDE DEF x
        <3>5. CASE queues[y] = None
            BY <2>0, <3>1, <3>2, <3>3, <3>5 DEF ChainInv, TailInv
        <3>6. CASE queues[y] # None
            BY <2>0, <3>1, <3>2, <3>3, <3>4, <3>6, <1>3 DEF ChainInv, TailInv
        <3> QED BY <3>5, <3>6
    <2> QED BY <2>1, <2>2
<1>7. BusyInv'
    BY <1>0 DEF ChainInv, TypeOK, BusyInv, Enqueue
<1>8. HookBelongsToRunner'
    BY <1>0 DEF ChainInv, TypeOK, HookBelongsToRunner, Enqueue
<1> QED BY <1>1, <1>2, <1>4, <1>5, <1>6, <1>7, <1>8 DEF ChainInv

\* A step that leaves the chain alone keeps what is said of the chain only.
LEMMA LinksUnchanged ==
    ASSUME PrevInv, TailInv, UNCHANGED <<queues, prev, released, ticket>>
    PROVE  PrevInv' /\ TailInv'
BY DEF PrevInv, TailInv, HasTicket, Earlier

\* enqueue() with an aborted signal: no place in the line.
LEMMA RejectChain ==
    ASSUME ChainInv, NEW s \in Sub, RejectAborted(s)
    PROVE  ChainInv'
<1> USE DEF RejectAborted
<1>1. TypeOK'
    BY DEF ChainInv, TypeOK, Stage
<1>2. TicketInv'
    BY DEF ChainInv, TypeOK, TicketInv, HasTicket
<1>3. PrefixInv'
    BY DEF ChainInv, TypeOK, PrefixInv, Earlier
<1>4. PrevInv' /\ TailInv'
    BY LinksUnchanged DEF ChainInv
<1>5. BusyInv' /\ HookBelongsToRunner'
    BY DEF ChainInv, TypeOK, BusyInv, HookBelongsToRunner
<1> QED BY <1>1, <1>2, <1>3, <1>4, <1>5 DEF ChainInv

\* A cancelled waiter keeps its place.
LEMMA AbortChain ==
    ASSUME ChainInv, NEW s \in Sub, Abort(s)
    PROVE  ChainInv'
<1> USE DEF Abort
<1>1. TypeOK'
    BY DEF ChainInv, TypeOK, Stage
<1>2. TicketInv'
    BY DEF ChainInv, TypeOK, TicketInv, HasTicket
<1>3. PrefixInv'
    BY DEF ChainInv, TypeOK, PrefixInv, Earlier
<1>4. PrevInv' /\ TailInv'
    BY LinksUnchanged DEF ChainInv
<1>5. BusyInv' /\ HookBelongsToRunner'
    BY DEF ChainInv, TypeOK, BusyInv, HookBelongsToRunner
<1> QED BY <1>1, <1>2, <1>3, <1>4, <1>5 DEF ChainInv

\* The wait resolves: by SettledPrefix everything ahead is over.
LEMMA WakeChain ==
    ASSUME ChainInv, NEW s \in Sub, Wake(s)
    PROVE  ChainInv'
<1> USE DEF Wake
<1>1. TypeOK'
    BY DEF ChainInv, TypeOK, Stage
<1>2. TicketInv'
    BY DEF ChainInv, TypeOK, TicketInv, HasTicket
<1>3. PrefixInv'
    <2>1. \A u \in Sub : Earlier(u, s) => u \in released
        BY SettledPrefix DEF ChainInv, TicketInv
    <2>2. \A u, t \in Sub : Earlier(u, t)' <=> Earlier(u, t)
        BY EarlierStable
    <2> QED BY <2>1, <2>2 DEF ChainInv, TypeOK, PrefixInv
<1>4. PrevInv' /\ TailInv'
    BY LinksUnchanged DEF ChainInv
<1>5. BusyInv' /\ HookBelongsToRunner'
    BY DEF ChainInv, TypeOK, BusyInv, HookBelongsToRunner
<1> QED BY <1>1, <1>2, <1>3, <1>4, <1>5 DEF ChainInv

\* The body starts: by OneAtFront no other body runs on the session, so the
\* hook it replaces is nobody's.
LEMMA StartChain ==
    ASSUME ChainInv, NEW s \in Sub, Start(s)
    PROVE  ChainInv'
<1> USE SessionOfType, NoneIsNoSub DEF Start
<1>1. TypeOK'
    <2>1. SessionOf[s] \in Session
        OBVIOUS
    <2> QED BY <2>1 DEF ChainInv, TypeOK, Stage
<1>2. TicketInv'
    BY DEF ChainInv, TypeOK, TicketInv, HasTicket
<1>3. PrefixInv'
    BY EarlierStable DEF ChainInv, TypeOK, PrefixInv
<1>4. PrevInv' /\ TailInv'
    BY LinksUnchanged DEF ChainInv
<1>5. BusyInv'
    BY DEF ChainInv, TypeOK, BusyInv
<1>6. HookBelongsToRunner'
    <2>1. pc'[s] = "running" /\ \A u \in Sub : u # s => pc'[u] = pc[u]
        BY DEF ChainInv, TypeOK
    <2> SUFFICES ASSUME NEW y \in Session, hooks'[y] # None
                 PROVE  /\ SessionOf[hooks'[y]] = y
                        /\ hooks'[y] \in Hooked
                        /\ pc'[hooks'[y]] = "running"
        BY DEF HookBelongsToRunner
    <2>2. CASE hooks'[y] = hooks[y]
        <3>1. hooks[y] \in Sub /\ pc[hooks[y]] = "running"
            BY <2>2 DEF ChainInv, TypeOK, HookBelongsToRunner
        <3> QED BY <2>1, <2>2, <3>1 DEF ChainInv, HookBelongsToRunner
    <2>3. CASE hooks'[y] # hooks[y]
        <3>1. s \in Hooked /\ y = SessionOf[s] /\ hooks'[y] = s
            BY <2>3 DEF ChainInv, TypeOK
        <3> QED BY <2>1, <3>1
    <2> QED BY <2>2, <2>3
<1> QED BY <1>1, <1>2, <1>3, <1>4, <1>5, <1>6 DEF ChainInv

\* settle(): when everything ahead of s is released, releasing s keeps the
\* released prefix a prefix, and the map entry may go if s was the tail.
LEMMA SettleChain ==
    ASSUME ChainInv, NEW s \in Sub, HasTicket(s), Settle(s),
           \A u \in Sub : Earlier(u, s) => u \in released,
           UNCHANGED <<prev, ticket>>
    PROVE  /\ \A t, u \in Sub : t \in released' /\ Earlier(u, t)' => u \in released'
           /\ PrevInv'
           /\ TailInv'
<1> USE SessionOfType, NoneIsNoSub
<1>0. \A u, t : Earlier(u, t)' <=> Earlier(u, t)
    BY EarlierStable
<1>1. released' = released \cup {s}
    BY DEF Settle
<1>2. \A t, u \in Sub : t \in released' /\ Earlier(u, t)' => u \in released'
    BY <1>0, <1>1 DEF ChainInv, PrefixInv
<1>3. PrevInv'
    BY <1>0, <1>1 DEF ChainInv, PrevInv, HasTicket
<1>4. TailInv'
    <2> SUFFICES ASSUME NEW y \in Session
                 PROVE  /\ queues'[y] # None =>
                            /\ SessionOf[queues'[y]] = y
                            /\ HasTicket(queues[y])'
                            /\ queues'[y] \notin released'
                            /\ \A u \in Sub : SessionOf[u] = y /\ HasTicket(u)'
                                => u = queues'[y] \/ Earlier(u, queues[y])'
                        /\ queues'[y] = None =>
                            \A u \in Sub : SessionOf[u] = y /\ HasTicket(u)'
                                => u \in released'
        BY DEF TailInv
    <2>0. \A u : HasTicket(u)' <=> ticket[u] # 0
        BY DEF HasTicket
    <2>1. CASE queues[y] = s
        <3>1. y = SessionOf[s] /\ queues'[y] = None
            BY <2>1 DEF ChainInv, TypeOK, TailInv, Settle
        <3>2. \A u \in Sub : SessionOf[u] = y /\ HasTicket(u)
                    => u = s \/ Earlier(u, s)
            BY <2>1 DEF ChainInv, TailInv
        <3> QED BY <3>1, <3>2, <2>0, <1>1 DEF HasTicket
    <2>2. CASE queues[y] # s
        <3>1. queues'[y] = queues[y]
            BY <2>2 DEF ChainInv, TypeOK, Settle
        <3>2. HasTicket(queues[y])' <=> HasTicket(queues[y])
            BY <3>1 DEF HasTicket
        <3> QED BY <2>2, <2>0, <3>1, <3>2, <1>0, <1>1 DEF ChainInv, TailInv, HasTicket
    <2> QED BY <2>1, <2>2
<1> QED BY <1>2, <1>3, <1>4

\* run() returned or threw.
LEMMA FinishChain ==
    ASSUME ChainInv, NEW s \in Sub, Finish(s)
    PROVE  ChainInv'
<1> USE SessionOfType, NoneIsNoSub
<1>0. /\ pc[s] = "running" /\ HasTicket(s)
      /\ \A u \in Sub : Earlier(u, s) => u \in released
      /\ released' = released \cup {s}
      /\ pc'[s] = "done" /\ \A u \in Sub : u # s => pc'[u] = pc[u]
      /\ SessionOf[s] \in Session
    BY DEF ChainInv, TypeOK, TicketInv, PrefixInv, Finish, Settle
<1>1. TypeOK'
    BY <1>0 DEF ChainInv, TypeOK, Stage, Finish, Settle
<1>2. TicketInv'
    BY DEF ChainInv, TypeOK, TicketInv, HasTicket, Finish
<1>3. /\ \A t, u \in Sub : t \in released' /\ Earlier(u, t)' => u \in released'
      /\ PrevInv' /\ TailInv'
    BY <1>0, SettleChain DEF Finish
<1>4. PrefixInv'
    <2>1. \A u, t \in Sub : Earlier(u, t)' <=> Earlier(u, t)
        BY EarlierStable DEF Finish
    <2> QED BY <1>0, <1>3, <2>1 DEF ChainInv, PrefixInv
<1>5. \A t \in Sub : SessionOf[t] = SessionOf[s] /\ pc[t] = "running" => t = s
    BY <1>0, OneAtFront
<1>6. BusyInv'
    BY <1>0, <1>5 DEF ChainInv, BusyInv, Finish
<1>7. HookBelongsToRunner'
    <2> SUFFICES ASSUME NEW y \in Session, hooks'[y] # None
                 PROVE  /\ SessionOf[hooks'[y]] = y
                        /\ hooks'[y] \in Hooked
                        /\ pc'[hooks'[y]] = "running"
        BY DEF HookBelongsToRunner
    <2>1. hooks'[y] = hooks[y] /\ (s \in Hooked => y # SessionOf[s])
        BY DEF ChainInv, TypeOK, Finish
    <2>2. /\ hooks[y] \in Sub /\ hooks[y] \in Hooked
          /\ SessionOf[hooks[y]] = y /\ pc[hooks[y]] = "running"
        BY <2>1 DEF ChainInv, TypeOK, HookBelongsToRunner
    <2>3. hooks[y] # s
        BY <2>1, <2>2
    <2> QED BY <1>0, <2>1, <2>2, <2>3
<1> QED BY <1>1, <1>2, <1>3, <1>4, <1>6, <1>7 DEF ChainInv

\* A cancelled waiter settles after its predecessor.
LEMMA DropChain ==
    ASSUME ChainInv, NEW s \in Sub, DropCancelled(s)
    PROVE  ChainInv'
<1> USE SessionOfType, NoneIsNoSub
<1>0. /\ pc[s] = "cancelled" /\ HasTicket(s) /\ PreviousSettled(s)
      /\ released' = released \cup {s}
      /\ pc'[s] = "dropped" /\ \A u \in Sub : u # s => pc'[u] = pc[u]
      /\ SessionOf[s] \in Session
    BY DEF ChainInv, TypeOK, TicketInv, DropCancelled, Settle
<1>00. \A u \in Sub : Earlier(u, s) => u \in released
    BY <1>0, SettledPrefix
<1>1. TypeOK'
    BY <1>0 DEF ChainInv, TypeOK, Stage, DropCancelled, Settle
<1>2. TicketInv'
    BY DEF ChainInv, TypeOK, TicketInv, HasTicket, DropCancelled
<1>3. /\ \A t, u \in Sub : t \in released' /\ Earlier(u, t)' => u \in released'
      /\ PrevInv' /\ TailInv'
    BY <1>0, <1>00, SettleChain DEF DropCancelled
<1>4. PrefixInv'
    <2>1. \A u, t \in Sub : Earlier(u, t)' <=> Earlier(u, t)
        BY EarlierStable DEF DropCancelled
    <2> QED BY <1>0, <1>3, <2>1 DEF ChainInv, PrefixInv
<1>5. BusyInv'
    BY <1>0 DEF ChainInv, BusyInv, DropCancelled
<1>6. HookBelongsToRunner'
    BY <1>0 DEF ChainInv, TypeOK, HookBelongsToRunner, DropCancelled
<1> QED BY <1>1, <1>2, <1>3, <1>4, <1>5, <1>6 DEF ChainInv

\* emit() only reads the map of hooks.
LEMMA EmitChain ==
    ASSUME ChainInv, NEW s \in Sub, Emit(s)
    PROVE  ChainInv'
<1> USE SessionOfType, NoneIsNoSub DEF Emit
<1>1. TypeOK'
    <2>1. stray' \subseteq Sub \X Sub
        BY DEF ChainInv, TypeOK
    <2> QED BY <2>1 DEF ChainInv, TypeOK
<1>2. TicketInv' /\ PrefixInv'
    BY DEF ChainInv, TicketInv, HasTicket, PrefixInv, Earlier
<1>3. PrevInv' /\ TailInv'
    BY LinksUnchanged DEF ChainInv
<1>4. BusyInv' /\ HookBelongsToRunner'
    BY DEF ChainInv, BusyInv, HookBelongsToRunner
<1> QED BY <1>1, <1>2, <1>3, <1>4 DEF ChainInv

\* No step breaks the chain.
LEMMA NextChain == ChainInv /\ [Next]_vars => ChainInv'
<1> SUFFICES ASSUME ChainInv, [Next]_vars PROVE ChainInv'
    OBVIOUS
<1>1. CASE UNCHANGED vars
    <2> USE <1>1 DEF vars
    <2>1. TypeOK' /\ TicketInv' /\ PrefixInv'
        BY DEF ChainInv, TypeOK, TicketInv, HasTicket, PrefixInv, Earlier
    <2>2. PrevInv' /\ TailInv'
        BY LinksUnchanged DEF ChainInv
    <2>3. BusyInv' /\ HookBelongsToRunner'
        BY DEF ChainInv, BusyInv, HookBelongsToRunner
    <2> QED BY <2>1, <2>2, <2>3 DEF ChainInv
<1>2. ASSUME NEW s \in Sub,
             \/ Enqueue(s) \/ RejectAborted(s) \/ Abort(s) \/ Wake(s)
             \/ Start(s) \/ Finish(s) \/ DropCancelled(s)
             \/ EmitInTurn(s) \/ EmitLate(s)
      PROVE  ChainInv'
    BY <1>2, EnqueueChain, RejectChain, AbortChain, WakeChain, StartChain,
       FinishChain, DropChain, EmitChain DEF EmitInTurn, EmitLate
<1> QED BY <1>1, <1>2 DEF Next

\* The inductive invariant holds in every reachable state.
THEOREM ChainInvariant == Spec => []ChainInv
BY InitChain, NextChain, PTL DEF Spec

\* Every variable of the controller keeps its type.
THEOREM TypeCorrect == Spec => []TypeOK
<1>1. ChainInv => TypeOK
    BY DEF ChainInv
<1> QED BY <1>1, ChainInvariant, PTL

\* At most one run() per session, and isBusy() tells the truth about it.
THEOREM MutualExclusionHolds == Spec => []MutualExclusion
<1>1. ChainInv => MutualExclusion
    BY OneAtFront DEF MutualExclusion, BusyInv, ChainInv
<1> QED BY <1>1, ChainInvariant, PTL

\* Submissions of a session start in the order they were enqueued.
THEOREM FifoOrderHolds == Spec => []FifoOrder
<1>1. ChainInv => FifoOrder
    BY DEF ChainInv, FifoOrder, PrefixInv
<1> QED BY <1>1, ChainInvariant, PTL

\* The installed hook is the running submission's.
THEOREM HookIsolation == Spec => []HookBelongsToRunner
<1>1. ChainInv => HookBelongsToRunner
    BY DEF ChainInv
<1> QED BY <1>1, ChainInvariant, PTL

\* The queue entry of a session is collected only when it is idle.
THEOREM SafeCollection == Spec => []NoEntryMeansIdle
<1>1. ASSUME ChainInv PROVE NoEntryMeansIdle
    <2> SUFFICES ASSUME NEW s \in Sub, queues[SessionOf[s]] = None
                 PROVE  pc[s] \in {"new", "rejected", "done", "dropped"}
        BY DEF NoEntryMeansIdle
    <2>1. HasTicket(s) => s \in released
        BY <1>1, SessionOfType DEF ChainInv, TailInv
    <2> QED BY <1>1, <2>1 DEF ChainInv, TicketInv, PrefixInv
<1> QED BY <1>1, ChainInvariant, PTL

-----------------------------------------------------------------------------
\* The promise chain starts where the abstract lock starts.
LEMMA InitRefines == Init => Lock!LockInit
BY DEF Init, Lock!LockInit, LockStage

\* Every step of the controller is a step of the lock or invisible to it.
LEMMA NextRefines == ChainInv /\ [Next]_vars => [Lock!LockNext]_(Lock!lockVars)
<1> SUFFICES ASSUME ChainInv, [Next]_vars
             PROVE  [Lock!LockNext]_(Lock!lockVars)
    OBVIOUS
<1>0. pc \in [Sub -> Stage]
    BY DEF ChainInv, TypeOK
<1>1. CASE UNCHANGED vars
    BY <1>1 DEF vars, LockStage, Lock!lockVars
<1>2. ASSUME NEW s \in Sub, Enqueue(s) PROVE Lock!Arrive(s)
    BY <1>0, <1>2 DEF Enqueue, Lock!Arrive, LockStage
<1>3. ASSUME NEW s \in Sub, RejectAborted(s) PROVE Lock!TurnAway(s)
    BY <1>0, <1>3 DEF RejectAborted, Lock!TurnAway, LockStage
<1>4. ASSUME NEW s \in Sub, Abort(s)
      PROVE  Lock!GiveUp(s) \/ UNCHANGED Lock!lockVars
    BY <1>0, <1>4 DEF Abort, Lock!GiveUp, Lock!lockVars, LockStage
<1>5. ASSUME NEW s \in Sub, Wake(s) PROVE UNCHANGED Lock!lockVars
    BY <1>0, <1>5 DEF Wake, Lock!lockVars, LockStage
<1>6. ASSUME NEW s \in Sub, Start(s) PROVE Lock!Own(s)
    <2>1. \A u \in Sub : Lock!Ahead(u, s) => LockStage[u] = "gone"
        BY <1>6 DEF ChainInv, PrefixInv, Start, Lock!Ahead, Earlier, LockStage
    <2> QED BY <1>0, <1>6, <2>1 DEF Start, Lock!Own, LockStage
<1>7. ASSUME NEW s \in Sub, Finish(s) PROVE Lock!Leave(s)
    BY <1>0, <1>7 DEF Finish, Lock!Leave, LockStage
<1>8. ASSUME NEW s \in Sub, DropCancelled(s) PROVE UNCHANGED Lock!lockVars
    BY <1>0, <1>8 DEF DropCancelled, Lock!lockVars, LockStage
<1>9. ASSUME NEW s \in Sub, Emit(s) PROVE UNCHANGED Lock!lockVars
    BY <1>9 DEF Emit, Lock!lockVars, LockStage
<1> QED BY <1>1, <1>2, <1>3, <1>4, <1>5, <1>6, <1>7, <1>8, <1>9
        DEF Next, Lock!LockNext, EmitInTurn, EmitLate

\* TurnController implements the abstract per-session FIFO lock.
THEOREM Refinement == Spec => ImplementsSessionLock
<1>1. Init => Lock!LockInit
    BY InitRefines
<1>2. ChainInv /\ [Next]_vars => [Lock!LockNext]_(Lock!lockVars)
    BY NextRefines
<1> QED BY <1>1, <1>2, ChainInvariant, PTL
        DEF Spec, ImplementsSessionLock, Lock!LockSpec
=============================================================================
