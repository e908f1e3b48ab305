----------------------------- MODULE SessionLock -----------------------------
(***************************************************************************)
(* What TurnController promises its callers, without saying how: every     *)
(* session has one lock, submissions own it one at a time and in the order *)
(* they arrived, and a submission that is still waiting may give up.       *)
(* TurnController (the promise chain) is shown to implement this.          *)
(***************************************************************************)
EXTENDS Naturals

CONSTANTS Sub,        \* submissions
          SessionOf   \* the session each submission is for

VARIABLES stage,      \* "idle", "waiting", "owning" or "gone"
          ticket,     \* arrival number of a submission, 0 before it arrives
          clock       \* the next arrival number

lockVars == <<stage, ticket, clock>>

\* u arrived before s on the session of s.
Ahead(u, s) ==
    /\ SessionOf[u] = SessionOf[s]
    /\ ticket[u] # 0
    /\ ticket[u] < ticket[s]

LockInit ==
    /\ stage = [s \in Sub |-> "idle"]
    /\ ticket = [s \in Sub |-> 0]
    /\ clock = 1

Arrive(s) ==
    /\ stage[s] = "idle"
    /\ stage' = [stage EXCEPT ![s] = "waiting"]
    /\ ticket' = [ticket EXCEPT ![s] = clock]
    /\ clock' = clock + 1

\* Refused at the door: never takes a place in the line.
TurnAway(s) ==
    /\ stage[s] = "idle"
    /\ stage' = [stage EXCEPT ![s] = "gone"]
    /\ UNCHANGED <<ticket, clock>>

Own(s) ==
    /\ stage[s] = "waiting"
    /\ \A u \in Sub : Ahead(u, s) => stage[u] = "gone"
    /\ stage' = [stage EXCEPT ![s] = "owning"]
    /\ UNCHANGED <<ticket, clock>>

Leave(s) ==
    /\ stage[s] = "owning"
    /\ stage' = [stage EXCEPT ![s] = "gone"]
    /\ UNCHANGED <<ticket, clock>>

GiveUp(s) ==
    /\ stage[s] = "waiting"
    /\ stage' = [stage EXCEPT ![s] = "gone"]
    /\ UNCHANGED <<ticket, clock>>

LockNext ==
    \E s \in Sub :
        Arrive(s) \/ TurnAway(s) \/ Own(s) \/ Leave(s) \/ GiveUp(s)

LockSpec == LockInit /\ [][LockNext]_lockVars
=============================================================================
