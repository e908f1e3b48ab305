------------------------- MODULE SessionStore_proofs -------------------------
(***************************************************************************)
(* Proofs about SessionStore for any processes, turns, renames and         *)
(* restarts.  The properties are about single steps, but hold only from    *)
(* states the store can reach: a mark in the row is never younger than the *)
(* process it names, the mark of a live process is the one that process    *)
(* remembers, a stamp of the operator never stands on an empty title, and  *)
(* a finishing write ends the turn.                                        *)
(***************************************************************************)
EXTENDS SessionStore, TLAPS

\* A state in which a stamp comes with a title.
Stamped == {st \in State : st.userAt # 0 => st.title # "none"}

Marks == Mark \cup {NoMark}

\* A row that is gone has no mark.
StoredRow == {r \in [exists : BOOLEAN, state : Stamped, owner : Marks] :
                 ~r.exists => r.owner = NoMark}

Write == [kind : {"none", "save", "finish"}, next : Stamped, stored : Stamped,
          existed : BOOLEAN, marked : BOOLEAN]

\* A finishing write ends the turn.
Writes == {o \in Write : o.kind = "finish" => o.next.status = "ended"}

RowInv == row \in StoredRow

CopyInv ==
    /\ turnCopy \in [Proc -> Stamped \cup {NoCopy}]
    /\ copy \in [Proc -> Stamped \cup {NoCopy}]

OpInv == op \in [Proc -> Writes]

ProcInv ==
    /\ up \in [Proc -> {"down", "up", "closing"}]
    /\ inc \in [Proc -> Nat]
    /\ own \in [Proc -> Marks]
    /\ turn \in [Proc -> BOOLEAN]
    /\ naming \in [Proc -> BOOLEAN]
    /\ turnsNo \in 0..MaxTurns
    /\ renames \in 0..MaxRenames
    /\ \A p \in Proc : up[p] # "down" => inc[p] # 0

\* The mark m of the row names no later start of its process than the last one.
MarkNotYounger == row.owner # NoMark => row.owner.inc <= inc[row.owner.pid]

\* A process remembers its own marks only.
OwnIsMine == \A p \in Proc : own[p] # NoMark => own[p].pid = p

\* What the row says of a process that is up is what that process remembers.
LiveMarkIsOwn ==
    \A p \in Proc :
        up[p] # "down" /\ row.owner # NoMark /\ row.owner.pid = p /\ row.owner.inc = inc[p]
            => row.owner = own[p]

MarkInv == MarkNotYounger /\ OwnIsMine /\ LiveMarkIsOwn

StoreInv == RowInv /\ CopyInv /\ OpInv /\ ProcInv /\ MarkInv

-----------------------------------------------------------------------------
(* States, writes and rows. *)

LEMMA ConstantShapes ==
    /\ NoState \in Stamped /\ NoMark \in Marks /\ NoCopy.status \notin Status
    /\ NoOp \in Writes
<1>0. 0 \in 0..MaxRenames
    BY BoundsType
<1>1. NoState \in Stamped
    BY <1>0 DEF NoState, Stamped, State, Status, Titles
<1>2. NoMark \in Marks
    BY DEF Marks
<1>3. NoCopy.status \notin Status
    BY DEF NoCopy, Status
<1>4. NoOp \in Writes
    BY <1>1 DEF NoOp, Writes, Write
<1> QED BY <1>1, <1>2, <1>3, <1>4

\* A new status leaves the title and its stamp alone.
LEMMA WithStatus ==
    ASSUME NEW st \in Stamped \cup {NoCopy}, NEW x \in Status
    PROVE  /\ [st EXCEPT !.status = x] \in Stamped
           /\ [st EXCEPT !.status = x].status = x
           /\ [st EXCEPT !.status = x].userAt = st.userAt
<1>1. CASE st \in Stamped
    BY <1>1 DEF Stamped, State
<1>2. CASE st = NoCopy
    BY <1>2, BoundsType DEF NoCopy, Stamped, State, Titles
<1> QED BY <1>1, <1>2

LEMMA WithUserTitle ==
    ASSUME NEW st \in Stamped, NEW n \in 0..MaxRenames
    PROVE  [st EXCEPT !.title = "user", !.userAt = n] \in Stamped
BY DEF Stamped, State, Titles

LEMMA WithAutoTitle ==
    ASSUME NEW st \in Stamped
    PROVE  [st EXCEPT !.title = "auto"] \in Stamped
BY DEF Stamped, State, Titles

\* write(): the state to write keeps the operator's stamp.
LEMMA KeepTitleKeeps ==
    ASSUME NEW next \in Stamped, NEW stored \in Stamped
    PROVE  /\ KeepTitle(next, stored) \in Stamped
           /\ KeepTitle(next, stored).userAt >= stored.userAt
<1>0. /\ next \in State /\ stored \in State
      /\ next.userAt \in 0..MaxRenames /\ stored.userAt \in 0..MaxRenames
      /\ next.title \in Titles /\ stored.title \in Titles
      /\ next.userAt # 0 => next.title # "none"
      /\ stored.userAt # 0 => stored.title # "none"
    BY DEF Stamped, State
<1>1. CASE stored.title # "none" /\ stored.userAt # 0 /\ next.userAt < stored.userAt
    <2> DEFINE k == [next EXCEPT !.title = stored.title, !.userAt = stored.userAt]
    <2>1. k \in State /\ k.title = stored.title /\ k.userAt = stored.userAt
        BY <1>0 DEF State
    <2>2. KeepTitle(next, stored) = k
        BY <1>1 DEF KeepTitle
    <2> HIDE DEF k
    <2> QED BY <1>0, <1>1, <2>1, <2>2, BoundsType DEF Stamped
<1>2. CASE /\ ~(stored.title # "none" /\ stored.userAt # 0 /\ next.userAt < stored.userAt)
           /\ stored.title # "none" /\ next.title = "none"
    <2> DEFINE k == [next EXCEPT !.title = stored.title]
    <2>1. k \in State /\ k.title = stored.title /\ k.userAt = next.userAt
        BY <1>0 DEF State
    <2>2. KeepTitle(next, stored) = k
        BY <1>2 DEF KeepTitle
    <2> HIDE DEF k
    <2>3. next.userAt >= stored.userAt
        BY <1>0, <1>2, BoundsType
    <2> QED BY <1>0, <1>2, <2>1, <2>2, <2>3 DEF Stamped
<1>3. CASE /\ ~(stored.title # "none" /\ stored.userAt # 0 /\ next.userAt < stored.userAt)
           /\ ~(stored.title # "none" /\ next.title = "none")
    <2>1. KeepTitle(next, stored) = next
        BY <1>3 DEF KeepTitle
    <2>2. next.userAt >= stored.userAt
        BY <1>0, <1>3, BoundsType
    <2> QED BY <2>1, <2>2
<1> QED BY <1>1, <1>2, <1>3

LEMMA StatusForSaveType ==
    ASSUME NEW next \in Stamped, NEW stored \in Stamped,
           NEW existed \in BOOLEAN, NEW marked \in BOOLEAN
    PROVE  /\ StatusForSave(next, stored, existed, marked) \in Status
           /\ existed /\ marked => StatusForSave(next, stored, existed, marked) = stored.status
           /\ ~(existed /\ marked) => StatusForSave(next, stored, existed, marked) \notin Live
<1>1. next.status \in Status /\ stored.status \in Status
    BY DEF Stamped, State
<1> QED BY <1>1 DEF StatusForSave, Status, Live

\* What write() writes: a state; one that is not live unless it replaces a
\* marked row; and one that is not behind the row it read.
LEMMA WrittenIs ==
    ASSUME NEW o \in Writes
    PROVE  /\ Written(o) \in Stamped
           /\ o.kind = "finish" => Written(o).status \notin Live
           /\ o.kind # "finish" /\ o.existed /\ o.marked => Written(o).status = o.stored.status
           /\ ~(o.existed /\ o.marked) => Written(o).status \notin Live
           /\ o.existed => Written(o).userAt >= o.stored.userAt
<1> DEFINE kept == IF o.existed THEN KeepTitle(o.next, o.stored) ELSE o.next
           x == IF o.kind = "finish" THEN o.next.status
                ELSE StatusForSave(o.next, o.stored, o.existed, o.marked)
<1>0. /\ o.next \in Stamped /\ o.stored \in Stamped
      /\ o.existed \in BOOLEAN /\ o.marked \in BOOLEAN
      /\ o.kind = "finish" => o.next.status = "ended"
    BY DEF Writes, Write
<1>1. kept \in Stamped /\ (o.existed => kept.userAt >= o.stored.userAt)
    BY <1>0, KeepTitleKeeps
<1>2. x \in Status
    BY <1>0, StatusForSaveType DEF Stamped, State
<1>3. /\ o.kind = "finish" => x \notin Live
      /\ o.kind # "finish" /\ o.existed /\ o.marked => x = o.stored.status
      /\ ~(o.existed /\ o.marked) => x \notin Live
    BY <1>0, StatusForSaveType DEF Live
<1>4. Written(o) = [kept EXCEPT !.status = x]
    BY DEF Written
<1> HIDE DEF kept, x
<1>5. /\ Written(o) \in Stamped /\ Written(o).status = x
      /\ Written(o).userAt = kept.userAt
    BY <1>1, <1>2, <1>4, WithStatus
<1> QED BY <1>1, <1>3, <1>5

LEMMA RowFacts ==
    ASSUME RowInv
    PROVE  /\ row.exists \in BOOLEAN /\ row.state \in Stamped /\ row.owner \in Marks
           /\ row.state.status \in Status
           /\ ~row.exists => row.owner = NoMark
           /\ row = [exists |-> row.exists, state |-> row.state, owner |-> row.owner]
<1>1. /\ row \in [exists : BOOLEAN, state : Stamped, owner : Marks]
      /\ ~row.exists => row.owner = NoMark
    BY DEF RowInv, StoredRow
<1> QED BY <1>1 DEF Stamped, State

\* A row whose status is rewritten under a new mark.
LEMMA Remarked ==
    ASSUME RowInv, row.exists, NEW x \in Status, NEW m \in Marks
    PROVE  LET r == [row EXCEPT !.state.status = x, !.owner = m] IN
           /\ r \in StoredRow /\ r.exists
           /\ r.state.status = x /\ r.owner = m /\ r.state.userAt = row.state.userAt
<1> DEFINE st == [row.state EXCEPT !.status = x]
           r == [row EXCEPT !.state.status = x, !.owner = m]
<1>0. row \in [exists : BOOLEAN, state : Stamped, owner : Marks] /\ row.state \in Stamped
    BY DEF RowInv, StoredRow
<1>1. st \in Stamped /\ st.status = x /\ st.userAt = row.state.userAt
    BY <1>0, WithStatus
<1>2. r.exists = row.exists /\ r.state = st /\ r.owner = m
    BY <1>0
<1>3. r \in StoredRow /\ r.exists
    <2>1. r = [[row EXCEPT !.state = st] EXCEPT !.owner = m]
        BY <1>0
    <2> HIDE DEF st, r
    <2>2. r \in [exists : BOOLEAN, state : Stamped, owner : Marks]
        BY <1>0, <1>1, <2>1
    <2> QED BY <1>0, <1>2, <2>2 DEF StoredRow
<1> HIDE DEF st, r
<1>4. r.state.status = x /\ r.owner = m /\ r.state.userAt = row.state.userAt
    BY <1>1, <1>2
<1> QED BY <1>3, <1>4 DEF r

\* releaseOwnTurns(), releaseThrownTurn(): the row, or the row ended under m.
LEMMA EndIfMarkedIs ==
    ASSUME RowInv, NEW m \in Marks, NEW x \in Status, NEW n \in Marks
    PROVE  /\ EndIfMarked(m, x, n) \in StoredRow
           /\ \/ /\ EndIfMarked(m, x, n) = row
                 /\ ~(m # NoMark /\ row.exists /\ row.owner = m)
              \/ /\ m # NoMark /\ row.exists /\ row.owner = m
                 /\ EndIfMarked(m, x, n).exists /\ EndIfMarked(m, x, n).owner = n
                 /\ EndIfMarked(m, x, n).state.status = x
                 /\ EndIfMarked(m, x, n).state.userAt = row.state.userAt
<1>1. CASE m # NoMark /\ row.exists /\ row.owner = m
    BY <1>1, Remarked DEF EndIfMarked
<1>2. CASE ~(m # NoMark /\ row.exists /\ row.owner = m)
    BY <1>2 DEF EndIfMarked, RowInv
<1> QED BY <1>1, <1>2

\* recoverInterruptedTurns(): the row, or the row of a gone owner ended.
LEMMA SweptIs ==
    ASSUME RowInv, NEW p
    PROVE  /\ Swept(p) \in StoredRow
           /\ \/ /\ Swept(p) = row
                 /\ ~(row.exists /\ row.state.status \in Live /\ OwnerGone(row.owner, p))
              \/ /\ row.exists /\ OwnerGone(row.owner, p)
                 /\ Swept(p).exists /\ Swept(p).owner = NoMark
                 /\ Swept(p).state.status = "interrupted"
                 /\ Swept(p).state.userAt = row.state.userAt
<1>0. "interrupted" \in Status /\ NoMark \in Marks
    BY DEF Status, Marks
<1>1. CASE row.exists /\ row.state.status \in Live /\ OwnerGone(row.owner, p)
    BY <1>0, <1>1, Remarked DEF Swept
<1>2. CASE ~(row.exists /\ row.state.status \in Live /\ OwnerGone(row.owner, p))
    BY <1>2 DEF Swept, RowInv
<1> QED BY <1>1, <1>2

\* The second statement of write() leaves the row alone, or writes it with the
\* mark it finds there or with none.
LEMMA CommitIs ==
    ASSUME RowInv, OpInv, NEW p \in Proc, CommitWrite(p)
    PROVE  /\ RowInv'
           /\ \/ row' = row /\ op[p].existed /\ ~row.exists
              \/ /\ ~op[p].existed \/ row.exists
                 /\ row'.exists /\ row'.state = Written(op[p])
                 /\ row'.owner = IF op[p].kind = "finish" \/ ~op[p].existed
                                 THEN NoMark ELSE row.owner
<1>0. op[p] \in Writes /\ row.owner \in Marks /\ NoMark \in Marks
    BY RowFacts, ConstantShapes DEF OpInv
<1>1. CASE op[p].existed /\ ~row.exists
    BY <1>1 DEF CommitWrite, RowInv
<1>2. CASE ~(op[p].existed /\ ~row.exists)
    <2> DEFINE m == IF op[p].kind = "finish" \/ ~op[p].existed THEN NoMark ELSE row.owner
               st == Written(op[p])
    <2>1. row' = [exists |-> TRUE, state |-> st, owner |-> m]
        BY <1>2 DEF CommitWrite
    <2>2. st \in Stamped /\ m \in Marks
        BY <1>0, WrittenIs
    <2> HIDE DEF st, m
    <2>3. row' \in StoredRow /\ row'.exists /\ row'.state = st /\ row'.owner = m
        BY <2>1, <2>2 DEF StoredRow
    <2> QED BY <1>2, <2>3, RowFacts DEF RowInv, st, m
<1> QED BY <1>1, <1>2

-----------------------------------------------------------------------------
(* The marks. *)

LEMMA MarksStay ==
    ASSUME MarkInv, row'.owner = row.owner, UNCHANGED <<up, inc, own>>
    PROVE  MarkInv'
BY DEF MarkInv, MarkNotYounger, OwnIsMine, LiveMarkIsOwn

LEMMA MarksCleared ==
    ASSUME MarkInv, ProcInv, row'.owner = NoMark, NEW p \in Proc,
           own' = own \/ own' = [own EXCEPT ![p] = NoMark]
    PROVE  MarkInv'
<1>1. \A q \in Proc : own'[q] = own[q] \/ own'[q] = NoMark
    BY DEF ProcInv
<1> QED BY <1>1 DEF MarkInv, MarkNotYounger, OwnIsMine, LiveMarkIsOwn

\* A process that forgets its mark has it no more in the row, or is gone.
LEMMA MarksForgotten ==
    ASSUME MarkInv, ProcInv, RowInv, row' = row, UNCHANGED inc, NEW p \in Proc,
           own' = [own EXCEPT ![p] = NoMark],
           up' \in [Proc -> {"down", "up", "closing"}],
           \A q \in Proc \ {p} : up'[q] = up[q],
           \/ up'[p] = "down"
           \/ up' = up /\ ~(own[p] # NoMark /\ row.exists /\ row.owner = own[p])
    PROVE  MarkInv'
<1>1. \A q \in Proc : own'[q] = IF q = p THEN NoMark ELSE own[q]
    BY DEF ProcInv
<1>2. OwnIsMine'
    BY <1>1 DEF MarkInv, OwnIsMine
<1>3. ASSUME NEW q \in Proc, up'[q] # "down", row'.owner # NoMark, row'.owner.pid = q,
             row'.owner.inc = inc'[q]
      PROVE  row'.owner = own'[q]
    <2>1. CASE q = p
        <3>1. up' = up /\ row.owner = own[p] /\ row.exists
            BY <1>3, <2>1, RowFacts DEF MarkInv, LiveMarkIsOwn
        <3> QED BY <1>3, <2>1, <3>1
    <2>2. CASE q # p
        BY <1>1, <1>3, <2>2 DEF MarkInv, LiveMarkIsOwn
    <2> QED BY <2>1, <2>2
<1>4. LiveMarkIsOwn'
    BY <1>3 DEF LiveMarkIsOwn
<1> QED BY <1>2, <1>4 DEF MarkInv, MarkNotYounger

LEMMA ForgetIs ==
    ASSUME StoreInv, NEW p \in Proc, Forget(p)
    PROVE  /\ CopyInv' /\ OpInv' /\ own' = [own EXCEPT ![p] = NoMark]
           /\ own' \in [Proc -> Marks] /\ turn' \in [Proc -> BOOLEAN]
           /\ naming' \in [Proc -> BOOLEAN]
<1>1. CopyInv'
    BY DEF Forget, EndBody, StoreInv, CopyInv
<1>2. OpInv'
    BY ConstantShapes DEF Forget, StoreInv, OpInv
<1>3. own' = [own EXCEPT ![p] = NoMark] /\ own' \in [Proc -> Marks]
    BY ConstantShapes DEF Forget, StoreInv, ProcInv
<1> QED BY <1>1, <1>2, <1>3 DEF Forget, EndBody, StoreInv, ProcInv

-----------------------------------------------------------------------------
(* The steps. *)

LEMMA InitStore == Init => StoreInv
<1> SUFFICES ASSUME Init PROVE StoreInv
    OBVIOUS
<1>1. RowInv
    BY ConstantShapes DEF Init, RowInv, StoredRow
<1>2. CopyInv /\ OpInv
    BY ConstantShapes DEF Init, CopyInv, OpInv
<1>3. ProcInv
    BY ConstantShapes, BoundsType DEF Init, ProcInv
<1>4. MarkInv
    BY DEF Init, MarkInv, MarkNotYounger, OwnIsMine, LiveMarkIsOwn
<1> QED BY <1>1, <1>2, <1>3, <1>4 DEF StoreInv

\* A sweep at boot, under a new start of the process.
LEMMA BootStep ==
    ASSUME StoreInv, NEW p \in Proc, Boot(p)
    PROVE  StoreInv'
<1>0. /\ RowInv /\ ProcInv /\ MarkInv /\ up[p] = "down"
      /\ row' = Swept(p) /\ up' = [up EXCEPT ![p] = "up"] /\ inc' = [inc EXCEPT ![p] = @ + 1]
      /\ UNCHANGED <<own, turn, turnCopy, copy, op, naming, turnsNo, renames>>
    BY DEF StoreInv, Boot
<1>1. RowInv' /\ (row' = row \/ row'.owner = NoMark)
    BY <1>0, SweptIs DEF RowInv
<1>2. CopyInv' /\ OpInv'
    BY <1>0 DEF StoreInv, CopyInv, OpInv
<1>3. ProcInv'
    BY <1>0 DEF ProcInv
<1>4. MarkInv'
    <2>1. CASE row'.owner = NoMark
        BY <1>0, <2>1, MarksCleared
    <2>2. CASE row' = row /\ row.owner # NoMark
        <3>1. row.owner \in Mark
            BY <1>0, <2>2, RowFacts DEF Marks
        <3>2. row.owner.pid \in Proc /\ row.owner.inc \in Nat
            BY <3>1 DEF Mark
        <3>3. row.owner.inc <= inc[row.owner.pid]
            BY <1>0, <2>2 DEF MarkInv, MarkNotYounger
        <3>4. MarkNotYounger'
            BY <1>0, <2>2, <3>2, <3>3 DEF MarkNotYounger, ProcInv
        <3>5. OwnIsMine'
            BY <1>0 DEF MarkInv, OwnIsMine
        <3>6. ASSUME NEW q \in Proc, up'[q] # "down", row.owner.pid = q, row.owner.inc = inc'[q]
              PROVE  row.owner = own[q]
            <4>1. q # p
                BY <1>0, <3>2, <3>3, <3>6 DEF ProcInv
            <4> QED BY <1>0, <2>2, <3>6, <4>1 DEF MarkInv, LiveMarkIsOwn, ProcInv
        <3>7. LiveMarkIsOwn'
            BY <1>0, <2>2, <3>6 DEF LiveMarkIsOwn
        <3> QED BY <3>4, <3>5, <3>7 DEF MarkInv
    <2> QED BY <1>1, <2>1, <2>2
<1> QED BY <1>1, <1>2, <1>3, <1>4 DEF StoreInv

LEMMA CrashStep ==
    ASSUME StoreInv, NEW p \in Proc, Crash(p)
    PROVE  StoreInv'
<1>0. /\ RowInv /\ ProcInv /\ MarkInv /\ Forget(p)
      /\ up' = [up EXCEPT ![p] = "down"] /\ UNCHANGED <<row, inc, turnsNo, renames>>
    BY DEF StoreInv, Crash
<1>1. RowInv' /\ CopyInv' /\ OpInv'
    BY <1>0, ForgetIs DEF RowInv
<1>2. ProcInv'
    BY <1>0, ForgetIs DEF ProcInv
<1>3. MarkInv'
    BY <1>0, ForgetIs, MarksForgotten DEF ProcInv
<1> QED BY <1>1, <1>2, <1>3 DEF StoreInv

LEMMA ShutdownStep ==
    ASSUME StoreInv, NEW p \in Proc, Shutdown(p)
    PROVE  StoreInv'
<1>0. /\ RowInv /\ ProcInv /\ MarkInv /\ up[p] = "up" /\ own[p] \in Marks
      /\ up' = [up EXCEPT ![p] = "closing"] /\ row' = EndIfMarked(own[p], "interrupted", own[p])
      /\ UNCHANGED <<inc, own, turn, turnCopy, copy, op, naming, turnsNo, renames>>
    BY DEF StoreInv, Shutdown, ProcInv
<1>1. RowInv' /\ row'.owner = row.owner
    BY <1>0, EndIfMarkedIs DEF RowInv, Status
<1>2. CopyInv' /\ OpInv'
    BY <1>0 DEF StoreInv, CopyInv, OpInv
<1>3. ProcInv'
    BY <1>0 DEF ProcInv
<1>4. MarkInv'
    <2>1. \A q \in Proc : up'[q] # "down" => up[q] # "down"
        BY <1>0 DEF ProcInv
    <2> QED BY <1>0, <1>1, <2>1 DEF MarkInv, MarkNotYounger, OwnIsMine, LiveMarkIsOwn
<1> QED BY <1>1, <1>2, <1>3, <1>4 DEF StoreInv

LEMMA CloseStep ==
    ASSUME StoreInv, NEW p \in Proc, CloseStore(p)
    PROVE  StoreInv'
<1>0. /\ RowInv /\ ProcInv /\ MarkInv /\ Forget(p) /\ own[p] \in Marks
      /\ up' = [up EXCEPT ![p] = "down"] /\ row' = EndIfMarked(own[p], "interrupted", NoMark)
      /\ UNCHANGED <<inc, turnsNo, renames>>
    BY DEF StoreInv, CloseStore, ProcInv
<1>1. RowInv' /\ (row' = row \/ row'.owner = NoMark)
    BY <1>0, EndIfMarkedIs, ConstantShapes DEF RowInv, Status
<1>2. CopyInv' /\ OpInv'
    BY ForgetIs, <1>0
<1>3. ProcInv'
    BY <1>0, ForgetIs DEF ProcInv
<1>4. MarkInv'
    <2>1. CASE row'.owner = NoMark
        BY <1>0, <2>1, ForgetIs, MarksCleared
    <2>2. CASE row' = row
        BY <1>0, <2>2, ForgetIs, MarksForgotten DEF ProcInv
    <2> QED BY <1>1, <2>1, <2>2
<1> QED BY <1>1, <1>2, <1>3, <1>4 DEF StoreInv

\* beginTurn(): the new mark is remembered in the same step.
LEMMA BeginStep ==
    ASSUME StoreInv, NEW p \in Proc, NEW marked \in BOOLEAN, BeginTurn(p, marked)
    PROVE  StoreInv'
<1> DEFINE m == [pid |-> p, inc |-> inc[p], at |-> turnsNo + 1]
           c == IF row.exists THEN row.state ELSE copy[p]
<1>0. /\ RowInv /\ ProcInv /\ MarkInv /\ up[p] # "down" /\ turnsNo < MaxTurns
      /\ turnsNo' = turnsNo + 1 /\ turn' = [turn EXCEPT ![p] = TRUE]
      /\ turnCopy' = [turnCopy EXCEPT ![p] = c]
      /\ UNCHANGED <<up, inc, copy, op, naming, renames>>
    BY DEF StoreInv, BeginTurn, Ready
<1>1. m \in Mark /\ m \in Marks /\ m.pid = p /\ m.inc = inc[p] /\ m # NoMark
    <2>1. inc[p] \in Nat \ {0} /\ turnsNo + 1 \in Nat \ {0}
        BY <1>0, BoundsType DEF ProcInv
    <2>2. m \in Mark /\ m.pid = p /\ m.inc = inc[p] /\ NoMark.inc = 0
        BY <2>1 DEF Mark, NoMark
    <2>3. m # NoMark
        BY <2>1, <2>2
    <2> QED BY <2>2, <2>3 DEF Marks
<1>2. c \in Stamped \cup {NoCopy}
    BY <1>0, RowFacts DEF StoreInv, CopyInv
<1>3. CopyInv' /\ OpInv'
    <2> HIDE DEF c
    <2> QED BY <1>0, <1>2 DEF StoreInv, CopyInv, OpInv
<1>4. CASE marked
    <2>1. /\ row' = [row EXCEPT !.state.status = "running", !.owner = m] /\ row.exists
          /\ own' = [own EXCEPT ![p] = m]
        BY <1>4 DEF BeginTurn
    <2> HIDE DEF m
    <2>2. RowInv' /\ row'.owner = m
        BY <1>0, <1>1, <2>1, Remarked DEF RowInv, Status
    <2>3. ProcInv'
        <3>1. own' \in [Proc -> Marks]
            BY <1>0, <1>1, <2>1 DEF ProcInv
        <3>2. turnsNo' \in 0..MaxTurns
            BY <1>0, BoundsType DEF ProcInv
        <3> QED BY <1>0, <3>1, <3>2 DEF ProcInv
    <2>4. own'[p] = m /\ \A q \in Proc \ {p} : own'[q] = own[q]
        BY <1>0, <2>1 DEF ProcInv
    <2>5. inc[p] <= inc[p]
        BY <1>0 DEF ProcInv
    <2>6. MarkInv'
        BY <1>0, <1>1, <2>2, <2>4, <2>5 DEF MarkInv, MarkNotYounger, OwnIsMine, LiveMarkIsOwn
    <2> QED BY <1>3, <2>2, <2>3, <2>6 DEF StoreInv
<1>5. CASE ~marked
    <2>1. row' = row /\ own' = own
        BY <1>5 DEF BeginTurn
    <2>2. turnsNo' \in 0..MaxTurns
        BY <1>0, BoundsType DEF ProcInv
    <2>3. ProcInv'
        BY <1>0, <2>1, <2>2 DEF ProcInv
    <2> QED BY <1>0, <1>3, <2>1, <2>3, MarksStay DEF StoreInv, RowInv
<1> QED BY <1>4, <1>5

LEMMA ReleaseStep ==
    ASSUME StoreInv, NEW p \in Proc, ReleaseTurn(p)
    PROVE  StoreInv'
<1>0. /\ RowInv /\ ProcInv /\ MarkInv /\ own[p] \in Marks
      /\ row' = EndIfMarked(own[p], "ended", NoMark) /\ own' = [own EXCEPT ![p] = NoMark]
      /\ EndBody(p) /\ UNCHANGED <<up, inc, copy, op, naming, turnsNo, renames>>
    BY DEF StoreInv, ReleaseTurn, ProcInv
<1>1. /\ RowInv'
      /\ \/ row' = row /\ ~(own[p] # NoMark /\ row.exists /\ row.owner = own[p])
         \/ row'.owner = NoMark
    BY <1>0, EndIfMarkedIs, ConstantShapes DEF RowInv, Status
<1>2. CopyInv' /\ OpInv'
    BY <1>0 DEF StoreInv, CopyInv, OpInv, EndBody
<1>3. ProcInv'
    BY <1>0, ConstantShapes DEF ProcInv, EndBody
<1>4. MarkInv'
    <2>1. CASE row'.owner = NoMark
        BY <1>0, <2>1, MarksCleared
    <2>2. CASE row' = row /\ ~(own[p] # NoMark /\ row.exists /\ row.owner = own[p])
        BY <1>0, <2>2, MarksForgotten DEF ProcInv
    <2> QED BY <1>1, <2>1, <2>2
<1> QED BY <1>1, <1>2, <1>3, <1>4 DEF StoreInv

\* storedRow(): a write begins with the row as it is.
LEMMA BeginWriteIs ==
    ASSUME StoreInv, NEW p \in Proc, NEW kind \in {"save", "finish"}, NEW next \in Stamped,
           kind = "finish" => next.status = "ended", BeginWrite(p, kind, next)
    PROVE  OpInv'
<1> DEFINE o == [kind |-> kind, next |-> next, stored |-> row.state,
                 existed |-> row.exists, marked |-> row.owner # NoMark]
<1>1. o \in Writes
    <2>1. row.state \in Stamped /\ row.exists \in BOOLEAN /\ (row.owner # NoMark) \in BOOLEAN
        BY RowFacts DEF StoreInv
    <2>2. o \in Write
        BY <2>1 DEF Write
    <2> QED BY <2>2 DEF Writes
<1>2. op' = [op EXCEPT ![p] = o]
    BY DEF BeginWrite
<1> HIDE DEF o
<1> QED BY <1>1, <1>2 DEF StoreInv, OpInv

\* The steps that change neither the row nor who is up.
LEMMA QuietStep ==
    ASSUME StoreInv, NEW p \in Proc,
           \/ FinishTurn(p) \/ ReleaseTurnFails(p) \/ Load(p) \/ Save(p) \/ Rename(p)
           \/ NameSession(p) \/ WriteFails(p) \/ UNCHANGED vars
    PROVE  StoreInv'
<1>0. /\ RowInv /\ CopyInv /\ OpInv /\ ProcInv /\ MarkInv /\ row.state \in Stamped
      /\ row.exists \in BOOLEAN
    BY RowFacts DEF StoreInv
<1>1. UNCHANGED <<row, up, inc, own, turnsNo>>
    BY DEF FinishTurn, ReleaseTurnFails, Load, Save, Rename, NameSession, WriteFails, vars
<1>2. RowInv' /\ MarkInv'
    BY <1>0, <1>1, MarksStay DEF RowInv
<1>3. OpInv'
    <2>1. CASE FinishTurn(p)
        <3> DEFINE next == [turnCopy[p] EXCEPT !.status = "ended"]
        <3>1. turnCopy[p] \in Stamped \cup {NoCopy} /\ "ended" \in Status
            BY <1>0 DEF CopyInv, Status
        <3>2. next \in Stamped /\ next.status = "ended"
            BY <3>1, WithStatus
        <3>3. BeginWrite(p, "finish", next)
            BY <2>1 DEF FinishTurn
        <3> HIDE DEF next
        <3> QED BY <3>2, <3>3, BeginWriteIs
    <2>2. CASE Save(p)
        <3>1. copy[p] \in Stamped /\ BeginWrite(p, "save", copy[p])
            BY <1>0, <2>2 DEF Save, CopyInv
        <3> QED BY <3>1, BeginWriteIs
    <2>3. CASE Rename(p)
        <3> DEFINE next == [row.state EXCEPT !.title = "user", !.userAt = renames + 1]
        <3>1. renames + 1 \in 0..MaxRenames
            BY <1>0, <2>3, BoundsType DEF Rename, ProcInv
        <3>2. next \in Stamped /\ BeginWrite(p, "save", next)
            BY <1>0, <2>3, <3>1, WithUserTitle DEF Rename
        <3> HIDE DEF next
        <3> QED BY <3>2, BeginWriteIs
    <2>4. CASE NameSession(p)
        <3> DEFINE current == IF row.exists THEN row.state ELSE [NoState EXCEPT !.status = "ended"]
                   next == [current EXCEPT !.title = "auto"]
        <3>1. [NoState EXCEPT !.status = "ended"] \in Stamped
            BY ConstantShapes, WithStatus DEF Status
        <3>2. current \in Stamped
            BY <1>0, <3>1
        <3>3. BeginWrite(p, "save", next) \/ UNCHANGED op
            BY <2>4 DEF NameSession
        <3> HIDE DEF current
        <3>4. next \in Stamped
            BY <3>2, WithAutoTitle
        <3> HIDE DEF next
        <3>5. CASE UNCHANGED op
            BY <1>0, <3>5 DEF OpInv
        <3> QED BY <3>3, <3>4, <3>5, BeginWriteIs
    <2>5. CASE WriteFails(p)
        BY <1>0, <2>5, ConstantShapes DEF WriteFails, OpInv
    <2>6. CASE ReleaseTurnFails(p) \/ Load(p) \/ UNCHANGED vars
        BY <1>0, <2>6 DEF ReleaseTurnFails, Load, vars, OpInv
    <2> QED BY <2>1, <2>2, <2>3, <2>4, <2>5, <2>6
<1>4. CopyInv'
    <2>1. CASE ReleaseTurnFails(p)
        BY <1>0, <2>1 DEF ReleaseTurnFails, EndBody, CopyInv
    <2>2. CASE Load(p)
        BY <1>0, <2>2 DEF Load, CopyInv
    <2>3. CASE \/ FinishTurn(p) \/ Save(p) \/ Rename(p) \/ NameSession(p) \/ WriteFails(p)
               \/ UNCHANGED vars
        BY <1>0, <2>3 DEF FinishTurn, Save, Rename, NameSession, WriteFails, vars, CopyInv
    <2> QED BY <2>1, <2>2, <2>3
<1>5. ProcInv'
    <2>1. turn' \in [Proc -> BOOLEAN]
        BY <1>0 DEF FinishTurn, ReleaseTurnFails, Load, Save, Rename, NameSession, WriteFails,
                    vars, EndBody, ProcInv
    <2>2. naming' \in [Proc -> BOOLEAN]
        BY <1>0 DEF FinishTurn, ReleaseTurnFails, Load, Save, Rename, NameSession, WriteFails,
                    vars, ProcInv
    <2>3. renames' \in 0..MaxRenames
        BY <1>0, BoundsType DEF FinishTurn, ReleaseTurnFails, Load, Save, Rename, NameSession,
                    WriteFails, vars, ProcInv
    <2> QED BY <1>0, <1>1, <2>1, <2>2, <2>3 DEF ProcInv
<1> QED BY <1>2, <1>3, <1>4, <1>5 DEF StoreInv

\* The second statement of write(): finishing takes the mark off the row and
\* out of the process in one step.
LEMMA CommitStep ==
    ASSUME StoreInv, NEW p \in Proc, CommitWrite(p)
    PROVE  StoreInv'
<1>0. /\ RowInv /\ CopyInv /\ OpInv /\ ProcInv /\ MarkInv
      /\ UNCHANGED <<up, inc, copy, turnsNo, renames>> /\ op' = [op EXCEPT ![p] = NoOp]
    BY DEF StoreInv, CommitWrite
<1>1. RowInv'
    BY <1>0, CommitIs
<1>2. OpInv'
    BY <1>0, ConstantShapes DEF OpInv
<1>3. CopyInv' /\ turn' \in [Proc -> BOOLEAN]
    <2>1. EndBody(p) \/ UNCHANGED <<turn, turnCopy>>
        BY DEF CommitWrite
    <2> QED BY <1>0, <2>1 DEF CopyInv, ProcInv, EndBody
<1>4. naming' \in [Proc -> BOOLEAN]
    <2>1. naming' = naming \/ naming' = [naming EXCEPT ![p] = TRUE]
        BY DEF CommitWrite
    <2> QED BY <1>0, <2>1 DEF ProcInv
<1>5. CASE op[p].kind = "finish"
    <2>1. own' = [own EXCEPT ![p] = NoMark]
        BY <1>5 DEF CommitWrite
    <2>2. row'.owner = NoMark
        BY <1>0, <1>5, CommitIs, RowFacts
    <2>3. MarkInv'
        BY <1>0, <2>1, <2>2, MarksCleared
    <2>4. ProcInv'
        BY <1>0, <1>3, <1>4, <2>1, ConstantShapes DEF ProcInv
    <2> QED BY <1>1, <1>2, <1>3, <2>3, <2>4 DEF StoreInv
<1>6. CASE op[p].kind # "finish"
    <2>1. own' = own
        BY <1>6 DEF CommitWrite
    <2>2. row'.owner = NoMark \/ row'.owner = row.owner
        BY <1>0, CommitIs
    <2>3. MarkInv'
        BY <1>0, <2>1, <2>2, MarksCleared, MarksStay
    <2>4. ProcInv'
        BY <1>0, <1>3, <1>4, <2>1 DEF ProcInv
    <2> QED BY <1>1, <1>2, <1>3, <2>3, <2>4 DEF StoreInv
<1> QED BY <1>5, <1>6

LEMMA DeleteStep ==
    ASSUME StoreInv, NEW p \in Proc, Delete(p)
    PROVE  StoreInv'
<1>0. /\ ProcInv /\ MarkInv /\ row' = [exists |-> FALSE, state |-> NoState, owner |-> NoMark]
      /\ UNCHANGED <<up, inc, own, turn, turnCopy, copy, op, naming, turnsNo, renames>>
    BY DEF StoreInv, Delete
<1>1. RowInv' /\ row'.owner = NoMark
    BY <1>0, ConstantShapes DEF RowInv, StoredRow
<1>2. MarkInv'
    BY <1>0, <1>1, MarksCleared
<1>3. CopyInv' /\ OpInv' /\ ProcInv'
    BY <1>0 DEF StoreInv, CopyInv, OpInv, ProcInv
<1> QED BY <1>1, <1>2, <1>3 DEF StoreInv

LEMMA NextStore == StoreInv /\ [Next]_vars => StoreInv'
<1> SUFFICES ASSUME StoreInv, [Next]_vars PROVE StoreInv'
    OBVIOUS
<1>1. CASE UNCHANGED vars
    BY <1>1 DEF StoreInv, RowInv, CopyInv, OpInv, ProcInv, MarkInv, MarkNotYounger, OwnIsMine,
                LiveMarkIsOwn, vars
<1>2. CASE Next
    BY <1>2, BootStep, CrashStep, ShutdownStep, CloseStep, BeginStep, ReleaseStep, QuietStep,
       CommitStep, DeleteStep DEF Next
<1> QED BY <1>1, <1>2

-----------------------------------------------------------------------------
(* The promises. *)

\* Which steps touch the row, or who is up.
LEMMA RowSteps ==
    ASSUME [Next]_vars
    PROVE  \/ UNCHANGED <<row, up, inc>>
           \/ \E p \in Proc : \/ Boot(p) \/ Crash(p) \/ Shutdown(p) \/ CloseStore(p)
                              \/ BeginTurn(p, TRUE) \/ ReleaseTurn(p) \/ CommitWrite(p)
                              \/ Delete(p)
<1>1. ASSUME NEW p \in Proc,
             \/ FinishTurn(p) \/ ReleaseTurnFails(p) \/ Load(p) \/ Save(p) \/ Rename(p)
             \/ NameSession(p) \/ WriteFails(p) \/ BeginTurn(p, FALSE)
      PROVE  UNCHANGED <<row, up, inc>>
    BY <1>1 DEF FinishTurn, ReleaseTurnFails, Load, Save, Rename, NameSession, WriteFails,
                BeginTurn
<1> QED BY <1>1 DEF Next, vars

\* A whole write, seen from the row: what it read is what it replaces.
LEMMA WholeWrite ==
    ASSUME StoreInv, NEW p \in Proc, CommitWrite(p), ~TornWrite(p)
    PROVE  \/ row' = row
           \/ /\ row'.exists /\ row'.owner \in {row.owner, NoMark}
              /\ row'.owner # NoMark => row'.state.status = row.state.status /\ row.exists
              /\ row'.owner = NoMark => row'.state.status \notin Live
              /\ row.exists => row'.state.userAt >= row.state.userAt
<1> DEFINE o == op[p]
<1>0. o \in Writes /\ RowInv /\ OpInv
    BY DEF StoreInv, OpInv
<1>1. /\ o.stored = row.state /\ o.existed = row.exists
      /\ o.marked = (row.owner # NoMark)
    BY DEF TornWrite
<1>2. CASE row' # row
    <2>1. /\ row'.exists /\ row'.state = Written(o)
          /\ row'.owner = IF o.kind = "finish" \/ ~o.existed THEN NoMark ELSE row.owner
        BY <1>0, <1>2, CommitIs
    <2>2. row'.owner # NoMark => row'.state.status = row.state.status /\ row.exists
        BY <1>0, <1>1, <2>1, WrittenIs
    <2>3. row'.owner = NoMark => row'.state.status \notin Live
        <3>1. CASE o.kind = "finish" \/ ~o.existed
            BY <1>0, <2>1, <3>1, WrittenIs
        <3>2. CASE ~(o.kind = "finish" \/ ~o.existed)
            BY <1>0, <1>1, <2>1, <3>2, WrittenIs
        <3> QED BY <3>1, <3>2
    <2>4. row.exists => row'.state.userAt >= row.state.userAt
        BY <1>0, <1>1, <2>1, WrittenIs
    <2> QED BY <2>1, <2>2, <2>3, <2>4
<1> QED BY <1>2

LEMMA RunningStaysMarked ==
    ASSUME StoreInv, [Next]_vars, RunningIsMarked, \A p \in Proc : ~TornWrite(p)
    PROVE  RunningIsMarked'
<1>0. RowInv
    BY DEF StoreInv
<1>1. ASSUME UNCHANGED row PROVE RunningIsMarked'
    BY <1>1 DEF RunningIsMarked
<1>2. ASSUME NEW p \in Proc, Boot(p) PROVE RunningIsMarked'
    BY <1>0, <1>2, SweptIs DEF Boot, RunningIsMarked, Live
<1>3. ASSUME NEW p \in Proc, NEW x \in Status \ Live, NEW n \in Marks,
             row' = EndIfMarked(own[p], x, n)
      PROVE  RunningIsMarked'
    <2>1. own[p] \in Marks
        BY DEF StoreInv, ProcInv
    <2> QED BY <1>0, <1>3, <2>1, EndIfMarkedIs DEF RunningIsMarked
<1>4. ASSUME NEW p \in Proc, Shutdown(p) \/ CloseStore(p) \/ ReleaseTurn(p)
      PROVE  RunningIsMarked'
    <2>1. own[p] \in Marks /\ NoMark \in Marks /\ {"interrupted", "ended"} \subseteq Status \ Live
        BY ConstantShapes DEF StoreInv, ProcInv, Status, Live
    <2> QED BY <1>3, <1>4, <2>1 DEF Shutdown, CloseStore, ReleaseTurn
<1>5. ASSUME NEW p \in Proc, BeginTurn(p, TRUE) PROVE RunningIsMarked'
    <2> DEFINE m == [pid |-> p, inc |-> inc[p], at |-> turnsNo + 1]
    <2>1. row' = [row EXCEPT !.state.status = "running", !.owner = m] /\ row.exists
        BY <1>5 DEF BeginTurn
    <2>2. m \in Marks /\ m # NoMark
        <3>1. inc[p] \in Nat \ {0} /\ turnsNo + 1 \in Nat \ {0}
            BY <1>5, BoundsType DEF BeginTurn, Ready, StoreInv, ProcInv
        <3>2. m \in Mark /\ m.inc # NoMark.inc
            BY <3>1 DEF Mark, NoMark
        <3> QED BY <3>2 DEF Marks
    <2> HIDE DEF m
    <2>3. row'.owner = m
        BY <1>0, <2>1, <2>2, Remarked DEF Status
    <2> QED BY <2>2, <2>3 DEF RunningIsMarked
<1>6. ASSUME NEW p \in Proc, CommitWrite(p) PROVE RunningIsMarked'
    <2>1. ~TornWrite(p)
        OBVIOUS
    <2> QED BY <1>6, <2>1, WholeWrite DEF RunningIsMarked
<1>7. ASSUME NEW p \in Proc, Delete(p) PROVE RunningIsMarked'
    BY <1>7 DEF Delete, RunningIsMarked
<1>8. ASSUME NEW p \in Proc, Crash(p) PROVE UNCHANGED row
    BY <1>8 DEF Crash
<1> QED BY <1>1, <1>2, <1>4, <1>5, <1>6, <1>7, <1>8, RowSteps

\* Alive depends on the mark, on who is up and on the starts.
LEMMA MarkedStaysRunning ==
    ASSUME StoreInv, [Next]_vars, MarkedRowSaysRunning, \A p \in Proc : ~TornWrite(p)
    PROVE  MarkedRowSaysRunning'
<1> DEFINE m == row'.owner
<1> SUFFICES ASSUME row'.exists, m # NoMark, up'[m.pid] = "up", inc'[m.pid] = m.inc
             PROVE  row'.state.status = "running"
    BY DEF MarkedRowSaysRunning, Alive
<1>0. RowInv /\ RowInv' /\ ProcInv /\ MarkInv
    BY NextStore DEF StoreInv
<1>1. m \in Mark /\ m.pid \in Proc /\ m.inc \in Nat
    <2>1. row' \in StoredRow
        BY <1>0 DEF RowInv
    <2>2. m \in Marks
        BY <2>1 DEF StoredRow
    <2> QED BY <2>2 DEF Marks, Mark
<1>2. ASSUME row.exists, row.owner = m, up[m.pid] = "up", inc[m.pid] = m.inc
      PROVE  row.state.status = "running"
    BY <1>2 DEF MarkedRowSaysRunning, Alive
<1>3. ASSUME row' = row, up[m.pid] = "up", inc[m.pid] = m.inc
      PROVE  row'.state.status = "running"
    BY <1>2, <1>3
<1>4. ASSUME NEW p \in Proc, Boot(p) PROVE row'.state.status = "running"
    <2>1. row' = row
        BY <1>0, <1>4, SweptIs DEF Boot
    <2>2. m.inc <= inc[m.pid]
        BY <1>0, <2>1 DEF MarkInv, MarkNotYounger
    <2>3. m.pid # p
        BY <1>0, <1>1, <1>4, <2>2 DEF Boot, ProcInv
    <2> QED BY <1>0, <1>1, <1>3, <1>4, <2>1, <2>3 DEF Boot, ProcInv
<1>5. ASSUME NEW p \in Proc, Crash(p) PROVE row'.state.status = "running"
    BY <1>0, <1>1, <1>3, <1>5 DEF Crash, ProcInv
<1>6. ASSUME NEW p \in Proc, Shutdown(p) PROVE row'.state.status = "running"
    <2>1. own[p] \in Marks /\ "interrupted" \in Status
        BY <1>0 DEF ProcInv, Status
    <2>2. m.pid # p
        BY <1>0, <1>6 DEF Shutdown, ProcInv
    <2>3. row' = row
        BY <1>0, <1>6, <2>1, <2>2, EndIfMarkedIs DEF Shutdown, MarkInv, OwnIsMine
    <2> QED BY <1>0, <1>1, <1>3, <1>6, <2>2, <2>3 DEF Shutdown, ProcInv
<1>7. ASSUME NEW p \in Proc, CloseStore(p) PROVE row'.state.status = "running"
    <2>1. own[p] \in Marks /\ "interrupted" \in Status /\ NoMark \in Marks
        BY <1>0, ConstantShapes DEF ProcInv, Status
    <2>2. row' = row
        BY <1>0, <1>7, <2>1, EndIfMarkedIs DEF CloseStore
    <2> QED BY <1>0, <1>1, <1>3, <1>7, <2>2 DEF CloseStore, ProcInv
<1>8. ASSUME NEW p \in Proc, ReleaseTurn(p) PROVE row'.state.status = "running"
    <2>1. own[p] \in Marks /\ "ended" \in Status /\ NoMark \in Marks
        BY <1>0, ConstantShapes DEF ProcInv, Status
    <2>2. row' = row
        BY <1>0, <1>8, <2>1, EndIfMarkedIs DEF ReleaseTurn
    <2> QED BY <1>3, <1>8, <2>2 DEF ReleaseTurn
<1>9. ASSUME NEW p \in Proc, BeginTurn(p, TRUE) PROVE row'.state.status = "running"
    <2> DEFINE n == [pid |-> p, inc |-> inc[p], at |-> turnsNo + 1]
    <2>1. row' = [row EXCEPT !.state.status = "running", !.owner = n] /\ row.exists
        BY <1>9 DEF BeginTurn
    <2>2. n \in Marks
        <3>1. inc[p] \in Nat \ {0} /\ turnsNo + 1 \in Nat \ {0}
            BY <1>0, <1>9, BoundsType DEF BeginTurn, Ready, ProcInv
        <3> QED BY <3>1 DEF Mark, Marks
    <2> HIDE DEF n
    <2> QED BY <1>0, <2>1, <2>2, Remarked DEF Status
<1>10. ASSUME NEW p \in Proc, CommitWrite(p) PROVE row'.state.status = "running"
    <2>1. ~TornWrite(p) /\ UNCHANGED <<up, inc>>
        BY <1>10 DEF CommitWrite
    <2>2. CASE row' = row
        BY <1>3, <2>1, <2>2
    <2>3. CASE row' # row
        <3>1. row.exists /\ row.owner = m /\ row'.state.status = row.state.status
            BY <1>10, <2>1, <2>3, WholeWrite
        <3> QED BY <1>2, <2>1, <3>1
    <2> QED BY <2>2, <2>3
<1>11. ASSUME NEW p \in Proc, Delete(p) PROVE FALSE
    BY <1>11 DEF Delete
<1>12. ASSUME UNCHANGED <<row, up, inc>> PROVE row'.state.status = "running"
    BY <1>3, <1>12
<1> QED BY <1>4, <1>5, <1>6, <1>7, <1>8, <1>9, <1>10, <1>11, <1>12, RowSteps

LEMMA TitleStays ==
    ASSUME StoreInv, [Next]_vars, row.exists, row'.exists, \A p \in Proc : ~TornWrite(p)
    PROVE  ~(row'.state.userAt < row.state.userAt)
<1>0. RowInv /\ row.state.userAt \in Nat
    BY RowFacts, BoundsType DEF StoreInv, Stamped, State
<1>1. ASSUME row'.state.userAt = row.state.userAt PROVE ~(row'.state.userAt < row.state.userAt)
    BY <1>0, <1>1
<1>2. ASSUME NEW p \in Proc, Boot(p) PROVE row'.state.userAt = row.state.userAt
    BY <1>0, <1>2, SweptIs DEF Boot
<1>3. ASSUME NEW p \in Proc, Shutdown(p) \/ CloseStore(p) \/ ReleaseTurn(p)
      PROVE  row'.state.userAt = row.state.userAt
    <2>1. own[p] \in Marks /\ NoMark \in Marks /\ {"interrupted", "ended"} \subseteq Status
        BY ConstantShapes DEF StoreInv, ProcInv, Status
    <2> QED BY <1>0, <1>3, <2>1, EndIfMarkedIs DEF Shutdown, CloseStore, ReleaseTurn
<1>4. ASSUME NEW p \in Proc, BeginTurn(p, TRUE) PROVE row'.state.userAt = row.state.userAt
    <2> DEFINE n == [pid |-> p, inc |-> inc[p], at |-> turnsNo + 1]
    <2>1. row' = [row EXCEPT !.state.status = "running", !.owner = n]
        BY <1>4 DEF BeginTurn
    <2>2. n \in Marks
        <3>1. inc[p] \in Nat \ {0} /\ turnsNo + 1 \in Nat \ {0}
            BY <1>4, BoundsType DEF BeginTurn, Ready, StoreInv, ProcInv
        <3> QED BY <3>1 DEF Mark, Marks
    <2> HIDE DEF n
    <2> QED BY <1>0, <2>1, <2>2, Remarked DEF Status
<1>5. ASSUME NEW p \in Proc, CommitWrite(p) PROVE ~(row'.state.userAt < row.state.userAt)
    <2>1. ~TornWrite(p)
        OBVIOUS
    <2>2. CASE row' = row
        BY <1>1, <2>2
    <2>3. CASE row' # row
        <3>1. row'.state.userAt >= row.state.userAt
            BY <1>5, <2>1, <2>3, WholeWrite
        <3>2. row'.state.userAt \in Nat
            <4>1. row'.state = Written(op[p]) /\ op[p] \in Writes
                BY <1>0, <1>5, <2>3, CommitIs DEF StoreInv, OpInv
            <4> QED BY <4>1, WrittenIs, BoundsType DEF Stamped, State
        <3> QED BY <1>0, <3>1, <3>2
    <2> QED BY <2>2, <2>3
<1>6. ASSUME NEW p \in Proc, Delete(p) PROVE FALSE
    BY <1>6 DEF Delete
<1>7. ASSUME NEW p \in Proc, Crash(p) PROVE UNCHANGED row
    BY <1>7 DEF Crash
<1> QED BY <1>1, <1>2, <1>3, <1>4, <1>5, <1>6, <1>7, RowSteps

-----------------------------------------------------------------------------
\* The inductive invariant of the row and the processes around it.
THEOREM StoreInvariant == Spec => []StoreInv
BY InitStore, NextStore, PTL DEF Spec

\* session-store.ts: the row and what the processes remember keep their types.
THEOREM StoreTypeCorrect == Spec => []TypeOK
<1>1. StoreInv => TypeOK
    <2> SUFFICES ASSUME StoreInv PROVE TypeOK
        OBVIOUS
    <2>1. Stamped \subseteq State
        BY DEF Stamped
    <2>2. row \in [exists : BOOLEAN, state : State, owner : Mark \cup {NoMark}]
        BY <2>1 DEF StoreInv, RowInv, StoredRow, Marks
    <2>3. /\ turnCopy \in [Proc -> State \cup {NoCopy}]
          /\ copy \in [Proc -> State \cup {NoCopy}]
        BY <2>1 DEF StoreInv, CopyInv
    <2>4. Writes \subseteq [kind : {"none", "save", "finish"}, next : State, stored : State,
                            existed : BOOLEAN, marked : BOOLEAN]
        BY <2>1 DEF Writes, Write
    <2>5. op \in [Proc -> [kind : {"none", "save", "finish"}, next : State, stored : State,
                           existed : BOOLEAN, marked : BOOLEAN]]
        BY <2>4 DEF StoreInv, OpInv
    <2> QED BY <2>2, <2>3, <2>5 DEF StoreInv, ProcInv, TypeOK, Marks
<1> QED BY <1>1, StoreInvariant, PTL

\* statusForSave(), beginTurn(), finishTurn() and the releases: a live status
\* and a mark part only in a write that somebody else's write tore.
THEOREM StatusFollowsMark == Spec => StatusAgreesWithMark
<1>1. ASSUME StoreInv, [Next]_vars
      PROVE  [/\ RunningIsMarked => RunningIsMarked' \/ \E p \in Proc : TornWrite(p)
              /\ MarkedRowSaysRunning =>
                    MarkedRowSaysRunning' \/ \E p \in Proc : TornWrite(p)]_vars
    BY <1>1, RunningStaysMarked, MarkedStaysRunning
<1> QED BY <1>1, StoreInvariant, PTL DEF Spec, StatusAgreesWithMark

\* write(): a stamped title gives way to a later stamp only, unless the write
\* is torn.
THEOREM RenamesStick == Spec => OperatorTitleSticks
<1>1. ASSUME StoreInv, [Next]_vars
      PROVE  [row.exists /\ row'.exists /\ row'.state.userAt < row.state.userAt
                => \E p \in Proc : TornWrite(p)]_vars
    BY <1>1, TitleStays
<1> QED BY <1>1, StoreInvariant, PTL DEF Spec, OperatorTitleSticks

\* releaseOwnTurns() at the end of shutdown(): the process leaves no mark.
THEOREM ExitsAreClean == Spec => CleanExit
<1>1. ASSUME StoreInv, [Next]_vars
      PROVE  [\A p \in Proc :
                CloseStore(p) /\ row'.exists /\ row'.owner.pid = p
                    => row'.owner.inc # inc[p]]_vars
    <2>1. ASSUME NEW p \in Proc, CloseStore(p), row'.exists, row'.owner.pid = p,
                 row'.owner.inc = inc[p]
          PROVE  FALSE
        <3>1. /\ RowInv /\ MarkInv /\ own[p] \in Marks /\ NoMark \in Marks
              /\ "interrupted" \in Status /\ inc[p] # 0 /\ up[p] # "down"
            BY <1>1, <2>1, ConstantShapes DEF StoreInv, ProcInv, Status, CloseStore
        <3>2. row'.owner # NoMark
            BY <2>1, <3>1 DEF NoMark
        <3>3. row' = row /\ ~(own[p] # NoMark /\ row.exists /\ row.owner = own[p])
            BY <2>1, <3>1, <3>2, EndIfMarkedIs DEF CloseStore
        <3>4. row.owner = own[p]
            BY <2>1, <3>1, <3>2, <3>3 DEF MarkInv, LiveMarkIsOwn
        <3> QED BY <2>1, <3>2, <3>3, <3>4
    <2> QED BY <2>1
<1> QED BY <1>1, StoreInvariant, PTL DEF Spec, CleanExit

\* recoverInterruptedTurns() and isTurnOwnerGone(): a boot ends the abandoned
\* turns and no other.
THEOREM SweepsAreExact == Spec => SweepIsExact
<1>1. ASSUME StoreInv, [Next]_vars
      PROVE  [\A p \in Proc : Boot(p) /\ row.exists =>
                /\ Alive(row.owner) => row' = row
                /\ row'.state.status \in Live => Alive(row.owner) \/ ~StartTimeKnown]_vars
    <2>1. ASSUME NEW p \in Proc, Boot(p), row.exists
          PROVE  /\ Alive(row.owner) => row' = row
                 /\ row'.state.status \in Live => Alive(row.owner) \/ ~StartTimeKnown
        <3>1. RowInv /\ row' = Swept(p) /\ up[p] = "down"
            BY <1>1, <2>1 DEF StoreInv, Boot
        <3>2. Alive(row.owner) => ~OwnerGone(row.owner, p)
            BY <3>1 DEF Alive, OwnerGone
        <3>3. ~OwnerGone(row.owner, p) => Alive(row.owner) \/ ~StartTimeKnown
            BY DEF Alive, OwnerGone
        <3>4. "interrupted" \notin Live
            BY DEF Live
        <3> QED BY <2>1, <3>1, <3>2, <3>3, <3>4, SweptIs
    <2> QED BY <2>1
<1> QED BY <1>1, StoreInvariant, PTL DEF Spec, SweepIsExact
==============================================================================
