--------------------------- MODULE ReceiptsSyncProofs ---------------------------
(***************************************************************************)
(* Theorems about ReceiptsSync: its type invariant, that no receipt is     *)
(* skipped, and that the lock keeps syncs apart when none is slow.         *)
(***************************************************************************)
EXTENDS ReceiptsSync, TLAPS

-----------------------------------------------------------------------------
(***************************************************************************)
(* Positions.  The position a sync starts from is computed from a cursor:  *)
(* it must lie in the inbox, of length n.                                  *)
(***************************************************************************)
At(c)       == c.last - Uid(c.validity, 0)
InBox(c, n) == c.validity # 0 => At(c) \in 0..n

\* A rescan for which nothing was awaited starts past the end.
PastEnd(s) == s.rescan /\ s.at = MaxMail /\ s.pc \in {"opened", "listed"}

SyncOK(s, n) ==
  /\ s.pc \in {"idle", "claimed", "read"} => ~s.rescan
  /\ s.pc = "read" => InBox(s.cursor, n) /\ (s.at <= n \/ s.at = MaxMail)
  /\ s.pc \in {"opened", "listed", "applied"} =>
       /\ s.cursor.validity # 0
       /\ s.rescan => InBox(s.cursor, n)
       /\ s.at <= n \/ PastEnd(s)
  /\ s.pc \in {"listed", "applied"} => s.to <= n /\ (s.rescan => At(s.cursor) <= s.to)

PositionsOK ==
  /\ InBox(cursor, Len(inbox))
  /\ \A t \in Tid : transmission[t].createdAt <= Len(inbox)
  /\ \A p \in Syncs : SyncOK(sync[p], Len(inbox))

BaseInv == TypeOK /\ PositionsOK

-----------------------------------------------------------------------------
(***************************************************************************)
(* Lemmas on types and positions.                                          *)
(***************************************************************************)
LEMMA UidType ==
  ASSUME NEW v \in 1..MaxValidity, NEW k \in Position
  PROVE  /\ Uid(v, k) \in UidRange /\ [validity |-> v, last |-> Uid(v, k)] \in Cursor
         /\ At([validity |-> v, last |-> Uid(v, k)]) = k
  <1>1. MaxValidity \in Nat /\ MaxMail \in Nat
    BY SyncAssumption
  <1>2. Uid(v, k) \in UidRange
    BY <1>1 DEF Uid, UidRange, Position
  <1> QED
    BY <1>1, <1>2 DEF Uid, Cursor, At, Position

LEMMA IdleOK ==
  /\ Idle \in SyncState /\ Ending \in SyncState
  /\ \A n \in Nat : SyncOK(Idle, n) /\ SyncOK(Ending, n)
  <1>1. MaxValidity \in Nat \ {0} /\ MaxMail \in Nat
    BY SyncAssumption
  <1>2. [validity |-> 0, last |-> 0] \in Cursor
    BY <1>1 DEF Cursor, UidRange
  <1>3. Idle \in SyncState
    BY <1>1, <1>2 DEF Idle, SyncState, Position
  <1>4. Ending \in SyncState
    BY <1>3 DEF Idle, Ending, SyncState
  <1> QED
    BY <1>3, <1>4 DEF Idle, Ending, SyncOK

LEMMA SyncOKGrows ==
  ASSUME NEW s \in SyncState, NEW n \in Nat, NEW m \in Nat, n <= m, SyncOK(s, n)
  PROVE  SyncOK(s, m)
  BY SyncAssumption DEF SyncOK, SyncState, InBox, At, Uid, Cursor, UidRange, PastEnd, Position

LEMMA InBoxGrows ==
  ASSUME NEW c \in Cursor, NEW n \in Nat, NEW m \in Nat, n <= m, InBox(c, n)
  PROVE  InBox(c, m)
  BY SyncAssumption DEF InBox, At, Uid, Cursor, UidRange

\* What a step of the sync p has to show: the new state of p, and the cursor, are well placed; the inbox stays.
LEMMA SyncStepOK ==
  ASSUME BaseInv, NEW p \in Syncs, NEW s \in SyncState, sync' = [sync EXCEPT ![p] = s], SyncOK(s, Len(inbox)),
         cursor' \in Cursor, InBox(cursor', Len(inbox)), lock' \in {"free", "held", "stale"},
         transmission' \in [Tid -> Row], \A t \in Tid : transmission'[t].createdAt = transmission[t].createdAt,
         UNCHANGED <<inbox, validity>>
  PROVE  BaseInv'
  <1>1. TypeOK'
    BY DEF BaseInv, TypeOK
  <1>2. \A q \in Syncs : SyncOK(sync'[q], Len(inbox))
    BY DEF BaseInv, TypeOK, PositionsOK
  <1>3. PositionsOK'
    BY <1>2 DEF BaseInv, TypeOK, PositionsOK
  <1> QED
    BY <1>1, <1>3 DEF BaseInv

LEMMA BaseInit == Init => BaseInv
  <1> SUFFICES ASSUME Init PROVE BaseInv
    OBVIOUS
  <1>1. MaxValidity \in Nat \ {0} /\ MaxMail \in Nat /\ MaxTransmissions \in Nat
    BY SyncAssumption
  <1>2. [validity |-> 0, last |-> 0] \in Cursor
    BY <1>1 DEF Cursor, UidRange
  <1>3. TypeOK
    BY <1>1, <1>2, IdleOK DEF Init, TypeOK, Row, Position
  <1>4. PositionsOK
    BY <1>1, IdleOK DEF Init, PositionsOK, InBox
  <1> QED
    BY <1>3, <1>4 DEF BaseInv

-----------------------------------------------------------------------------
(***************************************************************************)
(* Every step keeps types and positions.                                   *)
(***************************************************************************)
LEMMA BaseMail == BaseInv /\ Mail => BaseInv'
  <1> SUFFICES ASSUME BaseInv, Mail PROVE BaseInv'
    OBVIOUS
  <1> USE SyncAssumption DEF BaseInv
  <1>0. Len(inbox) \in Nat
    BY DEF TypeOK
  <1>1. CASE Arrive
    <2>1. PICK t \in Tid \cup {NoOne} : inbox' = Append(inbox, t)
      BY <1>1 DEF Arrive
    <2>2. inbox' \in Seq(Tid \cup {NoOne}) /\ Len(inbox') = Len(inbox) + 1 /\ Len(inbox') <= MaxMail
      BY <1>1, <2>1 DEF Arrive, TypeOK
    <2>3. TypeOK'
      BY <1>1, <2>2 DEF Arrive, TypeOK
    <2>4. InBox(cursor, Len(inbox'))
      BY <1>0, <2>2, InBoxGrows DEF TypeOK, PositionsOK
    <2>5. \A p \in Syncs : SyncOK(sync[p], Len(inbox'))
      BY <1>0, <2>2, SyncOKGrows DEF TypeOK, PositionsOK
    <2>6. \A t2 \in Tid : transmission[t2].createdAt <= Len(inbox')
      BY <1>0, <2>2 DEF TypeOK, PositionsOK, Row, Position
    <2> QED
      BY <1>1, <2>3, <2>4, <2>5, <2>6 DEF Arrive, PositionsOK
  <1>2. CASE Renumber
    BY <1>2 DEF Renumber, TypeOK, PositionsOK
  <1>3. ASSUME NEW t \in Tid, Send(t) PROVE BaseInv'
    <2>1. [status |-> "awaiting", createdAt |-> Len(inbox)] \in Row
      BY <1>0 DEF Row, Position, TypeOK
    <2> QED
      BY <1>0, <1>3, <2>1 DEF Send, TypeOK, PositionsOK
  <1>4. ASSUME NEW t \in Tid, SendFails(t) \/ Upload(t) PROVE BaseInv'
    <2>1. PICK st \in {"error", "decided"} : transmission' = [transmission EXCEPT ![t].status = st]
      BY <1>4 DEF SendFails, Upload
    <2>2. UNCHANGED <<inbox, validity, cursor, lock, sync>>
      BY <1>4 DEF SendFails, Upload
    <2>3. transmission' \in [Tid -> Row] /\ \A u \in Tid : transmission'[u].createdAt = transmission[u].createdAt
      BY <2>1 DEF TypeOK, Row
    <2> QED
      BY <2>2, <2>3 DEF TypeOK, PositionsOK
  <1> QED
    BY <1>1, <1>2, <1>3, <1>4 DEF Mail

LEMMA RescanFromType == ASSUME TypeOK, NEW at, RescanFrom(at) PROVE at \in Position
  BY SyncAssumption DEF RescanFrom, TypeOK, Awaiting, Row, Position

LEMMA BaseStart ==
  ASSUME BaseInv, NEW p \in Syncs, Claim(p) \/ ReadState(p)
  PROVE  BaseInv'
  <1> USE DEF BaseInv
  <1>0. Len(inbox) \in Nat /\ sync[p] \in SyncState /\ SyncOK(sync[p], Len(inbox)) /\ cursor \in Cursor
    BY DEF TypeOK, PositionsOK
  <1>1. CASE Claim(p)
    <2> DEFINE s == [sync[p] EXCEPT !.pc = "claimed"]
    <2>1. s \in SyncState /\ SyncOK(s, Len(inbox))
      BY <1>0, <1>1 DEF Claim, SyncState, SyncOK
    <2>2. sync' = [sync EXCEPT ![p] = s]
      BY <1>1 DEF Claim, TypeOK
    <2> QED
      BY <1>1, <2>1, <2>2, SyncStepOK DEF Claim, TypeOK, PositionsOK
  <1>2. CASE ReadState(p)
    <2>1. PICK at \in Position : /\ RescanFrom(at)
                               /\ sync' = [sync EXCEPT ![p].pc = "read", ![p].cursor = cursor, ![p].at = at]
      BY <1>2 DEF ReadState
    <2>4. at <= Len(inbox) \/ at = MaxMail
      BY <2>1 DEF RescanFrom, Awaiting, PositionsOK
    <2> DEFINE s == [sync[p] EXCEPT !.pc = "read", !.cursor = cursor, !.at = at]
    <2>2. s \in SyncState /\ SyncOK(s, Len(inbox))
      BY <1>0, <1>2, <2>4 DEF ReadState, SyncState, SyncOK, PositionsOK
    <2>3. sync' = [sync EXCEPT ![p] = s]
      BY <2>1 DEF TypeOK
    <2> HIDE DEF s
    <2> QED
      BY <1>2, <2>2, <2>3, SyncStepOK DEF ReadState, TypeOK, PositionsOK
  <1> QED
    BY <1>1, <1>2

LEMMA SessionType ==
  ASSUME BaseInv, NEW pc \in {"opened", "listed"}, NEW last \in UidRange, NEW rescan \in BOOLEAN,
         NEW at \in Position, NEW to \in Position
  PROVE  Session(pc, last, rescan, at, to) \in SyncState
  BY SyncAssumption DEF BaseInv, TypeOK, Session, SyncState, Cursor

\* What a sync is when it has opened the inbox.
LEMMA OpenedOK ==
  ASSUME BaseInv, NEW s \in SyncState, s.pc = "read", SyncOK(s, Len(inbox))
  PROVE  Opened(s) \in SyncState /\ SyncOK(Opened(s), Len(inbox))
  <1> DEFINE n == Len(inbox)
  <1>1. n \in Position /\ n \in Nat /\ validity \in 1..MaxValidity /\ MaxMail \in Nat /\ MaxValidity \in Nat /\ 0 \in Position
        /\ 0 \in UidRange
    BY SyncAssumption DEF BaseInv, TypeOK, Position, UidRange
  <1>2. s.cursor \in Cursor /\ s.at \in Position /\ s.cursor.last \in UidRange
    BY DEF SyncState, Cursor
  <1>3. CASE ~Resumes(s.cursor, validity)
    <2>1. Opened(s) = Session("opened", Newest, TRUE, s.at, 0)
      BY <1>3 DEF Opened
    <2>2. Newest \in UidRange /\ At([validity |-> validity, last |-> Newest]) = n
      BY <1>1, UidType DEF Newest
    <2>3. Opened(s) \in SyncState
      BY <1>1, <1>2, <2>1, <2>2, SessionType
    <2>4. s.at <= n \/ s.at = MaxMail
      BY DEF SyncOK
    <2> QED
      BY <1>1, <2>1, <2>2, <2>3, <2>4 DEF Session, SyncOK, InBox, PastEnd
  <1>4. CASE Resumes(s.cursor, validity) /\ s.cursor.last < Newest
    <2> DEFINE at == s.cursor.last - Uid(validity, 0)
    <2>1. Opened(s) = Session("opened", 0, FALSE, at, 0)
      BY <1>4 DEF Opened
    <2>2. at \in 0..n
      BY <1>1, <1>4 DEF Resumes, SyncOK, InBox, At
    <2>3. at \in Position /\ at <= n
      BY <1>1, <2>2 DEF Position
    <2>4. Opened(s) \in SyncState
      BY <1>1, <2>1, <2>3, SessionType
    <2> QED
      BY <1>1, <2>1, <2>3, <2>4 DEF Session, SyncOK
  <1>5. CASE Resumes(s.cursor, validity) /\ ~(s.cursor.last < Newest)
    <2>1. Opened(s) = Session("listed", 0, FALSE, n, n)
      BY <1>5 DEF Opened
    <2>2. Opened(s) \in SyncState
      BY <1>1, <2>1, SessionType
    <2> QED
      BY <1>1, <2>1, <2>2 DEF Session, SyncOK
  <1> QED
    BY <1>3, <1>4, <1>5

LEMMA BaseOpen ==
  ASSUME BaseInv, NEW p \in Syncs, Open(p)
  PROVE  BaseInv'
  <1>1. Opened(sync[p]) \in SyncState /\ SyncOK(Opened(sync[p]), Len(inbox))
    BY OpenedOK DEF BaseInv, TypeOK, PositionsOK, Open
  <1> QED
    BY <1>1, SyncStepOK DEF BaseInv, Open, TypeOK, PositionsOK

LEMMA BaseList ==
  ASSUME BaseInv, NEW p \in Syncs, List(p)
  PROVE  BaseInv'
  <1> DEFINE s == [sync[p] EXCEPT !.pc = "listed", !.to = Len(inbox)]
  <1>1. sync[p] \in SyncState /\ SyncOK(sync[p], Len(inbox)) /\ Len(inbox) \in Position /\ MaxMail \in Nat
    BY SyncAssumption DEF BaseInv, TypeOK, PositionsOK, Position
  <1>2. s \in SyncState
    BY <1>1 DEF SyncState
  <1>3. SyncOK(s, Len(inbox))
    BY <1>1 DEF List, SyncOK, SyncState, InBox, PastEnd
  <1>4. sync' = [sync EXCEPT ![p] = s]
    BY DEF List, BaseInv, TypeOK
  <1> HIDE DEF s
  <1> QED
    BY <1>2, <1>3, <1>4, SyncStepOK DEF BaseInv, List, TypeOK, PositionsOK

LEMMA BaseApply ==
  ASSUME BaseInv, NEW p \in Syncs, Apply(p)
  PROVE  BaseInv'
  <1> DEFINE k == sync[p].at + 1
             s == [sync[p] EXCEPT !.pc = "applied", !.at = k]
  <1>1. sync[p] \in SyncState /\ SyncOK(sync[p], Len(inbox)) /\ Len(inbox) \in Nat /\ Len(inbox) <= MaxMail /\ MaxMail \in Nat
    BY SyncAssumption DEF BaseInv, TypeOK, PositionsOK
  <1>2. k \in 1..Len(inbox) /\ k <= sync[p].to
    BY <1>1 DEF Apply, SyncOK, SyncState, Position
  <1>8. k \in Position
    BY <1>1, <1>2 DEF Position
  <1>3. s \in SyncState
    <2> HIDE DEF k
    <2> QED
      BY <1>1, <1>8 DEF SyncState
  <1>4. SyncOK(s, Len(inbox))
    BY <1>1, <1>2 DEF Apply, SyncOK, SyncState, InBox
  <1>5. sync' = [sync EXCEPT ![p] = s]
    BY DEF Apply, BaseInv, TypeOK
  <1>6. inbox[k] \in Tid \cup {NoOne}
    BY <1>2 DEF BaseInv, TypeOK
  <1>7. transmission' \in [Tid -> Row] /\ \A t \in Tid : transmission'[t].createdAt = transmission[t].createdAt
    <2>1. CASE inbox[k] = NoOne
      BY <2>1 DEF Apply, BaseInv, TypeOK
    <2>2. CASE inbox[k] # NoOne
      BY <1>6, <2>2 DEF Apply, BaseInv, TypeOK, Row
    <2> QED
      BY <2>1, <2>2
  <1> HIDE DEF s
  <1> QED
    BY <1>3, <1>4, <1>5, <1>7, SyncStepOK DEF BaseInv, Apply, TypeOK, PositionsOK

\* The cursor saved after a message is well placed, and so is the one saved at the end.
LEMMA SavedOK ==
  ASSUME BaseInv, NEW p \in Syncs, sync[p].pc \in {"listed", "applied"}, sync[p].at <= Len(inbox)
  PROVE  /\ [validity |-> sync[p].cursor.validity, last |-> Uid(sync[p].cursor.validity, sync[p].at)] \in Cursor
         /\ At([validity |-> sync[p].cursor.validity, last |-> Uid(sync[p].cursor.validity, sync[p].at)]) = sync[p].at
         /\ InBox([validity |-> sync[p].cursor.validity, last |-> Uid(sync[p].cursor.validity, sync[p].at)], Len(inbox))
  <1>1. sync[p].cursor.validity \in 1..MaxValidity /\ sync[p].at \in Position /\ sync[p].at \in 0..Len(inbox)
    BY SyncAssumption DEF BaseInv, TypeOK, PositionsOK, SyncOK, SyncState, Cursor, Position
  <1> QED
    BY <1>1, UidType DEF InBox

LEMMA BaseSave ==
  ASSUME BaseInv, NEW p \in Syncs, Save(p)
  PROVE  BaseInv'
  <1> DEFINE s == [sync[p] EXCEPT !.pc = "listed"]
  <1>1. sync[p] \in SyncState /\ SyncOK(sync[p], Len(inbox)) /\ sync[p].at <= Len(inbox)
    BY DEF BaseInv, TypeOK, PositionsOK, SyncOK, PastEnd, Save
  <1>2. s \in SyncState /\ SyncOK(s, Len(inbox))
    BY <1>1 DEF Save, SyncState, SyncOK, InBox, PastEnd
  <1>3. sync' = [sync EXCEPT ![p] = s]
    BY DEF Save, BaseInv, TypeOK
  <1>4. cursor' \in Cursor /\ InBox(cursor', Len(inbox))
    BY <1>1, SavedOK DEF Save, SaveCursor, BaseInv, TypeOK, PositionsOK
  <1> HIDE DEF s
  <1> QED
    BY <1>2, <1>3, <1>4, SyncStepOK DEF BaseInv, Save, TypeOK, PositionsOK

LEMMA BaseFinish ==
  ASSUME BaseInv, NEW p \in Syncs, Finish(p)
  PROVE  BaseInv'
  <1>1. sync[p] \in SyncState /\ SyncOK(sync[p], Len(inbox)) /\ Len(inbox) \in Nat
    BY DEF BaseInv, TypeOK, PositionsOK
  <1>2. cursor' \in Cursor /\ InBox(cursor', Len(inbox))
    <2>1. CASE sync[p].rescan
      <3>1. cursor' = sync[p].cursor
        BY <1>1, <2>1 DEF Finish, LastUid, SyncState, Cursor
      <3> QED
        BY <1>1, <2>1, <3>1 DEF Finish, SyncOK, SyncState
    <2>2. CASE ~sync[p].rescan
      <3>1. sync[p].at <= Len(inbox)
        BY <1>1, <2>2 DEF Finish, SyncOK, PastEnd
      <3> QED
        BY <2>2, <3>1, SavedOK DEF Finish, LastUid
    <2> QED
      BY <2>1, <2>2
  <1> QED
    BY <1>1, <1>2, IdleOK, SyncStepOK DEF BaseInv, Finish, TypeOK, PositionsOK

LEMMA BaseEnd ==
  ASSUME BaseInv, NEW p \in Syncs, Fail(p) \/ Release(p) \/ Stop(p)
  PROVE  BaseInv'
  <1>1. PICK s \in {Idle, Ending} : sync' = [sync EXCEPT ![p] = s]
    BY DEF Fail, Release, Stop
  <1>2. s \in SyncState /\ SyncOK(s, Len(inbox))
    BY <1>1, IdleOK DEF BaseInv, TypeOK
  <1> QED
    BY <1>1, <1>2, SyncStepOK DEF BaseInv, Fail, Release, Stop, TypeOK, PositionsOK

\* Types and positions are an inductive invariant.
LEMMA BaseStep == BaseInv /\ [Next]_vars => BaseInv'
  <1> SUFFICES ASSUME BaseInv, [Next]_vars PROVE BaseInv'
    OBVIOUS
  <1>1. CASE Mail
    BY <1>1, BaseMail
  <1>2. CASE Expire
    BY <1>2 DEF Expire, BaseInv, TypeOK, PositionsOK
  <1>3. ASSUME NEW p \in Syncs, Claim(p) \/ Proceed(p) \/ Stop(p) PROVE BaseInv'
    BY <1>3, BaseStart, BaseOpen, BaseList, BaseApply, BaseSave, BaseFinish, BaseEnd DEF Proceed
  <1>4. CASE UNCHANGED vars
    BY <1>4 DEF vars, BaseInv, TypeOK, PositionsOK
  <1> QED
    BY <1>1, <1>2, <1>3, <1>4 DEF Next

\* Every reachable state is well typed, whatever syncs overlap and whatever SMTP reports: no position or UID a sync
\* computes leaves the inbox.
THEOREM SyncTypeCorrect == Spec => []TypeOK
  <1>1. BaseInv => TypeOK
    BY DEF BaseInv
  <1> QED
    BY <1>1, BaseInit, BaseStep, PTL DEF Spec

-----------------------------------------------------------------------------
(***************************************************************************)
(* The lock keeps syncs apart when none is slow.                           *)
(***************************************************************************)
OneRuns == \A p \in Running : lock = "held" /\ \A q \in Running : p = q

\* The lock is set while a sync runs, if every sync handles a message in STALE_LOCK_MS: only a crashed one is taken over.
THEOREM LockKept ==
  ASSUME SlowSyncs = {}
  PROVE  Spec => []LockSet
  <1>1. Init => OneRuns
    <2> SUFFICES ASSUME Init PROVE OneRuns
      OBVIOUS
    <2>1. \A p \in Syncs : sync[p].pc = "idle"
      BY DEF Init, Idle
    <2> QED
      BY <2>1 DEF OneRuns, Running
  <1>2. TypeOK /\ OneRuns /\ [Next]_vars => OneRuns'
    <2> SUFFICES ASSUME TypeOK, OneRuns, [Next]_vars PROVE OneRuns'
      OBVIOUS
    <2>1. CASE Mail
      BY <2>1 DEF Mail, Arrive, Renumber, Send, SendFails, Upload, OneRuns, Running
    <2>2. CASE Expire
      BY <2>2 DEF Expire, OneRuns, Running
    <2>3. ASSUME NEW p \in Syncs, Claim(p) PROVE OneRuns'
      <3>1. Running = {}
        BY <2>3 DEF Claim, Claimable, OneRuns
      <3>2. \A q \in Syncs : q # p => sync'[q] = sync[q]
        BY <2>3 DEF Claim, TypeOK
      <3> QED
        BY <2>3, <3>1, <3>2 DEF Claim, OneRuns, Running
    <2>4. ASSUME NEW p \in Syncs, Proceed(p) \/ Stop(p) PROVE OneRuns'
      <3>1. p \in Running
        BY <2>4 DEF Proceed, ReadState, Open, List, Apply, Save, Finish, Fail, Release, Stop, Running
      <3>2. \A q \in Syncs : q # p => sync'[q] = sync[q]
        BY <2>4 DEF Proceed, ReadState, Open, List, Apply, Save, Finish, Fail, Release, Stop, TypeOK
      <3>3. Running' \subseteq {p}
        BY <3>1, <3>2 DEF OneRuns, Running
      <3>4. CASE Release(p) \/ Stop(p)
        <4>1. sync'[p].pc = "idle"
          BY <3>4 DEF Release, Stop, Idle, TypeOK
        <4> QED
          BY <3>3, <4>1 DEF OneRuns, Running
      <3>5. CASE ~Release(p) /\ ~Stop(p)
        <4>1. lock' = "held"
          BY <2>4, <3>1, <3>5 DEF Proceed, ReadState, Open, List, Apply, Save, Finish, Fail, OneRuns
        <4> QED
          BY <3>3, <4>1 DEF OneRuns
      <3> QED
        BY <3>4, <3>5
    <2>5. CASE UNCHANGED vars
      BY <2>5 DEF vars, OneRuns, Running
    <2> QED
      BY <2>1, <2>2, <2>3, <2>4, <2>5 DEF Next
  <1>3. OneRuns => LockSet
    BY DEF OneRuns, LockSet
  <1> QED
    BY <1>1, <1>2, <1>3, SyncTypeCorrect, PTL DEF Spec

-----------------------------------------------------------------------------
(***************************************************************************)
(* No receipt is skipped.  Every receipt at or before a position has been  *)
(* applied, in a box with given transmissions.                             *)
(***************************************************************************)
Read(k, box, rows) == \A j \in DOMAIN box : j <= k /\ box[j] # NoOne => rows[box[j]].status = "decided"

CursorRead(c, box, rows) == c.validity # 0 => Read(At(c), box, rows)

\* A sync searches after receipts that were read, or resumes after them; one that rescans past the end of the box has
\* read what was in it.
SyncRead(s, box, rows) ==
  /\ s.pc = "read" => CursorRead(s.cursor, box, rows) /\ Read(s.at, box, rows)
  /\ s.pc \in {"opened", "listed", "applied"} =>
       \/ s.at <= Len(box) /\ Read(s.at, box, rows)
       \/ PastEnd(s) /\ Read(At(s.cursor), box, rows)

\* A receipt comes for a transmission made before it, whose message has left.
MailOK ==
  \A j \in DOMAIN inbox : inbox[j] # NoOne =>
    transmission[inbox[j]].status \in {"awaiting", "decided"} /\ transmission[inbox[j]].createdAt < j

IInv ==
  /\ BaseInv
  /\ MailOK
  /\ CursorRead(cursor, inbox, transmission)
  /\ \A p \in Syncs : SyncRead(sync[p], inbox, transmission)

\* Messages stay where they are, and decided transmissions stay decided.
Grows ==
  /\ inbox' \in Seq(Tid \cup {NoOne}) /\ Len(inbox) <= Len(inbox')
  /\ \A j \in 1..Len(inbox) : inbox'[j] = inbox[j]
  /\ \A t \in Tid : transmission[t].status = "decided" => transmission'[t].status = "decided"

LEMMA ReadGrows ==
  ASSUME BaseInv, Grows, NEW k \in Int, k <= Len(inbox), Read(k, inbox, transmission)
  PROVE  Read(k, inbox', transmission')
  BY DEF BaseInv, TypeOK, Grows, Read

LEMMA CursorReadGrows ==
  ASSUME BaseInv, Grows, NEW c \in Cursor, InBox(c, Len(inbox)), CursorRead(c, inbox, transmission)
  PROVE  CursorRead(c, inbox', transmission')
  BY ReadGrows DEF CursorRead, InBox

\* What is read stays read, but for a sync that is about to open the inbox when a message comes.
LEMMA SyncReadGrows ==
  ASSUME BaseInv, Grows, NEW p \in Syncs, SyncRead(sync[p], inbox, transmission),
         sync[p].pc = "read" => sync[p].at <= Len(inbox) \/ inbox' = inbox
  PROVE  SyncRead(sync[p], inbox', transmission')
  <1> DEFINE s == sync[p]
  <1>1. s \in SyncState /\ s.at \in Int /\ SyncOK(s, Len(inbox)) /\ s.cursor \in Cursor /\ Len(inbox) \in Nat
    BY SyncAssumption DEF BaseInv, TypeOK, PositionsOK, SyncState, Position
  <1>2. CASE s.pc = "read"
    <2>1. CursorRead(s.cursor, inbox', transmission')
      BY <1>1, <1>2, CursorReadGrows DEF SyncRead, SyncOK
    <2>2. Read(s.at, inbox', transmission')
      <3>1. CASE s.at <= Len(inbox)
        BY <1>1, <1>2, <3>1, ReadGrows DEF SyncRead
      <3>2. CASE inbox' = inbox
        BY <1>2, <3>2 DEF SyncRead, Read, Grows, BaseInv, TypeOK
      <3> QED
        BY <1>2, <3>1, <3>2
    <2> QED
      BY <1>2, <2>1, <2>2 DEF SyncRead
  <1>3. CASE s.pc \in {"opened", "listed", "applied"}
    <2>1. CASE s.at <= Len(inbox) /\ Read(s.at, inbox, transmission)
      <3>1. Read(s.at, inbox', transmission') /\ s.at <= Len(inbox')
        BY <1>1, <2>1, ReadGrows DEF Grows
      <3> QED
        BY <1>3, <3>1 DEF SyncRead
    <2>2. CASE PastEnd(s) /\ Read(At(s.cursor), inbox, transmission)
      <3>1. At(s.cursor) \in 0..Len(inbox)
        BY <1>1, <1>3, <2>2 DEF SyncOK, PastEnd, InBox
      <3>2. Read(At(s.cursor), inbox', transmission')
        BY <1>1, <2>2, <3>1, ReadGrows
      <3> QED
        BY <1>3, <2>2, <3>2 DEF SyncRead
    <2> QED
      BY <1>3, <2>1, <2>2 DEF SyncRead
  <1>4. CASE s.pc \in {"idle", "claimed", "ending"}
    BY <1>4 DEF SyncRead
  <1> QED
    BY <1>1, <1>2, <1>3, <1>4 DEF SyncState

\* What a step of p has to show.
LEMMA ReadStepOK ==
  ASSUME IInv, BaseInv', Grows, MailOK', NEW p \in Syncs, NEW s \in SyncState, sync' = [sync EXCEPT ![p] = s],
         inbox' = inbox, SyncRead(s, inbox', transmission'), CursorRead(cursor', inbox', transmission')
  PROVE  IInv'
  <1>1. \A q \in Syncs : q # p => SyncRead(sync[q], inbox', transmission')
    BY SyncReadGrows DEF IInv
  <1>2. \A q \in Syncs : SyncRead(sync'[q], inbox', transmission')
    BY <1>1 DEF IInv, BaseInv, TypeOK
  <1> QED
    BY <1>2 DEF IInv

-----------------------------------------------------------------------------
(***************************************************************************)
(* Every step keeps IInv.                                                  *)
(***************************************************************************)
LEMMA InvMail ==
  ASSUME SmtpAmbiguous = FALSE, SlowLogins = FALSE, IInv, BaseInv', Mail
  PROVE  IInv'
  <1> USE DEF IInv
  <1>0. Len(inbox) \in Nat /\ inbox \in Seq(Tid \cup {NoOne}) /\ (\A p \in Syncs : sync[p].at \in Int)
    BY SyncAssumption DEF BaseInv, TypeOK, SyncState, Position
  <1>1. CASE Arrive
    <2>1. PICK t \in Tid \cup {NoOne} :
            /\ t # NoOne => /\ transmission[t].status \in {"awaiting", "decided"} /\ LoginEndsFirst(t)
            /\ inbox' = Append(inbox, t)
      BY <1>1 DEF Arrive
    <2> DEFINE n == Len(inbox)
    <2>2. /\ inbox' \in Seq(Tid \cup {NoOne}) /\ Len(inbox') = n + 1
          /\ \A j \in 1..n : inbox'[j] = inbox[j]
          /\ inbox'[n + 1] = t /\ DOMAIN inbox' = 1..(n + 1)
      BY <1>0, <2>1
    <2>3. Grows /\ UNCHANGED <<transmission, cursor, sync>>
      BY <1>0, <1>1, <2>2 DEF Arrive, Grows
    <2>4. t # NoOne => transmission[t].createdAt <= n
      BY <2>1 DEF BaseInv, PositionsOK
    <2>5. MailOK'
      <3> SUFFICES ASSUME NEW j \in 1..(n + 1), inbox'[j] # NoOne
                   PROVE  /\ transmission[inbox'[j]].status \in {"awaiting", "decided"}
                          /\ transmission[inbox'[j]].createdAt < j
        BY <2>2, <2>3 DEF MailOK
      <3>1. CASE j \in 1..n
        BY <1>0, <2>2, <3>1 DEF MailOK
      <3>2. CASE j = n + 1
        <4>1. transmission[t].createdAt \in Nat
          BY <2>1, <2>2, <3>2 DEF BaseInv, TypeOK, Row, Position
        <4> QED
          BY <1>0, <2>1, <2>2, <2>4, <3>2, <4>1
      <3> QED
        BY <3>1, <3>2, <1>0
    <2>6. CursorRead(cursor, inbox', transmission')
      BY <2>3, CursorReadGrows DEF BaseInv, TypeOK, PositionsOK
    <2>7. \A p \in Syncs : SyncRead(sync[p], inbox', transmission')
      <3> SUFFICES ASSUME NEW p \in Syncs PROVE SyncRead(sync[p], inbox', transmission')
        OBVIOUS
      <3>1. CASE sync[p].pc = "read" => sync[p].at <= n
        BY <2>3, <3>1, SyncReadGrows
      <3>2. CASE sync[p].pc = "read" /\ ~(sync[p].at <= n)
        <4>1. t = NoOne
          BY <1>0, <2>1, <2>4, <3>2 DEF LoginEndsFirst, BaseInv, TypeOK, Row, Position
        <4>2. Read(sync[p].at, inbox', transmission')
          BY <1>0, <2>2, <2>3, <3>2, <4>1 DEF SyncRead, Read
        <4>3. CursorRead(sync[p].cursor, inbox', transmission')
          BY <2>3, <3>2, CursorReadGrows DEF SyncRead, BaseInv, TypeOK, PositionsOK, SyncOK, SyncState
        <4> QED
          BY <3>2, <4>2, <4>3 DEF SyncRead
      <3> QED
        BY <3>1, <3>2
    <2> QED
      BY <2>3, <2>5, <2>6, <2>7
  <1>2. CASE Renumber
    BY <1>2 DEF Renumber, MailOK
  <1>3. ASSUME NEW t \in Tid, Send(t) \/ SendFails(t) \/ Upload(t) PROVE IInv'
    <2>1. Grows /\ UNCHANGED <<inbox, cursor, sync>>
      BY <1>0, <1>3 DEF Send, SendFails, Upload, Grows, BaseInv, TypeOK, Row
    <2>2. MailOK'
      <3> SUFFICES ASSUME NEW j \in DOMAIN inbox, inbox[j] # NoOne
                   PROVE  /\ transmission'[inbox[j]].status \in {"awaiting", "decided"}
                          /\ transmission'[inbox[j]].createdAt < j
        BY <2>1 DEF MailOK
      <3>1. inbox[j] \in Tid
        BY <1>0
      <3> QED
        BY <1>3, <3>1 DEF Send, SendFails, Upload, MailOK, BaseInv, TypeOK, Row
    <2>3. CursorRead(cursor, inbox', transmission')
      BY <2>1, CursorReadGrows DEF BaseInv, TypeOK, PositionsOK
    <2>4. \A p \in Syncs : SyncRead(sync[p], inbox', transmission')
      BY <2>1, SyncReadGrows
    <2> QED
      BY <2>1, <2>2, <2>3, <2>4
  <1> QED
    BY <1>1, <1>2, <1>3 DEF Mail

\* The date to search from lies before every receipt that nobody has read.
LEMMA RescanRead ==
  ASSUME IInv, NEW at, RescanFrom(at)
  PROVE  Read(at, inbox, transmission)
  <1> SUFFICES ASSUME NEW j \in DOMAIN inbox, j <= at, inbox[j] # NoOne
               PROVE  transmission[inbox[j]].status = "decided"
    BY DEF Read
  <1>1. inbox[j] \in Tid /\ j \in Nat
    BY DEF IInv, BaseInv, TypeOK
  <1>2. at \in Nat /\ transmission[inbox[j]].createdAt \in Nat
    BY <1>1, RescanFromType DEF IInv, BaseInv, TypeOK, Row, Position
  <1>3. transmission[inbox[j]].createdAt < j /\ transmission[inbox[j]].status \in {"awaiting", "decided"}
    BY DEF IInv, MailOK
  <1>4. inbox[j] \notin Awaiting
    BY <1>1, <1>2, <1>3 DEF RescanFrom
  <1> QED
    BY <1>1, <1>3, <1>4 DEF Awaiting

LEMMA InvStart ==
  ASSUME IInv, BaseInv', NEW p \in Syncs, Claim(p) \/ ReadState(p)
  PROVE  IInv'
  <1>0. sync[p] \in SyncState /\ sync'[p] \in SyncState
    BY DEF IInv, BaseInv, TypeOK
  <1>1. Grows /\ MailOK' /\ UNCHANGED <<inbox, transmission, cursor>>
    BY DEF Claim, ReadState, Grows, IInv, BaseInv, TypeOK, MailOK
  <1>2. SyncRead(sync'[p], inbox, transmission)
    <2>1. CASE Claim(p)
      BY <2>1 DEF Claim, SyncRead, IInv, BaseInv, TypeOK
    <2>2. CASE ReadState(p)
      <3>1. PICK at \in Position : /\ RescanFrom(at)
                                   /\ sync' = [sync EXCEPT ![p].pc = "read", ![p].cursor = cursor, ![p].at = at]
        BY <2>2 DEF ReadState
      <3>2. sync'[p].pc = "read" /\ sync'[p].cursor = cursor /\ sync'[p].at = at
        BY <1>0, <3>1 DEF SyncState, IInv, BaseInv, TypeOK
      <3> QED
        BY <3>1, <3>2, RescanRead DEF SyncRead, IInv
    <2> QED
      BY <2>1, <2>2
  <1>3. sync' = [sync EXCEPT ![p] = sync'[p]]
    BY DEF Claim, ReadState, IInv, BaseInv, TypeOK
  <1> QED
    BY <1>0, <1>1, <1>2, <1>3, ReadStepOK DEF IInv

LEMMA InvOpen ==
  ASSUME IInv, BaseInv', NEW p \in Syncs, Open(p)
  PROVE  IInv'
  <1> DEFINE s == sync[p]
             n == Len(inbox)
  <1>1. s \in SyncState /\ SyncOK(s, n) /\ s.pc = "read" /\ s.cursor \in Cursor /\ s.at \in Position
        /\ n \in Nat /\ n \in Position /\ validity \in 1..MaxValidity /\ MaxMail \in Nat /\ MaxValidity \in Nat
    BY SyncAssumption DEF IInv, BaseInv, TypeOK, PositionsOK, Open, SyncState, Position
  <1>2. Opened(s) \in SyncState /\ SyncOK(Opened(s), n)
    BY <1>1, OpenedOK DEF IInv
  <1>3. CursorRead(s.cursor, inbox, transmission) /\ Read(s.at, inbox, transmission)
    BY <1>1 DEF IInv, SyncRead
  <1>4. SyncRead(Opened(s), inbox, transmission)
    <2>1. CASE ~Resumes(s.cursor, validity)
      <3>1. Opened(s) = Session("opened", Newest, TRUE, s.at, 0)
        BY <2>1 DEF Opened
      <3>2. At([validity |-> validity, last |-> Newest]) = n
        BY <1>1, UidType DEF Newest
      <3>3. CASE s.at <= n
        BY <1>3, <3>1, <3>3 DEF Session, SyncRead
      <3>4. CASE s.at = MaxMail
        <4>1. n <= MaxMail
          BY <1>1 DEF Position
        <4>2. Read(n, inbox, transmission)
          BY <1>1, <1>3, <3>4, <4>1 DEF Read, IInv, BaseInv, TypeOK
        <4> QED
          BY <3>1, <3>2, <3>4, <4>2 DEF Session, SyncRead, PastEnd
      <3> QED
        BY <1>1, <3>3, <3>4 DEF SyncOK
    <2>2. CASE Resumes(s.cursor, validity)
      <3>1. s.cursor.validity = validity /\ At(s.cursor) = s.cursor.last - Uid(validity, 0) /\ At(s.cursor) \in 0..n
        BY <1>1, <2>2 DEF Resumes, At, SyncOK, InBox
      <3>2. Read(At(s.cursor), inbox, transmission)
        BY <1>1, <1>3, <3>1 DEF CursorRead
      <3>3. CASE s.cursor.last < Newest
        <4>1. Opened(s) = Session("opened", 0, FALSE, s.cursor.last - Uid(validity, 0), 0)
          BY <2>2, <3>3 DEF Opened
        <4> QED
          BY <1>1, <3>1, <3>2, <4>1 DEF Session, SyncRead
      <3>4. CASE ~(s.cursor.last < Newest)
        <4>1. Opened(s) = Session("listed", 0, FALSE, n, n)
          BY <2>2, <3>4 DEF Opened
        <4>2. At(s.cursor) = n
          BY <1>1, <3>1, <3>4 DEF Newest, Uid, Cursor, UidRange
        <4> QED
          BY <1>1, <3>2, <4>1, <4>2 DEF Session, SyncRead
      <3> QED
        BY <3>3, <3>4
    <2> QED
      BY <2>1, <2>2
  <1>5. Grows /\ MailOK' /\ UNCHANGED <<inbox, transmission, cursor>> /\ sync' = [sync EXCEPT ![p] = Opened(s)]
    BY DEF Open, Grows, IInv, BaseInv, TypeOK, MailOK
  <1> QED
    BY <1>2, <1>4, <1>5, ReadStepOK DEF IInv

LEMMA InvApply ==
  ASSUME IInv, BaseInv', NEW p \in Syncs, Apply(p)
  PROVE  IInv'
  <1> DEFINE k == sync[p].at + 1
  <1>1. sync[p] \in SyncState /\ sync'[p] \in SyncState /\ SyncOK(sync[p], Len(inbox)) /\ sync[p].at \in Nat
        /\ Len(inbox) \in Nat /\ Len(inbox) <= MaxMail /\ MaxMail \in Nat
    BY SyncAssumption DEF IInv, BaseInv, TypeOK, PositionsOK, SyncState, Position
  <1>2. k \in 1..Len(inbox) /\ ~PastEnd(sync[p])
    BY <1>1 DEF Apply, SyncOK, SyncState, Position, PastEnd
  <1>3. inbox[k] \in Tid \cup {NoOne}
    BY <1>2 DEF IInv, BaseInv, TypeOK
  <1>4. /\ \A t \in Tid : transmission'[t].createdAt = transmission[t].createdAt
        /\ \A t \in Tid : transmission'[t].status = IF t = inbox[k] THEN "decided" ELSE transmission[t].status
    <2>1. CASE inbox[k] = NoOne
      BY <2>1 DEF Apply, NoOne, Tid
    <2>2. CASE inbox[k] # NoOne
      BY <1>3, <2>2 DEF Apply, IInv, BaseInv, TypeOK, Row
    <2> QED
      BY <2>1, <2>2
  <1>5. Grows /\ UNCHANGED <<inbox, cursor>>
    BY <1>4 DEF Apply, Grows, IInv, BaseInv, TypeOK
  <1>6. MailOK'
    BY <1>4, <1>5 DEF MailOK, IInv, BaseInv, TypeOK
  <1>7. sync'[p].pc = "applied" /\ sync'[p].at = k /\ sync' = [sync EXCEPT ![p] = sync'[p]]
    BY <1>1 DEF Apply, IInv, BaseInv, TypeOK, SyncState
  <1>8. Read(k, inbox', transmission')
    <2>1. Read(sync[p].at, inbox, transmission)
      BY <1>2 DEF Apply, IInv, SyncRead
    <2> SUFFICES ASSUME NEW j \in 1..Len(inbox), j <= k, inbox[j] # NoOne
                 PROVE  transmission'[inbox[j]].status = "decided"
      BY <1>5 DEF Read, IInv, BaseInv, TypeOK
    <2>2. inbox[j] \in Tid
      BY DEF IInv, BaseInv, TypeOK
    <2>3. CASE j = k
      BY <1>4, <2>2, <2>3
    <2>4. CASE j <= sync[p].at
      BY <1>4, <2>1, <2>2, <2>4 DEF Read, IInv, BaseInv, TypeOK
    <2> QED
      BY <1>1, <2>3, <2>4
  <1>9. SyncRead(sync'[p], inbox', transmission')
    BY <1>1, <1>2, <1>5, <1>7, <1>8 DEF SyncRead
  <1>10. CursorRead(cursor', inbox', transmission')
    BY <1>5, CursorReadGrows DEF IInv, BaseInv, TypeOK, PositionsOK
  <1> QED
    BY <1>1, <1>5, <1>6, <1>7, <1>9, <1>10, ReadStepOK DEF IInv

LEMMA InvRest ==
  ASSUME IInv, BaseInv', NEW p \in Syncs, List(p) \/ Save(p) \/ Finish(p) \/ Fail(p) \/ Release(p) \/ Stop(p)
  PROVE  IInv'
  <1> DEFINE s == sync[p]
  <1>1. s \in SyncState /\ sync'[p] \in SyncState /\ SyncOK(s, Len(inbox)) /\ Len(inbox) \in Nat
        /\ s.at \in Nat /\ s.to \in Nat /\ s.cursor \in Cursor /\ SyncRead(s, inbox, transmission)
    BY SyncAssumption DEF IInv, BaseInv, TypeOK, PositionsOK, SyncState, Position
  <1>2. Grows /\ MailOK' /\ UNCHANGED <<inbox, transmission>>
    BY DEF List, Save, Finish, Fail, Release, Stop, Grows, MailOK, IInv, BaseInv, TypeOK
  <1>3. sync' = [sync EXCEPT ![p] = sync'[p]]
    BY DEF List, Save, Finish, Fail, Release, Stop, IInv, BaseInv, TypeOK
  <1>4. SyncRead(sync'[p], inbox, transmission)
    <2>1. CASE List(p) \/ Save(p)
      <3>1. /\ s.pc \in {"opened", "applied"} /\ sync'[p].pc = "listed"
            /\ sync'[p].at = s.at /\ sync'[p].cursor = s.cursor /\ sync'[p].rescan = s.rescan
        BY <1>1, <2>1 DEF List, Save, SyncState, IInv, BaseInv, TypeOK
      <3> QED
        BY <1>1, <3>1 DEF SyncRead, PastEnd
    <2>2. CASE Finish(p) \/ Fail(p) \/ Release(p) \/ Stop(p)
      BY <2>2 DEF Finish, Fail, Release, Stop, Idle, Ending, SyncRead, IInv, BaseInv, TypeOK
    <2> QED
      BY <2>1, <2>2
  <1>5. CursorRead(cursor', inbox, transmission)
    <2>1. CASE Save(p)
      <3>1. s.at <= Len(inbox) /\ Read(s.at, inbox, transmission)
        BY <1>1, <2>1 DEF Save, SyncRead, PastEnd
      <3>2. At([validity |-> s.cursor.validity, last |-> Uid(s.cursor.validity, s.at)]) = s.at
        BY <2>1, <3>1, SavedOK DEF Save, IInv
      <3> QED
        BY <2>1, <3>1, <3>2 DEF Save, SaveCursor, CursorRead, IInv
    <2>2. CASE Finish(p) /\ s.rescan
      <3>1. cursor' = s.cursor
        BY <1>1, <2>2 DEF Finish, LastUid, SyncState, Cursor
      <3>2. CASE s.at <= Len(inbox) /\ Read(s.at, inbox, transmission)
        <4>1. At(s.cursor) <= s.at /\ At(s.cursor) \in Int
          BY <1>1, <2>2 DEF Finish, SyncOK, InBox
        <4> QED
          BY <1>1, <3>1, <3>2, <4>1 DEF CursorRead, Read, IInv, BaseInv, TypeOK
      <3>3. CASE Read(At(s.cursor), inbox, transmission)
        BY <3>1, <3>3 DEF CursorRead
      <3> QED
        BY <1>1, <2>2, <3>2, <3>3 DEF Finish, SyncRead
    <2>3. CASE Finish(p) /\ ~s.rescan
      <3>1. s.at <= Len(inbox) /\ Read(s.at, inbox, transmission)
        BY <1>1, <2>3 DEF Finish, SyncRead, PastEnd
      <3>2. At([validity |-> s.cursor.validity, last |-> Uid(s.cursor.validity, s.at)]) = s.at
        BY <2>3, <3>1, SavedOK DEF Finish, IInv
      <3> QED
        BY <2>3, <3>1, <3>2 DEF Finish, LastUid, CursorRead
    <2>4. CASE List(p) \/ Fail(p) \/ Release(p) \/ Stop(p)
      BY <2>4 DEF List, Fail, Release, Stop, IInv
    <2> QED
      BY <2>1, <2>2, <2>3, <2>4
  <1> QED
    BY <1>1, <1>2, <1>3, <1>4, <1>5, ReadStepOK DEF IInv

LEMMA InvInit == Init => IInv
  <1> SUFFICES ASSUME Init PROVE IInv
    OBVIOUS
  <1>1. BaseInv
    BY BaseInit
  <1>2. inbox = <<>> /\ cursor.validity = 0 /\ \A p \in Syncs : sync[p].pc = "idle"
    BY DEF Init, Idle
  <1> QED
    BY <1>1, <1>2 DEF IInv, MailOK, CursorRead, SyncRead

LEMMA InvStep ==
  ASSUME SmtpAmbiguous = FALSE, SlowLogins = FALSE, IInv, [Next]_vars
  PROVE  IInv'
  <1>1. BaseInv'
    BY BaseStep DEF IInv
  <1>2. CASE Mail
    BY <1>1, <1>2, InvMail
  <1>3. CASE Expire
    BY <1>1, <1>3 DEF Expire, IInv, MailOK
  <1>4. ASSUME NEW p \in Syncs, Claim(p) \/ Proceed(p) \/ Stop(p) PROVE IInv'
    BY <1>1, <1>4, InvStart, InvOpen, InvApply, InvRest DEF Proceed
  <1>5. CASE UNCHANGED vars
    BY <1>1, <1>5 DEF vars, IInv, MailOK
  <1> QED
    BY <1>2, <1>3, <1>4, <1>5 DEF Next

\* No sync ever starts after a receipt that nobody has read: for any number of syncs, however they overlap, take over
\* each other's lock, save late, fail or stop, and whenever the mailbox is renumbered; as long as an SMTP error means
\* that the message did not leave, and a login ends before the receipt of a later transmission comes.
THEOREM NothingSkipped ==
  ASSUME SmtpAmbiguous = FALSE, SlowLogins = FALSE
  PROVE  Spec => []NoReceiptSkipped
  <1>1. IInv => NoReceiptSkipped
    <2> SUFFICES ASSUME IInv, cursor.validity = validity,
                        NEW k \in DOMAIN inbox, inbox[k] # NoOne, Uid(validity, k) <= cursor.last
                 PROVE  transmission[inbox[k]].status = "decided"
      BY DEF NoReceiptSkipped
    <2>1. k \in Nat /\ validity \in 1..MaxValidity /\ cursor.last \in Int /\ MaxValidity \in Nat
      BY SyncAssumption DEF IInv, BaseInv, TypeOK, Cursor, UidRange
    <2>2. Read(At(cursor), inbox, transmission)
      BY <2>1 DEF IInv, CursorRead
    <2>3. k <= At(cursor)
      BY <2>1 DEF At, Uid
    <2> QED
      BY <2>2, <2>3 DEF Read
  <1> QED
    BY <1>1, InvInit, InvStep, PTL DEF Spec
================================================================================
