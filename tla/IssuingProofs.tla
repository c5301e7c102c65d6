------------------------------ MODULE IssuingProofs ------------------------------
(***************************************************************************)
(* Numbers, files and what SDI is sent, for any number of invoices, series *)
(* and requests.  In the first part requests of different kinds on one     *)
(* invoice do not overlap and a write given up ends before the next issue  *)
(* (ConcurrentEdits and SlowWrites are FALSE).  The last part assumes      *)
(* neither: its theorems hold until the two requests they name overlap.    *)
(***************************************************************************)
EXTENDS InvoiceIssuing, Numbers

Locked    == {"numbered", "pending", "written"}
Active(r) == request[r].pc \in Locked \cup {"late"}
SentFiles == {x[2] : x \in sent}
Doc(i)    == [file |-> invoice[i].file, invoice |-> i, content |-> invoice[i].content, number |-> invoice[i].sequence]

\* A row that is no invoice is blank; a draft has content, and no file; anything else has a number and a file.
RowsOK ==
  \A i \in Invoices :
    /\ invoice[i].status \in {"NONE", "REMOVED"} => invoice[i] = Blank(invoice[i].status)
    /\ invoice[i].status = "DRAFT" => invoice[i].file = None /\ ~invoice[i].imported
    /\ invoice[i].status \notin {"NONE", "REMOVED", "DRAFT"} => invoice[i].sequence \in Sequence /\ invoice[i].file \in File
    /\ invoice[i].status \notin {"NONE", "REMOVED"} => invoice[i].content \in Content

\* No two rows share a file, or a number of a series.
UniqueOK ==
  \A i, j \in Invoices : i # j =>
    /\ invoice[i].file # None => invoice[i].file # invoice[j].file
    /\ invoice[i].sequence # None =>
         invoice[i].sequence # invoice[j].sequence \/ invoice[i].content.series # invoice[j].content.series

\* Requests on one invoice are of one kind; one issue is past the lock.
KindsOK  == \A r, p \in Requests : Held(r) /\ Held(p) /\ request[r].id = request[p].id => Kind(r) = Kind(p)
LockOK   == \A r \in Requests : lock = r <=> request[r].pc \in Locked
SingleOK == \A r, p \in Requests : Active(r) /\ Active(p) => r = p

\* What a request read is what the row still says, or the row has moved on as its own kind of request lets it.
EditOK(q) ==
  /\ q.pc = "update" =>
       /\ invoice[q.id].status = "DRAFT" /\ q.seen.status = "DRAFT" /\ invoice[q.id].sequence = q.seen.sequence
       /\ q.seen.sequence # None => invoice[q.id].content.series = q.seen.content.series
  /\ q.pc = "remove" => invoice[q.id].status \in {"DRAFT", "REMOVED"} /\ invoice[q.id].sequence = None
  /\ q.pc = "reopen" => invoice[q.id].status \in {"REJECTED", "DRAFT"} /\ ~invoice[q.id].imported /\ ReplacedBy(q.id) = {}
  /\ q.pc = "replace" => invoice[q.id].status = "REJECTED"
Seen(q) == invoice[q.id].content = q.seen.content /\ invoice[q.id].sequence = q.seen.sequence

\* Numbers below k of a series are taken, or an import has skipped them.
Filled(series, k) ==
  \E j \in Invoices : /\ invoice[j].content.series = series
                      /\ invoice[j].sequence = k \/ (invoice[j].imported /\ invoice[j].sequence > k)

IssueOK(q) ==
  /\ q.pc = "issue" => /\ invoice[q.id].status \in {"DRAFT", "ISSUED", "SENT"}
                       /\ invoice[q.id].status = "DRAFT" => Seen(q)
  /\ q.pc \in Locked \cup {"late"} =>
       /\ invoice[q.id].status = "DRAFT" /\ Seen(q)
       /\ invoice[q.id].sequence # None => q.sequence = invoice[q.id].sequence
       /\ \A k \in 1..q.sequence - 1 : Filled(invoice[q.id].content.series, k)
       /\ q.file \notin SentFiles
       /\ \A i \in Invoices : invoice[i].file = q.file => invoice[i].imported
  /\ q.pc \in {"pending", "written"} =>
       \A j \in Invoices \ {q.id} :
         /\ invoice[j].file # q.file
         /\ invoice[j].sequence # q.sequence \/ invoice[j].content.series # invoice[q.id].content.series
  /\ q.pc = "written" => XmlOf(q) \in disk

RequestsOK == \A r \in Requests : EditOK(request[r]) /\ IssueOK(request[r])

DiskOK == \A x, y \in disk : x.file = y.file => x = y

\* What was sent belongs to a numbered invoice of this program; what SDI got is the document of the invoice it came from.
SentOK ==
  /\ \A x \in sent : invoice[x[1]].sequence # None /\ ~invoice[x[1]].imported
  /\ \A i \in Invoices : invoice[i].status \in {"SENT", "DELIVERED", "REJECTED"} /\ ~invoice[i].imported =>
       <<i, invoice[i].file>> \in sent
ReceivedOK ==
  \A x \in received :
    /\ x[1].number = invoice[x[2]].sequence /\ x[1].content.series = invoice[x[2]].content.series
    /\ <<x[2], x[1].file>> \in sent
    /\ \A k \in Invoices : ~invoice[k].imported /\ invoice[k].file = x[1].file => k = x[2] /\ x[1] = Doc(k)

\* The invariant in two parts: what the rows, the files and SDI hold, and what the requests may rely on.
DataInv == RowsOK /\ UniqueOK /\ DiskOK /\ SentOK /\ ReceivedOK /\ XmlMatchesRow /\ OneDocumentPerName /\ NoGaps /\ ReplacedStaysRejected
IssuingInv == TypeOK /\ DataInv /\ KindsOK /\ LockOK /\ SingleOK /\ RequestsOK

-----------------------------------------------------------------------------
(***************************************************************************)
(* Types.                                                                  *)
(***************************************************************************)
Reading == [pc : {"issue", "update", "remove", "reopen", "replace"}, id : Invoices, seen : Row]
Issuing == [pc : {"numbered", "pending", "written", "late"}, id : Invoices, seen : Row, sequence : Sequence, file : File]

LEMMA RequestTypes ==
  ASSUME NEW q \in Request
  PROVE  /\ q.pc # "idle" => q.id \in Invoices /\ q.seen \in Row
         /\ q.pc \in {"issue", "update", "remove", "reopen", "replace"} => q \in Reading
         /\ q.pc \in Locked \cup {"late"} => q \in Issuing /\ q.sequence \in Sequence /\ q.file \in File
         /\ q.pc \in {"idle", "issue", "update", "remove", "reopen", "replace", "late"} \cup Locked
  BY DEF Request, Idle, Reading, Issuing, Locked

LEMMA Bounds ==
  /\ MaxSequence \in Nat /\ MaxFiles \in Nat
  /\ \A n \in Sequence : n \in Nat /\ n # None /\ n > 0
  /\ \A f \in File : f \in Nat /\ f # None /\ f > 0
  /\ Idle.pc = "idle" /\ Idle \in Request
  BY IssuingAssumption DEF Sequence, File, None, Idle, Request

LEMMA RowTypes ==
  ASSUME TypeOK, NEW i \in Invoices
  PROVE  /\ invoice[i] \in Row /\ invoice[i].status \in Status /\ invoice[i].content \in Content \cup {NoContent}
         /\ invoice[i].sequence \in Sequence \cup {None} /\ invoice[i].file \in File \cup {None}
         /\ invoice[i].replaces \in Invoices \cup {NoInvoice} /\ invoice[i].imported \in BOOLEAN
  BY DEF TypeOK, Row

LEMMA ContentTypes ==
  ASSUME NEW c \in Content \cup {NoContent}
  PROVE  c \in Content => c.series \in Series /\ c.text \in Texts
  BY DEF Content

\* Rows that the actions make.
LEMMA RowsMade ==
  /\ \A st \in {"NONE", "REMOVED"} : Blank(st) \in Row
  /\ \A st : /\ Blank(st).status = st /\ Blank(st).content = NoContent /\ Blank(st).sequence = None /\ Blank(st).file = None
             /\ Blank(st).replaces = NoInvoice /\ Blank(st).imported = FALSE
  /\ \A c \in Content, old \in Invoices \cup {NoInvoice} :
       /\ Draft(c, old) \in Row /\ Draft(c, old).status = "DRAFT" /\ Draft(c, old).content = c
       /\ Draft(c, old).sequence = None /\ Draft(c, old).file = None
       /\ Draft(c, old).replaces = old /\ Draft(c, old).imported = FALSE
  BY DEF Blank, Draft, Row, Status

-----------------------------------------------------------------------------
(***************************************************************************)
(* Requests come and go.                                                   *)
(***************************************************************************)
LEMMA DataKept ==
  ASSUME DataInv, UNCHANGED <<invoice, disk, sent, received>>
  PROVE  DataInv'
  BY DEF DataInv, RowsOK, UniqueOK, DiskOK, SentOK, SentFiles, ReceivedOK, Doc, XmlMatchesRow, OneDocumentPerName, NoGaps,
     ReplacedStaysRejected, Blank

LEMMA ChecksKept ==
  ASSUME NEW q, EditOK(q), IssueOK(q), UNCHANGED <<invoice, disk, sent>>
  PROVE  EditOK(q)' /\ IssueOK(q)'
  BY DEF EditOK, IssueOK, Seen, Filled, ReplacedBy, SentFiles, XmlOf

\* A request ends and gives back the lock if it has it; the others may still rely on what they did.
LEMMA Ends ==
  ASSUME IssuingInv, NEW r \in Requests, End(r),
         lock' = IF lock = r THEN NoRequest ELSE lock,
         \A p \in Requests \ {r} : EditOK(request[p])' /\ IssueOK(request[p])'
  PROVE  request' \in [Requests -> Request] /\ lock' \in Requests \cup {NoRequest} /\ KindsOK' /\ LockOK' /\ SingleOK' /\ RequestsOK'
<1>1. request \in [Requests -> Request] /\ lock \in Requests \cup {NoRequest}
  BY DEF IssuingInv, TypeOK
<1>2. request' \in [Requests -> Request] /\ request'[r] = Idle /\ \A p \in Requests \ {r} : request'[p] = request[p]
  BY <1>1, Bounds DEF End
<1>3. Idle.pc = "idle" /\ Idle.pc \notin Locked \cup {"late"}
  BY Bounds DEF Locked
<1>4. KindsOK'
  BY <1>2, <1>3 DEF IssuingInv, KindsOK, Held, Kind
<1>5. LockOK'
  BY <1>1, <1>2, <1>3, IssuingAssumption DEF IssuingInv, LockOK
<1>6. SingleOK'
  BY <1>2, <1>3 DEF IssuingInv, SingleOK, Active
<1>7. ASSUME NEW p \in Requests PROVE EditOK(request[p])' /\ IssueOK(request[p])'
  <2>1. CASE p = r
    BY <1>2, <1>3, <2>1 DEF EditOK, IssueOK, Locked
  <2>2. CASE p # r
    <3>1. EditOK(request[p])' /\ IssueOK(request[p])'
      BY <2>2
    <3> QED
      BY <3>1
  <2> QED
    BY <2>1, <2>2
<1> QED
  BY <1>1, <1>2, <1>4, <1>5, <1>6, <1>7 DEF RequestsOK

LEMMA Parts ==
  ASSUME TypeOK', DataInv', KindsOK', LockOK', SingleOK', RequestsOK'
  PROVE  IssuingInv'
  BY DEF IssuingInv

LEMMA Typed ==
  ASSUME IssuingInv
  PROVE  /\ TypeOK /\ DataInv
         /\ invoice \in [Invoices -> Row] /\ request \in [Requests -> Request] /\ lock \in Requests \cup {NoRequest}
         /\ disk \in SUBSET Xml /\ sent \in SUBSET (Invoices \X File) /\ received \in SUBSET (Xml \X Invoices)
         /\ \A r \in Requests : request[r] \in Request /\ EditOK(request[r]) /\ IssueOK(request[r])
  BY DEF IssuingInv, TypeOK, RequestsOK

\* A request that ends without an effect.
LEMMA EndsOnly ==
  ASSUME IssuingInv, NEW r \in Requests, End(r), lock' = IF lock = r THEN NoRequest ELSE lock,
         UNCHANGED <<invoice, disk, sent, received>>
  PROVE  IssuingInv'
<1>1. ASSUME NEW p \in Requests PROVE p # r => EditOK(request[p])' /\ IssueOK(request[p])'
  <2>1. CASE p # r
    <3>1. request'[p] = request[p]
      BY <2>1, Typed DEF End
    <3>2. EditOK(request[p]) /\ IssueOK(request[p])
      BY Typed
    <3> QED
      BY <3>1, <3>2 DEF EditOK, IssueOK, Seen, Filled, ReplacedBy, SentFiles, XmlOf
  <2> QED
    BY <2>1
<1>2. DataInv'
  BY DataKept, Typed
<1>3. request' \in [Requests -> Request] /\ lock' \in Requests \cup {NoRequest} /\ KindsOK' /\ LockOK' /\ SingleOK' /\ RequestsOK'
  BY <1>1, Ends
<1>4. TypeOK'
  BY <1>3, Typed DEF TypeOK
<1> QED
  BY <1>2, <1>3, <1>4, Parts

\* A request goes on with q, and the rows, the files and SDI stay.
LEMMA Goes ==
  ASSUME IssuingInv, NEW r \in Requests, NEW q \in Request, request' = [request EXCEPT ![r] = q],
         lock' \in Requests \cup {NoRequest}, UNCHANGED <<invoice, disk, sent, received>>,
         EditOK(q), IssueOK(q), KindsOK', LockOK', SingleOK'
  PROVE  IssuingInv'
<1>1. request' \in [Requests -> Request] /\ request'[r] = q /\ \A p \in Requests \ {r} : request'[p] = request[p]
  BY Typed
<1>2. ASSUME NEW p \in Requests PROVE EditOK(request[p])' /\ IssueOK(request[p])'
  <2>1. EditOK(request'[p]) /\ IssueOK(request'[p])
    BY <1>1, Typed
  <2> QED
    BY <2>1 DEF EditOK, IssueOK, Seen, Filled, ReplacedBy, SentFiles, XmlOf
<1>3. TypeOK'
  BY <1>1, Typed DEF TypeOK
<1> QED
  BY <1>2, <1>3, DataKept, Typed, Parts DEF RequestsOK

\* A request that reads its invoice, of the kind of the others on it.
LEMMA Begins ==
  ASSUME IssuingInv, ConcurrentEdits = FALSE, NEW r \in Requests, NEW i \in Invoices,
         NEW pc \in {"issue", "update", "remove", "reopen", "replace"}, Begin(r, i, pc),
         EditOK([pc |-> pc, id |-> i, seen |-> invoice[i]]), IssueOK([pc |-> pc, id |-> i, seen |-> invoice[i]])
  PROVE  IssuingInv'
<1> DEFINE q == [pc |-> pc, id |-> i, seen |-> invoice[i]]
<1>1. q \in Request
  BY Typed DEF Request
<1>2. request' = [request EXCEPT ![r] = q] /\ ~Held(r) /\ \A p \in Requests : Held(p) /\ request[p].id = i => Kind(p) = pc
  BY DEF Begin, MayStart
<1>3. request'[r] = q /\ \A p \in Requests \ {r} : request'[p] = request[p]
  BY <1>2, Typed
<1>4. KindsOK'
  BY <1>2, <1>3 DEF IssuingInv, KindsOK, Held, Kind
<1>5. LockOK'
  BY <1>2, <1>3 DEF IssuingInv, LockOK, Held, Locked, Begin
<1>6. SingleOK'
  BY <1>2, <1>3 DEF IssuingInv, SingleOK, Active, Locked
<1>7. lock' = lock /\ UNCHANGED <<invoice, disk, sent, received>>
  BY DEF Begin
<1> HIDE DEF q
<1> QED
  BY <1>1, <1>2, <1>4, <1>5, <1>6, <1>7, Goes, Typed DEF q

LEMMA Reads ==
  ASSUME IssuingInv, ConcurrentEdits = FALSE, NEW r \in Requests, NEW i \in Invoices,
         UpdateRead(r, i) \/ RemoveRead(r, i) \/ IssueRead(r, i) \/ ReopenRead(r, i) \/ ReplaceRead(r, i)
  PROVE  IssuingInv'
<1>1. CASE UpdateRead(r, i)
  <2>1. invoice[i].status = "DRAFT" /\ Begin(r, i, "update")
    BY <1>1 DEF UpdateRead
  <2> QED
    BY <2>1, Begins DEF EditOK, IssueOK, Locked
<1>2. CASE RemoveRead(r, i)
  <2>1. invoice[i].status = "DRAFT" /\ invoice[i].sequence = None /\ Begin(r, i, "remove")
    BY <1>2 DEF RemoveRead, isCorrection
  <2> QED
    BY <2>1, Begins DEF EditOK, IssueOK, Locked
<1>3. CASE IssueRead(r, i)
  <2>1. invoice[i].status = "DRAFT" /\ Begin(r, i, "issue")
    BY <1>3 DEF IssueRead
  <2> QED
    BY <2>1, Begins DEF EditOK, IssueOK, Locked, Seen
<1>4. CASE ReopenRead(r, i)
  <2>1. invoice[i].status = "REJECTED" /\ ~invoice[i].imported /\ ReplacedBy(i) = {} /\ Begin(r, i, "reopen")
    BY <1>4 DEF ReopenRead, Correctable
  <2> QED
    BY <2>1, Begins DEF EditOK, IssueOK, Locked
<1>5. CASE ReplaceRead(r, i)
  <2>1. invoice[i].status = "REJECTED" /\ Begin(r, i, "replace")
    BY <1>5 DEF ReplaceRead, Correctable
  <2> QED
    BY <2>1, Begins DEF EditOK, IssueOK, Locked
<1> QED
  BY <1>1, <1>2, <1>3, <1>4, <1>5

-----------------------------------------------------------------------------
(***************************************************************************)
(* Issue: the number, the file name, the row locked.                       *)
(***************************************************************************)
LEMMA LastIsLast ==
  ASSUME IssuingInv, NEW s
  PROVE  /\ LastSequence(s) \in Nat
         /\ \A i \in Invoices : invoice[i].content.series = s => invoice[i].sequence <= LastSequence(s)
         /\ LastSequence(s) # None =>
              \E i \in Invoices : invoice[i].content.series = s /\ invoice[i].sequence = LastSequence(s)
<1> DEFINE S == {None} \cup {invoice[i].sequence : i \in {j \in Invoices : invoice[j].content.series = s}}
<1>1. S \subseteq 0..MaxSequence
  BY Typed, RowTypes, Bounds DEF Sequence, None
<1>2. S # {} /\ MaxSequence \in Nat
  BY Bounds
<1>3. Max(S) \in S /\ \A x \in S : x <= Max(S)
  <2> HIDE DEF S
  <2> QED
    BY <1>1, <1>2, MaxOf
<1>4. LastSequence(s) = Max(S)
  BY DEF LastSequence
<1>5. Max(S) \in Nat
  BY <1>1, <1>3, Bounds
<1> HIDE DEF S
<1>6. \A i \in Invoices : invoice[i].content.series = s => invoice[i].sequence \in S
  BY DEF S
<1>7. \A x \in S : x # None => \E i \in Invoices : invoice[i].content.series = s /\ invoice[i].sequence = x
  BY DEF S
<1> QED
  BY <1>3, <1>4, <1>5, <1>6, <1>7

LEMMA NextIsNew ==
  ASSUME IssuingInv
  PROVE  /\ nextFileSequence \in Nat /\ nextFileSequence > 0
         /\ nextFileSequence \notin SentFiles
         /\ \A i \in Invoices : invoice[i].file # nextFileSequence
<1> DEFINE S == {None} \cup UsedFiles
<1>1. S \subseteq 0..MaxFiles
  BY Typed, RowTypes, Bounds DEF File, None, UsedFiles
<1>2. S # {} /\ MaxFiles \in Nat
  BY Bounds
<1>3. Max(S) \in S /\ \A x \in S : x <= Max(S)
  <2> HIDE DEF S
  <2> QED
    BY <1>1, <1>2, MaxOf
<1>4. nextFileSequence = Max(S) + 1
  BY DEF nextFileSequence
<1>5. Max(S) \in Nat /\ \A x \in S : x \in Nat
  BY <1>1, <1>3, Bounds
<1>6. (\A x \in SentFiles : x \in S) /\ \A i \in Invoices : invoice[i].file \in S
  BY DEF SentFiles, UsedFiles
<1> HIDE DEF S
<1> QED
  BY <1>3, <1>4, <1>5, <1>6

\* The numbers below the one an issue takes are given, or skipped by an import.
LEMMA BelowFilled ==
  ASSUME IssuingInv, NEW i \in Invoices, invoice[i].status = "DRAFT", NEW n \in Nat,
         n = IF invoice[i].sequence # None THEN invoice[i].sequence ELSE LastSequence(invoice[i].content.series) + 1
  PROVE  \A k \in 1..n - 1 : Filled(invoice[i].content.series, k)
<1> DEFINE s == invoice[i].content.series
<1>1. \A j \in Invoices : ~invoice[j].imported => \A k \in 1..(invoice[j].sequence - 1) : Filled(invoice[j].content.series, k)
  BY Typed DEF DataInv, NoGaps, Filled
<1>2. CASE invoice[i].sequence # None
  BY <1>1, <1>2, Typed DEF DataInv, RowsOK
<1>3. CASE invoice[i].sequence = None
  <2>1. SUFFICES ASSUME NEW k \in 1..n - 1 PROVE Filled(s, k)
    OBVIOUS
  <2>2. n = LastSequence(s) + 1 /\ LastSequence(s) \in Nat
    BY <1>3, LastIsLast
  <2>3. k \in Nat /\ k > 0 /\ k <= LastSequence(s) /\ LastSequence(s) # None
    BY <2>2 DEF None
  <2>4. PICK j \in Invoices : invoice[j].content.series = s /\ invoice[j].sequence = LastSequence(s)
    BY <2>3, LastIsLast
  <2>5. CASE k = LastSequence(s)
    BY <2>4, <2>5 DEF Filled
  <2>6. CASE k < LastSequence(s) /\ invoice[j].imported
    BY <2>2, <2>3, <2>4, <2>6 DEF Filled
  <2>7. CASE k < LastSequence(s) /\ ~invoice[j].imported
    <3>1. k \in 1..(invoice[j].sequence - 1)
      BY <2>2, <2>3, <2>4, <2>7
    <3> QED
      BY <1>1, <2>4, <2>7, <3>1
  <2> QED
    BY <2>2, <2>3, <2>5, <2>6, <2>7
<1> QED
  BY <1>2, <1>3

LEMMA NumberStep ==
  ASSUME IssuingInv, SlowWrites = FALSE, NEW r \in Requests, IssueNumber(r)
  PROVE  IssuingInv'
<1> DEFINE q == request[r]
           x == [pc |-> "numbered", id |-> q.id, seen |-> q.seen, sequence |-> NumberOf(q.seen), file |-> nextFileSequence]
<1>1. /\ q.pc = "issue" /\ lock = NoRequest /\ invoice[q.id].status = "DRAFT" /\ lock' = r
      /\ NumberOf(q.seen) <= MaxSequence /\ nextFileSequence <= MaxFiles
      /\ request' = [request EXCEPT ![r] = x] /\ UNCHANGED <<invoice, disk, sent, received>>
      /\ \A p \in Requests : request[p].pc # "late"
  BY DEF IssueNumber
<1>2. q \in Request /\ q.id \in Invoices /\ q.seen \in Row /\ Seen(q)
  BY <1>1, Typed, RequestTypes DEF IssueOK
<1>3. NumberOf(q.seen) = IF invoice[q.id].sequence # None THEN invoice[q.id].sequence
                         ELSE LastSequence(invoice[q.id].content.series) + 1
  BY <1>2 DEF NumberOf, Seen
<1>4. NumberOf(q.seen) \in Sequence
  <2>1. invoice[q.id].sequence \in Sequence \cup {None} /\ LastSequence(invoice[q.id].content.series) \in Nat
    BY <1>2, Typed, RowTypes, LastIsLast
  <2> QED
    BY <1>1, <1>3, <2>1, Bounds DEF Sequence
<1>5. nextFileSequence \in File
  BY <1>1, NextIsNew, Bounds DEF File
<1>6. x \in Request
  BY <1>2, <1>4, <1>5 DEF Request
<1>7. \A p \in Requests : ~Active(p)
  BY <1>1, Typed, IssuingAssumption DEF IssuingInv, LockOK, Active
<1>8. request'[r] = x /\ \A p \in Requests \ {r} : request'[p] = request[p]
  BY <1>1, Typed
<1>9. KindsOK'
  BY <1>1, <1>8 DEF IssuingInv, KindsOK, Held, Kind
<1>10. LockOK' /\ SingleOK'
  BY <1>1, <1>7, <1>8 DEF LockOK, SingleOK, Active, Locked
<1>11. \A k \in 1..NumberOf(q.seen) - 1 : Filled(invoice[q.id].content.series, k)
  BY <1>1, <1>2, <1>3, <1>4, Bounds, BelowFilled
<1>12. EditOK(x) /\ IssueOK(x)
  <2>1. invoice[q.id].sequence # None => NumberOf(q.seen) = invoice[q.id].sequence
    BY <1>3
  <2> HIDE DEF q
  <2> QED
    BY <1>1, <1>2, <1>11, <2>1, NextIsNew DEF EditOK, IssueOK, Seen, Locked
<1> HIDE DEF q, x
<1> QED
  BY <1>1, <1>6, <1>9, <1>10, <1>12, Goes

\* An issue past the lock goes on with its number and file.
LEMMA IssueGoes ==
  ASSUME IssuingInv, NEW r \in Requests, NEW pc \in {"pending", "written", "late"},
         request[r].pc \in Locked, request' = [request EXCEPT ![r].pc = pc],
         lock' = IF pc = "late" /\ lock = r THEN NoRequest ELSE lock
  PROVE  /\ request' \in [Requests -> Request] /\ lock' \in Requests \cup {NoRequest} /\ KindsOK' /\ LockOK' /\ SingleOK'
         /\ \A p \in Requests \ {r} : request'[p] = request[p] /\ ~Active(p)
         /\ request'[r] = [request[r] EXCEPT !.pc = pc] /\ request[r] \in Issuing
         /\ request'[r].pc = pc /\ request'[r].id = request[r].id /\ request'[r].seen = request[r].seen
         /\ request'[r].sequence = request[r].sequence /\ request'[r].file = request[r].file
<1>1. request[r] \in Issuing
  BY Typed, RequestTypes DEF Locked
<1>2. request'[r] = [request[r] EXCEPT !.pc = pc] /\ \A p \in Requests \ {r} : request'[p] = request[p]
  BY Typed
<1>3. /\ request'[r].pc = pc /\ request'[r].id = request[r].id /\ request'[r].seen = request[r].seen
      /\ request'[r].sequence = request[r].sequence /\ request'[r].file = request[r].file /\ request'[r] \in Issuing
  BY <1>1, <1>2 DEF Issuing
<1>4. request' \in [Requests -> Request]
  <2>1. request'[r] \in Request
    BY <1>3 DEF Issuing, Request
  <2>2. request' = [request EXCEPT ![r] = request'[r]]
    BY <1>2, Typed
  <2> QED
    BY <2>1, <2>2, Typed
<1>5. \A p \in Requests \ {r} : ~Active(p)
  BY DEF IssuingInv, SingleOK, Active
<1>6. lock = r
  BY DEF IssuingInv, LockOK
<1>7. KindsOK'
  BY <1>2, <1>3 DEF IssuingInv, KindsOK, Held, Kind, Locked
<1>8. LockOK'
  BY <1>2, <1>3, <1>5, <1>6, IssuingAssumption DEF LockOK, Locked, Active
<1>9. SingleOK'
  BY <1>2, <1>3, <1>5 DEF SingleOK, Active
<1> QED
  BY <1>1, <1>2, <1>3, <1>4, <1>5, <1>6, <1>7, <1>8, <1>9

LEMMA TimeoutStep ==
  ASSUME IssuingInv, NEW r \in Requests, IssueTimeout(r)
  PROVE  IssuingInv'
<1>1. request[r].pc \in Locked /\ request' = [request EXCEPT ![r].pc = "late"] /\ UNCHANGED <<invoice, disk, sent, received>>
      /\ lock' = IF lock = r THEN NoRequest ELSE lock
  BY DEF IssueTimeout, Release, Locked
<1>2. EditOK(request'[r]) /\ IssueOK(request'[r])
  BY <1>1, Typed, IssueGoes DEF EditOK, IssueOK, Seen, Locked
<1>3. request' = [request EXCEPT ![r] = request'[r]] /\ request'[r] \in Request
  BY <1>1, IssueGoes, Typed
<1> QED
  BY <1>1, <1>2, <1>3, Goes, IssueGoes

LEMMA UpdateStep ==
  ASSUME IssuingInv, NEW r \in Requests, IssueUpdate(r)
  PROVE  IssuingInv'
<1> DEFINE q == request[r]
<1>1. CASE End(r) /\ Release(r)
  BY <1>1, EndsOnly DEF IssueUpdate, Release
<1>2. CASE /\ request' = [request EXCEPT ![r].pc = "pending"] /\ UNCHANGED lock
           /\ ~KeyTaken(q.id, invoice[q.id].content.series, q.sequence, q.file)
  <2>1. q.pc = "numbered" /\ q.pc \in Locked /\ UNCHANGED <<invoice, disk, sent, received>>
    BY DEF IssueUpdate, Locked
  <2>2. q.id \in Invoices /\ q.sequence # None /\ q.file # None
    BY <2>1, Typed, RequestTypes, Bounds
  <2>3. \A j \in Invoices \ {q.id} :
         /\ invoice[j].file # q.file
         /\ invoice[j].sequence # q.sequence \/ invoice[j].content.series # invoice[q.id].content.series
    BY <1>2, <2>2 DEF KeyTaken
  <2>4. EditOK(request'[r]) /\ IssueOK(request'[r])
    <3>1. request'[r].id = q.id /\ request'[r].sequence = q.sequence /\ request'[r].file = q.file /\ request'[r].pc = "pending"
      BY <1>2, <2>1, Typed, IssueGoes
    <3>2. request'[r].seen = q.seen /\ UNCHANGED invoice
      BY <1>2, <2>1, Typed, IssueGoes
    <3>3. EditOK(request'[r])
      BY <3>1 DEF EditOK
    <3>4. /\ invoice[q.id].status = "DRAFT" /\ Seen(q)
          /\ invoice[q.id].sequence # None => q.sequence = invoice[q.id].sequence
          /\ \A k \in 1..q.sequence - 1 : Filled(invoice[q.id].content.series, k)
          /\ q.file \notin SentFiles
          /\ \A i \in Invoices : invoice[i].file = q.file => invoice[i].imported
      BY <2>1, Typed DEF IssueOK
    <3>5. Seen(request'[r])
      BY <3>1, <3>2, <3>4 DEF Seen
    <3>6. IssueOK(request'[r])
      BY <2>3, <3>1, <3>4, <3>5 DEF IssueOK
    <3> QED BY <3>3, <3>6
  <2>5. request' = [request EXCEPT ![r] = request'[r]] /\ request'[r] \in Request
    BY <1>2, <2>1, IssueGoes, Typed
  <2> QED
    BY <1>2, <2>1, <2>4, <2>5, Goes, IssueGoes
<1> QED
  BY <1>1, <1>2 DEF IssueUpdate

\* A file of an issue is written, whole or in part: it replaces no file of an invoice of this program.
LEMMA Stores ==
  ASSUME IssuingInv, NEW r \in Requests, Active(r), NEW x \in Xml, x.file = request[r].file, Store(x),
         UNCHANGED <<invoice, sent, received>>
  PROVE  /\ disk' \in SUBSET Xml /\ DataInv' /\ x \in disk'
         /\ \A p \in Requests \ {r} : request'[p] = request[p] => EditOK(request[p])' /\ IssueOK(request[p])'
<1>1. disk' = {y \in disk : y.file # x.file} \cup {x}
  BY DEF Store
<1>2. \A i \in Invoices : invoice[i].file = x.file => invoice[i].imported
  BY Typed DEF Active, IssueOK
<1>3. disk' \in SUBSET Xml /\ x \in disk'
  BY <1>1, Typed
<1>4. DiskOK'
  BY <1>1, Typed DEF DataInv, DiskOK
<1>5. XmlMatchesRow'
  BY <1>1, <1>2, Typed DEF DataInv, XmlMatchesRow
<1>6. (RowsOK /\ UniqueOK /\ SentOK /\ ReceivedOK /\ OneDocumentPerName /\ NoGaps /\ ReplacedStaysRejected)'
  BY Typed DEF DataInv, RowsOK, UniqueOK, SentOK, ReceivedOK, Doc, OneDocumentPerName, NoGaps, ReplacedStaysRejected, Blank
<1>7. \A p \in Requests \ {r} : request[p].pc # "written"
  BY DEF IssuingInv, SingleOK, Active, Locked
<1>8. \A p \in Requests \ {r} : request'[p] = request[p] => EditOK(request[p])' /\ IssueOK(request[p])'
  BY <1>7, Typed DEF EditOK, IssueOK, Seen, Filled, ReplacedBy, SentFiles, Locked
<1> QED
  BY <1>3, <1>4, <1>5, <1>6, <1>8 DEF DataInv

LEMMA DocumentOf ==
  ASSUME IssuingInv, NEW r \in Requests, Active(r)
  PROVE  LET q == request[r] IN
         /\ q \in Issuing /\ q.id \in Invoices /\ q.file \in File /\ q.sequence \in Sequence /\ q.pc \in Locked \cup {"late"}
         /\ XmlOf(q) \in Xml /\ XmlOf(q).file = q.file
         /\ [XmlOf(q) EXCEPT !.invoice = NoInvoice] \in Xml /\ [XmlOf(q) EXCEPT !.invoice = NoInvoice].file = q.file
         /\ XmlOf(q) = [file |-> q.file, invoice |-> q.id, content |-> invoice[q.id].content, number |-> q.sequence]
<1> DEFINE q == request[r]
<1>1. q \in Issuing /\ q.id \in Invoices /\ q.file \in File /\ q.sequence \in Sequence /\ q.pc \in Locked \cup {"late"}
  BY Typed, RequestTypes DEF Active, Locked
<1>2. invoice[q.id].status = "DRAFT" /\ Seen(q)
  BY <1>1, Typed DEF IssueOK
<1>3. invoice[q.id].content \in Content
  BY <1>1, <1>2, Typed DEF DataInv, RowsOK
<1>4. q.seen.content \in Content /\ q.seen.content = invoice[q.id].content
  BY <1>2, <1>3 DEF Seen
<1> HIDE DEF q
<1>5. XmlOf(q) \in Xml /\ XmlOf(q).file = q.file
  BY <1>1, <1>4 DEF XmlOf, Xml
<1>6. [XmlOf(q) EXCEPT !.invoice = NoInvoice] \in Xml /\ [XmlOf(q) EXCEPT !.invoice = NoInvoice].file = q.file
  BY <1>1, <1>4 DEF XmlOf, Xml
<1>7. XmlOf(q) = [file |-> q.file, invoice |-> q.id, content |-> invoice[q.id].content, number |-> q.sequence]
  BY <1>4 DEF XmlOf
<1> QED
  BY <1>1, <1>5, <1>6, <1>7 DEF q

LEMMA WriteSteps ==
  ASSUME IssuingInv, NEW r \in Requests, IssueWrite(r) \/ IssueWriteFails(r) \/ LateWrite(r)
  PROVE  IssuingInv'
<1> DEFINE q == request[r]
<1>1. Active(r) /\ UNCHANGED <<invoice, sent, received>>
  BY DEF IssueWrite, IssueWriteFails, LateWrite, Active, Locked
<1>2. CASE IssueWrite(r)
  <2>1. q.pc = "pending" /\ q.pc \in Locked /\ Store(XmlOf(q)) /\ request' = [request EXCEPT ![r].pc = "written"] /\ UNCHANGED lock
    BY <1>2 DEF IssueWrite, Locked
  <2>2. disk' \in SUBSET Xml /\ DataInv' /\ XmlOf(q) \in disk'
        /\ \A p \in Requests \ {r} : request'[p] = request[p] => EditOK(request[p])' /\ IssueOK(request[p])'
    BY <1>1, <2>1, DocumentOf, Stores
  <2>3. /\ request' \in [Requests -> Request] /\ lock' \in Requests \cup {NoRequest} /\ KindsOK' /\ LockOK' /\ SingleOK'
        /\ \A p \in Requests \ {r} : request'[p] = request[p]
        /\ request'[r].pc = "written" /\ request'[r].id = q.id /\ request'[r].seen = q.seen
        /\ request'[r].sequence = q.sequence /\ request'[r].file = q.file
    BY <2>1, IssueGoes
  <2>4. EditOK(request[r])' /\ IssueOK(request[r])'
    <3>1. XmlOf(request[r])' = XmlOf(q)
      BY <2>3 DEF XmlOf
    <3>2. UNCHANGED <<invoice, sent>>
      BY <1>1
    <3>3. EditOK(request[r])'
      BY <2>3, <3>2 DEF EditOK
    <3>4. IssueOK(q)
      BY Typed
    <3>5. /\ invoice[q.id].status = "DRAFT" /\ Seen(q)
          /\ invoice[q.id].sequence # None => q.sequence = invoice[q.id].sequence
          /\ \A k \in 1..q.sequence - 1 : Filled(invoice[q.id].content.series, k)
          /\ q.file \notin SentFiles
          /\ \A i \in Invoices : invoice[i].file = q.file => invoice[i].imported
          /\ \A j \in Invoices \ {q.id} :
               /\ invoice[j].file # q.file
               /\ invoice[j].sequence # q.sequence \/ invoice[j].content.series # invoice[q.id].content.series
      BY <2>1, <3>4 DEF IssueOK
    <3>6. Seen(request[r])' /\ (\A s, k : Filled(s, k)' <=> Filled(s, k)) /\ SentFiles' = SentFiles
      BY <2>3, <3>2, <3>5 DEF Seen, Filled, SentFiles
    <3>7. XmlOf(request[r])' \in disk'
      BY <2>2, <3>1
    <3> HIDE DEF q
    <3>8. IssueOK(request[r])'
      BY <2>3, <3>2, <3>5, <3>6, <3>7 DEF IssueOK
    <3> QED BY <3>3, <3>8
  <2>5. RequestsOK'
    BY <2>2, <2>3, <2>4 DEF RequestsOK
  <2>6. TypeOK'
    BY <1>1, <2>2, <2>3, Typed DEF TypeOK
  <2> QED
    BY <2>2, <2>3, <2>5, <2>6, Parts
<1>3. CASE IssueWriteFails(r) \/ LateWrite(r)
  <2>1. PICK x \in Xml : x.file = q.file /\ Store(x)
    BY <1>1, <1>3, DocumentOf DEF IssueWriteFails, LateWrite
  <2>2. End(r) /\ lock' = IF lock = r THEN NoRequest ELSE lock
    BY <1>3 DEF IssueWriteFails, LateWrite, Release, IssuingInv, LockOK, Locked
  <2>3. \A p \in Requests \ {r} : request'[p] = request[p]
    BY <2>2, Typed DEF End
  <2>4. disk' \in SUBSET Xml /\ DataInv' /\ \A p \in Requests \ {r} : EditOK(request[p])' /\ IssueOK(request[p])'
    BY <1>1, <2>1, <2>3, Stores
  <2>5. request' \in [Requests -> Request] /\ lock' \in Requests \cup {NoRequest} /\ KindsOK' /\ LockOK' /\ SingleOK' /\ RequestsOK'
    BY <2>2, <2>4, Ends
  <2>6. TypeOK'
    BY <1>1, <2>4, <2>5, Typed DEF TypeOK
  <2> QED
    BY <2>4, <2>5, <2>6, Parts
<1> QED
  BY <1>2, <1>3

-----------------------------------------------------------------------------
(***************************************************************************)
(* One row changes.                                                        *)
(***************************************************************************)
\* Row v may take the place of that of invoice i: it is well formed and clashes with no other, a number once given stays,
\* a file it brings is new and on disk, its number leaves no gap, and no replaced invoice leaves the rejected ones.
Fits(i, v) ==
  /\ v \in Row
  /\ v.status \in {"NONE", "REMOVED"} => v = Blank(v.status)
  /\ v.status = "DRAFT" => v.file = None /\ ~v.imported
  /\ v.status \notin {"NONE", "REMOVED", "DRAFT"} => v.sequence \in Sequence /\ v.file \in File
  /\ v.status \notin {"NONE", "REMOVED"} => v.content \in Content
  /\ \A j \in Invoices \ {i} :
       /\ v.file # None => v.file # invoice[j].file
       /\ v.sequence # None => v.sequence # invoice[j].sequence \/ v.content.series # invoice[j].content.series
  /\ invoice[i].sequence # None =>
       v.sequence = invoice[i].sequence /\ v.content.series = invoice[i].content.series /\ v.imported = invoice[i].imported
  /\ v.file # None /\ ~v.imported =>
       \/ v.file = invoice[i].file /\ v.content = invoice[i].content /\ v.sequence = invoice[i].sequence /\ ~invoice[i].imported
       \/ v.file \notin SentFiles /\ [file |-> v.file, invoice |-> i, content |-> v.content, number |-> v.sequence] \in disk
  /\ ~v.imported => \A k \in 1..v.sequence - 1 : Filled(v.content.series, k)
  /\ v.status \in {"SENT", "DELIVERED", "REJECTED"} /\ ~v.imported => <<i, v.file>> \in sent
  /\ v.replaces \in Invoices /\ v.replaces # invoice[i].replaces => v.replaces # i /\ invoice[v.replaces].status = "REJECTED"
  /\ v.status # "REJECTED" => v.replaces # i /\ \A j \in Invoices : invoice[j].replaces # i

LEMMA FilledStays ==
  ASSUME IssuingInv, NEW i \in Invoices, NEW v, Fits(i, v), invoice' = [invoice EXCEPT ![i] = v]
  PROVE  \A s, k : k # None /\ k \in Nat /\ Filled(s, k) => Filled(s, k)'
<1>1. SUFFICES ASSUME NEW s, NEW k, k # None, k \in Nat, Filled(s, k) PROVE Filled(s, k)'
  OBVIOUS
<1>2. PICK j \in Invoices : invoice[j].content.series = s /\ (invoice[j].sequence = k \/ (invoice[j].imported /\ invoice[j].sequence > k))
  BY <1>1 DEF Filled
<1>3. invoice[j].sequence # None
  BY <1>1, <1>2, Typed, RowTypes, Bounds DEF None
<1>4. /\ invoice'[j].sequence = invoice[j].sequence /\ invoice'[j].content.series = invoice[j].content.series
      /\ invoice'[j].imported = invoice[j].imported
  BY <1>3, Typed DEF Fits
<1> QED
  BY <1>2, <1>4 DEF Filled

LEMMA RowFits ==
  ASSUME IssuingInv, NEW i \in Invoices, NEW v, Fits(i, v), invoice' = [invoice EXCEPT ![i] = v],
         UNCHANGED <<disk, sent, received>>
  PROVE  invoice' \in [Invoices -> Row] /\ DataInv'
<1>1. invoice'[i] = v /\ (\A j \in Invoices \ {i} : invoice'[j] = invoice[j]) /\ invoice' \in [Invoices -> Row]
  BY Typed DEF Fits
<1>2. RowsOK'
  BY <1>1, Typed DEF Fits, DataInv, RowsOK, Blank
<1>3. UniqueOK'
  <2>1. SUFFICES ASSUME NEW j \in Invoices, NEW k \in Invoices, j # k
                 PROVE  /\ invoice'[j].file # None => invoice'[j].file # invoice'[k].file
                        /\ invoice'[j].sequence # None =>
                             invoice'[j].sequence # invoice'[k].sequence \/ invoice'[j].content.series # invoice'[k].content.series
    BY DEF UniqueOK
  <2>2. CASE j = i
    BY <1>1, <2>1, <2>2 DEF Fits
  <2>3. CASE k = i
    BY <1>1, <2>1, <2>3 DEF Fits
  <2>4. CASE j # i /\ k # i
    BY <1>1, <2>1, <2>4, Typed DEF DataInv, UniqueOK
  <2> QED
    BY <2>2, <2>3, <2>4
<1>4. DiskOK' /\ OneDocumentPerName'
  BY Typed DEF DataInv, DiskOK, OneDocumentPerName
<1>5. SentOK'
  BY <1>1, Typed DEF Fits, DataInv, SentOK
<1>6. ReceivedOK'
  <2>1. SUFFICES ASSUME NEW x \in received
                 PROVE  /\ x[1].number = invoice'[x[2]].sequence /\ x[1].content.series = invoice'[x[2]].content.series
                        /\ <<x[2], x[1].file>> \in sent
                        /\ \A k \in Invoices : ~invoice'[k].imported /\ invoice'[k].file = x[1].file => k = x[2] /\ x[1] = Doc(k)'
    BY DEF ReceivedOK
  <2>2. x[1] \in Xml /\ x[2] \in Invoices /\ x[1].file \in File
    BY Typed DEF Xml
  <2>3. /\ x[1].number = invoice[x[2]].sequence /\ x[1].content.series = invoice[x[2]].content.series
        /\ <<x[2], x[1].file>> \in sent
        /\ \A k \in Invoices : ~invoice[k].imported /\ invoice[k].file = x[1].file => k = x[2] /\ x[1] = Doc(k)
    BY Typed DEF DataInv, ReceivedOK
  <2>4. invoice[x[2]].sequence # None /\ x[1].file \in SentFiles
    BY <2>2, <2>3, Typed DEF DataInv, SentOK, SentFiles
  <2>5. invoice'[x[2]].sequence = invoice[x[2]].sequence /\ invoice'[x[2]].content.series = invoice[x[2]].content.series
    BY <1>1, <2>2, <2>4 DEF Fits
  <2>6. ASSUME NEW k \in Invoices, ~invoice'[k].imported, invoice'[k].file = x[1].file PROVE k = x[2] /\ x[1] = Doc(k)'
    <3>1. x[1].file # None
      BY <2>2, Bounds
    <3>2. /\ invoice'[k].file = invoice[k].file /\ invoice'[k].content = invoice[k].content
          /\ invoice'[k].sequence = invoice[k].sequence /\ ~invoice[k].imported
      BY <1>1, <2>4, <2>6, <3>1 DEF Fits
    <3> QED
      BY <2>3, <2>6, <3>2 DEF Doc
  <2> QED
    BY <2>3, <2>5, <2>6
<1>7. XmlMatchesRow'
  BY <1>1, Typed DEF Fits, DataInv, XmlMatchesRow
<1>8. NoGaps'
  <2>1. SUFFICES ASSUME NEW j \in Invoices, ~invoice'[j].imported, NEW k \in 1..(invoice'[j].sequence - 1),
                        NEW s, s = invoice'[j].content.series
                 PROVE  Filled(s, k)'
    BY DEF NoGaps, Filled
  <2>2. Filled(s, k)
    BY <1>1, <2>1, Typed DEF Fits, DataInv, NoGaps, Filled
  <2>3. invoice'[j].sequence \in Sequence \cup {None}
    BY <1>1 DEF Row
  <2>4. k \in Nat /\ k # None
    BY <2>1, <2>3, Bounds DEF None
  <2> QED
    BY <2>2, <2>4, FilledStays
<1>9. ReplacedStaysRejected'
  <2>1. SUFFICES ASSUME NEW j \in Invoices, NEW k \in Invoices, invoice'[k].replaces = j PROVE invoice'[j].status = "REJECTED"
    BY DEF ReplacedStaysRejected
  <2>2. \A a, b \in Invoices : invoice[b].replaces = a => invoice[a].status = "REJECTED"
    BY Typed DEF DataInv, ReplacedStaysRejected
  <2>3. CASE j = i
    BY <1>1, <2>1, <2>2, <2>3 DEF Fits
  <2>4. CASE j # i /\ k = i
    BY <1>1, <2>1, <2>2, <2>4 DEF Fits
  <2>5. CASE j # i /\ k # i
    BY <1>1, <2>1, <2>2, <2>5
  <2> QED
    BY <2>3, <2>4, <2>5
<1> QED
  BY <1>1, <1>2, <1>3, <1>4, <1>5, <1>6, <1>7, <1>8, <1>9 DEF DataInv

\* Request q, on another invoice, may still rely on what it did when row v takes the place of that of invoice i.
Apart(i, v, q) ==
  q.pc # "idle" =>
    /\ q.id # i
    /\ q.pc = "reopen" => v.replaces # q.id
    /\ q.pc \in Locked \cup {"late"} => v.file # q.file \/ v.imported
    /\ q.pc \in {"pending", "written"} =>
         v.file # q.file /\ (v.sequence # q.sequence \/ v.content.series # invoice[q.id].content.series)

LEMMA OthersStay ==
  ASSUME IssuingInv, NEW i \in Invoices, NEW v, Fits(i, v), invoice' = [invoice EXCEPT ![i] = v], UNCHANGED <<disk, sent>>,
         NEW p \in Requests, request'[p] = request[p], Apart(i, v, request[p])
  PROVE  EditOK(request[p])' /\ IssueOK(request[p])'
<1> DEFINE q == request[p]
<1>1. q \in Request /\ EditOK(q) /\ IssueOK(q)
  BY Typed
<1>2. CASE q.pc = "idle"
  BY <1>2 DEF EditOK, IssueOK, Locked
<1>3. CASE q.pc # "idle"
  <2>1. q.id \in Invoices /\ invoice'[q.id] = invoice[q.id] /\ invoice'[i] = v
    BY <1>1, <1>3, Typed, RequestTypes DEF Apart
  <2>2. EditOK(request[p])'
    <3>1. q.pc = "reopen" /\ ReplacedBy(q.id) = {} => \A j \in Invoices : invoice'[j].replaces # q.id
      BY <1>3, Typed DEF Apart, ReplacedBy
    <3> QED
      BY <1>1, <2>1, <3>1 DEF EditOK, ReplacedBy
  <2>3. q.pc \in Locked \cup {"late"} =>
          /\ \A k \in 1..q.sequence - 1 : Filled(invoice[q.id].content.series, k)'
          /\ \A j \in Invoices : invoice'[j].file = q.file => invoice'[j].imported
    <3>1. SUFFICES ASSUME q.pc \in Locked \cup {"late"}
                   PROVE  /\ \A k \in 1..q.sequence - 1 : Filled(invoice[q.id].content.series, k)'
                          /\ \A j \in Invoices : invoice'[j].file = q.file => invoice'[j].imported
      OBVIOUS
    <3>2. q.sequence \in Nat /\ \A k \in 1..q.sequence - 1 : k \in Nat /\ k # None
      BY <1>1, <3>1, RequestTypes, Bounds DEF None
    <3>3. \A k \in 1..q.sequence - 1 : Filled(invoice[q.id].content.series, k)
      BY <1>1, <3>1 DEF IssueOK
    <3>4. \A k \in 1..q.sequence - 1 : Filled(invoice[q.id].content.series, k)'
      <4>1. SUFFICES ASSUME NEW k \in 1..q.sequence - 1, NEW s, s = invoice[q.id].content.series PROVE Filled(s, k)'
        BY <2>1 DEF Filled
      <4> QED
        BY <3>2, <3>3, <4>1, FilledStays
    <3>5. \A j \in Invoices : invoice'[j].file = q.file => invoice'[j].imported
      BY <1>1, <1>3, <2>1, <3>1, Typed DEF IssueOK, Apart
    <3> QED
      BY <3>4, <3>5
  <2>4. q.pc \in {"pending", "written"} =>
          \A j \in Invoices \ {q.id} :
            /\ invoice'[j].file # q.file
            /\ invoice'[j].sequence # q.sequence \/ invoice'[j].content.series # invoice[q.id].content.series
    BY <1>1, <1>3, <2>1, Typed DEF IssueOK, Apart
  <2>5. request'[p] = q /\ UNCHANGED <<disk, sent>>
    OBVIOUS
  <2>6. IssueOK(request[p])'
    BY <1>1, <2>1, <2>3, <2>4, <2>5 DEF IssueOK, Seen, SentFiles, XmlOf, Filled
  <2> QED
    BY <2>2, <2>6
<1> QED
  BY <1>2, <1>3

\* A row changes and no request moves.
LEMMA RowAlone ==
  ASSUME IssuingInv, NEW i \in Invoices, NEW v, Fits(i, v), invoice' = [invoice EXCEPT ![i] = v],
         UNCHANGED <<request, lock, disk, sent, received>>, \A p \in Requests : Apart(i, v, request[p])
  PROVE  IssuingInv'
<1>1. invoice' \in [Invoices -> Row] /\ DataInv'
  BY RowFits
<1>2. RequestsOK'
  <2>1. ASSUME NEW p \in Requests PROVE EditOK(request[p])' /\ IssueOK(request[p])'
    BY OthersStay
  <2> QED
    BY <2>1 DEF RequestsOK
<1>3. TypeOK'
  BY <1>1, Typed DEF TypeOK
<1>4. KindsOK' /\ LockOK' /\ SingleOK'
  BY DEF IssuingInv, KindsOK, LockOK, SingleOK, Active, Held, Kind
<1> QED
  BY <1>1, <1>2, <1>3, <1>4, Parts

\* A row changes with the end of request r, and the others on the same invoice are of its kind.
LEMMA RowAndEnd ==
  ASSUME IssuingInv, NEW r \in Requests, NEW i \in Invoices, NEW v, Fits(i, v), invoice' = [invoice EXCEPT ![i] = v],
         End(r), lock' = IF lock = r THEN NoRequest ELSE lock, UNCHANGED <<disk, sent, received>>,
         \A p \in Requests \ {r} : Apart(i, v, request[p]) \/ (EditOK(request[p])' /\ IssueOK(request[p])')
  PROVE  IssuingInv'
<1>1. invoice' \in [Invoices -> Row] /\ DataInv'
  BY RowFits
<1>2. \A p \in Requests \ {r} : request'[p] = request[p]
  BY Typed DEF End
<1>3. ASSUME NEW p \in Requests \ {r} PROVE EditOK(request[p])' /\ IssueOK(request[p])'
  BY <1>2, OthersStay
<1>4. request' \in [Requests -> Request] /\ lock' \in Requests \cup {NoRequest} /\ KindsOK' /\ LockOK' /\ SingleOK' /\ RequestsOK'
  BY <1>3, Ends
<1>5. TypeOK'
  BY <1>1, <1>4, Typed DEF TypeOK
<1> QED
  BY <1>1, <1>4, <1>5, Parts

\* A row without a file that keeps its number, or has none, disturbs no request on another invoice.
LEMMA QuietRow ==
  ASSUME IssuingInv, NEW i \in Invoices, NEW v \in Row, v.file = None,
         v.sequence # None => v.sequence = invoice[i].sequence /\ v.content.series = invoice[i].content.series,
         NEW p \in Requests, request[p].pc = "idle" \/ request[p].id # i,
         v.replaces \in {NoInvoice, invoice[i].replaces} \/ (request[p].pc = "reopen" => v.replaces # request[p].id)
  PROVE  Apart(i, v, request[p])
<1> DEFINE q == request[p]
<1>1. SUFFICES ASSUME q.pc # "idle" PROVE Apart(i, v, q)
  BY DEF Apart
<1>2. q \in Request /\ EditOK(q) /\ IssueOK(q) /\ q.id \in Invoices /\ q.id # i
  BY <1>1, Typed, RequestTypes
<1>3. q.pc = "reopen" => v.replaces # q.id
  BY <1>2, IssuingAssumption DEF EditOK, ReplacedBy
<1>4. q.pc \in Locked \cup {"late"} => v.file # q.file /\ q.sequence # None
  BY <1>2, RequestTypes, Bounds
<1>5. q.pc \in {"pending", "written"} => v.sequence # q.sequence \/ v.content.series # invoice[q.id].content.series
  BY <1>2, <1>4 DEF IssueOK, Locked
<1> QED
  BY <1>2, <1>3, <1>4, <1>5 DEF Apart, Locked

\* No request is on an id without an invoice.
LEMMA NobodyOn ==
  ASSUME IssuingInv, NEW i \in Invoices, invoice[i].status = "NONE", NEW p \in Requests
  PROVE  request[p].pc = "idle" \/ request[p].id # i
<1>1. request[p] \in Request /\ EditOK(request[p]) /\ IssueOK(request[p])
  BY Typed
<1> QED
  BY <1>1, RequestTypes DEF EditOK, IssueOK, Locked

-----------------------------------------------------------------------------
(***************************************************************************)
(* The steps that change a row.                                            *)
(***************************************************************************)
LEMMA NobodyReplaces ==
  ASSUME IssuingInv, NEW i \in Invoices, invoice[i].status # "REJECTED"
  PROVE  \A j \in Invoices : invoice[j].replaces # i
  BY Typed DEF DataInv, ReplacedStaysRejected

LEMMA Shapes ==
  ASSUME IssuingInv, NEW i \in Invoices
  PROVE  /\ invoice[i].status \in {"NONE", "REMOVED"} =>
              invoice[i].sequence = None /\ invoice[i].file = None /\ ~invoice[i].imported /\ invoice[i].replaces = NoInvoice
         /\ invoice[i].status = "DRAFT" => invoice[i].file = None /\ ~invoice[i].imported
         /\ invoice[i].status \notin {"NONE", "REMOVED", "DRAFT"} => invoice[i].sequence \in Sequence /\ invoice[i].file \in File
         /\ invoice[i].status \notin {"NONE", "REMOVED"} => invoice[i].content \in Content
         /\ ~invoice[i].imported => \A k \in 1..invoice[i].sequence - 1 : Filled(invoice[i].content.series, k)
         /\ \A j \in Invoices \ {i} :
              /\ invoice[i].file # None => invoice[i].file # invoice[j].file
              /\ invoice[i].sequence # None =>
                   invoice[i].sequence # invoice[j].sequence \/ invoice[i].content.series # invoice[j].content.series
         /\ invoice[i].status \in {"SENT", "DELIVERED", "REJECTED"} /\ ~invoice[i].imported => <<i, invoice[i].file>> \in sent
<1>1. RowsOK /\ UniqueOK /\ NoGaps /\ SentOK
  BY Typed DEF DataInv
<1>2. invoice[i].status \in {"NONE", "REMOVED"} =>
        invoice[i].sequence = None /\ invoice[i].file = None /\ ~invoice[i].imported /\ invoice[i].replaces = NoInvoice
  BY <1>1, RowsMade DEF RowsOK
<1>3. ~invoice[i].imported => \A k \in 1..invoice[i].sequence - 1 : Filled(invoice[i].content.series, k)
  BY <1>1 DEF NoGaps, Filled
<1> QED
  BY <1>1, <1>2, <1>3 DEF RowsOK, UniqueOK, SentOK

\* A new draft, which may replace a rejected invoice.
LEMMA DraftFits ==
  ASSUME IssuingInv, NEW i \in Invoices, invoice[i].status = "NONE", NEW c \in Content,
         NEW old \in Invoices \cup {NoInvoice}, old \in Invoices => invoice[old].status = "REJECTED"
  PROVE  Fits(i, Draft(c, old)) /\ Draft(c, old) \in Row /\ Draft(c, old).file = None /\ Draft(c, old).sequence = None
<1> DEFINE v == Draft(c, old)
<1>1. /\ v \in Row /\ v.status = "DRAFT" /\ v.content = c /\ v.sequence = None /\ v.file = None
      /\ v.replaces = old /\ v.imported = FALSE
  BY RowsMade
<1>2. invoice[i].sequence = None /\ \A j \in Invoices : invoice[j].replaces # i
  BY Shapes, NobodyReplaces
<1>3. \A k \in 1..v.sequence - 1 : FALSE
  BY <1>1 DEF None
<1>4. old # i
  BY IssuingAssumption
<1> HIDE DEF v
<1>5. Fits(i, v)
  BY <1>1, <1>2, <1>3, <1>4, IssuingAssumption DEF Fits
<1> QED
  BY <1>1, <1>5 DEF v

LEMMA CreateStep ==
  ASSUME IssuingInv, NEW i \in Invoices, create(i)
  PROVE  IssuingInv'
<1>1. PICK c \in Content : invoice' = [invoice EXCEPT ![i] = Draft(c, NoInvoice)]
  BY DEF create
<1>2. invoice[i].status = "NONE" /\ UNCHANGED <<request, lock, disk, sent, received>>
  BY DEF create
<1> DEFINE v == Draft(c, NoInvoice)
<1>3. Fits(i, v) /\ v \in Row /\ v.file = None /\ v.sequence = None /\ v.replaces = NoInvoice
  BY <1>2, DraftFits, RowsMade, IssuingAssumption
<1> HIDE DEF v
<1>4. ASSUME NEW p \in Requests PROVE Apart(i, v, request[p])
  BY <1>2, <1>3, NobodyOn, QuietRow
<1> QED
  BY <1>1, <1>2, <1>3, <1>4, RowAlone DEF v

LEMMA ReplaceStep ==
  ASSUME IssuingInv, NEW r \in Requests, NEW j \in Invoices, ReplaceWrite(r, j)
  PROVE  IssuingInv'
<1> DEFINE q == request[r]
<1>1. q.pc = "replace" /\ End(r) /\ UNCHANGED <<lock, disk, sent, received>>
  BY DEF ReplaceWrite
<1>2. lock # r
  BY <1>1 DEF IssuingInv, LockOK, Locked
<1>3. q.id \in Invoices /\ invoice[q.id].status = "REJECTED"
  BY <1>1, Typed, RequestTypes DEF EditOK
<1>4. CASE UNCHANGED invoice
  BY <1>1, <1>2, <1>4, EndsOnly
<1>5. CASE invoice[j].status = "NONE" /\ \E c \in Content : invoice' = [invoice EXCEPT ![j] = Draft(c, q.id)]
  <2>1. PICK c \in Content : invoice' = [invoice EXCEPT ![j] = Draft(c, q.id)]
    BY <1>5
  <2> DEFINE v == Draft(c, q.id)
  <2>2. Fits(j, v) /\ v \in Row /\ v.file = None /\ v.sequence = None /\ v.replaces = q.id
    BY <1>3, <1>5, DraftFits, RowsMade
  <2> HIDE DEF v
  <2>3. ASSUME NEW p \in Requests PROVE Apart(j, v, request[p])
    <3>1. request[p].pc = "reopen" => request[p].id # q.id
      BY <1>1 DEF IssuingInv, KindsOK, Held, Kind
    <3> QED
      BY <1>5, <2>2, <3>1, NobodyOn, QuietRow
  <2> QED
    BY <1>1, <1>2, <2>1, <2>2, <2>3, RowAndEnd DEF v
<1> QED
  BY <1>4, <1>5 DEF ReplaceWrite

LEMMA EditStep ==
  ASSUME IssuingInv, NEW r \in Requests, UpdateWrite(r)
  PROVE  IssuingInv'
<1> DEFINE q == request[r]
           i == q.id
<1>1. q.pc = "update" /\ End(r) /\ UNCHANGED <<lock, disk, sent, received>>
  BY DEF UpdateWrite
<1>2. lock # r
  BY <1>1 DEF IssuingInv, LockOK, Locked
<1>3. /\ i \in Invoices /\ q.seen \in Row /\ invoice[i].status = "DRAFT" /\ q.seen.status = "DRAFT"
      /\ invoice[i].sequence = q.seen.sequence
      /\ q.seen.sequence # None => invoice[i].content.series = q.seen.content.series
  BY <1>1, Typed, RequestTypes DEF EditOK
<1>4. CASE UNCHANGED invoice
  BY <1>1, <1>2, <1>4, EndsOnly
<1>5. ASSUME NEW c \in Content, isCorrection(q.seen) => c.series = q.seen.content.series,
             ~KeyTaken(i, c.series, invoice[i].sequence, None), invoice' = [invoice EXCEPT ![i].content = c]
      PROVE  IssuingInv'
  <2> DEFINE v == [invoice[i] EXCEPT !.content = c]
  <2>1. /\ v \in Row /\ v.status = "DRAFT" /\ v.content = c /\ v.sequence = invoice[i].sequence /\ v.file = invoice[i].file
        /\ v.replaces = invoice[i].replaces /\ v.imported = invoice[i].imported
    BY <1>3, Typed, RowTypes DEF Row
  <2>2. invoice' = [invoice EXCEPT ![i] = v]
    BY <1>5
  <2>3. v.file = None /\ ~v.imported
    BY <1>3, <2>1, Shapes
  <2>4. v.sequence # None => v.content.series = invoice[i].content.series
    BY <1>3, <1>5, <2>1 DEF isCorrection
  <2> HIDE DEF v, q
  <2>5. \A k \in 1..v.sequence - 1 : Filled(v.content.series, k)
    <3>1. CASE v.sequence = None
      BY <3>1 DEF None
    <3>2. CASE v.sequence # None
      BY <1>3, <2>1, <2>3, <2>4, <3>2, Shapes
    <3> QED
      BY <3>1, <3>2
  <2>6. \A j \in Invoices \ {i} : v.sequence # None => v.sequence # invoice[j].sequence \/ v.content.series # invoice[j].content.series
    BY <1>5, <2>1 DEF KeyTaken
  <2>7. \A j \in Invoices : invoice[j].replaces # i
    BY <1>3, NobodyReplaces
  <2>8. Fits(i, v)
    BY <1>3, <2>1, <2>3, <2>4, <2>5, <2>6, <2>7 DEF Fits
  <2>9. ASSUME NEW p \in Requests \ {r} PROVE Apart(i, v, request[p]) \/ (EditOK(request[p])' /\ IssueOK(request[p])')
    <3>1. CASE request[p].pc = "idle" \/ request[p].id # i
      BY <1>3, <2>1, <2>3, <2>4, <3>1, QuietRow
    <3>2. CASE request[p].pc # "idle" /\ request[p].id = i
      <4>1. request[p].pc = "update"
        BY <1>1, <3>2, Typed, RequestTypes DEF IssuingInv, KindsOK, Held, Kind, q
      <4>2. EditOK(request[p]) /\ request'[p] = request[p]
        BY <1>1, Typed DEF End
      <4>3. invoice'[i] = v
        BY <1>3, <2>2, Typed
      <4>4. EditOK(request[p])'
        BY <2>1, <2>4, <3>2, <4>1, <4>2, <4>3 DEF EditOK
      <4> QED
        BY <4>1, <4>2, <4>4 DEF IssueOK, Locked
    <3> QED
      BY <3>1, <3>2
  <2> QED
    BY <1>1, <1>2, <1>3, <2>2, <2>8, <2>9, RowAndEnd
<1> QED
  BY <1>1, <1>4, <1>5 DEF UpdateWrite

LEMMA RemoveStep ==
  ASSUME IssuingInv, NEW r \in Requests, RemoveWrite(r)
  PROVE  IssuingInv'
<1> DEFINE q == request[r]
           i == q.id
           v == Blank("REMOVED")
<1>1. /\ q.pc = "remove" /\ End(r) /\ UNCHANGED <<lock, disk, received>> /\ sent' = {x \in sent : x[1] # i}
      /\ invoice' = [k \in Invoices |-> IF k = i THEN v
                                        ELSE IF invoice[k].replaces = i THEN [invoice[k] EXCEPT !.replaces = NoInvoice]
                                        ELSE invoice[k]]
  BY DEF RemoveWrite
<1>2. lock # r
  BY <1>1 DEF IssuingInv, LockOK, Locked
<1>3. i \in Invoices /\ invoice[i].status \in {"DRAFT", "REMOVED"} /\ invoice[i].sequence = None
  BY <1>1, Typed, RequestTypes DEF EditOK
<1>4. /\ v \in Row /\ v.status = "REMOVED" /\ v.sequence = None /\ v.file = None
      /\ v.replaces = NoInvoice /\ v.imported = FALSE
  BY RowsMade
<1>5. \A j \in Invoices : invoice[j].replaces # i
  BY <1>3, NobodyReplaces
<1>6. sent' = sent
  BY <1>1, <1>3, Typed DEF DataInv, SentOK
<1> HIDE DEF v, q
<1>7. invoice' = [invoice EXCEPT ![i] = v]
  BY <1>1, <1>3, <1>5, Typed
<1>8. Fits(i, v)
  <2>1. v = Blank(v.status)
    BY <1>4 DEF v
  <2>2. \A k \in 1..v.sequence - 1 : FALSE
    BY <1>4 DEF None
  <2> QED
    BY <1>3, <1>4, <1>5, <2>1, <2>2, IssuingAssumption DEF Fits
<1>9. ASSUME NEW p \in Requests \ {r} PROVE Apart(i, v, request[p]) \/ (EditOK(request[p])' /\ IssueOK(request[p])')
  <2>1. CASE request[p].pc = "idle" \/ request[p].id # i
    BY <1>3, <1>4, <2>1, QuietRow
  <2>2. CASE request[p].pc # "idle" /\ request[p].id = i
    <3>1. request[p].pc = "remove"
      BY <1>1, <2>2, Typed, RequestTypes DEF IssuingInv, KindsOK, Held, Kind, q
    <3>2. request'[p] = request[p] /\ invoice'[i] = v
      BY <1>1, <1>3, <1>7, Typed DEF End
    <3>3. EditOK(request[p])'
      BY <1>4, <2>2, <3>1, <3>2 DEF EditOK
    <3> QED
      BY <3>1, <3>2, <3>3 DEF IssueOK, Locked
  <2> QED
    BY <2>1, <2>2
<1> QED
  BY <1>1, <1>2, <1>3, <1>6, <1>7, <1>8, <1>9, RowAndEnd

LEMMA ReopenStep ==
  ASSUME IssuingInv, NEW r \in Requests, ReopenWrite(r)
  PROVE  IssuingInv'
<1> DEFINE q == request[r]
           i == q.id
           v == [invoice[i] EXCEPT !.status = "DRAFT", !.file = None]
<1>1. q.pc = "reopen" /\ End(r) /\ UNCHANGED <<lock, disk, sent, received>>
  BY DEF ReopenWrite
<1>2. lock # r
  BY <1>1 DEF IssuingInv, LockOK, Locked
<1>3. i \in Invoices /\ ~invoice[i].imported /\ \A j \in Invoices : invoice[j].replaces # i
  BY <1>1, Typed, RequestTypes DEF EditOK, ReplacedBy
<1>4. CASE UNCHANGED invoice
  BY <1>1, <1>2, <1>4, EndsOnly
<1>5. CASE invoice[i].status = "REJECTED" /\ invoice' = [invoice EXCEPT ![i].status = "DRAFT", ![i].file = None]
  <2>1. /\ v \in Row /\ v.status = "DRAFT" /\ v.file = None /\ v.sequence = invoice[i].sequence /\ v.content = invoice[i].content
        /\ v.replaces = invoice[i].replaces /\ v.imported = invoice[i].imported
    BY ZenonT(60), <1>3, Typed, RowTypes DEF Row, Status
  <2>2. invoice' = [invoice EXCEPT ![i] = v]
    BY <1>3, <1>5, Typed
  <2> HIDE DEF v, q
  <2>3. Fits(i, v)
    BY ZenonT(60), <1>3, <1>5, <2>1, Shapes DEF Fits
  <2>4. ASSUME NEW p \in Requests \ {r} PROVE Apart(i, v, request[p]) \/ (EditOK(request[p])' /\ IssueOK(request[p])')
    <3>1. CASE request[p].pc = "idle" \/ request[p].id # i
      BY <1>3, <2>1, <3>1, QuietRow
    <3>2. CASE request[p].pc # "idle" /\ request[p].id = i
      <4>1. request[p].pc = "reopen"
        BY <1>1, <3>2, Typed, RequestTypes DEF IssuingInv, KindsOK, Held, Kind, q
      <4>2. request'[p] = request[p] /\ invoice'[i] = v /\ \A j \in Invoices \ {i} : invoice'[j] = invoice[j]
        BY <1>1, <1>3, <2>2, Typed DEF End
      <4>3. \A j \in Invoices : invoice'[j].replaces # i
        BY <1>3, <2>1, <4>2
      <4>4. EditOK(request[p])'
        BY <1>3, <2>1, <3>2, <4>1, <4>2, <4>3 DEF EditOK, ReplacedBy
      <4> QED
        BY <4>1, <4>2, <4>4 DEF IssueOK, Locked
    <3> QED
      BY <3>1, <3>2
  <2> QED
    BY <1>1, <1>2, <1>3, <2>2, <2>3, <2>4, RowAndEnd
<1> QED
  BY <1>4, <1>5 DEF ReopenWrite

LEMMA CommitStep ==
  ASSUME IssuingInv, NEW r \in Requests, IssueCommit(r)
  PROVE  IssuingInv'
<1> DEFINE q == request[r]
           i == q.id
           v == [invoice[i] EXCEPT !.status = "ISSUED", !.sequence = q.sequence, !.file = q.file]
<1>1. /\ q.pc = "written" /\ q.pc \in Locked /\ End(r) /\ lock' = (IF lock = r THEN NoRequest ELSE lock)
      /\ UNCHANGED <<disk, sent, received>>
      /\ invoice' = [invoice EXCEPT ![i].status = "ISSUED", ![i].sequence = q.sequence, ![i].file = q.file]
  BY DEF IssueCommit, Release, Locked
<1>2. /\ i \in Invoices /\ q.sequence \in Sequence /\ q.file \in File
      /\ XmlOf(q) = [file |-> q.file, invoice |-> i, content |-> invoice[i].content, number |-> q.sequence]
  BY <1>1, DocumentOf DEF Active
<1>3. /\ invoice[i].status = "DRAFT" /\ XmlOf(q) \in disk /\ q.file \notin SentFiles
      /\ invoice[i].sequence # None => q.sequence = invoice[i].sequence
      /\ \A k \in 1..q.sequence - 1 : Filled(invoice[i].content.series, k)
      /\ \A j \in Invoices \ {i} :
           invoice[j].file # q.file /\ (invoice[j].sequence # q.sequence \/ invoice[j].content.series # invoice[i].content.series)
  BY <1>1, Typed DEF IssueOK
<1>4. /\ v \in Row /\ v.status = "ISSUED" /\ v.file = q.file /\ v.sequence = q.sequence /\ v.content = invoice[i].content
      /\ v.replaces = invoice[i].replaces /\ v.imported = invoice[i].imported
  BY ZenonT(60), <1>2, Typed, RowTypes DEF Row, Status
<1>5. invoice' = [invoice EXCEPT ![i] = v]
  BY <1>1, <1>2, Typed
<1>6. ~invoice[i].imported /\ invoice[i].content \in Content /\ \A j \in Invoices : invoice[j].replaces # i
  BY <1>2, <1>3, Shapes, NobodyReplaces
<1> HIDE DEF v, q
<1>7. Fits(i, v)
  BY <1>2, <1>3, <1>4, <1>6 DEF Fits
<1>8. ASSUME NEW p \in Requests \ {r} PROVE Apart(i, v, request[p]) \/ (EditOK(request[p])' /\ IssueOK(request[p])')
  <2>1. request[p].pc \notin Locked \cup {"late"}
    BY <1>1 DEF IssuingInv, SingleOK, Active, q
  <2>2. request'[p] = request[p] /\ invoice'[i] = v
    BY <1>1, <1>2, <1>5, Typed DEF End
  <2>3. CASE request[p].pc = "idle" \/ request[p].id # i
    <3>1. request[p].pc = "reopen" => v.replaces # request[p].id
      BY <1>2, <1>4, Typed, RequestTypes DEF EditOK, ReplacedBy
    <3> QED
      BY <2>1, <2>3, <3>1 DEF Apart, Locked
  <2>4. CASE request[p].pc # "idle" /\ request[p].id = i
    <3>1. request[p].pc = "issue"
      BY <1>1, <2>1, <2>4, Typed, RequestTypes DEF IssuingInv, KindsOK, Held, Kind, q, Locked
    <3> QED
      BY <1>4, <2>2, <2>4, <3>1 DEF EditOK, IssueOK, Locked
  <2> QED
    BY <2>3, <2>4
<1> QED
  BY <1>1, <1>2, <1>5, <1>7, <1>8, RowAndEnd

LEMMA OutcomeStep ==
  ASSUME IssuingInv, NEW i \in Invoices, setSdiOutcome(i)
  PROVE  IssuingInv'
<1>1. PICK outcome \in {"DELIVERED", "REJECTED"} : invoice' = [invoice EXCEPT ![i].status = outcome]
  BY DEF setSdiOutcome
<1>2. /\ invoice[i].status = "SENT" \/ (invoice[i].imported /\ invoice[i].status = "ISSUED")
      /\ UNCHANGED <<request, lock, disk, sent, received>>
      /\ \A p \in Requests : request[p].pc = "idle" \/ request[p].id # i
  BY DEF setSdiOutcome, Held
<1> DEFINE v == [invoice[i] EXCEPT !.status = outcome]
<1>3. /\ v \in Row /\ v.status = outcome /\ v.file = invoice[i].file /\ v.sequence = invoice[i].sequence
      /\ v.content = invoice[i].content /\ v.replaces = invoice[i].replaces /\ v.imported = invoice[i].imported
  BY Typed, RowTypes DEF Row, Status
<1>4. invoice' = [invoice EXCEPT ![i] = v]
  BY <1>1, Typed
<1> HIDE DEF v
<1>5. invoice[i].sequence \in Sequence /\ invoice[i].file \in File /\ invoice[i].content \in Content
      /\ \A j \in Invoices : invoice[j].replaces # i
  BY <1>2, Shapes, NobodyReplaces
<1>6. Fits(i, v)
  BY <1>1, <1>2, <1>3, <1>5, Shapes DEF Fits
<1>7. ASSUME NEW p \in Requests PROVE Apart(i, v, request[p])
  <2>1. CASE request[p].pc = "idle"
    BY <2>1 DEF Apart
  <2>2. CASE request[p].pc # "idle" /\ request[p].id # i
    <3>1. request[p].id \in Invoices /\ EditOK(request[p]) /\ IssueOK(request[p])
      BY <2>2, Typed, RequestTypes
    <3> QED
      BY <1>3, <2>2, <3>1 DEF Apart, EditOK, IssueOK, ReplacedBy
  <2> QED
    BY <1>2, <2>1, <2>2
<1> QED
  BY <1>2, <1>4, <1>6, <1>7, RowAlone

LEMMA ImportStep ==
  ASSUME IssuingInv, NEW i \in Invoices, importOne(i)
  PROVE  IssuingInv'
<1>1. PICK c \in Content, n \in Sequence, f \in File :
        /\ ~KeyTaken(i, c.series, n, f) /\ ~KeyLocked(c.series, n, f)
        /\ invoice' = [invoice EXCEPT ![i] = [status |-> "ISSUED", content |-> c, sequence |-> n, file |-> f,
                                              replaces |-> NoInvoice, imported |-> TRUE]]
  BY DEF importOne
<1> DEFINE v == [status |-> "ISSUED", content |-> c, sequence |-> n, file |-> f, replaces |-> NoInvoice, imported |-> TRUE]
<1>2. invoice[i].status = "NONE" /\ UNCHANGED <<request, lock, disk, sent, received>>
  BY DEF importOne
<1>3. /\ v \in Row /\ v.status = "ISSUED" /\ v.file = f /\ v.sequence = n
      /\ v.content = c /\ v.replaces = NoInvoice /\ v.imported = TRUE
  BY DEF Row, Status
<1>4. invoice' = [invoice EXCEPT ![i] = v]
  BY <1>1
<1> HIDE DEF v
<1>5. n # None /\ f # None
  BY Bounds
<1>6. invoice[i].sequence = None /\ \A j \in Invoices : invoice[j].replaces # i
  BY <1>2, Shapes, NobodyReplaces
<1>7. Fits(i, v)
  BY <1>1, <1>3, <1>5, <1>6, IssuingAssumption DEF Fits, KeyTaken
<1>8. ASSUME NEW p \in Requests PROVE Apart(i, v, request[p])
  <2>1. CASE request[p].pc = "idle"
    BY <2>1 DEF Apart
  <2>2. CASE request[p].pc # "idle"
    <3>1. request[p].id \in Invoices /\ request[p].id # i
      BY <1>2, <2>2, NobodyOn, Typed, RequestTypes
    <3>2. request[p].pc \in {"pending", "written"} =>
            request[p].file # f /\ (request[p].sequence # n \/ invoice[request[p].id].content.series # c.series)
      BY <1>1 DEF KeyLocked, Pending
    <3> QED
      BY <1>3, <3>1, <3>2, IssuingAssumption DEF Apart
  <2> QED
    BY <2>1, <2>2
<1> QED
  BY <1>2, <1>4, <1>7, <1>8, RowAlone

\* Sending: what goes to SDI is the document of the row.
LEMMA SendStep ==
  ASSUME IssuingInv, NEW i \in Invoices, send(i)
  PROVE  IssuingInv'
<1>1. /\ invoice[i].status = "ISSUED" /\ ~invoice[i].imported /\ UNCHANGED <<request, lock, disk>>
      /\ sent' = sent \cup {<<i, invoice[i].file>>}
  BY DEF send
<1>2. /\ RowsOK /\ UniqueOK /\ DiskOK /\ SentOK /\ ReceivedOK /\ XmlMatchesRow /\ OneDocumentPerName /\ NoGaps
      /\ ReplacedStaysRejected
  BY Typed DEF DataInv
<1>3. /\ invoice[i].file \in File /\ invoice[i].sequence \in Sequence /\ invoice[i].content \in Content
      /\ invoice[i].file # None /\ invoice[i].sequence # None
  BY <1>1, Shapes, Bounds
<1>4. /\ invoice' \in [Invoices -> Row]
      /\ \A j \in Invoices : /\ invoice'[j].content = invoice[j].content /\ invoice'[j].sequence = invoice[j].sequence
                             /\ invoice'[j].file = invoice[j].file /\ invoice'[j].replaces = invoice[j].replaces
                             /\ invoice'[j].imported = invoice[j].imported
                             /\ j # i => invoice'[j] = invoice[j]
      /\ invoice'[i].status \in {"ISSUED", "SENT"}
  <2>1. CASE UNCHANGED invoice
    BY <1>1, <2>1, Typed
  <2>2. CASE invoice' = [invoice EXCEPT ![i].status = "SENT"]
    <3>1. [invoice[i] EXCEPT !.status = "SENT"] \in Row
      BY Typed DEF Row, Status
    <3> QED
      BY <2>2, <3>1, Typed DEF Row
  <2> QED
    BY <2>1, <2>2 DEF send
<1>5. Doc(i) \in disk
  BY <1>1, <1>2, <1>3 DEF XmlMatchesRow, Doc
<1>6. /\ received' \in SUBSET (Xml \X Invoices)
      /\ \A x \in received' : x \in received \/ x = <<Doc(i), i>>
  <2>1. CASE UNCHANGED received
    BY <2>1, Typed
  <2>2. ASSUME NEW x \in disk, x.file = invoice[i].file, received' = received \cup {<<x, i>>}
        PROVE  received' \in SUBSET (Xml \X Invoices) /\ \A y \in received' : y \in received \/ y = <<Doc(i), i>>
    <3>1. x = Doc(i)
      BY <1>2, <1>5, <2>2 DEF DiskOK, Doc
    <3> QED
      BY <2>2, <3>1, Typed
  <2> QED
    BY <2>1, <2>2 DEF send
<1>7. (RowsOK /\ UniqueOK /\ DiskOK /\ XmlMatchesRow /\ NoGaps)'
  <2>1. RowsOK'
    BY <1>1, <1>2, <1>3, <1>4 DEF RowsOK, Blank
  <2>2. UniqueOK' /\ DiskOK' /\ NoGaps'
    BY <1>1, <1>2, <1>4 DEF UniqueOK, DiskOK, NoGaps
  <2>3. XmlMatchesRow'
    BY <1>1, <1>2, <1>4 DEF XmlMatchesRow
  <2> QED
    BY <2>1, <2>2, <2>3
<1>8. ReplacedStaysRejected'
  BY <1>1, <1>2, <1>4 DEF ReplacedStaysRejected
<1>9. SentOK'
  <2>1. ASSUME NEW x \in sent' PROVE invoice'[x[1]].sequence # None /\ ~invoice'[x[1]].imported
    <3>1. CASE x \in sent
      <4>1. x[1] \in Invoices
        BY <3>1, Typed
      <4> QED
        BY <1>2, <1>4, <3>1, <4>1 DEF SentOK
    <3>2. CASE x = <<i, invoice[i].file>>
      BY <1>1, <1>3, <1>4, <3>2
    <3> QED
      BY <1>1, <2>1, <3>1, <3>2
  <2>2. ASSUME NEW j \in Invoices, invoice'[j].status \in {"SENT", "DELIVERED", "REJECTED"}, ~invoice'[j].imported
        PROVE  <<j, invoice'[j].file>> \in sent'
    BY <1>1, <1>2, <1>4, <2>2 DEF SentOK
  <2> QED
    BY <2>1, <2>2 DEF SentOK
<1>10. ReceivedOK'
  <2>1. SUFFICES ASSUME NEW x \in received'
                 PROVE  /\ x[1].number = invoice'[x[2]].sequence /\ x[1].content.series = invoice'[x[2]].content.series
                        /\ <<x[2], x[1].file>> \in sent'
                        /\ \A k \in Invoices : ~invoice'[k].imported /\ invoice'[k].file = x[1].file => k = x[2] /\ x[1] = Doc(k)'
    BY DEF ReceivedOK
  <2>2. \A k \in Invoices : Doc(k)' = Doc(k)
    BY <1>4 DEF Doc
  <2>3. CASE x \in received
    <3>1. x[2] \in Invoices
      BY <2>3, Typed
    <3> QED
      BY <1>1, <1>2, <1>4, <2>2, <2>3, <3>1 DEF ReceivedOK
  <2>4. CASE x = <<Doc(i), i>>
    <3>1. x[1] = Doc(i) /\ x[2] = i /\ Doc(i).file = invoice[i].file /\ Doc(i).number = invoice[i].sequence
          /\ Doc(i).content = invoice[i].content
      BY <2>4 DEF Doc
    <3>2. \A k \in Invoices : invoice[k].file = invoice[i].file => k = i
      BY <1>2, <1>3 DEF UniqueOK
    <3> QED
      BY <1>1, <1>4, <2>2, <3>1, <3>2
  <2> QED
    BY <1>6, <2>3, <2>4
<1>11. OneDocumentPerName'
  <2>1. ASSUME NEW y \in received, y[1].file = invoice[i].file PROVE y = <<Doc(i), i>>
    <3>1. i = y[2] /\ y[1] = Doc(i)
      BY <1>1, <1>2, <2>1 DEF ReceivedOK
    <3>2. y \in Xml \X Invoices
      BY Typed
    <3> QED
      BY <3>1, <3>2
  <2>2. Doc(i).file = invoice[i].file /\ <<Doc(i), i>>[1] = Doc(i)
    BY DEF Doc
  <2> QED
    BY <1>2, <1>6, <2>1, <2>2 DEF OneDocumentPerName
<1>12. DataInv'
  BY <1>7, <1>8, <1>9, <1>10, <1>11 DEF DataInv
<1>13. TypeOK'
  BY <1>1, <1>3, <1>4, <1>6, Typed DEF TypeOK
<1>14. KindsOK' /\ LockOK' /\ SingleOK'
  BY <1>1 DEF IssuingInv, KindsOK, LockOK, SingleOK, Active, Held, Kind
<1>15. ASSUME NEW p \in Requests PROVE EditOK(request[p])' /\ IssueOK(request[p])'
  <2> DEFINE q == request[p]
  <2>1. q \in Request /\ EditOK(q) /\ IssueOK(q) /\ request'[p] = q
    BY <1>1, Typed
  <2>2. \A j \in Invoices : invoice'[j].replaces = invoice[j].replaces
    BY <1>4
  <2>3. \A s, k : Filled(s, k) => Filled(s, k)'
    BY <1>4 DEF Filled
  <2>4. CASE q.pc = "idle"
    BY <2>1, <2>4 DEF EditOK, IssueOK, Locked
  <2>5. CASE q.pc # "idle"
    <3>1. q.id \in Invoices
      BY <2>1, <2>5, RequestTypes
    <3>2. q.pc # "issue" => q.id # i
      BY <1>1, <2>1, <2>5, RequestTypes DEF EditOK, IssueOK, Locked
    <3>3. EditOK(request[p])'
      BY <1>4, <2>1, <2>2, <3>1, <3>2 DEF EditOK, ReplacedBy
    <3>4. q.pc \in Locked \cup {"late"} => q.file \notin SentFiles'
      BY <1>1, <2>1 DEF IssueOK, SentFiles
    <3>5. q.pc \in Locked \cup {"late"} => \A k \in 1..q.sequence - 1 : Filled(invoice[q.id].content.series, k)'
      <4>1. SUFFICES ASSUME q.pc \in Locked \cup {"late"}, NEW k \in 1..q.sequence - 1,
                            NEW s, s = invoice[q.id].content.series
                     PROVE  Filled(s, k)'
        BY <1>4, <2>1, <3>1 DEF Filled
      <4> QED
        BY <2>1, <2>3, <4>1 DEF IssueOK
    <3>6. q.pc = "issue" => invoice'[q.id].status \in {"DRAFT", "ISSUED", "SENT"} /\ (invoice'[q.id].status = "DRAFT" => Seen(q))
      BY <1>1, <1>4, <2>1, <3>1 DEF IssueOK
    <3>7. IssueOK(request[p])'
      BY <1>1, <1>4, <2>1, <3>1, <3>2, <3>4, <3>5, <3>6 DEF IssueOK, Seen, XmlOf, Filled, Locked
    <3> QED
      BY <3>3, <3>7
  <2> QED
    BY <2>4, <2>5
<1> QED
  BY <1>12, <1>13, <1>14, <1>15, Parts DEF RequestsOK

-----------------------------------------------------------------------------
(***************************************************************************)
(* The theorems on states.                                                 *)
(***************************************************************************)
LEMMA IssuingStart == Init => IssuingInv
<1> SUFFICES ASSUME Init PROVE IssuingInv
  OBVIOUS
<1>1. \A i \in Invoices : invoice[i] = Blank("NONE") /\ invoice[i].status = "NONE" /\ invoice[i].sequence = None
                          /\ invoice[i].file = None /\ invoice[i].replaces = NoInvoice /\ invoice[i].imported = FALSE
  BY RowsMade DEF Init
<1>2. \A r \in Requests : request[r].pc = "idle"
  BY Bounds DEF Init
<1>3. TypeOK
  BY RowsMade, Bounds DEF Init, TypeOK
<1>4. RowsOK /\ UniqueOK /\ DiskOK /\ SentOK /\ ReceivedOK /\ XmlMatchesRow /\ OneDocumentPerName /\ ReplacedStaysRejected
  BY <1>1, IssuingAssumption
  DEF Init, RowsOK, UniqueOK, DiskOK, SentOK, ReceivedOK, XmlMatchesRow, OneDocumentPerName, ReplacedStaysRejected
<1>5. NoGaps
  BY <1>1 DEF NoGaps, None
<1>6. KindsOK /\ LockOK /\ SingleOK /\ RequestsOK
  BY <1>2, IssuingAssumption DEF Init, KindsOK, LockOK, SingleOK, RequestsOK, EditOK, IssueOK, Held, Active, Locked
<1> QED
  BY <1>3, <1>4, <1>5, <1>6 DEF IssuingInv, DataInv

LEMMA IssuingStep ==
  ASSUME ConcurrentEdits = FALSE, SlowWrites = FALSE
  PROVE  IssuingInv /\ [Next]_vars => IssuingInv'
<1> SUFFICES ASSUME IssuingInv, [Next]_vars PROVE IssuingInv'
  OBVIOUS
<1>1. CASE UNCHANGED vars
  <2>1. UNCHANGED <<invoice, request, lock, disk, sent, received>>
    BY <1>1 DEF vars
  <2>2. TypeOK' /\ DataInv'
    BY <2>1, DataKept, Typed DEF TypeOK
  <2>3. KindsOK' /\ LockOK' /\ SingleOK'
    BY <2>1 DEF IssuingInv, KindsOK, LockOK, SingleOK, Active, Held, Kind
  <2>4. RequestsOK'
    BY <2>1, Typed DEF RequestsOK, EditOK, IssueOK, Seen, Filled, ReplacedBy, SentFiles, XmlOf
  <2> QED
    BY <2>2, <2>3, <2>4, Parts
<1>2. ASSUME NEW i \in Invoices, create(i) \/ importOne(i) \/ send(i) \/ setSdiOutcome(i) PROVE IssuingInv'
  BY <1>2, CreateStep, ImportStep, SendStep, OutcomeStep
<1>3. ASSUME NEW r \in Requests, NEW i \in Invoices,
             UpdateRead(r, i) \/ RemoveRead(r, i) \/ IssueRead(r, i) \/ ReopenRead(r, i) \/ ReplaceRead(r, i)
      PROVE  IssuingInv'
  BY <1>3, Reads
<1>4. ASSUME NEW r \in Requests, NEW i \in Invoices, ReplaceWrite(r, i) PROVE IssuingInv'
  BY <1>4, ReplaceStep
<1>5. ASSUME NEW r \in Requests, UpdateWrite(r) \/ RemoveWrite(r) \/ ReopenWrite(r) PROVE IssuingInv'
  BY <1>5, EditStep, RemoveStep, ReopenStep
<1>6. ASSUME NEW r \in Requests, IssueConflict(r) PROVE IssuingInv'
  <2>1. End(r) /\ lock # r /\ UNCHANGED <<invoice, lock, disk, sent, received>>
    BY <1>6, IssuingAssumption DEF IssueConflict
  <2> QED
    BY <2>1, EndsOnly
<1>7. ASSUME NEW r \in Requests, Stop(r) PROVE IssuingInv'
  BY <1>7, EndsOnly DEF Stop, Release
<1>8. ASSUME NEW r \in Requests,
             \/ IssueNumber(r) \/ IssueUpdate(r) \/ IssueWrite(r) \/ IssueWriteFails(r) \/ IssueCommit(r)
             \/ IssueTimeout(r) \/ LateWrite(r)
      PROVE  IssuingInv'
  BY <1>8, NumberStep, UpdateStep, WriteSteps, CommitStep, TimeoutStep
<1> QED
  BY <1>1, <1>2, <1>3, <1>4, <1>5, <1>6, <1>7, <1>8 DEF Next

LEMMA IssuingAlways ==
  ASSUME ConcurrentEdits = FALSE, SlowWrites = FALSE
  PROVE  Spec => []IssuingInv
BY IssuingStart, IssuingStep, PTL DEF Spec

\* The stored file of an issued invoice says what its row says, whatever fails, stops or times out between the update of
\* the row, the write and the commit (invoices.service.ts, issue).
THEOREM FilesMatchRows ==
  ASSUME ConcurrentEdits = FALSE, SlowWrites = FALSE
  PROVE  Spec => []XmlMatchesRow
<1>1. IssuingInv => XmlMatchesRow
  BY DEF IssuingInv, DataInv
<1> QED
  BY <1>1, IssuingAlways, PTL

\* SDI gets one document under a file name, through corrections and removals (invoices.service.ts, nextFileSequence).
THEOREM NamesUsedOnce ==
  ASSUME ConcurrentEdits = FALSE, SlowWrites = FALSE
  PROVE  Spec => []OneDocumentPerName
<1>1. IssuingInv => OneDocumentPerName
  BY DEF IssuingInv, DataInv
<1> QED
  BY <1>1, IssuingAlways, PTL

\* SDI gets a number of a series from one invoice, imports included (the unique index, and update and remove, which leave
\* a numbered draft its number and series).
THEOREM NumbersUsedOnce ==
  ASSUME ConcurrentEdits = FALSE, SlowWrites = FALSE
  PROVE  Spec => []NumbersOnce
<1>1. IssuingInv => NumbersOnce
  <2>1. SUFFICES ASSUME IssuingInv, NEW x \in received, NEW y \in received,
                        x[1].number = y[1].number, x[1].content.series = y[1].content.series
                 PROVE  x[2] = y[2]
    BY DEF NumbersOnce
  <2>2. x[2] \in Invoices /\ y[2] \in Invoices /\ ReceivedOK /\ SentOK /\ UniqueOK
    BY <2>1, Typed DEF DataInv
  <2>3. invoice[x[2]].sequence # None
    BY <2>2 DEF ReceivedOK, SentOK
  <2>4. invoice[x[2]].sequence = invoice[y[2]].sequence /\ invoice[x[2]].content.series = invoice[y[2]].content.series
    BY <2>1, <2>2 DEF ReceivedOK
  <2> QED
    BY <2>2, <2>3, <2>4 DEF UniqueOK
<1> QED
  BY <1>1, IssuingAlways, PTL

\* Numbers given by issue leave no gap but those an import made, whatever issues fail (invoices.service.ts, issue).
THEOREM NumbersWithoutGaps ==
  ASSUME ConcurrentEdits = FALSE, SlowWrites = FALSE
  PROVE  Spec => []NoGaps
<1>1. IssuingInv => NoGaps
  BY DEF IssuingInv, DataInv
<1> QED
  BY <1>1, IssuingAlways, PTL

-----------------------------------------------------------------------------
(***************************************************************************)
(* How the row of an invoice moves.                                        *)
(***************************************************************************)
\* What it says, its number and its file stay.
RowKeeps(i) ==
  invoice'[i].content = invoice[i].content /\ invoice'[i].sequence = invoice[i].sequence /\ invoice'[i].file = invoice[i].file
Drafted(i)   == invoice[i].status = "NONE" /\ invoice'[i].status = "DRAFT" /\ invoice'[i].file = invoice[i].file
Imported(i)  == /\ invoice[i].status = "NONE" /\ invoice'[i].status = "ISSUED"
                /\ invoice'[i].file \in File \ {invoice[j].file : j \in Invoices}
Edited(i)    == /\ invoice[i].status = "DRAFT" /\ invoice'[i].status = "DRAFT" /\ invoice'[i].file = invoice[i].file
                /\ invoice'[i].sequence = invoice[i].sequence
                /\ invoice[i].sequence # None => invoice'[i].content.series = invoice[i].content.series
Removed(i)   == /\ invoice[i].status \in {"DRAFT", "REMOVED"} /\ invoice'[i].status = "REMOVED"
                /\ invoice[i].sequence = None /\ invoice'[i].file = invoice[i].file
Issued(i)    == /\ invoice[i].status = "DRAFT" /\ invoice'[i].status = "ISSUED" /\ invoice'[i].file \in File \ UsedFiles
                /\ invoice'[i].content = invoice[i].content
                /\ invoice[i].sequence # None => invoice'[i].sequence = invoice[i].sequence
Corrected(i) == /\ invoice[i].status = "REJECTED" /\ invoice'[i].status = "DRAFT" /\ invoice'[i].file = None
                /\ invoice'[i].content = invoice[i].content /\ invoice'[i].sequence = invoice[i].sequence
                /\ ~invoice[i].imported
Sent(i)      == invoice[i].status = "ISSUED" /\ invoice'[i].status = "SENT" /\ RowKeeps(i)
Judged(i)    == /\ invoice[i].status \in {"ISSUED", "SENT"} /\ invoice'[i].status \in {"DELIVERED", "REJECTED"}
                /\ RowKeeps(i)
RowMoves(i)  == Drafted(i) \/ Imported(i) \/ Edited(i) \/ Removed(i) \/ Issued(i) \/ Corrected(i) \/ Sent(i) \/ Judged(i)

\* What is in use for good: files in rows, and files of transmissions, which stay.
Moves ==
  /\ \/ UNCHANGED invoice
     \/ \E i \in Invoices : RowMoves(i) /\ \A j \in Invoices \ {i} : invoice'[j] = invoice[j]
  /\ sent \subseteq sent'
  /\ \A x \in sent' \ sent : invoice[x[1]].status = "ISSUED" /\ x[1] \in Invoices /\ x[2] = invoice[x[1]].file

LEMMA FilesOfDrafts ==
  ASSUME IssuingInv, NEW i \in Invoices
  PROVE  invoice[i].status \in {"NONE", "REMOVED", "DRAFT"} => invoice[i].file = None
  BY Shapes

LEMMA TableMoves ==
  ASSUME IssuingInv, NEW i \in Invoices, create(i) \/ importOne(i) \/ send(i) \/ setSdiOutcome(i)
  PROVE  Moves
<1>1. CASE create(i)
  <2>1. PICK c \in Content : invoice' = [invoice EXCEPT ![i] = Draft(c, NoInvoice)]
    BY <1>1 DEF create
  <2>2. Drafted(i) /\ \A j \in Invoices \ {i} : invoice'[j] = invoice[j]
    BY <1>1, <2>1, Typed, RowsMade, FilesOfDrafts DEF create, Drafted
  <2> QED
    BY <1>1, <2>2 DEF create, Moves, RowMoves
<1>2. CASE importOne(i)
  <2>1. PICK c \in Content, n \in Sequence, f \in File :
          /\ ~KeyTaken(i, c.series, n, f)
          /\ invoice' = [invoice EXCEPT ![i] = [status |-> "ISSUED", content |-> c, sequence |-> n, file |-> f,
                                                replaces |-> NoInvoice, imported |-> TRUE]]
    BY <1>2 DEF importOne
  <2>2. invoice[i].status = "NONE" /\ invoice[i].file = None /\ f # None /\ UNCHANGED sent
    BY <1>2, FilesOfDrafts, Bounds DEF importOne
  <2>3. \A j \in Invoices : invoice[j].file # f
    BY <2>1, <2>2 DEF KeyTaken
  <2>4. invoice'[i].status = "ISSUED" /\ invoice'[i].file = f /\ \A j \in Invoices \ {i} : invoice'[j] = invoice[j]
    BY <2>1, Typed
  <2>5. Imported(i)
    BY <2>2, <2>3, <2>4 DEF Imported
  <2> QED
    BY <2>2, <2>4, <2>5 DEF Moves, RowMoves
<1>3. CASE send(i)
  <2>1. invoice[i].status = "ISSUED" /\ sent' = sent \cup {<<i, invoice[i].file>>}
    BY <1>3 DEF send
  <2>2. CASE UNCHANGED invoice
    BY <2>1, <2>2 DEF Moves
  <2>3. CASE invoice' = [invoice EXCEPT ![i].status = "SENT"]
    <3>1. Sent(i) /\ \A j \in Invoices \ {i} : invoice'[j] = invoice[j]
      BY <2>1, <2>3, Typed DEF Sent, RowKeeps, Row
    <3> QED
      BY <2>1, <3>1 DEF Moves, RowMoves
  <2> QED
    BY <1>3, <2>2, <2>3 DEF send
<1>4. CASE setSdiOutcome(i)
  <2>1. Judged(i) /\ \A j \in Invoices \ {i} : invoice'[j] = invoice[j]
    BY <1>4, Typed DEF setSdiOutcome, Judged, RowKeeps, Row
  <2> QED
    BY <1>4, <2>1 DEF setSdiOutcome, Moves, RowMoves
<1> QED
  BY <1>1, <1>2, <1>3, <1>4

LEMMA WriteMoves ==
  ASSUME IssuingInv, NEW r \in Requests,
         UpdateWrite(r) \/ RemoveWrite(r) \/ ReopenWrite(r) \/ IssueCommit(r) \/ \E j \in Invoices : ReplaceWrite(r, j)
  PROVE  Moves
<1> DEFINE q == request[r]
           i == q.id
<1>1. CASE UpdateWrite(r)
  <2>1. /\ i \in Invoices /\ invoice[i].status = "DRAFT" /\ q.seen.status = "DRAFT" /\ invoice[i].sequence = q.seen.sequence
        /\ q.seen.sequence # None => invoice[i].content.series = q.seen.content.series
    BY <1>1, Typed, RequestTypes DEF UpdateWrite, EditOK
  <2>2. CASE UNCHANGED invoice
    BY <1>1, <2>2 DEF UpdateWrite, Moves
  <2>3. ASSUME NEW c \in Content, isCorrection(q.seen) => c.series = q.seen.content.series,
               invoice' = [invoice EXCEPT ![i].content = c]
        PROVE  Moves
    <3>1. /\ invoice'[i].status = "DRAFT" /\ invoice'[i].file = invoice[i].file
          /\ invoice'[i].sequence = invoice[i].sequence /\ invoice'[i].content = c
          /\ \A j \in Invoices \ {i} : invoice'[j] = invoice[j]
      BY <2>1, <2>3, Typed DEF Row
    <3>2. Edited(i)
      BY <2>1, <2>3, <3>1 DEF Edited, isCorrection
    <3> QED
      BY <1>1, <2>1, <3>1, <3>2 DEF UpdateWrite, Moves, RowMoves
  <2> QED
    BY <1>1, <2>2, <2>3 DEF UpdateWrite
<1>2. CASE RemoveWrite(r)
  <2>1. i \in Invoices /\ invoice[i].status \in {"DRAFT", "REMOVED"} /\ invoice[i].sequence = None
    BY <1>2, Typed, RequestTypes DEF RemoveWrite, EditOK
  <2>2. \A j \in Invoices : invoice[j].replaces # i
    BY <2>1, NobodyReplaces
  <2>3. sent' = sent
    BY <1>2, <2>1, Typed DEF RemoveWrite, DataInv, SentOK
  <2>4. invoice'[i] = Blank("REMOVED") /\ \A j \in Invoices \ {i} : invoice'[j] = invoice[j]
    BY <1>2, <2>1, <2>2 DEF RemoveWrite
  <2>5. Removed(i)
    BY <2>1, <2>4, RowsMade, FilesOfDrafts DEF Removed
  <2> QED
    BY <2>1, <2>3, <2>4, <2>5 DEF Moves, RowMoves
<1>3. CASE ReopenWrite(r)
  <2>1. i \in Invoices /\ ~invoice[i].imported /\ UNCHANGED sent
    BY <1>3, Typed, RequestTypes DEF ReopenWrite, EditOK
  <2>2. CASE UNCHANGED invoice
    BY <2>1, <2>2 DEF Moves
  <2>3. CASE invoice[i].status = "REJECTED" /\ invoice' = [invoice EXCEPT ![i].status = "DRAFT", ![i].file = None]
    <3>1. Corrected(i) /\ \A j \in Invoices \ {i} : invoice'[j] = invoice[j]
      BY <2>1, <2>3, Typed DEF Corrected, Row
    <3> QED
      BY <2>1, <3>1 DEF Moves, RowMoves
  <2> QED
    BY <1>3, <2>2, <2>3 DEF ReopenWrite
<1>4. CASE IssueCommit(r)
  <2>1. /\ q.pc = "written" /\ q.pc \in Locked /\ UNCHANGED sent
        /\ invoice' = [invoice EXCEPT ![i].status = "ISSUED", ![i].sequence = q.sequence, ![i].file = q.file]
    BY <1>4 DEF IssueCommit, Locked
  <2>2. i \in Invoices /\ q.file \in File /\ q.file # None
    BY <2>1, DocumentOf, Bounds DEF Active
  <2>3. /\ invoice[i].status = "DRAFT" /\ q.file \notin SentFiles
        /\ invoice[i].sequence # None => q.sequence = invoice[i].sequence
        /\ \A j \in Invoices \ {i} : invoice[j].file # q.file
    BY <2>1, Typed DEF IssueOK
  <2>4. q.file \notin UsedFiles
    BY <2>2, <2>3, FilesOfDrafts DEF UsedFiles, SentFiles
  <2>5. Issued(i) /\ \A j \in Invoices \ {i} : invoice'[j] = invoice[j]
    BY <2>1, <2>2, <2>3, <2>4, Typed DEF Issued, Row
  <2> QED
    BY <2>1, <2>2, <2>5 DEF Moves, RowMoves
<1>5. ASSUME NEW j \in Invoices, ReplaceWrite(r, j) PROVE Moves
  <2>1. UNCHANGED sent
    BY <1>5 DEF ReplaceWrite
  <2>2. CASE UNCHANGED invoice
    BY <2>1, <2>2 DEF Moves
  <2>3. ASSUME invoice[j].status = "NONE", NEW c \in Content, invoice' = [invoice EXCEPT ![j] = Draft(c, i)] PROVE Moves
    <3>1. i \in Invoices
      BY <1>5, Typed, RequestTypes DEF ReplaceWrite
    <3>2. Drafted(j) /\ \A k \in Invoices \ {j} : invoice'[k] = invoice[k]
      BY <2>3, <3>1, Typed, RowsMade, FilesOfDrafts DEF Drafted
    <3> QED
      BY <2>1, <3>2 DEF Moves, RowMoves
  <2> QED
    BY <1>5, <2>2, <2>3 DEF ReplaceWrite
<1> QED
  BY <1>1, <1>2, <1>3, <1>4, <1>5

LEMMA EveryStepMoves == IssuingInv /\ [Next]_vars => Moves
<1> SUFFICES ASSUME IssuingInv, [Next]_vars PROVE Moves
  OBVIOUS
<1>1. CASE UNCHANGED <<invoice, sent>>
  BY <1>1 DEF Moves
<1>2. ASSUME NEW r \in Requests, NEW i \in Invoices,
             UpdateRead(r, i) \/ RemoveRead(r, i) \/ IssueRead(r, i) \/ ReopenRead(r, i) \/ ReplaceRead(r, i)
      PROVE  UNCHANGED <<invoice, sent>>
  BY <1>2 DEF UpdateRead, RemoveRead, IssueRead, ReopenRead, ReplaceRead, Begin
<1>3. ASSUME NEW r \in Requests,
             \/ IssueNumber(r) \/ IssueConflict(r) \/ IssueUpdate(r) \/ IssueWrite(r) \/ IssueWriteFails(r)
             \/ IssueTimeout(r) \/ LateWrite(r) \/ Stop(r)
      PROVE  UNCHANGED <<invoice, sent>>
  BY <1>3 DEF IssueNumber, IssueConflict, IssueUpdate, IssueWrite, IssueWriteFails, IssueTimeout, LateWrite, Stop
<1>4. UNCHANGED vars => UNCHANGED <<invoice, sent>>
  BY DEF vars
<1> QED
  BY <1>1, <1>2, <1>3, <1>4, TableMoves, WriteMoves DEF Next

\* An invoice keeps number and series for good (invoices.service.ts, update, remove, reopenForCorrection and issue).
THEOREM NumbersKept ==
  ASSUME ConcurrentEdits = FALSE, SlowWrites = FALSE
  PROVE  Spec => NumberKept
<1>1. IssuingInv /\ [Next]_vars =>
        \A i \in Invoices : invoice[i].sequence # None =>
          invoice'[i].sequence = invoice[i].sequence /\ invoice'[i].content.series = invoice[i].content.series
  <2>1. SUFFICES ASSUME IssuingInv, [Next]_vars, NEW i \in Invoices, invoice[i].sequence # None
                 PROVE  invoice'[i].sequence = invoice[i].sequence /\ invoice'[i].content.series = invoice[i].content.series
    OBVIOUS
  <2>2. invoice[i].status \notin {"NONE", "REMOVED"}
    BY <2>1, Shapes
  <2>3. RowMoves(i) \/ invoice'[i] = invoice[i]
    BY <2>1, EveryStepMoves DEF Moves
  <2> QED
    BY <2>1, <2>2, <2>3 DEF RowMoves, Drafted, Imported, Edited, Removed, Issued, Corrected, Sent, Judged, RowKeeps
<1>2. IssuingInv /\ [Next]_vars =>
        [\A i \in Invoices : invoice[i].sequence # None =>
           invoice'[i].sequence = invoice[i].sequence /\ invoice'[i].content.series = invoice[i].content.series]_vars
  BY <1>1
<1> QED
  BY <1>2, IssuingAlways, PTL DEF Spec, NumberKept

-----------------------------------------------------------------------------
(***************************************************************************)
(* The refinement.                                                         *)
(***************************************************************************)
StatusOf == [i \in Invoices |-> invoice[i].status]
FileOf   == [i \in Invoices |-> invoice[i].file]
Used     == UsedFiles \ {None}

LEMMA UsedMoves ==
  ASSUME IssuingInv, Moves
  PROVE  /\ \A i \in Invoices : invoice'[i] = invoice[i] => FileOf'[i] = FileOf[i] /\ StatusOf'[i] = StatusOf[i]
         /\ \A f : f # None /\ f \in UsedFiles => f \in UsedFiles'
         /\ \A f : f # None /\ f \in UsedFiles' => f \in UsedFiles \/ \E i \in Invoices : invoice'[i].file = f
<1>1. \A i \in Invoices : invoice'[i] = invoice[i] => FileOf'[i] = FileOf[i] /\ StatusOf'[i] = StatusOf[i]
  BY DEF FileOf, StatusOf
<1>2. ASSUME NEW f, f # None, f \in UsedFiles PROVE f \in UsedFiles'
  <2>1. CASE \E x \in sent : x[2] = f
    BY <2>1 DEF Moves, UsedFiles
  <2>2. ASSUME NEW i \in Invoices, invoice[i].file = f PROVE f \in UsedFiles'
    <3>1. invoice[i].status \notin {"NONE", "REMOVED", "DRAFT"}
      BY <1>2, <2>2, FilesOfDrafts
    <3>2. invoice'[i].file = invoice[i].file \/ Corrected(i)
      BY <3>1 DEF Moves, RowMoves, Drafted, Imported, Edited, Removed, Issued, Sent, Judged, RowKeeps
    <3>3. CASE invoice'[i].file = invoice[i].file
      BY <2>2, <3>3 DEF UsedFiles
    <3>4. CASE Corrected(i)
      <4>1. <<i, invoice[i].file>> \in sent
        BY <3>4, Shapes DEF Corrected
      <4> QED
        BY <2>2, <4>1 DEF Moves, UsedFiles
    <3> QED
      BY <3>2, <3>3, <3>4
  <2> QED
    BY <1>2, <2>1, <2>2 DEF UsedFiles
<1>3. ASSUME NEW f, f # None, f \in UsedFiles' PROVE f \in UsedFiles \/ \E i \in Invoices : invoice'[i].file = f
  <2>1. CASE \E i \in Invoices : invoice'[i].file = f
    BY <2>1
  <2>2. ASSUME NEW x \in sent', x[2] = f PROVE f \in UsedFiles
    BY <2>2 DEF Moves, UsedFiles
  <2> QED
    BY <1>3, <2>1, <2>2 DEF UsedFiles
<1> QED
  BY <1>1, <1>2, <1>3

LEMMA MoveOfOne ==
  ASSUME IssuingInv, Moves, NEW i \in Invoices, RowMoves(i), \A j \in Invoices \ {i} : invoice'[j] = invoice[j]
  PROVE  Lifecycle!Next \/ UNCHANGED Lifecycle!vars
<1>1. /\ StatusOf' = [StatusOf EXCEPT ![i] = invoice'[i].status]
      /\ FileOf' = [FileOf EXCEPT ![i] = invoice'[i].file]
      /\ StatusOf[i] = invoice[i].status /\ FileOf[i] = invoice[i].file /\ \A j \in Invoices : FileOf[j] = invoice[j].file
  BY DEF StatusOf, FileOf
<1>2. CASE invoice'[i].file = invoice[i].file
  <2>1. FileOf' = FileOf
    BY <1>2 DEF FileOf
  <2>2. Used' = Used
    <3>1. \A f : f # None => (f \in UsedFiles' <=> f \in UsedFiles)
      <4>1. \A j \in Invoices : invoice'[j].file \in UsedFiles
        BY <1>2 DEF UsedFiles
      <4> QED
        BY <4>1, UsedMoves
    <3> QED
      BY <3>1 DEF Used
  <2>3. CASE Drafted(i)
    <3>1. Lifecycle!Create(i)
      BY <1>1, <2>1, <2>2, <2>3 DEF Lifecycle!Create, Lifecycle!Become, StatusOf, FileOf, Used, Drafted
    <3> QED
      BY <3>1 DEF Lifecycle!Next
  <2>4. CASE Edited(i) \/ (Removed(i) /\ invoice[i].status = "REMOVED")
    <3>1. StatusOf' = StatusOf
      BY <2>4 DEF StatusOf, Edited, Removed
    <3> QED
      BY <2>1, <2>2, <3>1 DEF Lifecycle!vars, StatusOf, FileOf, Used
  <2>5. CASE Removed(i) /\ invoice[i].status = "DRAFT"
    <3>1. Lifecycle!Remove(i)
      BY <1>1, <2>1, <2>2, <2>5 DEF Lifecycle!Remove, Lifecycle!Become, StatusOf, FileOf, Used, Removed
    <3> QED
      BY <3>1 DEF Lifecycle!Next
  <2>6. CASE Sent(i)
    <3>1. Lifecycle!Send(i)
      BY <1>1, <2>1, <2>2, <2>6 DEF Lifecycle!Send, Lifecycle!Become, StatusOf, FileOf, Used, Sent
    <3> QED
      BY <3>1 DEF Lifecycle!Next
  <2>7. CASE Judged(i)
    <3>1. Lifecycle!Decide(i)
      BY <1>1, <2>1, <2>2, <2>7
      DEF Lifecycle!Decide, Lifecycle!Become, Lifecycle!Undecided, Lifecycle!Decided, StatusOf, FileOf, Used, Judged
    <3> QED
      BY <3>1 DEF Lifecycle!Next
  <2>8. ~Imported(i) /\ ~Issued(i)
    BY <1>2 DEF Imported, Issued, UsedFiles
  <2>9. ~Corrected(i)
    <3>1. Corrected(i) => invoice[i].file \in File
      BY Shapes DEF Corrected
    <3> QED
      BY <1>2, <3>1, Bounds DEF Corrected
  <2> QED
    BY <2>3, <2>4, <2>5, <2>6, <2>7, <2>8, <2>9 DEF RowMoves, Removed
<1>3. CASE Imported(i) \/ Issued(i)
  <2>1. PICK f : f = invoice'[i].file
    OBVIOUS
  <2>2. f \in File /\ f # None /\ invoice'[i].status = "ISSUED"
    BY <1>3, <2>1, Bounds DEF Imported, Issued
  <2>3. invoice[i].file = None
    BY <1>3, FilesOfDrafts DEF Imported, Issued
  <2>4. Used' = Used \cup {f}
    <3>1. \A g : g # None => (g \in UsedFiles' <=> g \in UsedFiles \/ g = f)
      <4>1. \A j \in Invoices \ {i} : invoice'[j].file \in UsedFiles
        BY DEF UsedFiles
      <4>2. f \in UsedFiles'
        BY <2>1 DEF UsedFiles
      <4> QED
        BY <2>1, <4>1, <4>2, UsedMoves
    <3> QED
      BY <2>2, <3>1 DEF Used
  <2>5. Lifecycle!TakeFile(i, f)
    BY <1>1, <2>2, <2>4, <2>1 DEF Lifecycle!TakeFile, Lifecycle!Become, StatusOf, FileOf, Used
  <2>6. CASE Imported(i)
    <3>1. f \in File \ {FileOf[j] : j \in Invoices}
      BY <1>1, <2>6, <2>1 DEF Imported
    <3>2. \E g \in File \ {FileOf[j] : j \in Invoices} : Lifecycle!TakeFile(i, g)
      BY <2>5, <3>1
    <3>3. StatusOf[i] = "NONE"
      BY <1>1, <2>6 DEF Imported
    <3>4. Lifecycle!Import(i)
      BY <3>2, <3>3 DEF Lifecycle!Import, StatusOf, FileOf
    <3> QED
      BY <3>4 DEF Lifecycle!Next
  <2>7. CASE Issued(i)
    <3>1. f \in File \ Used
      BY <2>7, <2>1 DEF Issued, Used
    <3>2. \E g \in File \ Used : Lifecycle!TakeFile(i, g)
      BY <2>5, <3>1
    <3>3. StatusOf[i] = "DRAFT"
      BY <1>1, <2>7 DEF Issued
    <3>4. Lifecycle!Issue(i)
      BY <3>2, <3>3 DEF Lifecycle!Issue, StatusOf, Used
    <3> QED
      BY <3>4 DEF Lifecycle!Next
  <2> QED
    BY <1>3, <2>6, <2>7
<1>4. CASE Corrected(i)
  <2>1. Used' = Used
    <3>1. \A j \in Invoices : invoice'[j].file # None => invoice'[j].file \in UsedFiles
      BY <1>4 DEF UsedFiles, Corrected
    <3>2. \A f : f # None => (f \in UsedFiles' <=> f \in UsedFiles)
      BY <3>1, UsedMoves
    <3> QED
      BY <3>2 DEF Used
  <2>2. Lifecycle!Correct(i)
    BY <1>1, <1>4, <2>1 DEF Lifecycle!Correct, Lifecycle!Become, StatusOf, FileOf, Used, Corrected
  <2> QED
    BY <2>2 DEF Lifecycle!Next
<1> QED
  BY <1>2, <1>3, <1>4 DEF RowMoves, Drafted, Edited, Removed, Sent, Judged, RowKeeps

LEMMA LifecycleSteps == IssuingInv /\ [Next]_vars => [Lifecycle!Next]_Lifecycle!vars
<1> SUFFICES ASSUME IssuingInv, [Next]_vars PROVE Lifecycle!Next \/ UNCHANGED Lifecycle!vars
  OBVIOUS
<1>1. Moves
  BY EveryStepMoves
<1>2. CASE UNCHANGED invoice
  <2>1. StatusOf' = StatusOf /\ FileOf' = FileOf
    BY <1>2 DEF StatusOf, FileOf
  <2>2. Used' = Used
    <3>1. \A j \in Invoices : invoice'[j].file \in UsedFiles
      BY <1>2 DEF UsedFiles
    <3> QED
      BY <1>1, <3>1, UsedMoves DEF Used
  <2> QED
    BY <2>1, <2>2 DEF Lifecycle!vars, StatusOf, FileOf, Used
<1> QED
  BY <1>1, <1>2, MoveOfOne DEF Moves

LEMMA LifecycleStart == Init => Lifecycle!Init
<1> SUFFICES ASSUME Init PROVE Lifecycle!Init
  OBVIOUS
<1>1. \A i \in Invoices : StatusOf[i] = "NONE" /\ FileOf[i] = None
  BY RowsMade DEF Init, StatusOf, FileOf
<1>2. Used = {FileOf[i] : i \in Invoices} \ {None}
  BY <1>1 DEF Init, Used, UsedFiles, FileOf
<1>3. StatusOf \in [Invoices -> {"NONE", "DRAFT", "ISSUED"}] /\ FileOf \in [Invoices -> File \cup {None}]
  BY <1>1 DEF StatusOf, FileOf
<1> QED
  BY <1>1, <1>2, <1>3 DEF Lifecycle!Init, StatusOf, FileOf, Used

\* Drafts, issues, corrections, replacements and imports move an invoice only as InvoiceLifecycle says: issued once per
\* draft, under a name never used, and corrected only when rejected (invoices.service.ts).
THEOREM LifecycleImplemented ==
  ASSUME ConcurrentEdits = FALSE, SlowWrites = FALSE
  PROVE  Spec => ImplementsLifecycle
BY IssuingAlways, LifecycleStart, LifecycleSteps, PTL DEF Spec, ImplementsLifecycle, Lifecycle!Spec

-----------------------------------------------------------------------------
(***************************************************************************)
(* Whatever overlaps: nothing is assumed of ConcurrentEdits and SlowWrites *)
(* from here on.                                                           *)
(***************************************************************************)
\* An invoice has content, and a file from its issue on; an issue past the lock found both the draft and the row.
RowsTyped ==
  \A i \in Invoices :
    /\ Exists(i) => invoice[i].content \in Content
    /\ invoice[i].status \in {"ISSUED", "SENT", "DELIVERED", "REJECTED"} => invoice[i].file \in File
IssuesTyped ==
  \A r \in Requests : /\ Kind(r) = "issue" => request[r].seen.content \in Content
                      /\ Pending(r) => Exists(request[r].id)
TypesInv == TypeOK /\ RowsTyped /\ IssuesTyped

LEMMA TypesStart == Init => TypesInv
<1> SUFFICES ASSUME Init PROVE TypesInv
  OBVIOUS
<1>1. \A i \in Invoices : invoice[i] = Blank("NONE") /\ invoice[i].status = "NONE"
  BY RowsMade DEF Init
<1>2. \A r \in Requests : request[r].pc = "idle"
  BY Bounds DEF Init
<1>3. TypeOK
  BY RowsMade, Bounds DEF Init, TypeOK
<1> QED
  BY <1>1, <1>2, <1>3 DEF TypesInv, RowsTyped, IssuesTyped, Exists, Kind, Pending

LEMMA NumbersTyped ==
  ASSUME TypeOK, NEW s
  PROVE  LastSequence(s) \in Nat /\ nextFileSequence \in Nat /\ nextFileSequence > 0
<1>1. LastSequence(s) \in Nat
  <2> DEFINE S == {None} \cup {invoice[i].sequence : i \in {j \in Invoices : invoice[j].content.series = s}}
  <2>1. S \subseteq 0..MaxSequence /\ S # {} /\ MaxSequence \in Nat
    BY RowTypes, Bounds DEF Sequence, None
  <2>2. LastSequence(s) = Max(S)
    BY DEF LastSequence
  <2> HIDE DEF S
  <2>3. Max(S) \in S
    BY <2>1, MaxOf
  <2>4. Max(S) \in 0..MaxSequence
    BY <2>1, <2>3
  <2>5. \A n \in 0..MaxSequence : n \in Nat
    BY Bounds
  <2> QED
    BY <2>2, <2>4, <2>5
<1>2. nextFileSequence \in Nat /\ nextFileSequence > 0
  <2> DEFINE S == {None} \cup UsedFiles
  <2>1. \A x \in sent : x[2] \in File
    BY DEF TypeOK
  <2>2. S \subseteq 0..MaxFiles /\ S # {} /\ MaxFiles \in Nat
    BY <2>1, RowTypes, Bounds DEF File, None, UsedFiles
  <2>3. nextFileSequence = Max(S) + 1
    BY DEF nextFileSequence
  <2> HIDE DEF S
  <2>4. Max(S) \in S
    BY <2>2, MaxOf
  <2>5. Max(S) \in 0..MaxFiles
    BY <2>2, <2>4
  <2>6. \A n \in 0..MaxFiles : n + 1 \in Nat /\ n + 1 > 0
    BY Bounds
  <2> QED
    BY <2>3, <2>5, <2>6
<1> QED
  BY <1>1, <1>2

\* What a step does to one request: nothing, it ends, an issue goes on, or it begins on what it read.
RequestMoves(p) ==
  \/ request'[p] = request[p]
  \/ request'[p].pc = "idle"
  \/ /\ request[p].pc \in {"issue"} \cup Locked /\ request'[p].pc \in Locked \cup {"late"}
     /\ request'[p].id = request[p].id /\ request'[p].seen = request[p].seen
     /\ request'[p].pc = "pending" => Exists(request[p].id)
     /\ request'[p].pc = "written" => request[p].pc = "pending"
     /\ UNCHANGED invoice
  \/ /\ request'[p].id \in Invoices /\ request'[p].seen = invoice[request'[p].id] /\ UNCHANGED invoice
     /\ \/ request'[p].pc \in {"issue", "update", "remove"} /\ invoice[request'[p].id].status = "DRAFT"
        \/ request'[p].pc \in {"reopen", "replace"} /\ Correctable(request'[p].id)

LEMMA EndMoves ==
  ASSUME TypeOK, NEW r \in Requests, End(r)
  PROVE  /\ request' \in [Requests -> Request] /\ request'[r] = Idle /\ request'[r].pc = "idle"
         /\ \A p \in Requests \ {r} : request'[p] = request[p]
         /\ \A p \in Requests : RequestMoves(p)
  BY Bounds DEF TypeOK, End, RequestMoves

LEMMA BeginMoves ==
  ASSUME TypeOK, NEW r \in Requests, NEW i \in Invoices, NEW pc \in {"issue", "update", "remove", "reopen", "replace"},
         Begin(r, i, pc), IF pc \in {"issue", "update", "remove"} THEN invoice[i].status = "DRAFT" ELSE Correctable(i)
  PROVE  request' \in [Requests -> Request] /\ UNCHANGED <<invoice, lock, disk, sent, received>>
         /\ \A p \in Requests : RequestMoves(p)
<1> DEFINE q == [pc |-> pc, id |-> i, seen |-> invoice[i]]
<1>1. q \in Request
  BY DEF TypeOK, Request
<1>2. request' = [request EXCEPT ![r] = q] /\ UNCHANGED <<invoice, lock, disk, sent, received>>
  BY DEF Begin
<1>3. request' \in [Requests -> Request] /\ request'[r] = q /\ \A p \in Requests \ {r} : request'[p] = request[p]
  BY <1>1, <1>2 DEF TypeOK
<1>4. request'[r].pc = pc /\ request'[r].id = i /\ request'[r].seen = invoice[i]
  BY <1>3
<1> QED
  BY <1>2, <1>3, <1>4 DEF RequestMoves

LEMMA IssueMoves ==
  ASSUME TypesInv, NEW r \in Requests,
         \/ IssueNumber(r) \/ IssueUpdate(r) \/ IssueWrite(r) \/ IssueTimeout(r)
  PROVE  /\ request' \in [Requests -> Request] /\ UNCHANGED <<invoice, sent, received>>
         /\ lock' \in Requests \cup {NoRequest} /\ disk' \in SUBSET Xml
         /\ \A p \in Requests : RequestMoves(p)
<1> DEFINE q == request[r]
<1>1. TypeOK /\ request \in [Requests -> Request] /\ lock \in Requests \cup {NoRequest} /\ disk \in SUBSET Xml /\ q \in Request
  BY DEF TypesInv, TypeOK
<1>2. UNCHANGED <<invoice, sent, received>> /\ lock' \in Requests \cup {NoRequest}
  BY <1>1 DEF IssueNumber, IssueUpdate, IssueWrite, IssueTimeout, Release
<1>3. CASE IssueNumber(r)
  <2> DEFINE x == [pc |-> "numbered", id |-> q.id, seen |-> q.seen, sequence |-> NumberOf(q.seen), file |-> nextFileSequence]
  <2>1. /\ q.pc = "issue" /\ NumberOf(q.seen) <= MaxSequence /\ nextFileSequence <= MaxFiles
        /\ request' = [request EXCEPT ![r] = x] /\ disk' = disk
    BY <1>3 DEF IssueNumber
  <2>2. q.id \in Invoices /\ q.seen \in Row /\ q.seen.sequence \in Sequence \cup {None}
    BY <1>1, <2>1, RequestTypes DEF Row
  <2>3. NumberOf(q.seen) \in Sequence /\ nextFileSequence \in File
    BY <1>1, <2>1, <2>2, NumbersTyped, Bounds DEF NumberOf, Sequence, File, None
  <2>4. x \in Request /\ x.pc = "numbered" /\ x.id = q.id /\ x.seen = q.seen
    BY <2>2, <2>3 DEF Request
  <2> HIDE DEF x
  <2>5. request'[r] = x /\ request' \in [Requests -> Request] /\ \A p \in Requests \ {r} : request'[p] = request[p]
    BY <1>1, <2>1, <2>4
  <2> QED
    BY <1>1, <1>2, <2>1, <2>4, <2>5 DEF RequestMoves, Locked
<1>4. ASSUME NEW pc \in {"pending", "written", "late"}, q.pc \in {"numbered", "pending"},
             pc = "pending" => Exists(q.id), pc = "written" => q.pc = "pending",
             request' = [request EXCEPT ![r].pc = pc]
      PROVE  request' \in [Requests -> Request] /\ \A p \in Requests : RequestMoves(p)
  <2>1. q \in Issuing
    BY <1>1, <1>4, RequestTypes DEF Locked
  <2>2. request'[r] = [q EXCEPT !.pc = pc] /\ \A p \in Requests \ {r} : request'[p] = request[p]
    BY <1>1, <1>4
  <2>3. request'[r] \in Issuing /\ request'[r].pc = pc /\ request'[r].id = q.id /\ request'[r].seen = q.seen
    BY <2>1, <2>2 DEF Issuing
  <2>4. request'[r] \in Request
    BY <2>3 DEF Issuing, Request
  <2>5. request' \in [Requests -> Request]
    BY <1>1, <1>4, <2>2, <2>4
  <2> QED
    BY <1>2, <1>4, <2>2, <2>3, <2>5 DEF RequestMoves, Locked
<1>5. CASE IssueUpdate(r)
  <2>1. disk' = disk /\ q.pc = "numbered"
    BY <1>5 DEF IssueUpdate
  <2>2. CASE End(r)
    BY <1>1, <1>2, <2>1, <2>2, EndMoves
  <2>3. CASE Exists(q.id) /\ request' = [request EXCEPT ![r].pc = "pending"]
    BY <1>1, <1>2, <1>4, <2>1, <2>3
  <2> QED
    BY <1>5, <2>2, <2>3 DEF IssueUpdate
<1>6. CASE IssueWrite(r)
  <2>1. q.pc = "pending" /\ request' = [request EXCEPT ![r].pc = "written"] /\ Store(XmlOf(q))
    BY <1>6 DEF IssueWrite
  <2>2. q \in Issuing /\ q.id \in Invoices /\ q.sequence \in Sequence /\ q.file \in File
    BY <1>1, <2>1, RequestTypes DEF Locked
  <2>3. q.seen.content \in Content
    BY <2>1 DEF TypesInv, IssuesTyped, Kind
  <2>4. XmlOf(q) \in Xml
    BY <2>2, <2>3 DEF XmlOf, Xml
  <2>5. disk' \in SUBSET Xml
    BY <1>1, <2>1, <2>4 DEF Store
  <2> QED
    BY <1>2, <1>4, <2>1, <2>5
<1>7. CASE IssueTimeout(r)
  BY <1>1, <1>2, <1>4, <1>7 DEF IssueTimeout
<1> QED
  BY <1>2, <1>3, <1>5, <1>6, <1>7

\* Steps that leave the rows alone.
LEMMA QuietTypes ==
  ASSUME TypesInv, UNCHANGED invoice, request' \in [Requests -> Request], lock' \in Requests \cup {NoRequest},
         disk' \in SUBSET Xml, sent' \in SUBSET (Invoices \X File), received' \in SUBSET (Xml \X Invoices),
         \A p \in Requests : RequestMoves(p)
  PROVE  TypesInv'
<1>1. TypeOK'
  BY DEF TypesInv, TypeOK
<1>2. RowsTyped'
  BY DEF TypesInv, RowsTyped, Exists
<1>3. ASSUME NEW p \in Requests
      PROVE  (Kind(p) = "issue" => request[p].seen.content \in Content)' /\ (Pending(p) => Exists(request[p].id))'
  <2>1. RequestMoves(p) /\ (Kind(p) = "issue" => request[p].seen.content \in Content) /\ (Pending(p) => Exists(request[p].id))
    BY DEF TypesInv, IssuesTyped
  <2>2. \A i \in Invoices : Exists(i) => invoice[i].content \in Content
    BY DEF TypesInv, RowsTyped
  <2> QED
    BY <2>1, <2>2 DEF RequestMoves, Kind, Pending, Exists, Locked
<1>4. IssuesTyped'
  BY <1>3 DEF IssuesTyped
<1> QED
  BY <1>1, <1>2, <1>4 DEF TypesInv

\* Steps that change one row and may end a request.
LEMMA RowMovesTypes ==
  ASSUME TypesInv, NEW i \in Invoices, invoice' \in [Invoices -> Row],
         \A k \in Invoices \ {i} : invoice'[k].status = invoice[k].status /\ invoice'[k].content = invoice[k].content
                                   /\ invoice'[k].file = invoice[k].file,
         invoice'[i].status \notin {"NONE", "REMOVED"} => invoice'[i].content \in Content,
         invoice'[i].status \in {"ISSUED", "SENT", "DELIVERED", "REJECTED"} => invoice'[i].file \in File,
         Exists(i) /\ invoice'[i].status \in {"NONE", "REMOVED"} => ~RowLocked(i),
         request' \in [Requests -> Request], \A p \in Requests : request'[p] = request[p] \/ request'[p].pc = "idle",
         lock' \in Requests \cup {NoRequest}, UNCHANGED disk,
         sent' \in SUBSET (Invoices \X File), received' \in SUBSET (Xml \X Invoices)
  PROVE  TypesInv'
<1>1. TypeOK'
  BY DEF TypesInv, TypeOK
<1>2. RowsTyped'
  BY DEF TypesInv, RowsTyped, Exists
<1>3. ASSUME NEW p \in Requests
      PROVE  (Kind(p) = "issue" => request[p].seen.content \in Content)' /\ (Pending(p) => Exists(request[p].id))'
  <2>1. (Kind(p) = "issue" => request[p].seen.content \in Content) /\ (Pending(p) => Exists(request[p].id))
    BY DEF TypesInv, IssuesTyped
  <2>2. Pending(p) /\ request[p].id = i => RowLocked(i)
    BY DEF RowLocked
  <2>3. Pending(p) => request[p].id \in Invoices
    BY RequestTypes DEF TypesInv, TypeOK, Pending
  <2>4. CASE request'[p] = request[p]
    BY <2>1, <2>2, <2>3, <2>4 DEF Kind, Pending, Exists
  <2>5. CASE request'[p].pc = "idle"
    BY <2>5 DEF Kind, Pending
  <2> QED
    BY <2>4, <2>5
<1>4. IssuesTyped'
  BY <1>3 DEF IssuesTyped
<1> QED
  BY <1>1, <1>2, <1>4 DEF TypesInv

LEMMA TableTypes ==
  ASSUME TypesInv, NEW i \in Invoices, create(i) \/ importOne(i) \/ send(i) \/ setSdiOutcome(i)
  PROVE  TypesInv'
<1>1. /\ TypeOK /\ invoice \in [Invoices -> Row] /\ request \in [Requests -> Request] /\ UNCHANGED <<request, lock, disk>>
      /\ sent \in SUBSET (Invoices \X File) /\ received \in SUBSET (Xml \X Invoices) /\ lock \in Requests \cup {NoRequest}
      /\ disk \in SUBSET Xml
  BY DEF TypesInv, TypeOK, create, importOne, send, setSdiOutcome
<1>2. CASE create(i)
  <2>1. PICK c \in Content : invoice' = [invoice EXCEPT ![i] = Draft(c, NoInvoice)]
    BY <1>2 DEF create
  <2>2. invoice' \in [Invoices -> Row] /\ invoice'[i].status = "DRAFT" /\ invoice'[i].content = c
        /\ \A k \in Invoices \ {i} : invoice'[k] = invoice[k]
    BY <1>1, <2>1, RowsMade
  <2> QED
    BY <1>1, <1>2, <2>2, RowMovesTypes DEF create
<1>3. CASE importOne(i)
  <2>1. PICK c \in Content, n \in Sequence, f \in File :
          invoice' = [invoice EXCEPT ![i] = [status |-> "ISSUED", content |-> c, sequence |-> n, file |-> f,
                                             replaces |-> NoInvoice, imported |-> TRUE]]
    BY <1>3 DEF importOne
  <2>2. invoice' \in [Invoices -> Row] /\ invoice'[i].status = "ISSUED" /\ invoice'[i].content = c /\ invoice'[i].file = f
        /\ \A k \in Invoices \ {i} : invoice'[k] = invoice[k]
    BY <1>1, <2>1 DEF Row, Status
  <2> QED
    BY <1>1, <1>3, <2>2, RowMovesTypes DEF importOne
<1>4. CASE send(i)
  <2>1. invoice[i].status = "ISSUED" /\ sent' = sent \cup {<<i, invoice[i].file>>} /\ Exists(i)
    BY <1>4 DEF send, Exists
  <2>2. invoice[i].file \in File /\ invoice[i].content \in Content
    BY <2>1 DEF TypesInv, RowsTyped
  <2>3. sent' \in SUBSET (Invoices \X File)
    BY <1>1, <2>1, <2>2
  <2>4. received' \in SUBSET (Xml \X Invoices) /\ (UNCHANGED invoice \/ invoice' = [invoice EXCEPT ![i].status = "SENT"])
    BY <1>1, <1>4 DEF send
  <2>5. /\ invoice' \in [Invoices -> Row] /\ invoice'[i].status \in {"ISSUED", "SENT"}
        /\ invoice'[i].content = invoice[i].content /\ invoice'[i].file = invoice[i].file
        /\ \A k \in Invoices \ {i} : invoice'[k] = invoice[k]
    BY <1>1, <2>1, <2>4 DEF Row, Status
  <2> QED
    BY <1>1, <2>2, <2>3, <2>4, <2>5, RowMovesTypes
<1>5. CASE setSdiOutcome(i)
  <2>1. PICK outcome \in {"DELIVERED", "REJECTED"} : invoice' = [invoice EXCEPT ![i].status = outcome]
    BY <1>5 DEF setSdiOutcome
  <2>2. invoice[i].status \in {"ISSUED", "SENT"} /\ Exists(i) /\ UNCHANGED <<sent, received>>
    BY <1>5 DEF setSdiOutcome, Exists
  <2>3. invoice[i].file \in File /\ invoice[i].content \in Content
    BY <2>2 DEF TypesInv, RowsTyped
  <2>4. /\ invoice' \in [Invoices -> Row] /\ invoice'[i].status = outcome
        /\ invoice'[i].content = invoice[i].content /\ invoice'[i].file = invoice[i].file
        /\ \A k \in Invoices \ {i} : invoice'[k] = invoice[k]
    BY <1>1, <2>1 DEF Row, Status
  <2> QED
    BY <1>1, <2>2, <2>3, <2>4, RowMovesTypes
<1> QED
  BY <1>2, <1>3, <1>4, <1>5

LEMMA WriteTypes ==
  ASSUME TypesInv, NEW r \in Requests,
         UpdateWrite(r) \/ RemoveWrite(r) \/ ReopenWrite(r) \/ IssueCommit(r) \/ \E j \in Invoices : ReplaceWrite(r, j)
  PROVE  TypesInv'
<1> DEFINE q == request[r]
           i == q.id
<1>1. /\ TypeOK /\ invoice \in [Invoices -> Row] /\ request \in [Requests -> Request] /\ q \in Request
      /\ sent \in SUBSET (Invoices \X File) /\ received \in SUBSET (Xml \X Invoices) /\ lock \in Requests \cup {NoRequest}
      /\ disk \in SUBSET Xml
  BY DEF TypesInv, TypeOK
<1>2. /\ End(r) /\ UNCHANGED <<disk, received>> /\ lock' \in Requests \cup {NoRequest} /\ sent' \subseteq sent
      /\ i \in Invoices /\ i = request[r].id
  BY <1>1, RequestTypes DEF UpdateWrite, RemoveWrite, ReopenWrite, IssueCommit, ReplaceWrite, Release
<1>3. /\ request' \in [Requests -> Request] /\ \A p \in Requests : request'[p] = request[p] \/ request'[p].pc = "idle"
      /\ sent' \in SUBSET (Invoices \X File) /\ received' \in SUBSET (Xml \X Invoices) /\ disk' \in SUBSET Xml
  BY <1>1, <1>2, EndMoves
<1>4. CASE UNCHANGED invoice
  <2>1. \A p \in Requests : RequestMoves(p)
    BY <1>1, <1>2, EndMoves
  <2> QED
    BY <1>2, <1>3, <1>4, <2>1, QuietTypes
<1>5. CASE UpdateWrite(r) /\ ~UNCHANGED invoice
  <2>1. PICK c \in Content : Exists(i) /\ invoice' = [invoice EXCEPT ![i].content = c]
    BY <1>5 DEF UpdateWrite
  <2>2. /\ invoice' \in [Invoices -> Row] /\ invoice'[i].status = invoice[i].status /\ invoice'[i].content = c
        /\ invoice'[i].file = invoice[i].file /\ \A k \in Invoices \ {i} : invoice'[k] = invoice[k]
    BY <1>1, <1>2, <2>1 DEF Row
  <2>3. invoice[i].status \in {"ISSUED", "SENT", "DELIVERED", "REJECTED"} => invoice[i].file \in File
    BY <1>2 DEF TypesInv, RowsTyped
  <2>4. invoice'[i].status \notin {"NONE", "REMOVED"}
    BY <2>1, <2>2 DEF Exists
  <2> HIDE DEF i, q
  <2> QED
    BY <1>2, <1>3, <2>2, <2>3, <2>4, RowMovesTypes
<1>6. CASE RemoveWrite(r)
  <2>1. /\ ~RowLocked(i)
        /\ invoice' = [k \in Invoices |-> IF k = i THEN Blank("REMOVED")
                                          ELSE IF invoice[k].replaces = i THEN [invoice[k] EXCEPT !.replaces = NoInvoice]
                                          ELSE invoice[k]]
    BY <1>6 DEF RemoveWrite
  <2>2. \A k \in Invoices : /\ invoice'[k] \in Row
                            /\ k # i => invoice'[k].status = invoice[k].status /\ invoice'[k].content = invoice[k].content
                                        /\ invoice'[k].file = invoice[k].file
    BY <1>1, <2>1, RowsMade DEF Row
  <2>3. invoice'[i].status = "REMOVED" /\ invoice' \in [Invoices -> Row]
    BY <1>2, <2>1, <2>2, RowsMade
  <2> HIDE DEF i, q
  <2> QED
    BY <1>2, <1>3, <2>1, <2>2, <2>3, RowMovesTypes
<1>7. CASE ReopenWrite(r) /\ ~UNCHANGED invoice
  <2>1. invoice[i].status = "REJECTED" /\ invoice' = [invoice EXCEPT ![i].status = "DRAFT", ![i].file = None]
    BY <1>7 DEF ReopenWrite
  <2>2. /\ invoice' \in [Invoices -> Row] /\ invoice'[i].status = "DRAFT" /\ invoice'[i].content = invoice[i].content
        /\ \A k \in Invoices \ {i} : invoice'[k] = invoice[k]
    BY <1>1, <1>2, <2>1 DEF Row, Status
  <2>3. invoice[i].content \in Content
    BY <1>2, <2>1 DEF TypesInv, RowsTyped, Exists
  <2> HIDE DEF i, q
  <2> QED
    BY <1>2, <1>3, <2>2, <2>3, RowMovesTypes
<1>8. CASE IssueCommit(r)
  <2>1. /\ q.pc = "written" /\ Pending(r)
        /\ invoice' = [invoice EXCEPT ![i].status = "ISSUED", ![i].sequence = q.sequence, ![i].file = q.file]
    BY <1>8 DEF IssueCommit, Pending
  <2>2. q.sequence \in Sequence /\ q.file \in File
    BY <1>1, <2>1, RequestTypes DEF Locked
  <2>3. /\ invoice' \in [Invoices -> Row] /\ invoice'[i].status = "ISSUED" /\ invoice'[i].content = invoice[i].content
        /\ invoice'[i].file = q.file /\ \A k \in Invoices \ {i} : invoice'[k] = invoice[k]
    BY <1>1, <1>2, <2>1, <2>2 DEF Row, Status
  <2>4. Exists(i) /\ invoice[i].content \in Content
    BY <1>2, <2>1 DEF TypesInv, IssuesTyped, RowsTyped
  <2> HIDE DEF i, q
  <2> QED
    BY <1>2, <1>3, <2>2, <2>3, <2>4, RowMovesTypes
<1>9. ASSUME NEW j \in Invoices, ReplaceWrite(r, j), ~UNCHANGED invoice PROVE TypesInv'
  <2>1. PICK c \in Content : invoice[j].status = "NONE" /\ invoice' = [invoice EXCEPT ![j] = Draft(c, i)]
    BY <1>9 DEF ReplaceWrite
  <2>2. /\ invoice' \in [Invoices -> Row] /\ invoice'[j].status = "DRAFT" /\ invoice'[j].content = c
        /\ \A k \in Invoices \ {j} : invoice'[k] = invoice[k]
    BY <1>1, <1>2, <2>1, RowsMade
  <2> HIDE DEF i, q
  <2> QED
    BY <1>2, <1>3, <2>2, RowMovesTypes
<1> QED
  BY <1>4, <1>5, <1>6, <1>7, <1>8, <1>9

LEMMA ReadMoves ==
  ASSUME TypeOK, NEW r \in Requests, NEW i \in Invoices,
         UpdateRead(r, i) \/ RemoveRead(r, i) \/ IssueRead(r, i) \/ ReopenRead(r, i) \/ ReplaceRead(r, i)
  PROVE  request' \in [Requests -> Request] /\ UNCHANGED <<invoice, lock, disk, sent, received>>
         /\ \A p \in Requests : RequestMoves(p)
<1>1. CASE UpdateRead(r, i)
  <2>1. Begin(r, i, "update") /\ invoice[i].status = "DRAFT"
    BY <1>1 DEF UpdateRead
  <2> QED
    BY <2>1, BeginMoves
<1>2. CASE RemoveRead(r, i)
  <2>1. Begin(r, i, "remove") /\ invoice[i].status = "DRAFT"
    BY <1>2 DEF RemoveRead
  <2> QED
    BY <2>1, BeginMoves
<1>3. CASE IssueRead(r, i)
  <2>1. Begin(r, i, "issue") /\ invoice[i].status = "DRAFT"
    BY <1>3 DEF IssueRead
  <2> QED
    BY <2>1, BeginMoves
<1>4. CASE ReopenRead(r, i)
  <2>1. Begin(r, i, "reopen") /\ Correctable(i)
    BY <1>4 DEF ReopenRead
  <2> QED
    BY <2>1, BeginMoves
<1>5. CASE ReplaceRead(r, i)
  <2>1. Begin(r, i, "replace") /\ Correctable(i)
    BY <1>5 DEF ReplaceRead
  <2> QED
    BY <2>1, BeginMoves
<1> QED
  BY <1>1, <1>2, <1>3, <1>4, <1>5

LEMMA EndingMoves ==
  ASSUME TypesInv, NEW r \in Requests, IssueConflict(r) \/ IssueWriteFails(r) \/ LateWrite(r) \/ Stop(r)
  PROVE  /\ request' \in [Requests -> Request] /\ UNCHANGED <<invoice, sent, received>>
         /\ lock' \in Requests \cup {NoRequest} /\ disk' \in SUBSET Xml
         /\ \A p \in Requests : RequestMoves(p)
<1> DEFINE q == request[r]
<1>1. TypeOK /\ q \in Request /\ disk \in SUBSET Xml /\ lock \in Requests \cup {NoRequest}
  BY DEF TypesInv, TypeOK
<1>2. End(r) /\ UNCHANGED <<invoice, sent, received>> /\ lock' \in Requests \cup {NoRequest}
  BY <1>1 DEF IssueConflict, IssueWriteFails, LateWrite, Stop, Release
<1>3. q.pc \in {"pending", "late"} =>
        XmlOf(q) \in Xml /\ [XmlOf(q) EXCEPT !.invoice = NoInvoice] \in Xml
  <2>1. SUFFICES ASSUME q.pc \in {"pending", "late"} PROVE XmlOf(q) \in Xml /\ [XmlOf(q) EXCEPT !.invoice = NoInvoice] \in Xml
    OBVIOUS
  <2>2. q.id \in Invoices /\ q.sequence \in Sequence /\ q.file \in File
    BY <1>1, <2>1, RequestTypes DEF Locked
  <2>3. q.seen.content \in Content
    BY <2>1 DEF TypesInv, IssuesTyped, Kind
  <2> HIDE DEF q
  <2> QED
    BY <2>2, <2>3 DEF XmlOf, Xml
<1>4. disk' \in SUBSET Xml
  BY <1>1, <1>3 DEF IssueConflict, IssueWriteFails, LateWrite, Stop, Store
<1> QED
  BY <1>1, <1>2, <1>4, EndMoves

\* The steps of Next that leave the rows alone, and those that do not.
Quiet ==
  \/ UNCHANGED vars
  \/ \E r \in Requests, i \in Invoices :
       UpdateRead(r, i) \/ RemoveRead(r, i) \/ IssueRead(r, i) \/ ReopenRead(r, i) \/ ReplaceRead(r, i)
  \/ \E r \in Requests : IssueNumber(r) \/ IssueUpdate(r) \/ IssueWrite(r) \/ IssueTimeout(r)
  \/ \E r \in Requests : IssueConflict(r) \/ IssueWriteFails(r) \/ LateWrite(r) \/ Stop(r)

LEMMA QuietMoves ==
  ASSUME TypesInv, Quiet
  PROVE  /\ request' \in [Requests -> Request] /\ UNCHANGED <<invoice, sent, received>>
         /\ lock' \in Requests \cup {NoRequest} /\ disk' \in SUBSET Xml
         /\ \A p \in Requests : RequestMoves(p)
<1>1. TypeOK /\ request \in [Requests -> Request] /\ disk \in SUBSET Xml /\ lock \in Requests \cup {NoRequest}
  BY DEF TypesInv, TypeOK
<1>2. CASE UNCHANGED vars
  BY <1>1, <1>2 DEF vars, RequestMoves
<1>3. ASSUME NEW r \in Requests, NEW i \in Invoices,
             UpdateRead(r, i) \/ RemoveRead(r, i) \/ IssueRead(r, i) \/ ReopenRead(r, i) \/ ReplaceRead(r, i)
      PROVE  /\ request' \in [Requests -> Request] /\ UNCHANGED <<invoice, lock, disk, sent, received>>
             /\ \A p \in Requests : RequestMoves(p)
  BY <1>1, <1>3, ReadMoves
<1> QED
  BY <1>1, <1>2, <1>3, IssueMoves, EndingMoves DEF Quiet

LEMMA StepParts ==
  ASSUME [Next]_vars
  PROVE  \/ Quiet
         \/ \E i \in Invoices : create(i) \/ importOne(i) \/ send(i) \/ setSdiOutcome(i)
         \/ \E r \in Requests :
              UpdateWrite(r) \/ RemoveWrite(r) \/ ReopenWrite(r) \/ IssueCommit(r) \/ \E j \in Invoices : ReplaceWrite(r, j)
  BY DEF Next, Quiet

LEMMA TypesStep == TypesInv /\ [Next]_vars => TypesInv'
<1> SUFFICES ASSUME TypesInv, [Next]_vars PROVE TypesInv'
  OBVIOUS
<1>1. CASE Quiet
  <2>1. sent \in SUBSET (Invoices \X File) /\ received \in SUBSET (Xml \X Invoices)
    BY DEF TypesInv, TypeOK
  <2> QED
    BY <1>1, <2>1, QuietMoves, QuietTypes
<1> QED
  BY <1>1, StepParts, TableTypes, WriteTypes

\* Rows, requests, files and what SDI got keep their types, for any invoices, series, texts and requests, whatever
\* requests overlap (types of invoices.service.ts and of the rows it writes).
THEOREM IssuingTypes == Spec => []TypeOK
<1>1. TypesInv => TypeOK
  BY DEF TypesInv
<1> QED
  BY <1>1, TypesStart, TypesStep, PTL DEF Spec

-----------------------------------------------------------------------------
(***************************************************************************)
(* Corrections beside replacements, and edits beside issues.               *)
(***************************************************************************)
\* A correction and a replacement of one invoice under way together, between reading it and writing.
CorrectedAndReplaced ==
  \E r, p \in Requests : request[r].pc = "reopen" /\ request[p].pc = "replace" /\ request[r].id = request[p].id

\* An edit or a removal under way when an issue of the same invoice is about to commit.
ChangedWhileIssued ==
  \E r, p \in Requests : request[r].pc \in {"update", "remove"} /\ request[p].pc = "written" /\ request[r].id = request[p].id

\* On a rejected invoice only corrections and replacements are under way; a correction still finds it not replaced, and
\* a replacement finds it still rejected.
RejectedOK(x) ==
  /\ x.pc = "reopen" /\ invoice[x.id].status = "REJECTED" => ReplacedBy(x.id) = {}
  /\ x.pc = "replace" => invoice[x.id].status = "REJECTED"
  /\ x.pc # "idle" /\ invoice[x.id].status = "REJECTED" => x.pc \in {"reopen", "replace"}
LinksInv == TypesInv /\ ReplacedStaysRejected /\ \A r \in Requests : RejectedOK(request[r])

\* What an edit or a removal has read as a draft is still one, or removed by another.
DraftOK(x) == x.pc \in {"update", "remove"} => invoice[x.id].status \in {"DRAFT", "REMOVED"}
DraftsInv  == TypesInv /\ \A r \in Requests : DraftOK(request[r])

LEMMA QuietLinks ==
  ASSUME LinksInv, Quiet
  PROVE  LinksInv'
<1>1. TypesInv /\ TypesInv' /\ UNCHANGED invoice /\ \A p \in Requests : RequestMoves(p)
  BY QuietMoves, TypesStep DEF LinksInv, Quiet, Next
<1>2. ReplacedStaysRejected'
  BY <1>1 DEF LinksInv, ReplacedStaysRejected
<1>3. \A i \in Invoices : ReplacedBy(i)' = ReplacedBy(i)
  BY <1>1 DEF ReplacedBy
<1>4. ASSUME NEW p \in Requests PROVE RejectedOK(request[p])'
  <2> DEFINE x == request'[p]
  <2>1. RequestMoves(p) /\ RejectedOK(request[p]) /\ invoice' = invoice
    BY <1>1 DEF LinksInv
  <2>2. request[p].pc # "idle" => request[p].id \in Invoices
    BY <1>1, RequestTypes DEF TypesInv, TypeOK
  <2>3. CASE x = request[p]
    BY <1>3, <2>1, <2>2, <2>3 DEF RejectedOK
  <2>4. CASE x.pc = "idle"
    BY <2>4 DEF RejectedOK
  <2>5. CASE /\ request[p].pc \in {"issue"} \cup Locked /\ x.pc \in Locked \cup {"late"} /\ x.id = request[p].id
    BY <2>1, <2>5 DEF RejectedOK, Locked
  <2>6. CASE /\ x.id \in Invoices
             /\ \/ x.pc \in {"issue", "update", "remove"} /\ invoice[x.id].status = "DRAFT"
                \/ x.pc \in {"reopen", "replace"} /\ Correctable(x.id)
    BY <1>3, <2>1, <2>6 DEF RejectedOK, Correctable
  <2> QED
    BY <2>1, <2>3, <2>4, <2>5, <2>6 DEF RequestMoves
<1> QED
  BY <1>1, <1>2, <1>4 DEF LinksInv

\* A step on one row that leaves the links as they are, and does not take it from or to REJECTED beside requests on it.
LEMMA RowLinks ==
  ASSUME LinksInv, TypesInv', NEW i \in Invoices, UNCHANGED request,
         \A k \in Invoices \ {i} : invoice'[k] = invoice[k], invoice'[i].replaces \in {invoice[i].replaces, NoInvoice},
         invoice[i].status # "REJECTED",
         invoice'[i].status = "REJECTED" => \A r \in Requests : Held(r) => request[r].id # i
  PROVE  LinksInv'
<1>1. ReplacedStaysRejected'
  BY IssuingAssumption DEF LinksInv, ReplacedStaysRejected
<1>2. \A k \in Invoices : ReplacedBy(k)' \subseteq ReplacedBy(k)
  BY IssuingAssumption DEF ReplacedBy
<1>3. ASSUME NEW p \in Requests PROVE RejectedOK(request[p])'
  <2>1. RejectedOK(request[p]) /\ request' = request
    BY DEF LinksInv
  <2>2. request[p].pc # "idle" => request[p].id \in Invoices
    BY RequestTypes DEF LinksInv, TypesInv, TypeOK
  <2> QED
    BY <1>2, <2>1, <2>2 DEF RejectedOK, Held
<1> QED
  BY <1>1, <1>3 DEF LinksInv

LEMMA TableLinks ==
  ASSUME LinksInv, NEW i \in Invoices, create(i) \/ importOne(i) \/ send(i) \/ setSdiOutcome(i)
  PROVE  LinksInv'
<1>1. TypesInv /\ TypesInv' /\ UNCHANGED request /\ invoice \in [Invoices -> Row]
  BY TableTypes DEF LinksInv, TypesInv, TypeOK, create, importOne, send, setSdiOutcome
<1>2. CASE create(i)
  <2>1. PICK c \in Content : invoice' = [invoice EXCEPT ![i] = Draft(c, NoInvoice)]
    BY <1>2 DEF create
  <2> QED
    BY <1>1, <1>2, <2>1, RowsMade, RowLinks DEF create
<1>3. CASE importOne(i)
  <2>1. PICK c \in Content, n \in Sequence, f \in File :
          invoice' = [invoice EXCEPT ![i] = [status |-> "ISSUED", content |-> c, sequence |-> n, file |-> f,
                                             replaces |-> NoInvoice, imported |-> TRUE]]
    BY <1>3 DEF importOne
  <2>2. invoice'[i].status = "ISSUED" /\ invoice'[i].replaces = NoInvoice
        /\ \A k \in Invoices \ {i} : invoice'[k] = invoice[k]
    BY <1>1, <2>1
  <2> QED
    BY <1>1, <1>3, <2>2, RowLinks DEF importOne
<1>4. CASE send(i)
  <2>1. invoice[i].status = "ISSUED" /\ (UNCHANGED invoice \/ invoice' = [invoice EXCEPT ![i].status = "SENT"])
    BY <1>4 DEF send
  <2>2. /\ invoice'[i].status \in {"ISSUED", "SENT"} /\ invoice'[i].replaces = invoice[i].replaces
        /\ \A k \in Invoices \ {i} : invoice'[k] = invoice[k]
    BY <1>1, <2>1 DEF Row
  <2> QED
    BY <1>1, <2>1, <2>2, RowLinks
<1>5. CASE setSdiOutcome(i)
  <2>1. PICK outcome \in {"DELIVERED", "REJECTED"} : invoice' = [invoice EXCEPT ![i].status = outcome]
    BY <1>5 DEF setSdiOutcome
  <2>2. invoice[i].status # "REJECTED" /\ \A r \in Requests : Held(r) => request[r].id # i
    BY <1>5 DEF setSdiOutcome
  <2>3. invoice'[i].replaces = invoice[i].replaces /\ \A k \in Invoices \ {i} : invoice'[k] = invoice[k]
    BY <1>1, <2>1 DEF Row
  <2> QED
    BY <1>1, <2>2, <2>3, RowLinks
<1> QED
  BY <1>2, <1>3, <1>4, <1>5

LEMMA WriteLinks ==
  ASSUME LinksInv, ~CorrectedAndReplaced, NEW r \in Requests,
         UpdateWrite(r) \/ RemoveWrite(r) \/ ReopenWrite(r) \/ IssueCommit(r) \/ \E j \in Invoices : ReplaceWrite(r, j)
  PROVE  LinksInv'
<1> DEFINE q == request[r]
           i == q.id
<1>1. TypesInv /\ TypesInv' /\ TypeOK /\ invoice \in [Invoices -> Row] /\ q \in Request /\ ReplacedStaysRejected
  BY WriteTypes DEF LinksInv, TypesInv, TypeOK
<1>2. End(r) /\ i \in Invoices /\ q.pc # "idle" /\ RejectedOK(q)
  BY <1>1, RequestTypes DEF LinksInv, UpdateWrite, RemoveWrite, ReopenWrite, IssueCommit, ReplaceWrite
<1>3. request'[r].pc = "idle" /\ \A p \in Requests \ {r} : request'[p] = request[p]
  BY <1>1, <1>2, EndMoves
<1>4. \A p \in Requests : RejectedOK(request[p]) /\ (request[p].pc # "idle" => request[p].id \in Invoices)
  BY <1>1, RequestTypes DEF LinksInv, TypesInv, TypeOK
<1>5. ASSUME ReplacedStaysRejected',
             \A p \in Requests \ {r} :
               /\ request[p].pc = "reopen" /\ invoice'[request[p].id].status = "REJECTED" => \A k \in Invoices : invoice'[k].replaces # request[p].id
               /\ request[p].pc = "replace" => invoice'[request[p].id].status = "REJECTED"
               /\ request[p].pc # "idle" /\ invoice'[request[p].id].status = "REJECTED" => request[p].pc \in {"reopen", "replace"}
      PROVE  LinksInv'
  <2>1. ASSUME NEW p \in Requests PROVE RejectedOK(request[p])'
    <3>1. CASE p = r
      BY <1>3, <3>1 DEF RejectedOK
    <3>2. CASE p # r
      <4>1. request'[p] = request[p]
        BY <1>3, <3>2
      <4> QED
        BY <1>5, <3>2, <4>1 DEF RejectedOK, ReplacedBy
    <3> QED
      BY <3>1, <3>2
  <2> QED
    BY <1>1, <1>5, <2>1 DEF LinksInv
<1>6. CASE UNCHANGED invoice
  <2>1. ReplacedStaysRejected' /\ \A k \in Invoices : invoice'[k] = invoice[k]
    BY <1>1, <1>6 DEF ReplacedStaysRejected
  <2> QED
    BY <1>4, <1>5, <2>1 DEF RejectedOK, ReplacedBy
<1>7. ASSUME \A k \in Invoices : invoice'[k].replaces \in {invoice[k].replaces, NoInvoice},
             \A k \in Invoices \ {i} : invoice'[k].status = invoice[k].status,
             invoice'[i].status = invoice[i].status \/ (invoice[i].status # "REJECTED" /\ invoice'[i].status # "REJECTED")
      PROVE  LinksInv'
  <2>1. ReplacedStaysRejected'
    BY <1>1, <1>2, <1>7, IssuingAssumption DEF ReplacedStaysRejected
  <2>2. ASSUME NEW p \in Requests
        PROVE  /\ request[p].pc = "reopen" /\ invoice'[request[p].id].status = "REJECTED" =>
                    \A k \in Invoices : invoice'[k].replaces # request[p].id
               /\ request[p].pc = "replace" => invoice'[request[p].id].status = "REJECTED"
               /\ request[p].pc # "idle" /\ invoice'[request[p].id].status = "REJECTED" => request[p].pc \in {"reopen", "replace"}
    <3> DEFINE x == request[p]
    <3>1. RejectedOK(x) /\ (x.pc # "idle" => x.id \in Invoices)
      BY <1>4
    <3>2. x.pc # "idle" => (invoice'[x.id].status = "REJECTED" <=> invoice[x.id].status = "REJECTED")
      BY <1>2, <1>7, <3>1
    <3> HIDE DEF x
    <3>3. x.pc = "reopen" /\ invoice'[x.id].status = "REJECTED" => \A k \in Invoices : invoice'[k].replaces # x.id
      BY <1>7, <3>1, <3>2, IssuingAssumption DEF RejectedOK, ReplacedBy
    <3>4. x.pc = "replace" => invoice'[x.id].status = "REJECTED"
      BY <3>1, <3>2 DEF RejectedOK
    <3>5. x.pc # "idle" /\ invoice'[x.id].status = "REJECTED" => x.pc \in {"reopen", "replace"}
      BY <3>1, <3>2 DEF RejectedOK
    <3> QED
      BY <3>3, <3>4, <3>5 DEF x
  <2> QED
    BY <1>5, <2>1, <2>2
<1>8. CASE UpdateWrite(r) /\ ~UNCHANGED invoice
  <2>1. PICK c \in Content : invoice' = [invoice EXCEPT ![i].content = c]
    BY <1>8 DEF UpdateWrite
  <2>2. \A k \in Invoices : invoice'[k].status = invoice[k].status /\ invoice'[k].replaces = invoice[k].replaces
    BY <1>1, <2>1 DEF Row
  <2> QED
    BY <1>2, <1>7, <2>2
<1>9. CASE RemoveWrite(r)
  <2>1. invoice' = [k \in Invoices |-> IF k = i THEN Blank("REMOVED")
                                       ELSE IF invoice[k].replaces = i THEN [invoice[k] EXCEPT !.replaces = NoInvoice]
                                       ELSE invoice[k]]
    BY <1>9 DEF RemoveWrite
  <2>2. \A k \in Invoices : invoice'[k].replaces \in {invoice[k].replaces, NoInvoice}
                            /\ (k # i => invoice'[k].status = invoice[k].status)
    BY <1>1, <2>1, RowsMade DEF Row
  <2>3. invoice'[i].status = "REMOVED" /\ invoice[i].status # "REJECTED"
    BY <1>2, <1>9, <2>1, RowsMade DEF RejectedOK, RemoveWrite
  <2> QED
    BY <1>2, <1>7, <2>2, <2>3
<1>10. CASE IssueCommit(r)
  <2>1. /\ q.pc = "written"
        /\ invoice' = [invoice EXCEPT ![i].status = "ISSUED", ![i].sequence = q.sequence, ![i].file = q.file]
    BY <1>10 DEF IssueCommit
  <2>2. invoice[i].status # "REJECTED"
    BY <1>2, <2>1 DEF RejectedOK
  <2>3. /\ \A k \in Invoices : invoice'[k].replaces = invoice[k].replaces /\ (k # i => invoice'[k].status = invoice[k].status)
        /\ invoice'[i].status = "ISSUED"
    BY <1>1, <1>2, <2>1 DEF Row
  <2> QED
    BY <1>2, <1>7, <2>2, <2>3
<1>11. CASE ReopenWrite(r) /\ ~UNCHANGED invoice
  <2>1. /\ q.pc = "reopen" /\ invoice[i].status = "REJECTED"
        /\ invoice' = [invoice EXCEPT ![i].status = "DRAFT", ![i].file = None]
    BY <1>11 DEF ReopenWrite
  <2>2. ReplacedBy(i) = {} /\ \A p \in Requests : request[p].pc = "replace" => request[p].id # i
    BY <1>2, <2>1 DEF RejectedOK, CorrectedAndReplaced
  <2>3. /\ \A k \in Invoices : invoice'[k].replaces = invoice[k].replaces /\ (k # i => invoice'[k].status = invoice[k].status)
        /\ invoice'[i].status = "DRAFT"
    BY <1>1, <1>2, <2>1 DEF Row
  <2>4. ReplacedStaysRejected'
    BY <1>1, <2>2, <2>3 DEF ReplacedStaysRejected, ReplacedBy
  <2> QED
    BY <1>4, <1>5, <2>2, <2>3, <2>4 DEF RejectedOK, ReplacedBy
<1>12. ASSUME NEW j \in Invoices, ReplaceWrite(r, j), ~UNCHANGED invoice PROVE LinksInv'
  <2>1. q.pc = "replace" /\ invoice[i].status = "REJECTED"
    BY <1>2, <1>12 DEF ReplaceWrite, RejectedOK
  <2>2. PICK c \in Content : invoice[j].status = "NONE" /\ invoice' = [invoice EXCEPT ![j] = Draft(c, i)]
    BY <1>12 DEF ReplaceWrite
  <2>3. /\ invoice'[j].status = "DRAFT" /\ invoice'[j].replaces = i /\ i # j /\ invoice[j].status # "REJECTED"
        /\ \A k \in Invoices \ {j} : invoice'[k] = invoice[k]
    BY <1>1, <1>2, <2>1, <2>2, RowsMade
  <2>4. ReplacedStaysRejected'
    BY <1>1, <1>2, <2>1, <2>3 DEF ReplacedStaysRejected
  <2>5. \A p \in Requests : request[p].pc = "reopen" => request[p].id # i
    BY <2>1 DEF CorrectedAndReplaced
  <2>6. ASSUME NEW p \in Requests, request[p].pc # "idle"
        PROVE  /\ request[p].id \in Invoices /\ RejectedOK(request[p])
               /\ invoice'[request[p].id].status = "REJECTED" <=> invoice[request[p].id].status = "REJECTED"
    BY <1>4, <2>3, <2>6
  <2> QED
    BY <1>5, <2>3, <2>4, <2>5, <2>6 DEF RejectedOK, ReplacedBy
<1> QED
  BY <1>6, <1>8, <1>9, <1>10, <1>11, <1>12

\* An invoice that another replaces stays rejected, whatever requests overlap, until a correction and a replacement of
\* one invoice are under way together (invoices.service.ts, reopenForCorrection and createReplacement).
THEOREM ReplacedForGood == Spec => []ReplacedStaysRejected \/ <>CorrectedAndReplaced
<1>1. Init => LinksInv
  <2>1. ASSUME Init PROVE LinksInv
    <3>1. (\A i \in Invoices : invoice[i].replaces = NoInvoice) /\ \A r \in Requests : request[r].pc = "idle"
      BY <2>1, RowsMade, Bounds DEF Init
    <3> QED
      BY <2>1, <3>1, TypesStart, IssuingAssumption DEF LinksInv, ReplacedStaysRejected, RejectedOK
  <2> QED
    BY <2>1
<1>2. LinksInv /\ ~CorrectedAndReplaced /\ [Next]_vars => LinksInv'
  BY StepParts, QuietLinks, TableLinks, WriteLinks
<1>3. LinksInv => ReplacedStaysRejected
  BY DEF LinksInv
<1> QED
  BY <1>1, <1>2, <1>3, PTL DEF Spec

\* What changes in a row when it is not an edit of a draft.
LEMMA DraftsStep ==
  ASSUME DraftsInv, ~ChangedWhileIssued, [Next]_vars
  PROVE  /\ DraftsInv'
         /\ \A k \in Invoices : Exists(k) /\ invoice[k].status # "DRAFT" => invoice'[k].content = invoice[k].content
<1>1. /\ TypesInv /\ TypesInv' /\ TypeOK /\ invoice \in [Invoices -> Row]
      /\ \A p \in Requests : DraftOK(request[p]) /\ (request[p].pc # "idle" => request[p].id \in Invoices)
  BY TypesStep, RequestTypes DEF DraftsInv, TypesInv, TypeOK
<1>2. CASE Quiet
  <2>1. UNCHANGED invoice /\ \A p \in Requests : RequestMoves(p)
    BY <1>1, <1>2, QuietMoves
  <2>2. ASSUME NEW p \in Requests PROVE DraftOK(request[p])'
    <3>1. DraftOK(request[p]) /\ RequestMoves(p) /\ invoice' = invoice
      BY <1>1, <2>1
    <3> QED
      BY <3>1 DEF RequestMoves, DraftOK, Locked
  <2> QED
    BY <1>1, <2>1, <2>2 DEF DraftsInv
<1>3. ASSUME \A p \in Requests : request'[p] = request[p] \/ request'[p].pc = "idle",
             \A k \in Invoices : /\ invoice[k].status \in {"DRAFT", "REMOVED"} =>
                                      \/ invoice'[k].status \in {"DRAFT", "REMOVED"}
                                      \/ \A p \in Requests : request[p].pc \in {"update", "remove"} => request[p].id # k
                                 /\ Exists(k) /\ invoice[k].status # "DRAFT" => invoice'[k].content = invoice[k].content
      PROVE  /\ DraftsInv'
             /\ \A k \in Invoices : Exists(k) /\ invoice[k].status # "DRAFT" => invoice'[k].content = invoice[k].content
  <2>1. ASSUME NEW p \in Requests PROVE DraftOK(request[p])'
    <3>1. CASE request'[p] = request[p]
      BY <1>1, <1>3, <3>1 DEF DraftOK
    <3>2. CASE request'[p].pc = "idle"
      BY <3>2 DEF DraftOK
    <3> QED
      BY <1>3, <3>1, <3>2
  <2> QED
    BY <1>1, <1>3, <2>1 DEF DraftsInv
<1>4. ASSUME NEW i \in Invoices, create(i) \/ importOne(i) \/ send(i) \/ setSdiOutcome(i)
      PROVE  /\ DraftsInv'
             /\ \A k \in Invoices : Exists(k) /\ invoice[k].status # "DRAFT" => invoice'[k].content = invoice[k].content
  <2>1. UNCHANGED request /\ invoice[i].status \notin {"DRAFT", "REMOVED"} /\ \A k \in Invoices \ {i} : invoice'[k] = invoice[k]
    BY <1>1, <1>4 DEF create, importOne, send, setSdiOutcome
  <2>2. Exists(i) => invoice'[i].content = invoice[i].content
    BY <1>1, <1>4 DEF create, importOne, send, setSdiOutcome, Exists, Row
  <2> QED
    BY <1>3, <2>1, <2>2
<1>5. ASSUME NEW r \in Requests,
             UpdateWrite(r) \/ RemoveWrite(r) \/ ReopenWrite(r) \/ IssueCommit(r) \/ \E j \in Invoices : ReplaceWrite(r, j)
      PROVE  /\ DraftsInv'
             /\ \A k \in Invoices : Exists(k) /\ invoice[k].status # "DRAFT" => invoice'[k].content = invoice[k].content
  <2> DEFINE q == request[r]
             i == q.id
  <2>1. End(r) /\ i \in Invoices /\ DraftOK(q)
    BY <1>1, <1>5 DEF UpdateWrite, RemoveWrite, ReopenWrite, IssueCommit, ReplaceWrite
  <2>2. \A p \in Requests : request'[p] = request[p] \/ request'[p].pc = "idle"
    BY <1>1, <2>1, EndMoves
  <2>3. CASE UNCHANGED invoice
    BY <1>3, <2>2, <2>3
  <2>4. CASE UpdateWrite(r) /\ ~UNCHANGED invoice
    <3>1. PICK c \in Content : q.pc = "update" /\ Exists(i) /\ invoice' = [invoice EXCEPT ![i].content = c]
      BY <2>4 DEF UpdateWrite
    <3>2. invoice[i].status = "DRAFT"
      BY <2>1, <3>1 DEF DraftOK, Exists
    <3>3. \A k \in Invoices : invoice'[k].status = invoice[k].status /\ (k # i => invoice'[k] = invoice[k])
      BY <1>1, <3>1 DEF Row
    <3> QED
      BY <1>3, <2>2, <3>2, <3>3
  <2>5. CASE RemoveWrite(r)
    <3>1. /\ q.pc = "remove"
          /\ invoice' = [k \in Invoices |-> IF k = i THEN Blank("REMOVED")
                                            ELSE IF invoice[k].replaces = i THEN [invoice[k] EXCEPT !.replaces = NoInvoice]
                                            ELSE invoice[k]]
      BY <2>5 DEF RemoveWrite
    <3>2. invoice[i].status \in {"DRAFT", "REMOVED"} /\ invoice'[i].status = "REMOVED"
      BY <2>1, <3>1, RowsMade DEF DraftOK
    <3>3. \A k \in Invoices \ {i} : invoice'[k].status = invoice[k].status /\ invoice'[k].content = invoice[k].content
      BY <1>1, <3>1 DEF Row
    <3> QED
      BY <1>3, <2>2, <3>2, <3>3 DEF Exists
  <2>6. CASE ReopenWrite(r) /\ ~UNCHANGED invoice
    <3>1. invoice[i].status = "REJECTED" /\ invoice' = [invoice EXCEPT ![i].status = "DRAFT", ![i].file = None]
      BY <2>6 DEF ReopenWrite
    <3>2. \A k \in Invoices : invoice'[k].content = invoice[k].content /\ (k # i => invoice'[k] = invoice[k])
      BY <1>1, <3>1 DEF Row
    <3> QED
      BY <1>3, <2>2, <3>1, <3>2
  <2>7. CASE IssueCommit(r)
    <3>1. /\ q.pc = "written"
          /\ invoice' = [invoice EXCEPT ![i].status = "ISSUED", ![i].sequence = q.sequence, ![i].file = q.file]
      BY <2>7 DEF IssueCommit
    <3>2. \A p \in Requests : request[p].pc \in {"update", "remove"} => request[p].id # i
      BY <3>1 DEF ChangedWhileIssued
    <3>3. \A k \in Invoices : invoice'[k].content = invoice[k].content /\ (k # i => invoice'[k] = invoice[k])
      BY <1>1, <3>1 DEF Row
    <3> QED
      BY <1>3, <2>2, <3>2, <3>3
  <2>8. ASSUME NEW j \in Invoices, ReplaceWrite(r, j), ~UNCHANGED invoice
        PROVE  /\ DraftsInv'
               /\ \A k \in Invoices : Exists(k) /\ invoice[k].status # "DRAFT" => invoice'[k].content = invoice[k].content
    <3>1. invoice[j].status = "NONE" /\ \A k \in Invoices \ {j} : invoice'[k] = invoice[k]
      BY <1>1, <2>8 DEF ReplaceWrite
    <3> QED
      BY <1>3, <2>2, <3>1 DEF Exists
  <2> QED
    BY <1>5, <2>3, <2>4, <2>5, <2>6, <2>7, <2>8
<1> QED
  BY <1>2, <1>4, <1>5, StepParts

\* What an invoice says changes only in a draft, whatever requests overlap, until an edit or a removal is under way when an
\* issue of that invoice commits (invoices.service.ts, update and remove: "Si possono modificare solo le bozze").
THEOREM DraftsChange == Spec => OnlyDraftsChange \/ <>ChangedWhileIssued
<1>1. Init => DraftsInv
  <2>1. ASSUME Init PROVE DraftsInv
    <3>1. \A r \in Requests : request[r].pc = "idle"
      BY <2>1, Bounds DEF Init
    <3> QED
      BY <2>1, <3>1, TypesStart DEF DraftsInv, DraftOK
  <2> QED
    BY <2>1
<1>2. DraftsInv /\ ~ChangedWhileIssued /\ [Next]_vars =>
        DraftsInv' /\ [\A i \in Invoices : Exists(i) /\ invoice[i].status # "DRAFT" => invoice'[i].content = invoice[i].content]_vars
  BY DraftsStep
<1> QED
  BY <1>1, <1>2, PTL DEF Spec, OnlyDraftsChange
================================================================================
