----------------------------- MODULE InvoiceIssuing -----------------------------
(***************************************************************************)
(* The invoices of one tenant from draft to number, file and correction:   *)
(* apps/api/src/invoices/services/invoices.service.ts, with the import of  *)
(* invoices sent with another tool.                                        *)
(*                                                                         *)
(* A request reads an invoice, decides on it and writes later, so the      *)
(* requests of two tabs interleave.  Issuing is a transaction under the    *)
(* advisory lock of the tenant; the XML file it writes is no part of the   *)
(* transaction.  Sending and the outcome of SDI are as in                  *)
(* SdiTransmissions, in one step each.                                     *)
(***************************************************************************)
EXTENDS Integers, FiniteSetsExt

CONSTANTS
  Invoices,         \* ids of the invoices
  Requests,         \* concurrent requests
  NoInvoice, NoRequest,
  Series,           \* series of numbers: year and type of document
  Texts,            \* what else an invoice says
  MaxSequence,      \* bound of this model: numbers of a series
  MaxFiles,         \* bound of this model: progressives of the files
  ConcurrentEdits,  \* may requests of different kinds on one invoice overlap?
  SlowWrites        \* may writing a file outlast the timeout of its transaction and the next issue?

ASSUME IssuingAssumption ==
  /\ NoInvoice \notin Invoices /\ NoRequest \notin Requests
  /\ MaxSequence \in Nat /\ MaxFiles \in Nat
  /\ ConcurrentEdits \in BOOLEAN /\ SlowWrites \in BOOLEAN

VARIABLES
  invoice,   \* the invoice rows, with the ids not used yet and the removed ones
  request,   \* requests in progress, with what they read
  lock,      \* holder of the advisory lock "issue:<tenant>"
  disk,      \* the XML files stored at issue
  sent,      \* the SdiTransmission rows: <<invoice, file>>
  received   \* what SDI was sent, seen from outside: the XML and the invoice it was sent for

vars == <<invoice, request, lock, disk, sent, received>>

Content  == [series : Series, text : Texts]
Sequence == 1..MaxSequence
File     == 1..MaxFiles
None     == 0

Status    == {"NONE", "REMOVED", "DRAFT", "ISSUED", "SENT", "DELIVERED", "REJECTED"}
NoContent == [series |-> "", text |-> ""]

Row == [status : Status, content : Content \cup {NoContent}, sequence : Sequence \cup {None}, file : File \cup {None},
        replaces : Invoices \cup {NoInvoice}, imported : BOOLEAN]
\* The document in a file; a write that failed half way leaves one of no invoice.
Xml == [file : File, invoice : Invoices \cup {NoInvoice}, content : Content, number : Sequence]

\* What a request on an invoice read of it, and the number and file it goes on to write.
Idle    == [pc |-> "idle"]
Request == {Idle}
  \cup [pc : {"issue", "update", "remove", "reopen", "replace"}, id : Invoices, seen : Row]
  \cup [pc : {"numbered", "pending", "written", "late"}, id : Invoices, seen : Row, sequence : Sequence, file : File]

Blank(status)   == [status |-> status, content |-> NoContent, sequence |-> None, file |-> None,
                    replaces |-> NoInvoice, imported |-> FALSE]
Draft(c, old)   == [Blank("DRAFT") EXCEPT !.content = c, !.replaces = old]
Exists(i)       == invoice[i].status \notin {"NONE", "REMOVED"}
ReplacedBy(i)   == {j \in Invoices : invoice[j].replaces = i}
isCorrection(v) == v.status = "DRAFT" /\ v.sequence # None
Held(r)         == request[r].pc # "idle"

TypeOK ==
  /\ invoice \in [Invoices -> Row]
  /\ request \in [Requests -> Request]
  /\ lock \in Requests \cup {NoRequest}
  /\ disk \subseteq Xml
  /\ sent \subseteq Invoices \X File
  /\ received \subseteq Xml \X Invoices

Init ==
  /\ invoice = [i \in Invoices |-> Blank("NONE")]
  /\ request = [r \in Requests |-> Idle]
  /\ lock = NoRequest
  /\ disk = {} /\ sent = {} /\ received = {}

-----------------------------------------------------------------------------
(***************************************************************************)
(* What the database does not let a statement write yet, or at all.        *)
(***************************************************************************)
\* A row updated by an issue not committed yet is locked, and so are its number and its file name.
Pending(r)   == request[r].pc \in {"pending", "written"}
RowLocked(i) == \E r \in Requests : Pending(r) /\ request[r].id = i
KeyLocked(series, sequence, file) ==
  \E r \in Requests : /\ Pending(r)
                      /\ \/ invoice[request[r].id].content.series = series /\ request[r].sequence = sequence
                         \/ request[r].file = file
\* The unique indexes (tenant, year, type, sequence) and (tenant, xmlFileName), where a null never clashes.
KeyTaken(i, series, sequence, file) ==
  \E j \in Invoices \ {i} : \/ sequence # None /\ invoice[j].content.series = series /\ invoice[j].sequence = sequence
                            \/ file # None /\ invoice[j].file = file

\* Without ConcurrentEdits the requests on one invoice follow each other, unless all do the same (a double click).
Kind(r) == IF request[r].pc \in {"numbered", "pending", "written", "late"} THEN "issue" ELSE request[r].pc
MayStart(i, pc) == ConcurrentEdits \/ \A r \in Requests : Held(r) /\ request[r].id = i => Kind(r) = pc

\* A request of kind pc on an invoice that can still be read.
Begin(r, i, pc) ==
  /\ ~Held(r) /\ MayStart(i, pc)
  /\ request' = [request EXCEPT ![r] = [pc |-> pc, id |-> i, seen |-> invoice[i]]]
  /\ UNCHANGED <<invoice, lock, disk, sent, received>>

End(r) == request' = [request EXCEPT ![r] = Idle]

-----------------------------------------------------------------------------
(***************************************************************************)
(* Drafts: create, update, remove.                                         *)
(***************************************************************************)
create(i) ==
  /\ invoice[i].status = "NONE"
  /\ \E c \in Content : invoice' = [invoice EXCEPT ![i] = Draft(c, NoInvoice)]
  /\ UNCHANGED <<request, lock, disk, sent, received>>

UpdateReadUnsent(r, i) == invoice[i].status \in {"DRAFT", "REJECTED"} /\ Begin(r, i, "update")   \* mutant
UpdateRead(r, i) == invoice[i].status = "DRAFT" /\ Begin(r, i, "update")

\* The row is found by its id alone.  A numbered draft keeps date and type, as it was when read.
UpdateWrite(r) ==
  LET q == request[r] IN
  /\ q.pc = "update" /\ ~RowLocked(q.id)
  /\ \E c \in Content :
       /\ isCorrection(q.seen) => c.series = q.seen.content.series
       /\ ~KeyLocked(c.series, invoice[q.id].sequence, None)
       /\ IF Exists(q.id) /\ ~KeyTaken(q.id, c.series, invoice[q.id].sequence, None)
          THEN invoice' = [invoice EXCEPT ![q.id].content = c]
          ELSE UNCHANGED invoice
  /\ End(r)
  /\ UNCHANGED <<lock, disk, sent, received>>

RemoveReadAnyDraft(r, i) == invoice[i].status = "DRAFT" /\ Begin(r, i, "remove")   \* mutant

RemoveRead(r, i) ==
  /\ invoice[i].status = "DRAFT" /\ ~isCorrection(invoice[i])
  /\ Begin(r, i, "remove")

\* The transmissions of the invoice go with it, and the link of the one that replaces it.
RemoveWrite(r) ==
  LET q == request[r] IN
  /\ q.pc = "remove" /\ ~RowLocked(q.id)
  /\ invoice' = [i \in Invoices |-> IF i = q.id THEN Blank("REMOVED")
                                   ELSE IF invoice[i].replaces = q.id THEN [invoice[i] EXCEPT !.replaces = NoInvoice]
                                   ELSE invoice[i]]
  /\ sent' = {x \in sent : x[1] # q.id}
  /\ End(r)
  /\ UNCHANGED <<lock, disk, received>>

-----------------------------------------------------------------------------
(***************************************************************************)
(* Issue: read, lock and number, update the row, write the file, commit.   *)
(***************************************************************************)
IssueRead(r, i) == invoice[i].status = "DRAFT" /\ Begin(r, i, "issue")

\* The last number of a series, drafts of corrections included, and the number an issue takes.
LastSequence(series) ==
  Max({None} \cup {invoice[i].sequence : i \in {j \in Invoices : invoice[j].content.series = series}})
NumberOfNext(seen) == LastSequence(seen.content.series) + 1   \* mutant: the number of a correction is not kept
NumberOfLast(seen) == IF seen.sequence # None THEN seen.sequence ELSE LastSequence(seen.content.series)   \* mutant
NumberOf(seen) == IF seen.sequence # None THEN seen.sequence ELSE LastSequence(seen.content.series) + 1

\* File names in use: of the invoices, and of everything sent.
FilesOfInvoices  == {invoice[i].file : i \in Invoices}   \* mutant: what was sent before a correction is left out
UsedFiles        == {invoice[i].file : i \in Invoices} \cup {x[2] : x \in sent}
nextFileSequence == Max({None} \cup UsedFiles) + 1

IssueNumberUnchecked(r) ==   \* mutant: the status is not read again under the lock
  LET q == request[r] IN
  /\ q.pc = "issue" /\ lock = NoRequest
  /\ SlowWrites \/ \A p \in Requests : request[p].pc # "late"
  /\ NumberOf(q.seen) <= MaxSequence /\ nextFileSequence <= MaxFiles
  /\ lock' = r
  /\ request' = [request EXCEPT ![r] = [pc |-> "numbered", id |-> q.id, seen |-> q.seen,
                                        sequence |-> NumberOf(q.seen), file |-> nextFileSequence]]
  /\ UNCHANGED <<invoice, disk, sent, received>>

\* Under the lock the status is read again, and number and file are chosen.  Without SlowWrites a file still being
\* written for a transaction given up is complete before the next issue.
IssueNumber(r) ==
  LET q == request[r] IN
  /\ q.pc = "issue" /\ lock = NoRequest
  /\ invoice[q.id].status = "DRAFT"
  /\ SlowWrites \/ \A p \in Requests : request[p].pc # "late"
  /\ NumberOf(q.seen) <= MaxSequence /\ nextFileSequence <= MaxFiles
  /\ lock' = r
  /\ request' = [request EXCEPT ![r] = [pc |-> "numbered", id |-> q.id, seen |-> q.seen,
                                        sequence |-> NumberOf(q.seen), file |-> nextFileSequence]]
  /\ UNCHANGED <<invoice, disk, sent, received>>

IssueConflict(r) ==
  LET q == request[r] IN
  /\ q.pc = "issue" /\ lock = NoRequest
  /\ invoice[q.id].status # "DRAFT"
  /\ End(r)
  /\ UNCHANGED <<invoice, lock, disk, sent, received>>

\* The transaction is rolled back and its lock released.
Release(r) == lock' = IF lock = r THEN NoRequest ELSE lock

\* The update of the row, seen by nobody before the commit; a key taken meanwhile by an import makes it fail.
IssueUpdate(r) ==
  LET q == request[r] IN
  /\ q.pc = "numbered"
  /\ ~RowLocked(q.id) /\ ~KeyLocked(invoice[q.id].content.series, q.sequence, q.file)
  /\ \/ /\ Exists(q.id) /\ ~KeyTaken(q.id, invoice[q.id].content.series, q.sequence, q.file)
        /\ request' = [request EXCEPT ![r].pc = "pending"]
        /\ UNCHANGED lock
     \/ /\ (~Exists(q.id) \/ KeyTaken(q.id, invoice[q.id].content.series, q.sequence, q.file))
        /\ End(r)
        /\ Release(r)
  /\ UNCHANGED <<invoice, disk, sent, received>>

XmlOf(q)    == [file |-> q.file, invoice |-> q.id, content |-> q.seen.content, number |-> q.sequence]
Store(x)    == disk' = {y \in disk : y.file # x.file} \cup {x}

\* storage.write, which replaces the file of that name.
IssueWrite(r) ==
  /\ request[r].pc = "pending"
  /\ Store(XmlOf(request[r]))
  /\ request' = [request EXCEPT ![r].pc = "written"]
  /\ UNCHANGED <<invoice, lock, sent, received>>

IssueWriteIgnored(r) ==   \* mutant: the error of the write is caught
  /\ request[r].pc = "pending"
  /\ Store([XmlOf(request[r]) EXCEPT !.invoice = NoInvoice])
  /\ request' = [request EXCEPT ![r].pc = "written"]
  /\ UNCHANGED <<invoice, lock, sent, received>>

\* A failed write leaves part of the file and rolls the transaction back.
IssueWriteFails(r) ==
  /\ request[r].pc = "pending"
  /\ Store([XmlOf(request[r]) EXCEPT !.invoice = NoInvoice])
  /\ End(r)
  /\ Release(r)
  /\ UNCHANGED <<invoice, sent, received>>

IssueCommit(r) ==
  LET q == request[r] IN
  /\ q.pc = "written"
  /\ invoice' = [invoice EXCEPT ![q.id].status = "ISSUED", ![q.id].sequence = q.sequence, ![q.id].file = q.file]
  /\ End(r)
  /\ Release(r)
  /\ UNCHANGED <<disk, sent, received>>

\* The database gives the transaction up while the file is being written; the write goes on.
IssueTimeout(r) ==
  /\ request[r].pc = "pending"
  /\ request' = [request EXCEPT ![r].pc = "late"]
  /\ Release(r)
  /\ UNCHANGED <<invoice, disk, sent, received>>

LateWrite(r) ==
  /\ request[r].pc = "late"
  /\ Store(XmlOf(request[r]))
  /\ End(r)
  /\ UNCHANGED <<invoice, lock, sent, received>>

\* The API stops or the database fails: a transaction not committed is rolled back.
Stop(r) ==
  /\ Held(r)
  /\ End(r)
  /\ Release(r)
  /\ UNCHANGED <<invoice, disk, sent, received>>

-----------------------------------------------------------------------------
(***************************************************************************)
(* A rejected invoice: corrected under its number, or replaced.            *)
(***************************************************************************)
CorrectableReplaced(i) == invoice[i].status = "REJECTED" /\ ~invoice[i].imported   \* mutant
Correctable(i) == invoice[i].status = "REJECTED" /\ ~invoice[i].imported /\ ReplacedBy(i) = {}

ReopenRead(r, i) == Correctable(i) /\ Begin(r, i, "reopen")

ReopenWrite(r) ==
  LET q == request[r] IN
  /\ q.pc = "reopen"
  /\ IF invoice[q.id].status = "REJECTED"
     THEN invoice' = [invoice EXCEPT ![q.id].status = "DRAFT", ![q.id].file = None]
     ELSE UNCHANGED invoice
  /\ End(r)
  /\ UNCHANGED <<lock, disk, sent, received>>

ReplaceRead(r, i) == Correctable(i) /\ Begin(r, i, "replace")

\* The link is unique: of two requests at once only one gets through.
ReplaceWrite(r, j) ==
  LET q == request[r] IN
  /\ q.pc = "replace"
  /\ \/ /\ ReplacedBy(q.id) = {} /\ Exists(q.id) /\ invoice[j].status = "NONE"
        /\ \E c \in Content : /\ c.text = q.seen.content.text
                              /\ invoice' = [invoice EXCEPT ![j] = Draft(c, q.id)]
     \/ /\ ReplacedBy(q.id) # {} \/ ~Exists(q.id)
        /\ UNCHANGED invoice
  /\ End(r)
  /\ UNCHANGED <<lock, disk, sent, received>>

-----------------------------------------------------------------------------
(***************************************************************************)
(* Import, and what SdiTransmissions does with an issued invoice.          *)
(***************************************************************************)
importOne(i) ==
  /\ invoice[i].status = "NONE"
  /\ \E c \in Content, n \in Sequence, f \in File :
       /\ ~KeyTaken(i, c.series, n, f) /\ ~KeyLocked(c.series, n, f)
       /\ invoice' = [invoice EXCEPT ![i] = [status |-> "ISSUED", content |-> c, sequence |-> n, file |-> f,
                                             replaces |-> NoInvoice, imported |-> TRUE]]
  /\ UNCHANGED <<request, lock, disk, sent, received>>

\* The claim, and a message with the stored file: sent, or failed and the invoice reopened.
send(i) ==
  /\ invoice[i].status = "ISSUED" /\ ~invoice[i].imported
  /\ sent' = sent \cup {<<i, invoice[i].file>>}
  /\ \/ /\ \E x \in disk : x.file = invoice[i].file /\ received' = received \cup {<<x, i>>}
        /\ invoice' = [invoice EXCEPT ![i].status = "SENT"]
     \/ UNCHANGED <<invoice, received>>
  /\ UNCHANGED <<request, lock, disk>>

\* SDI's answer comes by mail: it outlasts every request on the invoice, whose transaction lasts seconds.
setSdiOutcome(i) ==
  /\ invoice[i].status = "SENT" \/ (invoice[i].imported /\ invoice[i].status = "ISSUED")
  /\ \A r \in Requests : Held(r) => request[r].id # i
  /\ \E outcome \in {"DELIVERED", "REJECTED"} : invoice' = [invoice EXCEPT ![i].status = outcome]
  /\ UNCHANGED <<request, lock, disk, sent, received>>

Next ==
  \/ \E i \in Invoices : create(i) \/ importOne(i) \/ send(i) \/ setSdiOutcome(i)
  \/ \E r \in Requests :
       \/ \E i \in Invoices : \/ UpdateRead(r, i) \/ RemoveRead(r, i) \/ IssueRead(r, i) \/ ReopenRead(r, i)
                              \/ ReplaceRead(r, i) \/ ReplaceWrite(r, i)
       \/ UpdateWrite(r) \/ RemoveWrite(r) \/ ReopenWrite(r)
       \/ IssueNumber(r) \/ IssueConflict(r) \/ IssueUpdate(r) \/ IssueWrite(r) \/ IssueWriteFails(r) \/ IssueCommit(r)
       \/ IssueTimeout(r) \/ LateWrite(r) \/ Stop(r)

Spec == Init /\ [][Next]_vars

-----------------------------------------------------------------------------
(***************************************************************************)
(* Properties.                                                             *)
(***************************************************************************)

\* The stored file of an issued invoice is the document its row describes: same content, number and name
\* (issue: the row updated and the file written for one reading of the draft).
XmlMatchesRow ==
  \A i \in Invoices : invoice[i].file # None /\ ~invoice[i].imported =>
    [file |-> invoice[i].file, invoice |-> i, content |-> invoice[i].content, number |-> invoice[i].sequence] \in disk

\* SDI never gets two documents under one file name, nor one document for two invoices (issue: the progressive is
\* above every name recorded or sent, corrections and removals in between).
OneDocumentPerName ==
  \A x, y \in received : x[1].file = y[1].file => x = y

\* SDI never gets one number of a series from two invoices (update, remove: a numbered draft keeps its number and
\* series and cannot be removed).
NumbersOnce ==
  \A x, y \in received :
    x[1].number = y[1].number /\ x[1].content.series = y[1].content.series => x[2] = y[2]

\* Numbers given by issue leave no gap: what is missing below one was skipped by an imported invoice ("a failed XML
\* never consumes a number", invoices.service.ts:228).
NoGaps ==
  \A i \in Invoices : ~invoice[i].imported => \A k \in 1..(invoice[i].sequence - 1) :
    \E j \in Invoices : /\ invoice[j].content.series = invoice[i].content.series
                        /\ invoice[j].sequence = k \/ (invoice[j].imported /\ invoice[j].sequence > k)

\* A rejected invoice that another replaces stays rejected, never issued (createReplacement, reopenForCorrection).
ReplacedStaysRejected ==
  \A i, j \in Invoices : invoice[j].replaces = i => invoice[i].status = "REJECTED"

\* An invoice keeps its number and series for ever, through rejections and corrections (issue, update, remove).
NumberKept ==
  [][\A i \in Invoices : invoice[i].sequence # None =>
       invoice'[i].sequence = invoice[i].sequence /\ invoice'[i].content.series = invoice[i].content.series]_vars

\* invoices.service.ts:205, "Si possono modificare solo le bozze": what an invoice says changes only in a draft.
OnlyDraftsChange ==
  [][\A i \in Invoices : Exists(i) /\ invoice[i].status # "DRAFT" => invoice'[i].content = invoice[i].content]_vars

\* The invoices live as InvoiceLifecycle says: every step of the code is one of its steps on one invoice, or none.
Lifecycle == INSTANCE InvoiceLifecycle WITH
  Files <- File, NoFile <- None, status <- [i \in Invoices |-> invoice[i].status],
  file <- [i \in Invoices |-> invoice[i].file], used <- UsedFiles \ {None}

\* Refinement: whatever requests overlap, fail, time out or stop, an invoice is issued once per draft and only under a
\* file name never used before, leaves it only when rejected, and goes only where InvoiceLifecycle lets it (issue,
\* remove, reopenForCorrection, the import).
ImplementsLifecycle == Lifecycle!Spec
=============================================================================
