------------------------- MODULE SdiTransmissionsProofs -------------------------
(***************************************************************************)
(* What SDI and the sender see of an invoice, for any number of invoices,  *)
(* files, transmissions, requests, syncs and uploads: first that SDI       *)
(* receives a file at most once, when an SMTP error means that the message *)
(* did not leave, then its outcomes.                                       *)
(***************************************************************************)
EXTENDS SdiTransmissions, FiniteSetTheorems, TLAPS

\* The receipt that says the message of t did not get through.
FailureOf(t, type) == [type |-> type, of |-> t, file |-> transmission[t].file]

\* A transmission is open while its message may still reach SDI, or while its failure has not reopened the invoice yet.
Unsent(t) == message[t] = "none" /\ \E s \in Senders : request[s].pc \in {"claimed", "failed"} /\ request[s].tid = t
Unreported(t) ==
  \/ message[t] = "refused" /\ <<t, FailureOf(t, "non-accettazione")>> \notin recorded
  \/ message[t] = "bounced" /\ <<t, FailureOf(t, "errore-consegna")>> \notin recorded
Open(t) == message[t] \in {"left", "accepted", "delivered"} \/ Unsent(t) \/ Unreported(t)

\* Two transmissions of one file are never open together, and none is while the invoice can be sent again.
OneOpen      == \A t, u \in Tid : Open(t) /\ Open(u) /\ t # u => transmission[t].file # transmission[u].file
IssuedClosed == \A i \in Invoices, t \in Tid :
                  invoice[i].status = "ISSUED" /\ invoice[i].file = transmission[t].file => ~Open(t)

\* An invoice has a file unless it is a draft, no two invoices have the same, and an imported one is never a draft.
FilesOK ==
  /\ \A i \in Imported : invoice[i].status # "DRAFT"
  /\ \A i \in Invoices : invoice[i].status # "DRAFT" => invoice[i].file \in File
  /\ \A i, j \in Invoices : invoice[i].file = invoice[j].file /\ invoice[i].file # NoFile => i = j

RowsOK ==
  \A t \in Tid : /\ Made(t) => transmission[t].file \in File /\ transmission[t].invoice \in Invoices
                 /\ ~Made(t) => message[t] = "none"

RequestsOK ==
  /\ \A s \in Senders : request[s].pc = "checked" => request[s].invoice \in Invoices
  /\ \A s \in Senders : request[s].pc \in {"claimed", "failed", "left", "sent"} =>
       request[s].tid \in Tid /\ Made(request[s].tid)
  /\ \A s \in Senders : request[s].pc = "claimed" => message[request[s].tid] = "none"
  /\ \A s \in Senders : request[s].pc = "failed" => SmtpAmbiguous \/ message[request[s].tid] = "none"
  /\ \A s, r \in Senders : request[s].pc \in {"claimed", "failed"} /\ request[r].pc \in {"claimed", "failed"}
       /\ request[s].tid = request[r].tid => s = r

ReadersOK ==
  /\ \A p \in Readers : reader[p].pc # "idle" => reader[p].receipt \in Receipt
  /\ \A p \in Readers : reader[p].pc = "matched" => reader[p].tid \in Tid /\ Made(reader[p].tid)
  /\ \A p \in Readers : reader[p].pc = "decided" => reader[p].receipt.type \in SdiTypes
  /\ \A p \in Readers : reader[p].pc = "matched" /\ reader[p].receipt.type \in Failures =>
       /\ reader[p].receipt = FailureOf(reader[p].tid, reader[p].receipt.type)
       /\ \/ reader[p].receipt.type = "non-accettazione" /\ message[reader[p].tid] = "refused"
          \/ reader[p].receipt.type = "errore-consegna"  /\ message[reader[p].tid] = "bounced"
  /\ \A v \in verdict : v.type \in SdiTypes

\* What holds whatever an SMTP error means, and what needs it to be exact.
BaseInv == TypeOK /\ FilesOK /\ RowsOK /\ RequestsOK /\ ReadersOK
IInv    == BaseInv /\ OneOpen /\ IssuedClosed

-----------------------------------------------------------------------------
(***************************************************************************)
(* Types of the values the actions write.                                  *)
(***************************************************************************)
LEMMA InvoiceRowType ==
  ASSUME NEW v \in InvoiceRow, NEW f \in File \cup {NoFile}, NEW st \in InvoiceStatus
  PROVE  /\ claimForSending(v, f) \in InvoiceRow /\ reopen(v, f) \in InvoiceRow
         /\ setSdiOutcome(v, f, st) \in InvoiceRow /\ [status |-> st, file |-> f] \in InvoiceRow
  BY DEF claimForSending, reopen, setSdiOutcome, InvoiceRow, InvoiceStatus

LEMMA IdleTypes == IdleRequest \in Request /\ IdleReader \in Reader /\ NoTransmission \in TransmissionRow
  BY DEF IdleRequest, Request, IdleReader, Reader, NoTransmission, TransmissionRow

LEMMA StatusTypes ==
  /\ {"PENDING", "SENT", "ACCEPTED_BY_PEC", "DELIVERED_TO_SDI", "ERROR"} \subseteq TransmissionStatus
  /\ Outcomes \subseteq TransmissionStatus
  BY DEF TransmissionStatus, Awaiting, Outcomes

LEMMA TransmissionRowType ==
  ASSUME NEW v \in TransmissionRow, NEW st \in TransmissionStatus, NEW b \in BOOLEAN
  PROVE  /\ [v EXCEPT !.status = st] \in TransmissionRow
         /\ [v EXCEPT !.sent = b] \in TransmissionRow
         /\ [v EXCEPT !.status = st, !.sent = b] \in TransmissionRow
  BY DEF TransmissionRow

LEMMA RequestType ==
  ASSUME NEW q \in Request, NEW t \in Tid \cup {0}, NEW pc \in {"idle", "checked", "claimed", "failed", "left", "sent"}
  PROVE  [q EXCEPT !.pc = pc] \in Request /\ [q EXCEPT !.pc = pc, !.tid = t] \in Request
  BY DEF Request

LEMMA ReaderType ==
  ASSUME NEW q \in Reader, NEW pc \in {"idle", "decided", "matched", "learn"}, NEW r \in Receipt,
         NEW t \in Tid, NEW st \in TransmissionStatus \cup {"NONE"}, NEW b \in BOOLEAN
  PROVE  /\ [q EXCEPT !.pc = pc] \in Reader /\ [q EXCEPT !.pc = pc, !.receipt = r] \in Reader
         /\ [q EXCEPT !.pc = pc, !.tid = t, !.status = st, !.sent = b] \in Reader
         /\ [pc |-> pc, receipt |-> r, tid |-> t, status |-> st, sent |-> b] \in Reader
  BY DEF Reader

LEMMA FieldTypes ==
  /\ \A v \in InvoiceRow : v.status \in InvoiceStatus /\ v.file \in File \cup {NoFile}
  /\ \A v \in TransmissionRow : /\ v.status \in TransmissionStatus \cup {"NONE"} /\ v.invoice \in Invoices \cup {NoInvoice}
                                /\ v.file \in File \cup {NoFile} /\ v.sent \in BOOLEAN
  /\ \A q \in Request : /\ q.invoice \in Invoices \cup {NoInvoice} /\ q.file \in File \cup {NoFile}
                        /\ q.tid \in Tid \cup {0}
  /\ \A q \in Reader : /\ q.receipt \in Receipt \cup {NoReceipt} /\ q.tid \in Tid \cup {0}
                       /\ q.status \in TransmissionStatus \cup {"NONE"} /\ q.sent \in BOOLEAN
  BY DEF InvoiceRow, TransmissionRow, Request, Reader

\* What a receipt decides is a status of a transmission and of an invoice.
LEMMA TransitionType ==
  ASSUME NEW v, NEW type \in SdiTypes \cup ProviderTypes
  PROVE  Transition(v, type) \in TransmissionStatus \cup {"NONE"}
  <1>1. CASE type \in SdiTypes
    BY <1>1 DEF Transition, sdiReceiptTransition, OutcomeOf, SdiTypes, TransmissionStatus, Outcomes
  <1>2. CASE type \notin SdiTypes
    BY <1>2 DEF Transition, providerReceiptTransition, TransmissionStatus, Awaiting
  <1>3. QED
    BY <1>1, <1>2

LEMMA InvoiceAfterType ==
  ASSUME NEW w \in InvoiceRow, NEW f \in File \cup {NoFile}, NEW v, NEW type \in SdiTypes \cup ProviderTypes
  PROVE  InvoiceAfter(w, f, v, type) \in InvoiceRow
  <1>1. CASE type \in SdiTypes
    <2>1. OutcomeOf[type].invoice \in InvoiceStatus
      BY <1>1 DEF OutcomeOf, SdiTypes, InvoiceStatus
    <2>2. InvoiceAfter(w, f, v, type) = setSdiOutcome(w, f, OutcomeOf[type].invoice)
      BY <1>1 DEF InvoiceAfter, SdiTypes, Failures, Arrivals
    <2>3. QED
      BY <2>1, <2>2, InvoiceRowType
  <1>2. CASE type \in Failures
    <2>1. InvoiceAfter(w, f, v, type) = reopen(w, f)
      BY <1>2 DEF InvoiceAfter, SdiTypes, Failures, Arrivals
    <2>2. QED
      BY <2>1, InvoiceRowType DEF InvoiceStatus
  <1>3. CASE type \in Arrivals
    <2>1. InvoiceAfter(w, f, v, type) \in {w, claimForSending(w, f)}
      BY <1>3 DEF InvoiceAfter, SdiTypes, Failures, Arrivals
    <2>2. QED
      BY <2>1, InvoiceRowType DEF InvoiceStatus
  <1>4. QED
    BY <1>1, <1>2, <1>3 DEF ProviderTypes

-----------------------------------------------------------------------------
\* Every step keeps the rows, requests and readers well typed.
LEMMA TypeStep == BaseInv /\ [Next]_vars => TypeOK'
<1> SUFFICES ASSUME BaseInv, [Next]_vars PROVE TypeOK'
    OBVIOUS
<1> USE IdleTypes, FieldTypes DEF TypeOK, BaseInv
<1>1. ASSUME NEW i \in Invoices, issue(i) PROVE TypeOK'
  <2>1. PICK f \in File : invoice' = [invoice EXCEPT ![i] = [status |-> "ISSUED", file |-> f]]
    BY <1>1 DEF issue
  <2>2. [status |-> "ISSUED", file |-> f] \in InvoiceRow
    BY DEF InvoiceRow, InvoiceStatus
  <2>3. QED
    BY <1>1, <2>1, <2>2 DEF issue
<1>2. ASSUME NEW i \in Invoices, reopenForCorrection(i) PROVE TypeOK'
  <2>1. [status |-> "DRAFT", file |-> NoFile] \in InvoiceRow
    BY DEF InvoiceRow, InvoiceStatus
  <2>2. QED
    BY <1>2, <2>1 DEF reopenForCorrection
<1>3. ASSUME NEW i \in Invoices, SdiAnswerElsewhere(i) PROVE TypeOK'
  <2>1. invoice[i].file \in File
    BY <1>3, SdiAssumption DEF SdiAnswerElsewhere, FilesOK
  <2>2. QED
    BY <1>3, <2>1, SdiAssumption DEF SdiAnswerElsewhere, Receipt
<1>4. ASSUME NEW s \in Senders, NEW i \in Invoices, SendCheck(s, i) PROVE TypeOK'
  <2>1. [pc |-> "checked", invoice |-> i, file |-> invoice[i].file, tid |-> 0] \in Request
    BY DEF Request
  <2>2. QED
    BY <1>4, <2>1 DEF SendCheck
<1>5. ASSUME NEW s \in Senders, SendClaim(s) PROVE TypeOK'
  <2> DEFINE i == request[s].invoice
             f == request[s].file
  <2>1. request[s] \in Request /\ f \in File \cup {NoFile}
    OBVIOUS
  <2>2. i \in Invoices
    BY <1>5 DEF SendClaim, RequestsOK
  <2>3. PICK t \in Tid :
          /\ transmission' = [transmission EXCEPT ![t] =
               [status |-> "PENDING", invoice |-> i, file |-> f, channel |-> "PEC", sent |-> FALSE]]
          /\ request' = [request EXCEPT ![s].pc = "claimed", ![s].tid = t]
    BY <1>5 DEF SendClaim
  <2>4. [status |-> "PENDING", invoice |-> i, file |-> f, channel |-> "PEC", sent |-> FALSE] \in TransmissionRow
    BY <2>1, <2>2, StatusTypes DEF TransmissionRow
  <2>5. invoice' \in [Invoices -> InvoiceRow]
    BY <1>5, <2>1, <2>2, InvoiceRowType DEF SendClaim, InvoiceStatus
  <2>6. [request[s] EXCEPT !.pc = "claimed", !.tid = t] \in Request
    BY <2>1, RequestType
  <2>7. request' \in [Senders -> Request]
    BY <2>3, <2>6
  <2>8. QED
    BY <1>5, <2>3, <2>4, <2>5, <2>7 DEF SendClaim
<1>6. ASSUME NEW s \in Senders, SendConflict(s) PROVE TypeOK'
  BY <1>6 DEF SendConflict
<1>7. ASSUME NEW s \in Senders, Smtp(s) PROVE TypeOK'
  <2>1. request[s].tid \in Tid \cup {0} /\ request[s] \in Request
    OBVIOUS
  <2>2. request' \in [Senders -> Request]
    BY <1>7, <2>1, RequestType DEF Smtp
  <2>3. message' \in [Tid -> MessageState]
    BY <1>7 DEF Smtp, MessageState
  <2>4. QED
    BY <1>7, <2>2, <2>3 DEF Smtp
<1>8. ASSUME NEW s \in Senders, SendFailed(s) PROVE TypeOK'
  <2> DEFINE t == request[s].tid
  <2>1. t \in Tid /\ transmission[t] \in TransmissionRow
    BY <1>8 DEF SendFailed, RequestsOK
  <2>2. CASE transmission[t].status = "PENDING"
    <3>1. [transmission[t] EXCEPT !.status = "ERROR"] \in TransmissionRow
      BY <2>1, StatusTypes, TransmissionRowType
    <3>2. transmission' = [transmission EXCEPT ![t].status = "ERROR"]
          /\ invoice' = [invoice EXCEPT ![transmission[t].invoice] = reopen(@, transmission[t].file)]
      BY <1>8, <2>2 DEF SendFailed
    <3>3. transmission' \in [Tid -> TransmissionRow]
      BY <2>1, <3>1, <3>2
    <3>4. \A i \in Invoices : reopen(invoice[i], transmission[t].file) \in InvoiceRow
      BY <2>1, InvoiceRowType DEF InvoiceStatus
    <3>5. invoice' \in [Invoices -> InvoiceRow]
      BY <3>2, <3>4
    <3>6. QED
      BY <1>8, <3>3, <3>5 DEF SendFailed
  <2>3. CASE transmission[t].status # "PENDING"
    BY <1>8, <2>3 DEF SendFailed
  <2>4. QED
    BY <2>2, <2>3
<1>9. ASSUME NEW s \in Senders, SendLeft(s) PROVE TypeOK'
  <2> DEFINE t == request[s].tid
  <2>1. t \in Tid /\ transmission[t] \in TransmissionRow /\ request[s] \in Request
    BY <1>9 DEF SendLeft, RequestsOK
  <2>2. [transmission[t] EXCEPT !.status = "SENT", !.sent = TRUE] \in TransmissionRow
    BY <2>1, StatusTypes, TransmissionRowType
  <2>3. transmission' \in [Tid -> TransmissionRow]
    BY <1>9, <2>1, <2>2 DEF SendLeft
  <2>4. request' \in [Senders -> Request]
    BY <1>9, <2>1, RequestType DEF SendLeft
  <2>5. QED
    BY <1>9, <2>3, <2>4 DEF SendLeft
<1>10. ASSUME NEW s \in Senders, SendStamp(s) PROVE TypeOK'
  <2> DEFINE t == request[s].tid
  <2>1. t \in Tid /\ transmission[t] \in TransmissionRow
    BY <1>10 DEF SendStamp, RequestsOK
  <2>2. [transmission[t] EXCEPT !.sent = TRUE] \in TransmissionRow
    BY <2>1, StatusTypes, TransmissionRowType
  <2>3. transmission' \in [Tid -> TransmissionRow]
    BY <1>10, <2>1, <2>2 DEF SendStamp
  <2>4. QED
    BY <1>10, <2>3 DEF SendStamp
<1>11. ASSUME NEW s \in Senders, SendStop(s) PROVE TypeOK'
  BY <1>11 DEF SendStop
<1>12. ASSUME NEW t \in Tid, Provider(t) PROVE TypeOK'
  <2>1. message' \in [Tid -> MessageState]
    BY <1>12 DEF Provider, MessageState
  <2>2. QED
    BY <1>12, <2>1 DEF Provider
<1>13. ASSUME NEW t \in Tid, SdiAnswer(t) PROVE TypeOK'
  <2>1. transmission[t].file \in File /\ t \in 0..MaxTransmissions
    BY <1>13, SdiAssumption DEF SdiAnswer, RowsOK, Tid
  <2>2. QED
    BY <1>13, <2>1 DEF SdiAnswer, Receipt
<1>14. ASSUME NEW p \in Syncs, SyncRead(p) PROVE TypeOK'
  <2>1. p \in Readers
    BY DEF Readers
  <2>2. PICK r \in Inbox, t \in Tid :
          /\ reader[p].pc = "idle"
          /\ reader' = [reader EXCEPT ![p] = [pc |-> "matched", receipt |-> r, tid |-> t,
                                              status |-> transmission[t].status, sent |-> transmission[t].sent]]
    BY <1>14 DEF SyncRead
  <2>3. r \in Receipt
    <3>1. CASE r \in verdict
      BY <3>1
    <3>2. ASSUME NEW u \in Tid, r \in ProviderReceipts(u) PROVE r \in Receipt
      <4>1. message[u] # "none"
        BY <3>2 DEF ProviderReceipts
      <4>2. transmission[u].file \in File /\ u \in 0..MaxTransmissions
        BY <4>1, SdiAssumption DEF RowsOK, Tid
      <4>3. QED
        BY <3>2, <4>2 DEF ProviderReceipts, Receipt
    <3>3. r \in verdict \/ \E u \in Tid : r \in ProviderReceipts(u)
      BY DEF Inbox
    <3>4. QED
      BY <3>1, <3>2, <3>3
  <2>4. transmission[t] \in TransmissionRow
    OBVIOUS
  <2>5. [pc |-> "matched", receipt |-> r, tid |-> t, status |-> transmission[t].status, sent |-> transmission[t].sent] \in Reader
    BY <2>3, <2>4, ReaderType
  <2>6. QED
    BY <1>14, <2>1, <2>2, <2>5 DEF SyncRead
<1>15. ASSUME NEW p \in Syncs, Learn(p) PROVE TypeOK'
  BY <1>15 DEF Learn, Readers
<1>16. ASSUME NEW p \in Uploads, UploadMatch(p) PROVE TypeOK'
  <2>1. p \in Readers /\ reader[p] \in Reader
    BY DEF Readers
  <2>2. PICK r \in verdict : reader' = [reader EXCEPT ![p].pc = "decided", ![p].receipt = r]
    BY <1>16 DEF UploadMatch
  <2>3. [reader[p] EXCEPT !.pc = "decided", !.receipt = r] \in Reader
    <3>1. r \in Receipt
      OBVIOUS
    <3>2. QED
      BY <2>1, <3>1 DEF Reader
  <2>4. reader' = [reader EXCEPT ![p] = [reader[p] EXCEPT !.pc = "decided", !.receipt = r]]
    BY <2>1, <2>2
  <2>5. QED
    BY <1>16, <2>1, <2>3, <2>4 DEF UploadMatch
<1>17. ASSUME NEW p \in Uploads, UploadFind(p) PROVE TypeOK'
  <2> DEFINE f == reader[p].receipt.file
  <2>1. p \in Readers /\ reader[p] \in Reader /\ f \in File
    BY <1>17 DEF Readers, UploadFind, ReadersOK, Receipt
  <2>2. \A t \in Tid, st \in TransmissionStatus \cup {"NONE"}, b \in BOOLEAN :
          [reader EXCEPT ![p].pc = "matched", ![p].tid = t, ![p].status = st, ![p].sent = b] \in [Readers -> Reader]
    <3>1. SUFFICES ASSUME NEW t \in Tid, NEW st \in TransmissionStatus \cup {"NONE"}, NEW b \in BOOLEAN
                   PROVE  [reader EXCEPT ![p].pc = "matched", ![p].tid = t, ![p].status = st, ![p].sent = b] \in [Readers -> Reader]
      OBVIOUS
    <3>2. [reader[p] EXCEPT !.pc = "matched", !.tid = t, !.status = st, !.sent = b] \in Reader
      BY <2>1 DEF Reader
    <3>3. QED
      BY <2>1, <3>2
  <2>3. CASE \E t \in Tid : reader' = [reader EXCEPT ![p].pc = "matched", ![p].tid = t,
               ![p].status = transmission[t].status, ![p].sent = transmission[t].sent] /\ UNCHANGED transmission
    <3>1. PICK t \in Tid : reader' = [reader EXCEPT ![p].pc = "matched", ![p].tid = t,
               ![p].status = transmission[t].status, ![p].sent = transmission[t].sent] /\ UNCHANGED transmission
      BY <2>3
    <3>2. transmission[t].status \in TransmissionStatus \cup {"NONE"} /\ transmission[t].sent \in BOOLEAN
      OBVIOUS
    <3>3. reader' \in [Readers -> Reader]
      BY <2>2, <3>1, <3>2
    <3>4. QED
      BY <1>17, <3>1, <3>3 DEF UploadFind
  <2>4. CASE \E t \in Tid, i \in Invoices :
               /\ transmission' = [transmission EXCEPT ![t] =
                    [status |-> "SENT", invoice |-> i, file |-> f, channel |-> "OTHER", sent |-> FALSE]]
               /\ reader' = [reader EXCEPT ![p].pc = "matched", ![p].tid = t, ![p].status = "SENT", ![p].sent = FALSE]
    <3>1. \A i \in Invoices : [status |-> "SENT", invoice |-> i, file |-> f, channel |-> "OTHER", sent |-> FALSE] \in TransmissionRow
      BY <2>1, StatusTypes DEF TransmissionRow
    <3>2. transmission' \in [Tid -> TransmissionRow]
      BY <2>4, <3>1
    <3>3. reader' \in [Readers -> Reader]
      <4>1. "SENT" \in TransmissionStatus \cup {"NONE"} /\ FALSE \in BOOLEAN
        BY StatusTypes
      <4>2. PICK t \in Tid : reader' = [reader EXCEPT ![p].pc = "matched", ![p].tid = t, ![p].status = "SENT", ![p].sent = FALSE]
        BY <2>4
      <4>3. QED
        BY <2>2, <4>1, <4>2
    <3>4. QED
      BY <1>17, <3>2, <3>3 DEF UploadFind
  <2>5. QED
    BY <1>17, <2>3, <2>4 DEF UploadFind
<1>18. ASSUME NEW p \in Readers, Record(p) PROVE TypeOK'
  <2> DEFINE v == reader[p]
             t == reader[p].tid
             w == transmission[t]
  <2>1. /\ v \in Reader /\ t \in Tid /\ w \in TransmissionRow /\ v.receipt \in Receipt
        /\ v.receipt.type \in SdiTypes \cup ProviderTypes /\ w.file \in File \cup {NoFile}
    BY <1>18 DEF Record, ReadersOK, Receipt
  <2>2. recorded' \subseteq Tid \X Receipt
    BY <1>18, <2>1 DEF Record
  <2>3. reader' \in [Readers -> Reader]
    BY <1>18, <2>1, ReaderType DEF Record, AfterRecord
  <2>4. CASE Transition(v, v.receipt.type) = "NONE"
    BY <1>18, <2>2, <2>3, <2>4 DEF Record
  <2>5. CASE Transition(v, v.receipt.type) # "NONE"
    <3>1. Transition(v, v.receipt.type) \in TransmissionStatus
      BY <2>1, <2>5, TransitionType
    <3>2. /\ transmission' = [transmission EXCEPT ![t] = [w EXCEPT !.status = Transition(v, v.receipt.type),
                                !.sent = IF v.receipt.type \in Arrivals THEN TRUE ELSE w.sent]]
          /\ invoice' = [invoice EXCEPT ![w.invoice] = InvoiceAfter(@, w.file, v, v.receipt.type)]
      BY <1>18, <2>1, <2>5 DEF Record
    <3>3. [w EXCEPT !.status = Transition(v, v.receipt.type),
                    !.sent = IF v.receipt.type \in Arrivals THEN TRUE ELSE w.sent] \in TransmissionRow
      BY ZenonT(60), <2>1, <3>1, TransmissionRowType
    <3>4. \A i \in Invoices : InvoiceAfter(invoice[i], w.file, v, v.receipt.type) \in InvoiceRow
      BY <2>1, InvoiceAfterType
    <3>5. QED
      BY <1>18, <2>1, <2>2, <2>3, <3>2, <3>3, <3>4 DEF Record
  <2>6. QED
    BY <2>4, <2>5
<1>19. ASSUME NEW p \in Readers, RecordDuplicate(p) PROVE TypeOK'
  <2>1. reader[p] \in Reader
    OBVIOUS
  <2>2. [reader[p] EXCEPT !.pc = "learn"] \in Reader
    BY <2>1 DEF Reader
  <2>3. QED
    BY <1>19, <2>2 DEF RecordDuplicate, AfterRecord
<1>20. ASSUME NEW p \in Readers, ReaderStop(p) PROVE TypeOK'
  BY <1>20 DEF ReaderStop
<1>21. CASE UNCHANGED vars
  BY <1>21 DEF vars
<1>22. QED
  BY <1>1, <1>2, <1>3, <1>4, <1>5, <1>6, <1>7, <1>8, <1>9, <1>10, <1>11, <1>12, <1>13, <1>14, <1>15, <1>16, <1>17,
     <1>18, <1>19, <1>20, <1>21 DEF Next

-----------------------------------------------------------------------------
(***************************************************************************)
(* Rows, requests and readers stay consistent with each other.             *)
(***************************************************************************)
\* The steps that write a transmission or move a message.
LEMMA RowsTouched ==
  ASSUME [Next]_vars
  PROVE  \/ UNCHANGED <<transmission, message>>
         \/ \E s \in Senders : SendClaim(s) \/ Smtp(s) \/ SendFailed(s) \/ SendLeft(s) \/ SendStamp(s)
         \/ \E t \in Tid : Provider(t)
         \/ \E p \in Uploads : UploadFind(p)
         \/ \E p \in Readers : Record(p)
  BY DEF Next, vars, issue, reopenForCorrection, SdiAnswerElsewhere, SendCheck, SendConflict, SendStop, SdiAnswer,
         SyncRead, Learn, UploadMatch, RecordDuplicate, ReaderStop

\* A row once made keeps its invoice and its file, and a new one has both.
LEMMA RowsStep ==
  ASSUME BaseInv, [Next]_vars
  PROVE  /\ RowsOK'
         /\ \A t \in Tid : Made(t) => /\ Made(t)' /\ transmission'[t].file = transmission[t].file
                                      /\ transmission'[t].invoice = transmission[t].invoice
<1> DEFINE Kept == \A t \in Tid : Made(t) => /\ Made(t)' /\ transmission'[t].file = transmission[t].file
                                              /\ transmission'[t].invoice = transmission[t].invoice
<1> SUFFICES RowsOK' /\ Kept
    OBVIOUS
<1> USE DEF BaseInv, TypeOK
\* Writing the status and the send time of a made row.
<1>0. ASSUME NEW t \in Tid, Made(t), NEW st \in TransmissionStatus, NEW b, UNCHANGED message,
             transmission' = [transmission EXCEPT ![t].status = st, ![t].sent = b]
      PROVE  RowsOK' /\ Kept
  <2>1. transmission[t] \in TransmissionRow /\ st # "NONE"
    BY DEF TransmissionStatus, Awaiting, Outcomes
  <2>2. transmission' = [transmission EXCEPT ![t] = [transmission[t] EXCEPT !.status = st, !.sent = b]]
    BY <1>0
  <2>3. \A u \in Tid : transmission'[u].file = transmission[u].file /\ transmission'[u].invoice = transmission[u].invoice
    BY <2>1, <2>2 DEF TransmissionRow
  <2>4. transmission'[t].status = st /\ \A u \in Tid : u # t => transmission'[u] = transmission[u]
    BY <2>1, <2>2 DEF TransmissionRow
  <2>5. \A u \in Tid : Made(u)' <=> Made(u)
    BY <1>0, <2>1, <2>4 DEF Made
  <2>6. QED
    BY <1>0, <2>3, <2>5 DEF RowsOK
<1>1. CASE UNCHANGED <<transmission, message>>
  BY <1>1 DEF RowsOK, Made
<1>2. ASSUME NEW s \in Senders, SendClaim(s) PROVE RowsOK' /\ Kept
  <2>1. request[s].invoice \in Invoices /\ invoice[request[s].invoice].file = request[s].file
        /\ invoice[request[s].invoice].status = "ISSUED"
    BY <1>2 DEF SendClaim, claimForSending, RequestsOK
  <2>2. request[s].file \in File
    BY <2>1 DEF FilesOK
  <2>3. PICK t \in Tid : /\ ~Made(t)
                         /\ transmission' = [transmission EXCEPT ![t] = [status |-> "PENDING",
                              invoice |-> request[s].invoice, file |-> request[s].file, channel |-> "PEC", sent |-> FALSE]]
    BY <1>2 DEF SendClaim, IsNext
  <2>4. UNCHANGED message
    BY <1>2 DEF SendClaim
  <2>5. QED
    BY <2>1, <2>2, <2>3, <2>4 DEF RowsOK, Made
<1>3. ASSUME NEW s \in Senders, Smtp(s) PROVE RowsOK' /\ Kept
  <2>1. request[s].tid \in Tid /\ Made(request[s].tid)
    BY <1>3 DEF Smtp, RequestsOK
  <2>2. UNCHANGED transmission /\ \A t \in Tid : t # request[s].tid => message'[t] = message[t]
    BY <1>3 DEF Smtp
  <2>3. QED
    BY <2>1, <2>2 DEF RowsOK, Made
<1>4. ASSUME NEW s \in Senders, SendFailed(s) PROVE RowsOK' /\ Kept
  <2> DEFINE t == request[s].tid
  <2>1. t \in Tid /\ Made(t) /\ UNCHANGED message
    BY <1>4 DEF SendFailed, RequestsOK
  <2>2. CASE UNCHANGED transmission
    BY <2>1, <2>2, <1>1
  <2>3. CASE transmission' = [transmission EXCEPT ![t].status = "ERROR"]
    <3>1. transmission' = [transmission EXCEPT ![t].status = "ERROR", ![t].sent = transmission[t].sent]
      BY <2>1, <2>3 DEF TransmissionRow
    <3>2. QED
      BY <1>0, <2>1, <3>1, StatusTypes
  <2>4. QED
    BY <1>4, <2>2, <2>3 DEF SendFailed
<1>5. ASSUME NEW s \in Senders, SendLeft(s) PROVE RowsOK' /\ Kept
  <2> DEFINE t == request[s].tid
  <2>1. t \in Tid /\ Made(t) /\ UNCHANGED message
    BY <1>5 DEF SendLeft, RequestsOK
  <2>2. CASE UNCHANGED transmission
    BY <2>1, <2>2, <1>1
  <2>3. CASE transmission' = [transmission EXCEPT ![t].status = "SENT", ![t].sent = TRUE]
    BY <1>0, <2>1, <2>3, StatusTypes
  <2>4. QED
    BY <1>5, <2>2, <2>3 DEF SendLeft
<1>6. ASSUME NEW s \in Senders, SendStamp(s) PROVE RowsOK' /\ Kept
  <2> DEFINE t == request[s].tid
  <2>1. t \in Tid /\ Made(t) /\ UNCHANGED message /\ transmission' = [transmission EXCEPT ![t].sent = TRUE]
    BY <1>6 DEF SendStamp, RequestsOK
  <2>2. transmission' = [transmission EXCEPT ![t].status = transmission[t].status, ![t].sent = TRUE]
    BY <2>1 DEF TransmissionRow
  <2>3. transmission[t].status \in TransmissionStatus
    BY <2>1, FieldTypes DEF Made
  <2>4. QED
    BY <1>0, <2>1, <2>2, <2>3
<1>7. ASSUME NEW t \in Tid, Provider(t) PROVE RowsOK' /\ Kept
  <2>1. UNCHANGED transmission /\ message[t] # "none" /\ \A u \in Tid : u # t => message'[u] = message[u]
    BY <1>7 DEF Provider
  <2>2. QED
    BY <2>1 DEF RowsOK, Made
<1>8. ASSUME NEW p \in Uploads, UploadFind(p) PROVE RowsOK' /\ Kept
  <2> DEFINE f == reader[p].receipt.file
  <2>1. UNCHANGED message /\ f \in File
    BY <1>8 DEF UploadFind, ReadersOK, Receipt, Readers
  <2>2. CASE UNCHANGED transmission
    BY <2>1, <2>2, <1>1
  <2>3. CASE \E t \in Tid, i \in Invoices : ~Made(t) /\ transmission' = [transmission EXCEPT ![t] =
               [status |-> "SENT", invoice |-> i, file |-> f, channel |-> "OTHER", sent |-> FALSE]]
    BY <2>1, <2>3 DEF RowsOK, Made
  <2>4. QED
    BY <1>8, <2>2, <2>3 DEF UploadFind, IsNext
<1>9. ASSUME NEW p \in Readers, Record(p) PROVE RowsOK' /\ Kept
  <2> DEFINE v == reader[p]
             t == reader[p].tid
             next == Transition(v, v.receipt.type)
  <2>1. t \in Tid /\ Made(t) /\ UNCHANGED message /\ v.receipt.type \in SdiTypes \cup ProviderTypes
    BY <1>9 DEF Record, ReadersOK, Receipt
  <2>2. CASE UNCHANGED transmission
    BY <2>1, <2>2, <1>1
  <2>3. CASE /\ next # "NONE"
             /\ transmission' = [transmission EXCEPT ![t].status = next,
                                   ![t].sent = IF v.receipt.type \in Arrivals THEN TRUE ELSE @]
    <3>1. next \in TransmissionStatus
      BY <2>1, <2>3, TransitionType
    <3>2. transmission' = [transmission EXCEPT ![t].status = next,
                             ![t].sent = IF v.receipt.type \in Arrivals THEN TRUE ELSE transmission[t].sent]
      BY <2>1, <2>3 DEF TransmissionRow
    <3>3. QED
      BY <1>0, <2>1, <3>1, <3>2
  <2>4. QED
    BY <1>9, <2>2, <2>3 DEF Record
<1>10. QED
  BY <1>1, <1>2, <1>3, <1>4, <1>5, <1>6, <1>7, <1>8, <1>9, RowsTouched

\* A request in progress holds a row of its own, whose message has not moved before smtp.send.
LEMMA RequestsStep ==
  ASSUME BaseInv, [Next]_vars
  PROVE  RequestsOK'
<1> USE DEF BaseInv, TypeOK
<1>0. \A t \in Tid : Made(t) => Made(t)'
  BY RowsStep
\* A request that ends takes nothing from the others.
<1>1. ASSUME NEW s \in Senders, request' = [request EXCEPT ![s] = IdleRequest], UNCHANGED message
      PROVE  RequestsOK'
  <2>1. request'[s].pc = "idle" /\ \A r \in Senders : r # s => request'[r] = request[r]
    BY <1>1 DEF IdleRequest
  <2>2. QED
    BY <1>0, <1>1, <2>1 DEF RequestsOK
<1>2. CASE UNCHANGED <<request, message>>
  BY <1>0, <1>2 DEF RequestsOK
<1>3. ASSUME NEW s \in Senders, NEW i \in Invoices, SendCheck(s, i) PROVE RequestsOK'
  <2>1. /\ request'[s].pc = "checked" /\ request'[s].invoice = i
        /\ \A r \in Senders : r # s => request'[r] = request[r]
    BY <1>3 DEF SendCheck
  <2>2. UNCHANGED message
    BY <1>3 DEF SendCheck
  <2>3. QED
    BY <1>0, <2>1, <2>2 DEF RequestsOK
<1>4. ASSUME NEW s \in Senders, SendClaim(s) PROVE RequestsOK'
  <2>1. PICK t \in Tid : /\ ~Made(t)
                         /\ transmission' = [transmission EXCEPT ![t] = [status |-> "PENDING",
                              invoice |-> request[s].invoice, file |-> request[s].file, channel |-> "PEC", sent |-> FALSE]]
                         /\ request' = [request EXCEPT ![s].pc = "claimed", ![s].tid = t]
    BY <1>4 DEF SendClaim, IsNext
  <2>2. request' = [request EXCEPT ![s] = [request[s] EXCEPT !.pc = "claimed", !.tid = t]]
    BY <2>1
  <2>3. /\ request'[s].pc = "claimed" /\ request'[s].tid = t
        /\ \A r \in Senders : r # s => request'[r] = request[r]
    BY <2>2 DEF Request
  <2>4. Made(t)'
    BY <2>1 DEF Made
  <2>5. message[t] = "none" /\ UNCHANGED message
    BY <1>4, <2>1 DEF SendClaim, RowsOK
  <2>6. \A r \in Senders : request[r].pc \in {"claimed", "failed", "left", "sent"} => request[r].tid # t
    BY <2>1 DEF RequestsOK
  <2>7. QED
    BY <1>0, <2>3, <2>4, <2>5, <2>6 DEF RequestsOK
<1>5. ASSUME NEW s \in Senders, Smtp(s) PROVE RequestsOK'
  <2> DEFINE t == request[s].tid
  <2>1. request[s].pc = "claimed" /\ t \in Tid /\ Made(t) /\ message[t] = "none"
    BY <1>5 DEF Smtp, RequestsOK
  <2>2. PICK pc \in {"left", "failed"} : request' = [request EXCEPT ![s].pc = pc]
    BY <1>5 DEF Smtp
  <2>3. /\ request'[s].pc = pc /\ request'[s].tid = t
        /\ \A r \in Senders : r # s => request'[r] = request[r]
    BY <2>2 DEF Request
  <2>4. pc = "failed" => SmtpAmbiguous \/ message'[t] = "none"
    <3>1. request'[s].pc = "left" \/ SmtpAmbiguous \/ UNCHANGED message
      BY <1>5, <2>2 DEF Smtp, Request
    <3>2. QED
      BY <2>1, <2>3, <3>1
  <2>5. \A u \in Tid : u # t => message'[u] = message[u]
    BY <1>5 DEF Smtp
  <2>6. \A r \in Senders : r # s /\ request[r].pc \in {"claimed", "failed"} => request[r].tid # t
    BY <2>1 DEF RequestsOK
  <2>7. QED
    BY <1>0, <2>1, <2>2, <2>3, <2>4, <2>5, <2>6 DEF RequestsOK
<1>6. ASSUME NEW s \in Senders, SendLeft(s) PROVE RequestsOK'
  <2>1. request' = [request EXCEPT ![s].pc = "sent"] /\ request[s].pc = "left" /\ UNCHANGED message
    BY <1>6 DEF SendLeft
  <2>2. /\ request'[s].pc = "sent" /\ request'[s].tid = request[s].tid
        /\ \A r \in Senders : r # s => request'[r] = request[r]
    BY <2>1 DEF Request
  <2>3. QED
    BY <1>0, <2>1, <2>2 DEF RequestsOK
<1>7. ASSUME NEW t \in Tid, Provider(t) PROVE RequestsOK'
  <2>1. UNCHANGED request /\ message[t] # "none" /\ \A u \in Tid : u # t => message'[u] = message[u]
    BY <1>7 DEF Provider
  <2>2. QED
    BY <1>0, <2>1 DEF RequestsOK
<1>8. ASSUME NEW s \in Senders, SendConflict(s) \/ SendFailed(s) \/ SendStamp(s) \/ SendStop(s) PROVE RequestsOK'
  BY <1>1, <1>8 DEF SendConflict, SendFailed, SendStamp, SendStop
<1>9. ASSUME NEW i \in Invoices, issue(i) \/ reopenForCorrection(i) \/ SdiAnswerElsewhere(i) PROVE RequestsOK'
  BY <1>2, <1>9 DEF issue, reopenForCorrection, SdiAnswerElsewhere
<1>10. ASSUME NEW t \in Tid, SdiAnswer(t) PROVE RequestsOK'
  BY <1>2, <1>10 DEF SdiAnswer
<1>11. ASSUME NEW p \in Readers, SyncRead(p) \/ Learn(p) \/ UploadMatch(p) \/ UploadFind(p) \/ Record(p)
                                 \/ RecordDuplicate(p) \/ ReaderStop(p) PROVE RequestsOK'
  BY <1>2, <1>11 DEF SyncRead, Learn, UploadMatch, UploadFind, Record, RecordDuplicate, ReaderStop
<1>12. CASE UNCHANGED vars
  BY <1>2, <1>12 DEF vars
<1>13. QED
  BY <1>3, <1>4, <1>5, <1>6, <1>7, <1>8, <1>9, <1>10, <1>11, <1>12 DEF Next, Readers

\* A message refused or bounced stays so.
LEMMA MessagesStep ==
  ASSUME BaseInv, [Next]_vars
  PROVE  \A t \in Tid : message[t] \in {"refused", "bounced"} => message'[t] = message[t]
<1> USE DEF BaseInv, TypeOK
<1>1. ASSUME NEW s \in Senders, Smtp(s) PROVE \A t \in Tid : message[t] # "none" => message'[t] = message[t]
  BY <1>1 DEF Smtp, RequestsOK
<1>2. ASSUME NEW u \in Tid, Provider(u)
      PROVE  \A t \in Tid : message[t] \in {"refused", "bounced"} => message'[t] = message[t]
  BY <1>2 DEF Provider
<1>3. CASE UNCHANGED message
  BY <1>3
<1>4. \/ UNCHANGED message
      \/ \E s \in Senders : Smtp(s)
      \/ \E u \in Tid : Provider(u)
  BY DEF Next, vars, issue, reopenForCorrection, SdiAnswerElsewhere, SendCheck, SendClaim, SendConflict, SendFailed,
         SendLeft, SendStamp, SendStop, SdiAnswer, SyncRead, Learn, UploadMatch, UploadFind, Record, RecordDuplicate, ReaderStop
<1>5. QED
  BY <1>1, <1>2, <1>3, <1>4

\* A status change asked by a transmission touches no other file, never makes a draft, and reopens only on a failure.
LEMMA InvoiceAfterFrame ==
  ASSUME NEW w \in InvoiceRow, NEW f \in File, NEW v, NEW type \in SdiTypes \cup ProviderTypes
  PROVE  LET x == InvoiceAfter(w, f, v, type) IN
         /\ x.file = w.file
         /\ x = w \/ (x.file = f /\ x.status # "DRAFT")
         /\ x.status = "ISSUED" => x = w \/ (type \in Failures /\ w.file = f)
<1> USE DEF InvoiceRow
<1>1. CASE type \in SdiTypes
  <2>1. InvoiceAfter(w, f, v, type) = setSdiOutcome(w, f, OutcomeOf[type].invoice)
    BY <1>1 DEF InvoiceAfter, SdiTypes, Failures, Arrivals
  <2>2. OutcomeOf[type].invoice \in {"DELIVERED", "NOT_DELIVERED", "REJECTED"}
    BY <1>1 DEF OutcomeOf, SdiTypes
  <2>3. QED
    BY <2>1, <2>2 DEF setSdiOutcome
<1>2. CASE type \in Failures
  <2>1. InvoiceAfter(w, f, v, type) = reopen(w, f)
    BY <1>2 DEF InvoiceAfter, SdiTypes, Failures, Arrivals
  <2>2. QED
    BY <1>2, <2>1 DEF reopen
<1>3. CASE type \in Arrivals
  <2>1. InvoiceAfter(w, f, v, type) \in {w, claimForSending(w, f)}
    BY <1>3 DEF InvoiceAfter, SdiTypes, Failures, Arrivals
  <2>2. QED
    BY <2>1 DEF claimForSending
<1>4. QED
  BY <1>1, <1>2, <1>3 DEF ProviderTypes

\* The steps that write an invoice.
LEMMA InvoicesTouched ==
  ASSUME [Next]_vars
  PROVE  \/ UNCHANGED invoice
         \/ \E i \in Invoices : issue(i) \/ reopenForCorrection(i)
         \/ \E s \in Senders : SendClaim(s) \/ SendFailed(s)
         \/ \E p \in Readers : Record(p)
  BY DEF Next, vars, SdiAnswerElsewhere, SendCheck, SendConflict, Smtp, SendLeft, SendStamp, SendStop, Provider,
         SdiAnswer, SyncRead, Learn, UploadMatch, UploadFind, RecordDuplicate, ReaderStop

\* What a recorded receipt writes: the transmission and the invoice are those of the row, and its file is theirs.
LEMMA RecordEffect ==
  ASSUME BaseInv, NEW p \in Readers, Record(p)
  PROVE  LET t == reader[p].tid
             type == reader[p].receipt.type
             i == transmission[t].invoice
         IN /\ t \in Tid /\ Made(t) /\ i \in Invoices /\ transmission[t].file \in File
            /\ type \in SdiTypes \cup ProviderTypes
            /\ \/ UNCHANGED invoice
               \/ invoice' = [invoice EXCEPT ![i] = InvoiceAfter(invoice[i], transmission[t].file, reader[p], type)]
  BY DEF Record, BaseInv, TypeOK, ReadersOK, RowsOK, Receipt

LEMMA FilesStep ==
  ASSUME BaseInv, [Next]_vars
  PROVE  FilesOK'
<1> USE DEF BaseInv, TypeOK
\* Changes of status that leave the files alone and make no draft.
<1>0. ASSUME \A i \in Invoices : /\ invoice'[i].file = invoice[i].file
                                 /\ invoice'[i] = invoice[i] \/ (invoice'[i].status # "DRAFT" /\ invoice[i].file \in File)
      PROVE  FilesOK'
  BY <1>0, SdiAssumption DEF FilesOK
<1>1. ASSUME NEW i \in Invoices, issue(i) PROVE FilesOK'
  <2>1. PICK f \in File : /\ invoice' = [invoice EXCEPT ![i] = [status |-> "ISSUED", file |-> f]]
                          /\ \A g \in UsedFiles : g < f
    BY <1>1 DEF issue
  <2>2. \A j \in Invoices : invoice[j].file # f
    <3>1. \A j \in Invoices : invoice[j].file \in UsedFiles
      BY DEF UsedFiles
    <3>2. ~ (f < f)
      BY SdiAssumption DEF File
    <3>3. QED
      BY <2>1, <3>1, <3>2
  <2>3. /\ invoice'[i].status = "ISSUED" /\ invoice'[i].file = f
        /\ \A j \in Invoices : j # i => invoice'[j] = invoice[j]
    BY <2>1
  <2>4. QED
    BY <2>2, <2>3, SdiAssumption DEF FilesOK
<1>2. ASSUME NEW i \in Invoices, reopenForCorrection(i) PROVE FilesOK'
  <2>1. /\ i \notin Imported /\ invoice'[i].status = "DRAFT" /\ invoice'[i].file = NoFile
        /\ \A j \in Invoices : j # i => invoice'[j] = invoice[j]
    BY <1>2 DEF reopenForCorrection
  <2>2. NoFile \notin File
    BY SdiAssumption DEF File, NoFile
  <2>3. QED
    BY <2>1, <2>2, SdiAssumption DEF FilesOK
<1>3. ASSUME NEW s \in Senders, SendClaim(s) PROVE FilesOK'
  <2> DEFINE i == request[s].invoice
  <2>1. i \in Invoices /\ invoice' = [invoice EXCEPT ![i] = claimForSending(invoice[i], request[s].file)]
    BY <1>3 DEF SendClaim, RequestsOK
  <2>2. /\ claimForSending(invoice[i], request[s].file).file = invoice[i].file
        /\ \/ claimForSending(invoice[i], request[s].file) = invoice[i]
           \/ invoice[i].status = "ISSUED" /\ claimForSending(invoice[i], request[s].file).status = "SENT"
    BY <2>1 DEF claimForSending, InvoiceRow
  <2>3. QED
    BY <1>0, <2>1, <2>2 DEF FilesOK
<1>4. ASSUME NEW s \in Senders, SendFailed(s) PROVE FilesOK'
  <2> DEFINE v == transmission[request[s].tid]
  <2>1. \/ UNCHANGED invoice
        \/ invoice' = [invoice EXCEPT ![v.invoice] = reopen(invoice[v.invoice], v.file)]
    BY <1>4 DEF SendFailed
  <2>2. \A i \in Invoices : /\ reopen(invoice[i], v.file).file = invoice[i].file
                            /\ \/ reopen(invoice[i], v.file) = invoice[i]
                               \/ invoice[i].status = "SENT" /\ reopen(invoice[i], v.file).status = "ISSUED"
    BY DEF reopen, InvoiceRow
  <2>3. QED
    BY <1>0, <2>1, <2>2 DEF FilesOK
<1>5. ASSUME NEW p \in Readers, Record(p) PROVE FilesOK'
  <2> DEFINE t == reader[p].tid
             i == transmission[t].invoice
             x == InvoiceAfter(invoice[i], transmission[t].file, reader[p], reader[p].receipt.type)
  <2>1. i \in Invoices /\ transmission[t].file \in File /\ (UNCHANGED invoice \/ invoice' = [invoice EXCEPT ![i] = x])
    BY <1>5, RecordEffect
  <2>2. reader[p].receipt.type \in SdiTypes \cup ProviderTypes /\ invoice[i] \in InvoiceRow
    BY <1>5, <2>1, RecordEffect
  <2>3. x.file = invoice[i].file /\ (x = invoice[i] \/ (x.file \in File /\ x.status # "DRAFT"))
    BY <2>1, <2>2, InvoiceAfterFrame
  <2> HIDE DEF x
  <2>4. QED
    BY <1>0, <2>1, <2>3
<1>6. CASE UNCHANGED invoice
  BY <1>0, <1>6
<1>7. QED
  BY <1>1, <1>2, <1>3, <1>4, <1>5, <1>6, InvoicesTouched

\* A reader that holds a failure holds the one of its own transmission.
LEMMA ReadersStep ==
  ASSUME BaseInv, [Next]_vars
  PROVE  ReadersOK'
<1> USE DEF BaseInv, TypeOK
<1> DEFINE Held(p) ==
      /\ reader[p].pc # "idle" => reader[p].receipt \in Receipt
      /\ reader[p].pc = "matched" => reader[p].tid \in Tid /\ Made(reader[p].tid)
      /\ reader[p].pc = "decided" => reader[p].receipt.type \in SdiTypes
      /\ reader[p].pc = "matched" /\ reader[p].receipt.type \in Failures =>
           /\ reader[p].receipt = FailureOf(reader[p].tid, reader[p].receipt.type)
           /\ \/ reader[p].receipt.type = "non-accettazione" /\ message[reader[p].tid] = "refused"
              \/ reader[p].receipt.type = "errore-consegna"  /\ message[reader[p].tid] = "bounced"
<1>0. SUFFICES (\A p \in Readers : Held(p)') /\ (\A v \in verdict' : v.type \in SdiTypes)
  BY DEF ReadersOK
<1>1. \A p \in Readers : Held(p)
  BY DEF ReadersOK
\* A reader that does not move keeps what it holds.
<1>2. ASSUME NEW p \in Readers, reader'[p] = reader[p] PROVE Held(p)'
  <2>1. CASE reader[p].pc = "matched"
    <3>1. PICK t \in Tid : t = reader[p].tid /\ Made(t)
      BY <1>1, <2>1
    <3>2. Made(t)' /\ transmission'[t].file = transmission[t].file
      BY <3>1, RowsStep
    <3>3. message[t] \in {"refused", "bounced"} => message'[t] = message[t]
      BY MessagesStep
    <3>4. QED
      BY <1>1, <1>2, <2>1, <3>1, <3>2, <3>3 DEF FailureOf
  <2>2. CASE reader[p].pc # "matched"
    BY <1>1, <1>2, <2>2
  <2>3. QED
    BY <2>1, <2>2
<1>3. \A v \in verdict' : v.type \in SdiTypes
  <2>1. ASSUME NEW i \in Invoices, SdiAnswerElsewhere(i) PROVE \A v \in verdict' : v.type \in SdiTypes
    BY <2>1 DEF SdiAnswerElsewhere, ReadersOK
  <2>2. ASSUME NEW t \in Tid, SdiAnswer(t) PROVE \A v \in verdict' : v.type \in SdiTypes
    BY <2>2 DEF SdiAnswer, ReadersOK
  <2>3. CASE UNCHANGED verdict
    BY <2>3 DEF ReadersOK
  <2>4. \/ UNCHANGED verdict
        \/ \E i \in Invoices : SdiAnswerElsewhere(i)
        \/ \E t \in Tid : SdiAnswer(t)
    BY DEF Next, vars, issue, reopenForCorrection, SendCheck, SendClaim, SendConflict, Smtp, SendFailed, SendLeft,
           SendStamp, SendStop, Provider, SyncRead, Learn, UploadMatch, UploadFind, Record, RecordDuplicate, ReaderStop
  <2>5. QED
    BY <2>1, <2>2, <2>3, <2>4
<1>4. ASSUME NEW p \in Readers, Held(p)', \A q \in Readers : q # p => reader'[q] = reader[q]
      PROVE  \A q \in Readers : Held(q)'
  BY <1>2, <1>4
<1>5. ASSUME NEW p \in Syncs, SyncRead(p) PROVE \A q \in Readers : Held(q)'
  <2>1. PICK r \in Inbox, t \in Tid :
          /\ Matches(t, r)
          /\ reader' = [reader EXCEPT ![p] = [pc |-> "matched", receipt |-> r, tid |-> t,
                                              status |-> transmission[t].status, sent |-> transmission[t].sent]]
    BY <1>5 DEF SyncRead
  <2>2. p \in Readers /\ UNCHANGED <<transmission, message>>
    BY <1>5 DEF SyncRead, Readers
  <2>3. reader'[p].pc = "matched" /\ reader'[p].receipt = r /\ reader'[p].tid = t
        /\ \A q \in Readers : q # p => reader'[q] = reader[q]
    BY <2>1, <2>2
  <2>4. CASE r \in verdict
    <3>1. r \in Receipt /\ r.type \in SdiTypes
      BY <2>4 DEF ReadersOK
    <3>2. r.type \notin ProviderTypes
      BY <3>1 DEF SdiTypes, ProviderTypes, Arrivals, Failures
    <3>3. Made(t)
      BY <2>1, <3>2 DEF Matches, IsNewest, OfFile
    <3>4. Made(t)'
      BY <2>2, <3>3 DEF Made
    <3>5. Held(p)'
      BY <2>3, <3>1, <3>2, <3>4 DEF ProviderTypes
    <3>6. QED
      BY <1>4, <2>2, <2>3, <3>5
  <2>5. ASSUME NEW u \in Tid, r \in ProviderReceipts(u) PROVE \A q \in Readers : Held(q)'
    <3>1. /\ r.type \in ProviderTypes /\ r.of = u /\ r.file = transmission[u].file
          /\ r = [type |-> r.type, of |-> u, file |-> transmission[u].file] /\ message[u] # "none"
          /\ r.type = "non-accettazione" => message[u] = "refused"
          /\ r.type = "errore-consegna" => message[u] = "bounced"
      BY <2>5 DEF ProviderReceipts
    <3>2. t = u /\ Made(u) /\ transmission[u].file \in File /\ u \in 0..MaxTransmissions
      BY <2>1, <3>1, SdiAssumption DEF Matches, RowsOK, Tid
    <3>3. Made(u)'
      BY <2>2, <3>2 DEF Made
    <3>4. r \in Receipt /\ r = FailureOf(u, r.type)'
      BY <2>2, <3>1, <3>2 DEF Receipt, FailureOf
    <3>5. r.type \in Failures => \/ r.type = "non-accettazione" /\ message'[u] = "refused"
                                 \/ r.type = "errore-consegna" /\ message'[u] = "bounced"
      BY <2>2, <3>1 DEF Failures
    <3>6. Held(p)'
      BY <2>3, <3>2, <3>3, <3>4, <3>5
    <3>7. QED
      BY <1>4, <2>2, <2>3, <3>6
  <2>6. r \in verdict \/ \E u \in Tid : r \in ProviderReceipts(u)
    BY DEF Inbox
  <2>7. QED
    BY <2>4, <2>5, <2>6
<1>6. ASSUME NEW p \in Uploads, UploadMatch(p) PROVE \A q \in Readers : Held(q)'
  <2>1. PICK r \in verdict : reader' = [reader EXCEPT ![p].pc = "decided", ![p].receipt = r]
    BY <1>6 DEF UploadMatch
  <2>2. p \in Readers /\ reader[p] \in Reader
    BY DEF Readers
  <2>3. reader' = [reader EXCEPT ![p] = [reader[p] EXCEPT !.pc = "decided", !.receipt = r]]
    BY <2>1, <2>2
  <2>4. reader'[p].pc = "decided" /\ reader'[p].receipt = r /\ \A q \in Readers : q # p => reader'[q] = reader[q]
    BY <2>2, <2>3 DEF Reader
  <2>5. r \in Receipt /\ r.type \in SdiTypes
    BY DEF ReadersOK
  <2>6. QED
    BY <1>4, <2>2, <2>4, <2>5
<1>7. ASSUME NEW p \in Uploads, UploadFind(p) PROVE \A q \in Readers : Held(q)'
  <2> DEFINE r == reader[p].receipt
  <2>1. p \in Readers /\ reader[p] \in Reader /\ r \in Receipt /\ r.type \in SdiTypes
    BY <1>7 DEF UploadFind, ReadersOK, Readers
  <2>2. PICK t \in Tid, st \in TransmissionStatus \cup {"NONE"}, b \in BOOLEAN :
          reader' = [reader EXCEPT ![p].pc = "matched", ![p].tid = t, ![p].status = st, ![p].sent = b] /\ Made(t)'
    <3>1. CASE \E t \in Tid : /\ IsNewest(t, r.file)
                              /\ reader' = [reader EXCEPT ![p].pc = "matched", ![p].tid = t,
                                   ![p].status = transmission[t].status, ![p].sent = transmission[t].sent]
                              /\ UNCHANGED transmission
      <4>1. \A t \in Tid : transmission[t].status \in TransmissionStatus \cup {"NONE"} /\ transmission[t].sent \in BOOLEAN
        BY FieldTypes
      <4>2. QED
        BY <3>1, <4>1 DEF IsNewest, OfFile, Made
    <3>2. CASE \E t \in Tid, i \in Invoices :
                 /\ transmission' = [transmission EXCEPT ![t] =
                      [status |-> "SENT", invoice |-> i, file |-> r.file, channel |-> "OTHER", sent |-> FALSE]]
                 /\ reader' = [reader EXCEPT ![p].pc = "matched", ![p].tid = t, ![p].status = "SENT", ![p].sent = FALSE]
      <4>1. "SENT" \in TransmissionStatus \cup {"NONE"} /\ FALSE \in BOOLEAN
        BY StatusTypes
      <4>2. QED
        <5>1. PICK t \in Tid, i \in Invoices :
                 /\ transmission' = [transmission EXCEPT ![t] =
                      [status |-> "SENT", invoice |-> i, file |-> r.file, channel |-> "OTHER", sent |-> FALSE]]
                 /\ reader' = [reader EXCEPT ![p].pc = "matched", ![p].tid = t, ![p].status = "SENT", ![p].sent = FALSE]
          BY <3>2
        <5>2. Made(t)'
          BY <5>1 DEF Made
        <5>3. QED
          BY <4>1, <5>1, <5>2
    <3>3. QED
      BY <1>7, <3>1, <3>2 DEF UploadFind
  <2>3. reader' = [reader EXCEPT ![p] = [reader[p] EXCEPT !.pc = "matched", !.tid = t, !.status = st, !.sent = b]]
    BY <2>1, <2>2
  <2>4. reader'[p].pc = "matched" /\ reader'[p].receipt = r /\ reader'[p].tid = t
        /\ \A q \in Readers : q # p => reader'[q] = reader[q]
    BY <2>1, <2>3 DEF Reader
  <2>5. r.type \notin Failures
    BY <2>1 DEF SdiTypes, Failures
  <2>6. Held(p)'
    BY <2>1, <2>2, <2>4, <2>5
  <2>7. QED
    BY <1>4, <2>1, <2>4, <2>6
<1>8. ASSUME NEW p \in Readers, Record(p) \/ RecordDuplicate(p) \/ Learn(p) \/ ReaderStop(p)
      PROVE  \A q \in Readers : Held(q)'
  <2>1. \/ reader' = [reader EXCEPT ![p] = IdleReader]
        \/ reader' = [reader EXCEPT ![p].pc = "learn"] /\ reader[p].pc = "matched"
    BY <1>8 DEF Record, RecordDuplicate, Learn, ReaderStop, AfterRecord
  <2>2. CASE reader' = [reader EXCEPT ![p] = IdleReader]
    <3>1. reader'[p].pc = "idle" /\ \A q \in Readers : q # p => reader'[q] = reader[q]
      BY <2>2 DEF IdleReader
    <3>2. QED
      BY <1>4, <3>1
  <2>3. CASE reader' = [reader EXCEPT ![p].pc = "learn"] /\ reader[p].pc = "matched"
    <3>1. /\ reader'[p].pc = "learn" /\ reader'[p].receipt = reader[p].receipt
          /\ \A q \in Readers : q # p => reader'[q] = reader[q]
      BY <2>3 DEF Reader
    <3>2. QED
      BY <1>1, <1>4, <2>3, <3>1
  <2>4. QED
    BY <2>1, <2>2, <2>3
<1>9. CASE UNCHANGED reader
  BY <1>2, <1>3, <1>9
<1>10. \/ UNCHANGED reader
       \/ \E p \in Syncs : SyncRead(p)
       \/ \E p \in Uploads : UploadMatch(p) \/ UploadFind(p)
       \/ \E p \in Readers : Record(p) \/ RecordDuplicate(p) \/ Learn(p) \/ ReaderStop(p)
  BY DEF Next, vars, Readers, issue, reopenForCorrection, SdiAnswerElsewhere, SendCheck, SendClaim, SendConflict, Smtp,
         SendFailed, SendLeft, SendStamp, SendStop, Provider, SdiAnswer
<1>11. QED
  BY <1>3, <1>5, <1>6, <1>7, <1>8, <1>9, <1>10

-----------------------------------------------------------------------------
LEMMA BaseInit == Init => BaseInv
<1> SUFFICES ASSUME Init PROVE BaseInv
    OBVIOUS
<1>1. PICK names \in Bijection(Imported, 1..Cardinality(Imported)) :
        invoice = [i \in Invoices |-> IF i \in Imported THEN [status |-> "ISSUED", file |-> names[i]]
                                                        ELSE [status |-> "DRAFT", file |-> NoFile]]
  BY DEF Init
<1>2. Cardinality(Imported) \in Nat
  BY SdiAssumption, FS_CardinalityType
<1>3. \A i \in Imported : names[i] \in File
  BY <1>2, SdiAssumption DEF Bijection, Injection, Surjection, File
<1>4. \A i, j \in Imported : names[i] = names[j] => i = j
  BY DEF Bijection, Injection, IsInjective
<1>5. NoFile \notin File
  BY SdiAssumption DEF File, NoFile
<1>6. FilesOK
  BY <1>1, <1>3, <1>4, <1>5, SdiAssumption DEF FilesOK
<1>7. invoice \in [Invoices -> InvoiceRow]
  BY <1>1, <1>3 DEF InvoiceRow, InvoiceStatus
<1>8. TypeOK
  BY <1>7, IdleTypes, SdiAssumption DEF Init, TypeOK, MessageState
<1>9. RowsOK /\ RequestsOK /\ ReadersOK
  BY DEF Init, RowsOK, RequestsOK, ReadersOK, Made, NoTransmission, IdleRequest, IdleReader
<1>10. QED
  BY <1>6, <1>8, <1>9 DEF BaseInv

LEMMA BaseStep == BaseInv /\ [Next]_vars => BaseInv'
  BY TypeStep, FilesStep, RowsStep, RequestsStep, ReadersStep DEF BaseInv

\* Every reachable state has well-typed rows, requests and readers, however many requests and readers run and wherever
\* they stop (sdi-transmissions.service.ts, sdi-receipts.service.ts).
THEOREM TypeCorrect == Spec => []TypeOK
<1>1. BaseInv => TypeOK
  BY DEF BaseInv
<1>2. QED
  BY <1>1, BaseInit, BaseStep, PTL DEF Spec

-----------------------------------------------------------------------------
(***************************************************************************)
(* How transmissions open: only a claim opens one, and a message that      *)
(* moves belongs to an open one.                                           *)
(***************************************************************************)
LEMMA OpenIsMade ==
  ASSUME BaseInv, NEW t \in Tid, Open(t)
  PROVE  Made(t)
  BY DEF BaseInv, RowsOK, RequestsOK, Open, Unsent, Unreported

LEMMA MovedWasOpen ==
  ASSUME BaseInv, [Next]_vars, NEW t \in Tid, message'[t] # message[t]
  PROVE  Open(t)
<1> USE DEF BaseInv, TypeOK
<1>1. ASSUME NEW s \in Senders, Smtp(s) PROVE Open(t)
  BY <1>1 DEF Smtp, RequestsOK, Open, Unsent
<1>2. ASSUME NEW u \in Tid, Provider(u) PROVE Open(t)
  BY <1>2 DEF Provider, Open
<1>3. (\E s \in Senders : Smtp(s)) \/ (\E u \in Tid : Provider(u))
  BY DEF Next, vars, issue, reopenForCorrection, SdiAnswerElsewhere, SendCheck, SendClaim, SendConflict, SendFailed,
         SendLeft, SendStamp, SendStop, SdiAnswer, SyncRead, Learn, UploadMatch, UploadFind, Record, RecordDuplicate, ReaderStop
<1>4. QED
  BY <1>1, <1>2, <1>3

\* A request holds the row it has claimed until smtp.send has answered and the failure is written.
LEMMA RequestMoves ==
  ASSUME BaseInv, [Next]_vars, NEW s \in Senders, request'[s].pc \in {"claimed", "failed"}
  PROVE  SendClaim(s) \/ (request[s].pc \in {"claimed", "failed"} /\ request'[s].tid = request[s].tid)
<1> USE DEF BaseInv, TypeOK
<1>1. ASSUME NEW r \in Senders, NEW i \in Invoices, SendCheck(r, i) PROVE request'[s] = request[s]
  BY <1>1 DEF SendCheck
<1>2. ASSUME NEW r \in Senders, SendClaim(r) PROVE SendClaim(s) \/ request'[s] = request[s]
  BY <1>2 DEF SendClaim
<1>3. ASSUME NEW r \in Senders, Smtp(r)
      PROVE  request'[s] = request[s] \/ (request[s].pc = "claimed" /\ request'[s].tid = request[s].tid)
  BY <1>3 DEF Smtp, Request
<1>4. ASSUME NEW r \in Senders, SendLeft(r) PROVE request'[s] = request[s]
  BY <1>4 DEF SendLeft, Request
<1>5. ASSUME NEW r \in Senders, SendConflict(r) \/ SendFailed(r) \/ SendStamp(r) \/ SendStop(r)
      PROVE  request'[s] = request[s]
  BY <1>5 DEF SendConflict, SendFailed, SendStamp, SendStop, IdleRequest
<1>6. \/ UNCHANGED request
      \/ \E r \in Senders : \/ \E i \in Invoices : SendCheck(r, i)
                            \/ SendClaim(r) \/ Smtp(r) \/ SendLeft(r)
                            \/ SendConflict(r) \/ SendFailed(r) \/ SendStamp(r) \/ SendStop(r)
  BY DEF Next, vars, issue, reopenForCorrection, SdiAnswerElsewhere, Provider, SdiAnswer, SyncRead, Learn, UploadMatch,
         UploadFind, Record, RecordDuplicate, ReaderStop
<1>7. QED
  BY <1>1, <1>2, <1>3, <1>4, <1>5, <1>6

LEMMA RecordedGrows ==
  ASSUME [Next]_vars
  PROVE  recorded \subseteq recorded'
  BY DEF Next, vars, issue, reopenForCorrection, SdiAnswerElsewhere, SendCheck, SendClaim, SendConflict, Smtp, SendFailed,
         SendLeft, SendStamp, SendStop, Provider, SdiAnswer, SyncRead, Learn, UploadMatch, UploadFind, Record,
         RecordDuplicate, ReaderStop

\* A step opens no transmission but the one a claim makes.
LEMMA OpenStep ==
  ASSUME BaseInv, [Next]_vars, NEW t \in Tid, Open(t)'
  PROVE  Open(t) \/ \E s \in Senders : SendClaim(s) /\ request'[s].tid = t
<1> SUFFICES ASSUME ~Open(t) PROVE \E s \in Senders : SendClaim(s) /\ request'[s].tid = t
    OBVIOUS
<1>1. message'[t] = message[t]
  BY MovedWasOpen
<1>2. ASSUME Unreported(t)' PROVE FALSE
  <2>1. message[t] \in {"refused", "bounced"}
    BY <1>1, <1>2 DEF Unreported
  <2>2. Made(t)
    BY <2>1 DEF BaseInv, RowsOK
  <2>3. transmission'[t].file = transmission[t].file
    BY <2>2, RowsStep
  <2>4. Unreported(t)
    BY <1>1, <1>2, <2>3, RecordedGrows DEF Unreported, FailureOf
  <2>5. QED
    BY <2>4 DEF Open
<1>3. Unsent(t)'
  BY <1>1, <1>2 DEF Open
<1>4. PICK s \in Senders : request'[s].pc \in {"claimed", "failed"} /\ request'[s].tid = t
  BY <1>3 DEF Unsent
<1>5. SendClaim(s) \/ (request[s].pc \in {"claimed", "failed"} /\ request[s].tid = t)
  BY <1>4, RequestMoves
<1>6. QED
  BY <1>1, <1>3, <1>4, <1>5 DEF Open, Unsent

\* The claim opens one new row for an issued invoice and its file, and the invoice is no longer issued.
LEMMA ClaimEffect ==
  ASSUME BaseInv, NEW s \in Senders, SendClaim(s)
  PROVE  \E t \in Tid, i \in Invoices :
           /\ request'[s].tid = t /\ \A r \in Senders : r # s => request'[r] = request[r]
           /\ transmission'[t].file = invoice[i].file /\ \A u \in Tid : u # t => transmission'[u] = transmission[u]
           /\ invoice[i].status = "ISSUED" /\ invoice'[i].status # "ISSUED"
           /\ \A j \in Invoices : j # i => invoice'[j] = invoice[j]
<1> USE DEF BaseInv, TypeOK
<1> DEFINE i == request[s].invoice
<1>1. i \in Invoices /\ claimForSending(invoice[i], request[s].file) # invoice[i]
      /\ invoice' = [invoice EXCEPT ![i] = claimForSending(invoice[i], request[s].file)]
  BY DEF SendClaim, RequestsOK
<1>2. invoice[i].status = "ISSUED" /\ invoice[i].file = request[s].file /\ invoice'[i].status # "ISSUED"
  BY <1>1 DEF claimForSending, InvoiceRow
<1>3. PICK t \in Tid : /\ transmission' = [transmission EXCEPT ![t] = [status |-> "PENDING",
                            invoice |-> i, file |-> request[s].file, channel |-> "PEC", sent |-> FALSE]]
                       /\ request' = [request EXCEPT ![s].pc = "claimed", ![s].tid = t]
  BY DEF SendClaim
<1>4. request'[s].tid = t /\ \A r \in Senders : r # s => request'[r] = request[r]
  BY <1>3 DEF Request
<1>5. QED
  BY <1>1, <1>2, <1>3, <1>4

\* How an invoice becomes one that can be sent.
LEMMA IssuedStep ==
  ASSUME BaseInv, [Next]_vars, NEW i \in Invoices, invoice'[i].status = "ISSUED"
  PROVE  \/ invoice'[i] = invoice[i]
         \/ issue(i)
         \/ /\ invoice'[i].file = invoice[i].file
            /\ \/ \E s \in Senders : SendFailed(s) /\ transmission[request[s].tid].file = invoice[i].file
               \/ \E p \in Readers : /\ Record(p) /\ reader[p].receipt.type \in Failures
                                     /\ transmission[reader[p].tid].file = invoice[i].file
<1> USE DEF BaseInv, TypeOK
<1> SUFFICES ASSUME invoice'[i] # invoice[i] PROVE
         \/ issue(i)
         \/ /\ invoice'[i].file = invoice[i].file
            /\ \/ \E s \in Senders : SendFailed(s) /\ transmission[request[s].tid].file = invoice[i].file
               \/ \E p \in Readers : /\ Record(p) /\ reader[p].receipt.type \in Failures
                                     /\ transmission[reader[p].tid].file = invoice[i].file
    OBVIOUS
<1>1. ASSUME NEW j \in Invoices, issue(j) PROVE issue(i)
  BY <1>1 DEF issue
<1>2. ASSUME NEW j \in Invoices, reopenForCorrection(j) PROVE FALSE
  BY <1>2 DEF reopenForCorrection
<1>3. ASSUME NEW s \in Senders, SendClaim(s) PROVE FALSE
  BY <1>3, ClaimEffect
<1>4. ASSUME NEW s \in Senders, SendFailed(s)
      PROVE  invoice'[i].file = invoice[i].file /\ transmission[request[s].tid].file = invoice[i].file
  <2> DEFINE v == transmission[request[s].tid]
  <2>1. invoice' = [invoice EXCEPT ![v.invoice] = reopen(invoice[v.invoice], v.file)]
    BY <1>4 DEF SendFailed
  <2>2. invoice'[i] = reopen(invoice[i], v.file)
    BY <2>1
  <2>3. QED
    BY <2>2 DEF reopen, InvoiceRow
<1>5. ASSUME NEW p \in Readers, Record(p)
      PROVE  /\ invoice'[i].file = invoice[i].file /\ reader[p].receipt.type \in Failures
             /\ transmission[reader[p].tid].file = invoice[i].file
  <2> DEFINE f == transmission[reader[p].tid].file
             x == InvoiceAfter(invoice[i], f, reader[p], reader[p].receipt.type)
  <2>1. f \in File /\ reader[p].receipt.type \in SdiTypes \cup ProviderTypes /\ invoice'[i] = x
    BY <1>5, RecordEffect
  <2>2. x.file = invoice[i].file /\ (x.status = "ISSUED" => x = invoice[i] \/ (reader[p].receipt.type \in Failures /\ invoice[i].file = f))
    BY <2>1, InvoiceAfterFrame
  <2> HIDE DEF x
  <2>3. QED
    BY <2>1, <2>2
<1>6. QED
  BY <1>1, <1>2, <1>3, <1>4, <1>5, InvoicesTouched

-----------------------------------------------------------------------------
(***************************************************************************)
(* The invariant, for an exact SMTP.                                       *)
(***************************************************************************)
LEMMA OneOpenStep ==
  ASSUME IInv, [Next]_vars
  PROVE  OneOpen'
<1> USE DEF IInv
<1> SUFFICES ASSUME NEW t \in Tid, NEW u \in Tid, Open(t)', Open(u)', t # u
             PROVE  transmission'[t].file # transmission'[u].file
    BY DEF OneOpen
<1>1. CASE Open(t) /\ Open(u)
  <2>1. transmission'[t].file = transmission[t].file /\ transmission'[u].file = transmission[u].file
    BY <1>1, OpenIsMade, RowsStep
  <2>2. QED
    BY <1>1, <2>1 DEF OneOpen
<1>2. ASSUME NEW x \in Tid, NEW y \in Tid, Open(x)', Open(y)', x # y, NEW s \in Senders, SendClaim(s), request'[s].tid = x
      PROVE  transmission'[x].file # transmission'[y].file
  <2>1. PICK z \in Tid, i \in Invoices :
          /\ request'[s].tid = z /\ \A r \in Senders : r # s => request'[r] = request[r]
          /\ transmission'[z].file = invoice[i].file /\ \A w \in Tid : w # z => transmission'[w] = transmission[w]
          /\ invoice[i].status = "ISSUED"
    BY <1>2, ClaimEffect
  <2>2. Open(y)
    <3>1. ASSUME NEW r \in Senders, SendClaim(r), request'[r].tid = y PROVE FALSE
      <4>1. r # s /\ request'[r] = request[r] /\ request[r].pc = "checked"
        BY <1>2, <2>1, <3>1 DEF SendClaim
      <4>2. request'[r].pc = "claimed"
        BY <3>1 DEF SendClaim, BaseInv, TypeOK, Request
      <4>3. QED
        BY <4>1, <4>2
    <3>2. QED
      BY <1>2, <3>1, OpenStep
  <2>3. transmission[y].file # invoice[i].file
    BY <2>1, <2>2 DEF IssuedClosed
  <2>4. QED
    BY <1>2, <2>1, <2>3
<1>3. (Open(t) \/ \E s \in Senders : SendClaim(s) /\ request'[s].tid = t)
      /\ (Open(u) \/ \E s \in Senders : SendClaim(s) /\ request'[s].tid = u)
  BY OpenStep
<1>4. QED
  BY <1>1, <1>2, <1>3

\* A failed request closes its transmission: nothing has left, and no other request holds it.
LEMMA FailureCloses ==
  ASSUME BaseInv, SmtpAmbiguous = FALSE, NEW s \in Senders, SendFailed(s)
  PROVE  \E u \in Tid : u = request[s].tid /\ Open(u) /\ ~Open(u)'
<1> USE DEF BaseInv, TypeOK
<1> DEFINE u == request[s].tid
<1>1. u \in Tid /\ message[u] = "none" /\ request[s].pc = "failed" /\ UNCHANGED message
  BY DEF SendFailed, RequestsOK
<1>2. Open(u)
  BY <1>1 DEF Open, Unsent
<1>3. request'[s].pc = "idle" /\ \A r \in Senders : r # s => request'[r] = request[r]
  BY DEF SendFailed, IdleRequest
<1>4. PICK t \in Tid : t = u
  BY <1>1
<1>5. ~Unsent(t)'
  BY <1>1, <1>3, <1>4 DEF Unsent, RequestsOK
<1>6. ~Open(t)'
  BY <1>1, <1>4, <1>5 DEF Open, Unreported
<1>7. QED
  BY <1>1, <1>2, <1>4, <1>6

\* A failure recorded for the first time closes its transmission: its message ended without reaching SDI.
LEMMA ReportCloses ==
  ASSUME BaseInv, [Next]_vars, NEW p \in Readers, Record(p), reader[p].receipt.type \in Failures
  PROVE  \E u \in Tid : u = reader[p].tid /\ Open(u) /\ ~Open(u)'
<1> USE DEF BaseInv, TypeOK
<1>1. PICK u \in Tid : u = reader[p].tid
  BY DEF Record, ReadersOK
<1>2. /\ Made(u) /\ <<u, FailureOf(u, reader[p].receipt.type)>> \notin recorded
      /\ recorded' = recorded \cup {<<u, FailureOf(u, reader[p].receipt.type)>>}
      /\ \/ reader[p].receipt.type = "non-accettazione" /\ message[u] = "refused"
         \/ reader[p].receipt.type = "errore-consegna"  /\ message[u] = "bounced"
  BY <1>1 DEF Record, ReadersOK
<1>3. Open(u)
  BY <1>2 DEF Open, Unreported
<1>4. transmission'[u].file = transmission[u].file /\ message'[u] = message[u]
  BY <1>2, RowsStep, MessagesStep
<1>5. ~Unreported(u)'
  BY <1>2, <1>4 DEF Unreported, FailureOf
<1>6. ~Open(u)'
  BY <1>2, <1>4, <1>5 DEF Open, Unsent
<1>7. QED
  BY <1>1, <1>3, <1>6

LEMMA IssuedClosedStep ==
  ASSUME IInv, SmtpAmbiguous = FALSE, [Next]_vars
  PROVE  IssuedClosed'
<1> USE DEF IInv
<1> SUFFICES ASSUME NEW i \in Invoices, NEW t \in Tid, Open(t)',
                    invoice'[i].status = "ISSUED", invoice'[i].file = transmission'[t].file
             PROVE  FALSE
    BY DEF IssuedClosed
<1>1. ASSUME NEW s \in Senders, SendClaim(s), request'[s].tid = t PROVE FALSE
  <2>1. PICK j \in Invoices :
          /\ transmission'[t].file = invoice[j].file
          /\ invoice[j].status = "ISSUED" /\ invoice'[j].status # "ISSUED"
          /\ \A k \in Invoices : k # j => invoice'[k] = invoice[k]
    BY <1>1, ClaimEffect
  <2>2. i # j /\ invoice[i].file = invoice[j].file /\ invoice[j].file \in File
    BY <2>1 DEF BaseInv, FilesOK
  <2>3. NoFile \notin File
    BY SdiAssumption DEF File, NoFile
  <2>4. QED
    BY <2>2, <2>3 DEF BaseInv, FilesOK
<1>2. Open(t)
  BY <1>1, OpenStep
<1>3. transmission'[t].file = transmission[t].file
  BY <1>2, OpenIsMade, RowsStep
<1>4. CASE invoice'[i] = invoice[i]
  BY <1>2, <1>3, <1>4 DEF IssuedClosed
<1>5. CASE issue(i)
  <2>1. PICK f \in File : /\ invoice' = [invoice EXCEPT ![i] = [status |-> "ISSUED", file |-> f]]
                          /\ \A g \in UsedFiles : g < f
    BY <1>5 DEF issue
  <2>2. invoice'[i].file = f /\ transmission[t].file \in UsedFiles
    BY <2>1 DEF UsedFiles, BaseInv, TypeOK
  <2>3. f < f /\ f \in Int
    BY <1>3, <2>1, <2>2, SdiAssumption DEF File
  <2>4. QED
    BY <2>3
<1>6. ASSUME NEW s \in Senders, SendFailed(s), transmission[request[s].tid].file = invoice'[i].file PROVE FALSE
  <2>1. PICK u \in Tid : u = request[s].tid /\ Open(u) /\ ~Open(u)'
    BY <1>6, FailureCloses
  <2>2. u = t
    BY <1>2, <1>3, <1>6, <2>1 DEF OneOpen
  <2>3. QED
    BY <2>1, <2>2
<1>7. ASSUME NEW p \in Readers, Record(p), reader[p].receipt.type \in Failures,
             transmission[reader[p].tid].file = invoice'[i].file
      PROVE  FALSE
  <2>1. PICK u \in Tid : u = reader[p].tid /\ Open(u) /\ ~Open(u)'
    BY <1>7, ReportCloses
  <2>2. u = t
    BY <1>2, <1>3, <1>7, <2>1 DEF OneOpen
  <2>3. QED
    BY <2>1, <2>2
<1>8. QED
  BY <1>4, <1>5, <1>6, <1>7, IssuedStep

\* SDI receives a file at most once, when an SMTP error means that the message did not leave.
THEOREM DeliveredOnce ==
  ASSUME SmtpAmbiguous = FALSE
  PROVE  Spec => []NoDuplicateDelivery
<1>1. Init => IInv
  <2>1. Init => OneOpen /\ IssuedClosed
    BY DEF Init, OneOpen, IssuedClosed, Open, Unsent, Unreported, IdleRequest
  <2>2. QED
    BY <2>1, BaseInit DEF IInv
<1>2. IInv /\ [Next]_vars => IInv'
  BY BaseStep, OneOpenStep, IssuedClosedStep DEF IInv
<1>3. IInv => NoDuplicateDelivery
  BY DEF IInv, OneOpen, Open, NoDuplicateDelivery
<1>4. QED
  BY <1>1, <1>2, <1>3, PTL DEF Spec

-----------------------------------------------------------------------------
(***************************************************************************)
(* Outcomes and the life of an invoice: an outcome is one that SDI gave to *)
(* the current file, an invoice shown as sent awaits one, SDI issues an    *)
(* invoice at most once, and every step is one of InvoiceLifecycle.  The   *)
(* last two need an SMTP error to mean that the message did not leave; the *)
(* first two do not.                                                       *)
(***************************************************************************)

Decided == {"DELIVERED", "NOT_DELIVERED", "REJECTED"}

\* A draft has no file, nor has a row that is not made.
BlankOK ==
  /\ \A i \in Invoices : invoice[i].status = "DRAFT" => invoice[i].file = NoFile
  /\ \A t \in Tid : ~Made(t) => transmission[t].file = NoFile

\* A reader that holds a receipt of SDI holds one that SDI gave, and has found a transmission of its file.
HeldOK ==
  \A p \in Readers :
    /\ reader[p].pc = "decided" => reader[p].receipt \in verdict
    /\ reader[p].pc = "matched" /\ reader[p].receipt.type \in SdiTypes =>
         reader[p].receipt \in verdict /\ reader[p].receipt.file = transmission[reader[p].tid].file

\* An outcome on an invoice is that of a receipt of its file, and the file has a transmission.
DecidedOK ==
  \A i \in Invoices : invoice[i].status \in Decided =>
    /\ \E v \in verdict : v.file = invoice[i].file /\ invoice[i].status = OutcomeOf[v.type].invoice
    /\ \E t \in Tid : Made(t) /\ transmission[t].file = invoice[i].file

\* What holds whatever an SMTP error means.
GenuineInv == BaseInv /\ BlankOK /\ HeldOK /\ DecidedOK

\* A message is sent by PEC, never for an invoice sent with another tool.
ChannelOK ==
  /\ \A t \in Tid : message[t] # "none" => transmission[t].channel = "PEC"
  /\ \A s \in Senders : request[s].pc \in {"claimed", "failed", "left", "sent"} => transmission[request[s].tid].channel = "PEC"
  /\ \A s \in Senders : request[s].pc = "checked" => request[s].invoice \notin Imported
  /\ \A t \in Tid, i \in Imported : Made(t) /\ transmission[t].channel = "PEC" => transmission[t].file # invoice[i].file

\* SDI judges the file of a message delivered to it, or of an invoice sent with another tool.
VerdictsOK ==
  \A v \in verdict :
    /\ v.of # 0 => message[v.of] = "delivered" /\ v.file = transmission[v.of].file
    /\ v.of = 0 => \E i \in Imported : v.file = invoice[i].file

\* It judges a file once, and a file that it has not rejected stays that of its invoice.
OneVerdict == \A v, w \in verdict : v.file = w.file => v = w
CurrentOK ==
  \A t \in Tid : Made(t) /\ (\A v \in verdict : v.file = transmission[t].file => v.type # "NS") =>
    invoice[transmission[t].invoice].file = transmission[t].file

LifeInv == IInv /\ GenuineInv /\ ChannelOK /\ VerdictsOK /\ OneVerdict /\ CurrentOK

-----------------------------------------------------------------------------
(***************************************************************************)
(* How the rows move.                                                      *)
(***************************************************************************)
\* A transmission keeps its invoice, file and channel, or is made for an invoice and its current file.
Kept(t) ==
  /\ transmission'[t].file = transmission[t].file /\ transmission'[t].invoice = transmission[t].invoice
  /\ transmission'[t].channel = transmission[t].channel /\ (Made(t)' <=> Made(t))
MadeFor(t, i) ==
  /\ ~Made(t) /\ Made(t)' /\ UNCHANGED message
  /\ transmission'[t].invoice = i /\ transmission'[t].file = invoice[i].file
  /\ invoice'[i].file = invoice[i].file
ClaimedFor(t, i) ==
  /\ MadeFor(t, i) /\ transmission'[t].channel = "PEC" /\ invoice[i].status = "ISSUED"
  /\ \E s \in Senders : request[s].pc = "checked" /\ request[s].invoice = i

\* Writing the status and the send time keeps the rest of the row.
LEMMA StatusKept ==
  ASSUME BaseInv, NEW u \in Tid, Made(u), NEW st \in TransmissionStatus, NEW b,
         transmission' = [transmission EXCEPT ![u].status = st, ![u].sent = b]
  PROVE  \A t \in Tid : Kept(t)
<1> USE DEF BaseInv, TypeOK
<1>1. transmission[u] \in TransmissionRow /\ st # "NONE"
  BY DEF TransmissionStatus, Awaiting, Outcomes
<1>2. transmission' = [transmission EXCEPT ![u] = [transmission[u] EXCEPT !.status = st, !.sent = b]]
  OBVIOUS
<1>3. transmission'[u] = [transmission[u] EXCEPT !.status = st, !.sent = b]
  BY <1>2
<1>4. transmission'[u].status = st /\ transmission'[u].file = transmission[u].file
      /\ transmission'[u].invoice = transmission[u].invoice /\ transmission'[u].channel = transmission[u].channel
  BY <1>1, <1>3 DEF TransmissionRow
<1>5. \A t \in Tid : t # u => transmission'[t] = transmission[t]
  BY <1>2
<1>6. QED
  BY <1>1, <1>4, <1>5 DEF Kept, Made

LEMMA RowStep ==
  ASSUME BaseInv, [Next]_vars, NEW t \in Tid
  PROVE  Kept(t) \/ \E i \in Invoices : MadeFor(t, i) /\ (ClaimedFor(t, i) \/ transmission'[t].channel = "OTHER")
<1> USE DEF BaseInv, TypeOK
<1>1. UNCHANGED transmission => Kept(t)
  BY DEF Kept, Made
<1>2. ASSUME NEW s \in Senders, SendClaim(s)
      PROVE  Kept(t) \/ \E i \in Invoices : ClaimedFor(t, i)
  <2> DEFINE i == request[s].invoice
             f == request[s].file
  <2>1. /\ i \in Invoices /\ request[s].pc = "checked" /\ claimForSending(invoice[i], f) # invoice[i]
        /\ invoice' = [invoice EXCEPT ![i] = claimForSending(invoice[i], f)] /\ UNCHANGED message
    BY <1>2 DEF SendClaim, RequestsOK
  <2>2. invoice[i].status = "ISSUED" /\ invoice[i].file = f /\ invoice'[i].file = invoice[i].file
    BY <2>1 DEF claimForSending, InvoiceRow
  <2>3. PICK u \in Tid : /\ ~Made(u)
                         /\ transmission' = [transmission EXCEPT ![u] =
                              [status |-> "PENDING", invoice |-> i, file |-> f, channel |-> "PEC", sent |-> FALSE]]
    BY <1>2 DEF SendClaim, IsNext
  <2>4. CASE t = u
    BY <2>1, <2>2, <2>3, <2>4 DEF ClaimedFor, MadeFor, Made
  <2>5. CASE t # u
    BY <2>3, <2>5 DEF Kept, Made
  <2>6. QED
    BY <2>4, <2>5
<1>3. ASSUME NEW s \in Senders, SendFailed(s) \/ SendLeft(s) \/ SendStamp(s) PROVE Kept(t)
  <2> DEFINE u == request[s].tid
  <2>1. u \in Tid /\ Made(u) /\ transmission[u] \in TransmissionRow /\ transmission[u].status \in TransmissionStatus
    BY <1>3, FieldTypes DEF SendFailed, SendLeft, SendStamp, RequestsOK, Made
  <2>2. CASE transmission' = [transmission EXCEPT ![u].status = "ERROR"]
    <3>1. transmission' = [transmission EXCEPT ![u].status = "ERROR", ![u].sent = transmission[u].sent]
      BY <2>1, <2>2 DEF TransmissionRow
    <3>2. QED
      BY <2>1, <3>1, StatusTypes, StatusKept
  <2>3. CASE transmission' = [transmission EXCEPT ![u].status = "SENT", ![u].sent = TRUE]
    BY <2>1, <2>3, StatusTypes, StatusKept
  <2>4. CASE transmission' = [transmission EXCEPT ![u].sent = TRUE]
    <3>1. transmission' = [transmission EXCEPT ![u].status = transmission[u].status, ![u].sent = TRUE]
      BY <2>1, <2>4 DEF TransmissionRow
    <3>2. QED
      BY <2>1, <3>1, StatusKept
  <2>5. CASE UNCHANGED transmission
    BY <1>1, <2>5
  <2>6. QED
    BY <1>3, <2>2, <2>3, <2>4, <2>5 DEF SendFailed, SendLeft, SendStamp
<1>4. ASSUME NEW p \in Uploads, UploadFind(p)
      PROVE  Kept(t) \/ \E i \in Invoices : MadeFor(t, i) /\ transmission'[t].channel = "OTHER"
  <2> DEFINE f == reader[p].receipt.file
  <2>1. UNCHANGED <<invoice, message>>
    BY <1>4 DEF UploadFind
  <2>2. CASE \E u \in Tid, i \in Invoices :
               /\ OfFile(f) = {} /\ ~Made(u) /\ InvoiceOfFile(i, f)
               /\ transmission' = [transmission EXCEPT ![u] =
                    [status |-> "SENT", invoice |-> i, file |-> f, channel |-> "OTHER", sent |-> FALSE]]
    <3>1. PICK u \in Tid, i \in Invoices :
               /\ OfFile(f) = {} /\ ~Made(u) /\ InvoiceOfFile(i, f)
               /\ transmission' = [transmission EXCEPT ![u] =
                    [status |-> "SENT", invoice |-> i, file |-> f, channel |-> "OTHER", sent |-> FALSE]]
      BY <2>2
    <3>2. invoice[i].file = f
      BY <3>1 DEF InvoiceOfFile, IsNewest
    <3>3. CASE t = u
      BY <2>1, <3>1, <3>2, <3>3 DEF MadeFor, Made
    <3>4. CASE t # u
      BY <3>1, <3>4 DEF Kept, Made
    <3>5. QED
      BY <3>3, <3>4
  <2>3. CASE UNCHANGED transmission
    BY <1>1, <2>3
  <2>4. QED
    BY <1>4, <2>2, <2>3 DEF UploadFind, IsNext
<1>5. ASSUME NEW p \in Readers, Record(p) PROVE Kept(t)
  <2> DEFINE v == reader[p]
             u == reader[p].tid
             next == Transition(v, v.receipt.type)
  <2>1. u \in Tid /\ Made(u) /\ v.receipt.type \in SdiTypes \cup ProviderTypes
    BY <1>5, RecordEffect
  <2>2. CASE /\ next # "NONE"
             /\ transmission' = [transmission EXCEPT ![u].status = next,
                                   ![u].sent = IF v.receipt.type \in Arrivals THEN TRUE ELSE @]
    <3>1. next \in TransmissionStatus
      BY <2>1, <2>2, TransitionType
    <3>2. transmission' = [transmission EXCEPT ![u].status = next,
                             ![u].sent = IF v.receipt.type \in Arrivals THEN TRUE ELSE transmission[u].sent]
      BY <2>1, <2>2 DEF TransmissionRow
    <3>3. QED
      BY <2>1, <3>1, <3>2, StatusKept
  <2>3. CASE UNCHANGED transmission
    BY <1>1, <2>3
  <2>4. QED
    BY <1>5, <2>2, <2>3 DEF Record
<1>6. CASE \E s \in Senders : Smtp(s)
  BY <1>1, <1>6 DEF Smtp
<1>7. CASE \E u \in Tid : Provider(u)
  BY <1>1, <1>7 DEF Provider
<1>8. QED
  BY <1>1, <1>2, <1>3, <1>4, <1>5, <1>6, <1>7, RowsTouched DEF ClaimedFor

\* What a receipt may do to an invoice.
LEMMA InvoiceAfterMove ==
  ASSUME NEW w \in InvoiceRow, NEW f \in File, NEW v, NEW type \in SdiTypes \cup ProviderTypes
  PROVE  LET x == InvoiceAfter(w, f, v, type) IN
         \/ x = w
         \/ /\ x.file = w.file /\ w.file = f
            /\ \/ w.status = "ISSUED" /\ x.status = "SENT"
               \/ w.status = "SENT" /\ x.status = "ISSUED"
               \/ type \in SdiTypes /\ x.status = OutcomeOf[type].invoice
<1> USE DEF InvoiceRow
<1>1. CASE type \in SdiTypes
  <2>1. InvoiceAfter(w, f, v, type) = setSdiOutcome(w, f, OutcomeOf[type].invoice)
    BY <1>1 DEF InvoiceAfter, SdiTypes, Failures, Arrivals
  <2>2. QED
    BY <1>1, <2>1 DEF setSdiOutcome
<1>2. CASE type \in Failures
  <2>1. InvoiceAfter(w, f, v, type) = reopen(w, f)
    BY <1>2 DEF InvoiceAfter, SdiTypes, Failures, Arrivals
  <2>2. QED
    BY <2>1 DEF reopen
<1>3. CASE type \in Arrivals
  <2>1. InvoiceAfter(w, f, v, type) \in {w, claimForSending(w, f)}
    BY <1>3 DEF InvoiceAfter, SdiTypes, Failures, Arrivals
  <2>2. QED
    BY <2>1 DEF claimForSending
<1>4. QED
  BY <1>1, <1>2, <1>3 DEF ProviderTypes

\* The ways an invoice moves; a step moves one.
Resent(i)   == invoice[i].status = "ISSUED" /\ invoice'[i].status = "SENT"
Reopened(i) == invoice[i].status = "SENT" /\ invoice'[i].status = "ISSUED"
Judging(i)  == \E p \in Readers : /\ Record(p) /\ reader[p].receipt.type \in SdiTypes
                                  /\ transmission[reader[p].tid].file = invoice[i].file
                                  /\ invoice'[i].status = OutcomeOf[reader[p].receipt.type].invoice
InvoiceMoves(i) ==
  \/ issue(i)
  \/ reopenForCorrection(i)
  \/ invoice'[i].file = invoice[i].file /\ (Resent(i) \/ Reopened(i) \/ Judging(i))

LEMMA InvoiceStep ==
  ASSUME BaseInv, [Next]_vars
  PROVE  UNCHANGED invoice \/ \E i \in Invoices : InvoiceMoves(i) /\ \A j \in Invoices : j # i => invoice'[j] = invoice[j]
<1> USE DEF BaseInv, TypeOK
<1> DEFINE Moved(i) == InvoiceMoves(i) /\ \A j \in Invoices : j # i => invoice'[j] = invoice[j]
\* One row written.
<1>0. ASSUME NEW i, NEW x, invoice' = [invoice EXCEPT ![i] = x],
             i \in Invoices => x = invoice[i] \/ (x.file = invoice[i].file
                                 /\ \/ invoice[i].status = "ISSUED" /\ x.status = "SENT"
                                    \/ invoice[i].status = "SENT" /\ x.status = "ISSUED"
                                    \/ \E p \in Readers : /\ Record(p) /\ reader[p].receipt.type \in SdiTypes
                                                          /\ transmission[reader[p].tid].file = invoice[i].file
                                                          /\ x.status = OutcomeOf[reader[p].receipt.type].invoice)
      PROVE  UNCHANGED invoice \/ \E j \in Invoices : Moved(j)
  <2>1. CASE i \notin Invoices \/ x = invoice[i]
    BY <1>0, <2>1
  <2>2. CASE i \in Invoices /\ x # invoice[i]
    <3>1. invoice'[i] = x /\ \A j \in Invoices : j # i => invoice'[j] = invoice[j]
      BY <1>0, <2>2
    <3>2. invoice'[i].file = invoice[i].file /\ (Resent(i) \/ Reopened(i) \/ Judging(i))
      BY <1>0, <2>2, <3>1 DEF Resent, Reopened, Judging
    <3>3. QED
      BY <2>2, <3>1, <3>2 DEF InvoiceMoves
  <2>3. QED
    BY <2>1, <2>2
<1>1. ASSUME NEW i \in Invoices, issue(i) \/ reopenForCorrection(i) PROVE Moved(i)
  BY <1>1 DEF issue, reopenForCorrection, InvoiceMoves
<1>2. ASSUME NEW s \in Senders, SendClaim(s) PROVE UNCHANGED invoice \/ \E j \in Invoices : Moved(j)
  <2> DEFINE i == request[s].invoice
             x == claimForSending(invoice[i], request[s].file)
  <2>1. invoice' = [invoice EXCEPT ![i] = x]
    BY <1>2 DEF SendClaim
  <2>2. i \in Invoices => x = invoice[i] \/ (x.file = invoice[i].file /\ invoice[i].status = "ISSUED" /\ x.status = "SENT")
    BY DEF claimForSending, InvoiceRow
  <2> HIDE DEF i, x
  <2>3. QED
    BY <1>0, <2>1, <2>2
<1>3. ASSUME NEW s \in Senders, SendFailed(s) PROVE UNCHANGED invoice \/ \E j \in Invoices : Moved(j)
  <2> DEFINE v == transmission[request[s].tid]
             i == v.invoice
             x == reopen(invoice[i], v.file)
  <2>1. UNCHANGED invoice \/ invoice' = [invoice EXCEPT ![i] = x]
    BY <1>3 DEF SendFailed
  <2>2. i \in Invoices => x = invoice[i] \/ (x.file = invoice[i].file /\ invoice[i].status = "SENT" /\ x.status = "ISSUED")
    BY DEF reopen, InvoiceRow
  <2> HIDE DEF i, x
  <2>3. QED
    BY <1>0, <2>1, <2>2
<1>4. ASSUME NEW p \in Readers, Record(p) PROVE UNCHANGED invoice \/ \E j \in Invoices : Moved(j)
  <2> DEFINE t == reader[p].tid
             i == transmission[t].invoice
             type == reader[p].receipt.type
             x == InvoiceAfter(invoice[i], transmission[t].file, reader[p], type)
  <2>1. i \in Invoices /\ transmission[t].file \in File /\ type \in SdiTypes \cup ProviderTypes
        /\ (UNCHANGED invoice \/ invoice' = [invoice EXCEPT ![i] = x])
    BY <1>4, RecordEffect
  <2>2. \/ x = invoice[i]
        \/ /\ x.file = invoice[i].file /\ invoice[i].file = transmission[t].file
           /\ \/ invoice[i].status = "ISSUED" /\ x.status = "SENT"
              \/ invoice[i].status = "SENT" /\ x.status = "ISSUED"
              \/ type \in SdiTypes /\ x.status = OutcomeOf[type].invoice
    <3>1. invoice[i] \in InvoiceRow
      BY <2>1
    <3> HIDE DEF t, i, type
    <3> QED BY <2>1, <3>1, InvoiceAfterMove
  <2> HIDE DEF x, i
  <2>3. x = invoice[i] \/ (x.file = invoice[i].file
           /\ \/ invoice[i].status = "ISSUED" /\ x.status = "SENT"
              \/ invoice[i].status = "SENT" /\ x.status = "ISSUED"
              \/ \E q \in Readers : /\ Record(q) /\ reader[q].receipt.type \in SdiTypes
                                    /\ transmission[reader[q].tid].file = invoice[i].file
                                    /\ x.status = OutcomeOf[reader[q].receipt.type].invoice)
    BY <1>4, <2>2
  <2>4. QED
    BY <1>0, <2>1, <2>3
<1>5. QED
  BY <1>1, <1>2, <1>3, <1>4, InvoicesTouched

\* An invoice sent with another tool keeps its file.
LEMMA ImportedKept ==
  ASSUME BaseInv, [Next]_vars, NEW i \in Imported
  PROVE  invoice'[i].file = invoice[i].file
<1>1. i \in Invoices /\ invoice[i].status # "DRAFT"
  BY SdiAssumption DEF BaseInv, FilesOK
<1>2. ~ issue(i) /\ ~ reopenForCorrection(i)
  BY <1>1 DEF issue, reopenForCorrection
<1>3. QED
  BY <1>1, <1>2, InvoiceStep DEF InvoiceMoves

\* The receipts of SDI, and the messages that wait for one.
LEMMA VerdictStep ==
  ASSUME BaseInv, [Next]_vars
  PROVE  \/ UNCHANGED verdict
         \/ \E t \in Tid : SdiAnswer(t)
         \/ \E i \in Invoices : SdiAnswerElsewhere(i)
  BY DEF Next, vars, issue, reopenForCorrection, SendCheck, SendClaim, SendConflict, Smtp, SendFailed, SendLeft,
         SendStamp, SendStop, Provider, SyncRead, Learn, UploadMatch, UploadFind, Record, RecordDuplicate, ReaderStop

LEMMA VerdictsGrow ==
  ASSUME BaseInv, [Next]_vars
  PROVE  verdict \subseteq verdict'
  BY VerdictStep DEF SdiAnswer, SdiAnswerElsewhere

LEMMA DeliveredStays ==
  ASSUME BaseInv, [Next]_vars, NEW t \in Tid, message[t] = "delivered"
  PROVE  message'[t] = "delivered"
<1> USE DEF BaseInv, TypeOK
<1>1. CASE \E s \in Senders : Smtp(s)
  BY <1>1 DEF Smtp, RequestsOK
<1>2. CASE \E u \in Tid : Provider(u)
  BY <1>2 DEF Provider
<1>3. UNCHANGED message \/ (\E s \in Senders : Smtp(s)) \/ (\E u \in Tid : Provider(u))
  BY DEF Next, vars, issue, reopenForCorrection, SdiAnswerElsewhere, SendCheck, SendClaim, SendConflict, SendFailed,
         SendLeft, SendStamp, SendStop, SdiAnswer, SyncRead, Learn, UploadMatch, UploadFind, Record, RecordDuplicate, ReaderStop
<1>4. QED
  BY <1>1, <1>2, <1>3

-----------------------------------------------------------------------------
(***************************************************************************)
(* Outcomes and sent invoices, whatever an SMTP error means.               *)
(***************************************************************************)
\* The files of transmissions, seen from a row that is made.
LEMMA MadeKept ==
  ASSUME BaseInv, [Next]_vars, NEW t \in Tid, Made(t)
  PROVE  Kept(t)
  BY RowStep DEF MadeFor

LEMMA BlankStep ==
  ASSUME BaseInv, BlankOK, [Next]_vars
  PROVE  BlankOK'
<1> USE DEF BaseInv, TypeOK
<1>1. ASSUME NEW i \in Invoices, invoice'[i].status = "DRAFT" PROVE invoice'[i].file = NoFile
  <2>1. CASE invoice'[i] = invoice[i]
    BY <1>1, <2>1 DEF BlankOK
  <2>2. CASE issue(i) \/ reopenForCorrection(i)
    BY <1>1, <2>2 DEF issue, reopenForCorrection
  <2>3. CASE Resent(i) \/ Reopened(i)
    BY <1>1, <2>3 DEF Resent, Reopened
  <2>4. CASE Judging(i)
    BY <1>1, <2>4 DEF Judging, OutcomeOf, SdiTypes
  <2>5. QED
    BY <2>1, <2>2, <2>3, <2>4, InvoiceStep DEF InvoiceMoves
<1>2. ASSUME NEW t \in Tid, ~Made(t)' PROVE transmission'[t].file = NoFile
  BY <1>2, RowStep DEF Kept, MadeFor, BlankOK
<1>3. QED
  BY <1>1, <1>2 DEF BlankOK

\* How a reader comes to hold a receipt of SDI.
LEMMA HeldStep ==
  ASSUME BaseInv, HeldOK, [Next]_vars
  PROVE  HeldOK'
<1> USE DEF BaseInv, TypeOK
<1> DEFINE Held(p) ==
      /\ reader[p].pc = "decided" => reader[p].receipt \in verdict
      /\ reader[p].pc = "matched" /\ reader[p].receipt.type \in SdiTypes =>
           reader[p].receipt \in verdict /\ reader[p].receipt.file = transmission[reader[p].tid].file
<1>0. SUFFICES \A p \in Readers : Held(p)'
  BY DEF HeldOK
<1>1. \A p \in Readers : Held(p)
  BY DEF HeldOK
\* A reader that does not move keeps what it holds.
<1>2. ASSUME NEW p \in Readers, reader'[p] = reader[p] PROVE Held(p)'
  <2>1. CASE reader[p].pc = "matched"
    <3>1. Kept(reader[p].tid)
      BY <2>1, MadeKept DEF ReadersOK
    <3>2. QED
      BY <1>1, <1>2, <2>1, <3>1, VerdictsGrow DEF Kept
  <2>2. CASE reader[p].pc # "matched"
    BY <1>1, <1>2, <2>2, VerdictsGrow
  <2>3. QED
    BY <2>1, <2>2
<1>3. ASSUME NEW p \in Readers, Held(p)', \A q \in Readers : q # p => reader'[q] = reader[q]
      PROVE  \A q \in Readers : Held(q)'
  BY <1>2, <1>3
<1>4. ASSUME NEW p \in Syncs, SyncRead(p) PROVE \A q \in Readers : Held(q)'
  <2>1. PICK r \in Inbox, t \in Tid :
          /\ Matches(t, r)
          /\ reader' = [reader EXCEPT ![p] = [pc |-> "matched", receipt |-> r, tid |-> t,
                                              status |-> transmission[t].status, sent |-> transmission[t].sent]]
    BY <1>4 DEF SyncRead
  <2>2. p \in Readers /\ UNCHANGED <<transmission, verdict>>
    BY <1>4 DEF SyncRead, Readers
  <2>3. reader'[p].pc = "matched" /\ reader'[p].receipt = r /\ reader'[p].tid = t
        /\ \A q \in Readers : q # p => reader'[q] = reader[q]
    BY <2>1, <2>2
  <2>4. r.type \in SdiTypes => r \in verdict /\ r.file = transmission[t].file
    <3>1. SUFFICES ASSUME r.type \in SdiTypes PROVE r \in verdict /\ r.file = transmission[t].file
      OBVIOUS
    <3>2. r.type \notin ProviderTypes
      BY <3>1 DEF SdiTypes, ProviderTypes, Arrivals, Failures
    <3>3. r \in verdict
      BY <3>2 DEF Inbox, ProviderReceipts
    <3>4. QED
      BY <2>1, <3>2, <3>3 DEF Matches, IsNewest, OfFile
  <2>5. Held(p)'
    BY <2>2, <2>3, <2>4
  <2>6. QED
    BY <1>3, <2>2, <2>3, <2>5
<1>5. ASSUME NEW p \in Uploads, UploadMatch(p) PROVE \A q \in Readers : Held(q)'
  <2>1. PICK r \in verdict : reader' = [reader EXCEPT ![p].pc = "decided", ![p].receipt = r]
    BY <1>5 DEF UploadMatch
  <2>2. p \in Readers /\ reader[p] \in Reader /\ UNCHANGED verdict
    BY <1>5 DEF Readers, UploadMatch
  <2>3. reader' = [reader EXCEPT ![p] = [reader[p] EXCEPT !.pc = "decided", !.receipt = r]]
    BY <2>1, <2>2
  <2>4. reader'[p].pc = "decided" /\ reader'[p].receipt = r /\ \A q \in Readers : q # p => reader'[q] = reader[q]
    BY <2>2, <2>3 DEF Reader
  <2>5. Held(p)'
    BY <2>2, <2>4
  <2>6. QED
    BY <1>3, <2>2, <2>4, <2>5
<1>6. ASSUME NEW p \in Uploads, UploadFind(p) PROVE \A q \in Readers : Held(q)'
  <2> DEFINE r == reader[p].receipt
  <2>1. p \in Readers /\ reader[p] \in Reader /\ reader[p].pc = "decided" /\ UNCHANGED verdict
    BY <1>6 DEF UploadFind, Readers
  <2>2. PICK t \in Tid :
          /\ \E st, b : reader' = [reader EXCEPT ![p].pc = "matched", ![p].tid = t, ![p].status = st, ![p].sent = b]
          /\ transmission'[t].file = r.file
    <3>1. CASE \E t \in Tid : /\ IsNewest(t, r.file) /\ UNCHANGED transmission
                              /\ reader' = [reader EXCEPT ![p].pc = "matched", ![p].tid = t,
                                   ![p].status = transmission[t].status, ![p].sent = transmission[t].sent]
      BY <3>1 DEF IsNewest, OfFile
    <3>2. CASE \E t \in Tid, i \in Invoices :
                 /\ transmission' = [transmission EXCEPT ![t] =
                      [status |-> "SENT", invoice |-> i, file |-> r.file, channel |-> "OTHER", sent |-> FALSE]]
                 /\ reader' = [reader EXCEPT ![p].pc = "matched", ![p].tid = t, ![p].status = "SENT", ![p].sent = FALSE]
      <4>1. PICK t \in Tid, i \in Invoices :
                 /\ transmission' = [transmission EXCEPT ![t] =
                      [status |-> "SENT", invoice |-> i, file |-> r.file, channel |-> "OTHER", sent |-> FALSE]]
                 /\ reader' = [reader EXCEPT ![p].pc = "matched", ![p].tid = t, ![p].status = "SENT", ![p].sent = FALSE]
        BY <3>2
      <4>2. transmission'[t].file = r.file
        BY <4>1
      <4>3. QED
        BY <4>1, <4>2
    <3>3. QED
      BY <1>6, <3>1, <3>2 DEF UploadFind
  <2>3. PICK st, b : reader' = [reader EXCEPT ![p].pc = "matched", ![p].tid = t, ![p].status = st, ![p].sent = b]
    BY <2>2
  <2>4. reader' = [reader EXCEPT ![p] = [reader[p] EXCEPT !.pc = "matched", !.tid = t, !.status = st, !.sent = b]]
    BY <2>1, <2>3
  <2>5. reader'[p].pc = "matched" /\ reader'[p].receipt = r /\ reader'[p].tid = t
        /\ \A q \in Readers : q # p => reader'[q] = reader[q]
    BY <2>1, <2>4 DEF Reader
  <2>6. Held(p)'
    BY <1>1, <2>1, <2>2, <2>5
  <2>7. QED
    BY <1>3, <2>1, <2>5, <2>6
<1>7. ASSUME NEW p \in Readers, Record(p) \/ RecordDuplicate(p) \/ Learn(p) \/ ReaderStop(p)
      PROVE  \A q \in Readers : Held(q)'
  <2>1. \/ reader' = [reader EXCEPT ![p] = IdleReader]
        \/ reader' = [reader EXCEPT ![p].pc = "learn"]
    BY <1>7 DEF Record, RecordDuplicate, Learn, ReaderStop, AfterRecord
  <2>2. reader'[p].pc \in {"idle", "learn"} /\ \A q \in Readers : q # p => reader'[q] = reader[q]
    BY <2>1 DEF IdleReader, Reader
  <2>3. QED
    BY <1>3, <2>2
<1>8. CASE UNCHANGED reader
  BY <1>2, <1>8
<1>9. \/ UNCHANGED reader
      \/ \E p \in Syncs : SyncRead(p)
      \/ \E p \in Uploads : UploadMatch(p) \/ UploadFind(p)
      \/ \E p \in Readers : Record(p) \/ RecordDuplicate(p) \/ Learn(p) \/ ReaderStop(p)
  BY DEF Next, vars, Readers, issue, reopenForCorrection, SdiAnswerElsewhere, SendCheck, SendClaim, SendConflict, Smtp,
         SendFailed, SendLeft, SendStamp, SendStop, Provider, SdiAnswer
<1>10. QED
  BY <1>4, <1>5, <1>6, <1>7, <1>8, <1>9

\* A receipt that decides an invoice is one of SDI for its file.
LEMMA JudgingGenuine ==
  ASSUME BaseInv, HeldOK, NEW i \in Invoices, Judging(i)
  PROVE  \E v \in verdict, t \in Tid : /\ v.file = invoice[i].file /\ v.type \in SdiTypes
                                       /\ invoice'[i].status = OutcomeOf[v.type].invoice
                                       /\ Made(t) /\ transmission[t].file = invoice[i].file
<1>1. PICK p \in Readers : /\ Record(p) /\ reader[p].receipt.type \in SdiTypes
                           /\ transmission[reader[p].tid].file = invoice[i].file
                           /\ invoice'[i].status = OutcomeOf[reader[p].receipt.type].invoice
  BY DEF Judging
<1>2. reader[p].pc = "matched" /\ reader[p].tid \in Tid /\ Made(reader[p].tid)
  BY <1>1, RecordEffect DEF Record
<1>3. QED
  BY <1>1, <1>2 DEF HeldOK

LEMMA DecidedStep ==
  ASSUME BaseInv, HeldOK, DecidedOK, [Next]_vars
  PROVE  DecidedOK'
<1> USE DEF BaseInv, TypeOK
<1> SUFFICES ASSUME NEW i \in Invoices, invoice'[i].status \in Decided
             PROVE  /\ \E v \in verdict' : v.file = invoice'[i].file /\ invoice'[i].status = OutcomeOf[v.type].invoice
                    /\ \E t \in Tid : Made(t)' /\ transmission'[t].file = invoice'[i].file
    BY DEF DecidedOK
<1>1. /\ \E v \in verdict : v.file = invoice'[i].file /\ invoice'[i].status = OutcomeOf[v.type].invoice
      /\ \E t \in Tid : Made(t) /\ transmission[t].file = invoice'[i].file
  <2>1. CASE invoice'[i] = invoice[i]
    BY <2>1 DEF DecidedOK
  <2>2. CASE issue(i) \/ reopenForCorrection(i) \/ Resent(i) \/ Reopened(i)
    BY <2>2 DEF issue, reopenForCorrection, Resent, Reopened, Decided
  <2>3. CASE invoice'[i].file = invoice[i].file /\ Judging(i)
    BY <2>3, JudgingGenuine
  <2>4. QED
    BY <2>1, <2>2, <2>3, InvoiceStep DEF InvoiceMoves
<1>2. QED
  BY <1>1, VerdictsGrow, MadeKept DEF Kept

LEMMA GenuineInit == Init => GenuineInv
<1> SUFFICES ASSUME Init PROVE GenuineInv
    OBVIOUS
<1>1. \A i \in Invoices : invoice[i].status = "DRAFT" => invoice[i].file = NoFile
  BY DEF Init
<1>2. \A i \in Invoices : invoice[i].status \notin Decided
  BY DEF Init, Decided
<1>3. QED
  BY <1>1, <1>2, BaseInit DEF GenuineInv, Init, BlankOK, HeldOK, DecidedOK, NoTransmission, IdleReader

LEMMA GenuineStep == GenuineInv /\ [Next]_vars => GenuineInv'
  BY BaseStep, BlankStep, HeldStep, DecidedStep DEF GenuineInv

\* An outcome shown on an invoice was given by SDI to its current file, whatever SMTP reports
\* (sdi-receipts.service.ts, record; invoice-status.service.ts, setSdiOutcome).
THEOREM OutcomesGenuine == Spec => []OutcomeGenuine
<1>1. ASSUME GenuineInv PROVE OutcomeGenuine
  <2> SUFFICES ASSUME NEW i \in Invoices, NEW type \in SdiTypes, invoice[i].status = OutcomeOf[type].invoice
               PROVE  \E v \in verdict : v.file = invoice[i].file /\ v.type = type
      BY DEF OutcomeGenuine
  <2>1. invoice[i].status \in Decided
    BY DEF OutcomeOf, SdiTypes, Decided
  <2>2. PICK v \in verdict : v.file = invoice[i].file /\ invoice[i].status = OutcomeOf[v.type].invoice
    BY <1>1, <2>1 DEF GenuineInv, DecidedOK
  <2>3. v.type \in SdiTypes
    BY <1>1 DEF GenuineInv, BaseInv, ReadersOK
  <2>4. OutcomeOf[v.type].invoice = OutcomeOf[type].invoice => v.type = type
    BY <2>3 DEF OutcomeOf, SdiTypes
  <2>5. QED
    BY <2>2, <2>4
<1>2. QED
  BY <1>1, GenuineInit, GenuineStep, PTL DEF Spec

\* A recorded receipt changes nothing, or moves its transmission and what the receipt says of the invoice.
LEMMA RecordMoves ==
  ASSUME BaseInv, NEW p \in Readers, Record(p), ~ UNCHANGED <<transmission, invoice>>
  PROVE  LET t == reader[p].tid
             i == transmission[t].invoice
             type == reader[p].receipt.type
         IN /\ t \in Tid /\ i \in Invoices /\ invoice[i] \in InvoiceRow /\ transmission[t].file \in File
            /\ type \in SdiTypes \cup ProviderTypes
            /\ invoice'[i] = InvoiceAfter(invoice[i], transmission[t].file, reader[p], type)
            /\ \A j \in Invoices : j # i => invoice'[j] = invoice[j]
            /\ \A u \in Tid : u # t => transmission'[u] = transmission[u]
            /\ transmission'[t].invoice = i /\ transmission'[t].file = transmission[t].file
            /\ type \in Arrivals => transmission'[t].status \in Awaiting
<1> USE DEF BaseInv, TypeOK
<1> DEFINE t == reader[p].tid
           i == transmission[t].invoice
           type == reader[p].receipt.type
           next == Transition(reader[p], type)
<1>1. /\ t \in Tid /\ Made(t) /\ i \in Invoices /\ transmission[t].file \in File /\ type \in SdiTypes \cup ProviderTypes
      /\ transmission[t] \in TransmissionRow /\ invoice[i] \in InvoiceRow
  BY RecordEffect
<1>2. /\ next # "NONE"
      /\ transmission' = [transmission EXCEPT ![t].status = next, ![t].sent = IF type \in Arrivals THEN TRUE ELSE @]
      /\ invoice' = [invoice EXCEPT ![i] = InvoiceAfter(@, transmission[t].file, reader[p], type)]
  BY DEF Record
<1>3. transmission' = [transmission EXCEPT ![t] = [transmission[t] EXCEPT !.status = next,
                         !.sent = IF type \in Arrivals THEN TRUE ELSE transmission[t].sent]]
  BY <1>1, <1>2
<1>4. type \in Arrivals => next \in Awaiting
  <2> SUFFICES ASSUME type \in Arrivals PROVE next \in Awaiting
    OBVIOUS
  <2>1. type \notin SdiTypes \cup Failures
    BY DEF Arrivals, SdiTypes, Failures
  <2>2. next = providerReceiptTransition(reader[p], type)
    BY <2>1 DEF Transition
  <2>3. next \in {"NONE", "ACCEPTED_BY_PEC", "DELIVERED_TO_SDI"}
    BY <2>1, <2>2 DEF providerReceiptTransition
  <2> QED BY <1>2, <2>3 DEF Awaiting
<1>5. /\ transmission'[t].status = next /\ transmission'[t].invoice = i /\ transmission'[t].file = transmission[t].file
      /\ \A u \in Tid : u # t => transmission'[u] = transmission[u]
  <2> HIDE DEF next
  <2>1. QED
    BY <1>1, <1>3 DEF TransmissionRow
<1>6. invoice'[i] = InvoiceAfter(invoice[i], transmission[t].file, reader[p], type)
      /\ \A j \in Invoices : j # i => invoice'[j] = invoice[j]
  BY <1>1, <1>2
<1>7. QED
  BY <1>1, <1>4, <1>5, <1>6

\* A transmission that stops awaiting leaves its invoice not sent.
LEMMA AwaitingEnds ==
  ASSUME BaseInv, [Next]_vars, NEW t \in Tid, Made(t), transmission[t].status \in Awaiting, transmission'[t].status \notin Awaiting,
         invoice[transmission[t].invoice].file = transmission[t].file
  PROVE  invoice'[transmission[t].invoice].status # "SENT"
<1> USE DEF BaseInv, TypeOK
<1> DEFINE i == transmission[t].invoice
<1>0. i \in Invoices /\ invoice[i] \in InvoiceRow /\ transmission[t] \in TransmissionRow
  BY DEF RowsOK
<1>1. ASSUME NEW s \in Senders, SendClaim(s) PROVE FALSE
  BY <1>1 DEF SendClaim, IsNext, Awaiting, Made
<1>2. ASSUME NEW s \in Senders, SendFailed(s) PROVE invoice'[i].status # "SENT"
  <2>1. request[s].tid = t /\ invoice' = [invoice EXCEPT ![i] = reopen(invoice[i], transmission[t].file)]
    BY <1>2 DEF SendFailed
  <2>2. invoice'[i] = reopen(invoice[i], transmission[t].file)
    BY <1>0, <2>1
  <2>3. QED
    BY <1>0, <2>2 DEF reopen, InvoiceRow
<1>3. ASSUME NEW s \in Senders, SendLeft(s) \/ SendStamp(s) PROVE FALSE
  <2>1. \A u \in Tid : transmission'[u].status \in {transmission[u].status, "SENT"}
    BY <1>3 DEF SendLeft, SendStamp, TransmissionRow
  <2>2. QED
    BY <2>1 DEF Awaiting
<1>4. ASSUME NEW p \in Uploads, UploadFind(p) PROVE FALSE
  BY <1>4 DEF UploadFind, IsNext, Awaiting, Made
<1>5. ASSUME NEW p \in Readers, Record(p) PROVE invoice'[i].status # "SENT"
  <2> DEFINE type == reader[p].receipt.type
  <2>1. /\ reader[p].tid = t /\ type \notin Arrivals /\ type \in SdiTypes \cup ProviderTypes
        /\ invoice'[i] = InvoiceAfter(invoice[i], transmission[t].file, reader[p], type)
    BY <1>5, RecordMoves
  <2>2. CASE type \in SdiTypes
    <3>1. invoice'[i] = setSdiOutcome(invoice[i], transmission[t].file, OutcomeOf[type].invoice)
      BY <2>1, <2>2 DEF InvoiceAfter, SdiTypes, Failures, Arrivals
    <3>2. OutcomeOf[type].invoice # "SENT"
      BY <2>2 DEF OutcomeOf, SdiTypes
    <3>3. QED
      BY <1>0, <3>1, <3>2 DEF setSdiOutcome, InvoiceRow
  <2>3. CASE type \in Failures
    <3>1. invoice'[i] = reopen(invoice[i], transmission[t].file)
      BY <2>1, <2>3 DEF InvoiceAfter, SdiTypes, Failures, Arrivals
    <3>2. QED
      BY <1>0, <3>1 DEF reopen, InvoiceRow
  <2>4. QED
    BY <2>1, <2>2, <2>3 DEF ProviderTypes
<1>6. UNCHANGED transmission => FALSE
  OBVIOUS
<1>7. (\E s \in Senders : Smtp(s)) \/ (\E u \in Tid : Provider(u)) => UNCHANGED transmission
  BY DEF Smtp, Provider
<1>8. QED
  BY <1>1, <1>2, <1>3, <1>4, <1>5, <1>6, <1>7, RowsTouched

\* An invoice becomes sent by a claim or by a late acceptance, which leave a transmission of its file that awaits.
LEMMA ResentAwaits ==
  ASSUME BaseInv, [Next]_vars, NEW i \in Invoices, Resent(i)
  PROVE  \E t \in Tid : /\ transmission'[t].file = invoice'[i].file /\ transmission'[t].invoice = i
                        /\ transmission'[t].status \in Awaiting
<1> USE DEF BaseInv, TypeOK
<1>1. ASSUME NEW j \in Invoices, issue(j) \/ reopenForCorrection(j) PROVE FALSE
  BY <1>1 DEF issue, reopenForCorrection, Resent
<1>2. ASSUME NEW s \in Senders, SendClaim(s)
      PROVE  \E t \in Tid : /\ transmission'[t].file = invoice'[i].file /\ transmission'[t].invoice = i
                            /\ transmission'[t].status \in Awaiting
  <2>1. /\ request[s].invoice \in Invoices /\ invoice[i] \in InvoiceRow
        /\ invoice' = [invoice EXCEPT ![request[s].invoice] = claimForSending(@, request[s].file)]
    BY <1>2 DEF SendClaim, RequestsOK
  <2>2. request[s].invoice = i /\ invoice'[i] = claimForSending(invoice[i], request[s].file)
    BY <2>1 DEF Resent
  <2>3. invoice'[i].file = request[s].file
    BY <2>1, <2>2 DEF claimForSending, Resent, InvoiceRow
  <2>4. PICK t \in Tid : transmission' = [transmission EXCEPT ![t] =
                           [status |-> "PENDING", invoice |-> i, file |-> request[s].file, channel |-> "PEC", sent |-> FALSE]]
    BY <1>2, <2>2 DEF SendClaim
  <2>5. QED
    BY <2>3, <2>4 DEF Awaiting
<1>3. ASSUME NEW s \in Senders, SendFailed(s) PROVE FALSE
  <2> DEFINE v == transmission[request[s].tid]
  <2>1. invoice'[i] = reopen(invoice[i], v.file)
    BY <1>3 DEF SendFailed, Resent
  <2>2. QED
    BY <2>1 DEF reopen, InvoiceRow, Resent
<1>4. ASSUME NEW p \in Readers, Record(p)
      PROVE  \E t \in Tid : /\ transmission'[t].file = invoice'[i].file /\ transmission'[t].invoice = i
                            /\ transmission'[t].status \in Awaiting
  <2> DEFINE t == reader[p].tid
             type == reader[p].receipt.type
             x == InvoiceAfter(invoice[i], transmission[t].file, reader[p], type)
  <2>1. ~ UNCHANGED <<transmission, invoice>>
    BY DEF Resent
  <2>2. /\ t \in Tid /\ transmission[t].invoice = i /\ invoice'[i] = x /\ type \in SdiTypes \cup ProviderTypes
        /\ transmission'[t].invoice = i /\ transmission'[t].file = transmission[t].file
        /\ type \in Arrivals => transmission'[t].status \in Awaiting
    BY <1>4, <2>1, RecordMoves DEF Resent
  <2>3. transmission[t].file \in File
    BY <1>4, RecordEffect
  <2>4. x = invoice[i] \/ (x.file = invoice[i].file /\ invoice[i].file = transmission[t].file)
    BY <2>2, <2>3, InvoiceAfterMove
  <2>5. type \in Arrivals
    <3>1. CASE type \in SdiTypes
      <4>1. x = setSdiOutcome(invoice[i], transmission[t].file, OutcomeOf[type].invoice)
        BY <3>1 DEF InvoiceAfter, SdiTypes, Failures, Arrivals
      <4>2. OutcomeOf[type].invoice # "SENT"
        BY <3>1 DEF OutcomeOf, SdiTypes
      <4>3. x = invoice[i] \/ x.status = OutcomeOf[type].invoice
        BY <4>1 DEF setSdiOutcome, InvoiceRow
      <4>4. QED
        BY <2>2, <4>2, <4>3 DEF Resent
    <3>2. CASE type \in Failures
      <4>1. x = reopen(invoice[i], transmission[t].file)
        BY <3>2 DEF InvoiceAfter, SdiTypes, Failures, Arrivals
      <4>2. QED
        BY <2>2, <4>1 DEF reopen, InvoiceRow, Resent
    <3>3. QED
      BY <2>2, <3>1, <3>2 DEF ProviderTypes
  <2> HIDE DEF x
  <2>6. invoice'[i].file = transmission[t].file
    BY <2>2, <2>4 DEF Resent
  <2>7. QED
    BY <2>2, <2>5, <2>6
<1>5. QED
  BY <1>1, <1>2, <1>3, <1>4, InvoicesTouched DEF Resent

\* An invoice shown as sent is waiting for something, whatever SMTP reports (sdi-transmissions.service.ts, send;
\* sdi-receipts.service.ts, record: the invoice and its transmission change in one transaction).
THEOREM SentAwaited == Spec => []SentIsAwaited
<1>1. Init => SentIsAwaited
  BY DEF Init, SentIsAwaited
<1>2. ASSUME BaseInv, SentIsAwaited, [Next]_vars PROVE SentIsAwaited'
  <2> SUFFICES ASSUME NEW i \in Invoices, invoice'[i].status = "SENT"
               PROVE  \E t \in Tid : /\ transmission'[t].status \in Awaiting /\ transmission'[t].file = invoice'[i].file
                                     /\ transmission'[t].invoice = i
    BY DEF SentIsAwaited, OfFile, Made, Awaiting
  <2>1. CASE invoice'[i] = invoice[i]
    <3>1. PICK t \in Tid : /\ Made(t) /\ transmission[t].file = invoice[i].file /\ transmission[t].invoice = i
                           /\ transmission[t].status \in Awaiting
      BY <1>2, <2>1 DEF SentIsAwaited, OfFile
    <3>2. Kept(t)
      BY <1>2, <3>1, MadeKept
    <3>3. transmission'[t].status \in Awaiting
      BY <1>2, <3>1, AwaitingEnds
    <3>4. QED
      BY <2>1, <3>1, <3>2, <3>3 DEF Kept
  <2>2. CASE issue(i) \/ reopenForCorrection(i) \/ Reopened(i)
    BY <1>2, <2>2 DEF issue, reopenForCorrection, Reopened, BaseInv, TypeOK
  <2>3. CASE Judging(i)
    BY <2>3 DEF Judging, OutcomeOf, SdiTypes
  <2>4. CASE Resent(i)
    BY <1>2, <2>4, ResentAwaits
  <2>5. QED
    BY <1>2, <2>1, <2>2, <2>3, <2>4, InvoiceStep DEF InvoiceMoves
<1>3. BaseInv /\ SentIsAwaited /\ [Next]_vars => (BaseInv /\ SentIsAwaited)'
  BY <1>2, BaseStep
<1>4. QED
  BY <1>1, <1>3, BaseInit, PTL DEF Spec

-----------------------------------------------------------------------------
(***************************************************************************)
(* What SDI judges, for an exact SMTP.                                     *)
(***************************************************************************)
\* A request holds the row it has claimed until it ends.
LEMMA RequestHolds ==
  ASSUME BaseInv, [Next]_vars, NEW s \in Senders, request'[s].pc \in {"claimed", "failed", "left", "sent"}
  PROVE  \/ SendClaim(s)
         \/ request[s].pc \in {"claimed", "failed", "left", "sent"} /\ request'[s].tid = request[s].tid
<1> USE DEF BaseInv, TypeOK
<1>1. ASSUME NEW r \in Senders, NEW i \in Invoices, SendCheck(r, i) PROVE request'[s] = request[s]
  BY <1>1 DEF SendCheck
<1>2. ASSUME NEW r \in Senders, SendClaim(r) PROVE SendClaim(s) \/ request'[s] = request[s]
  BY <1>2 DEF SendClaim
<1>3. ASSUME NEW r \in Senders, Smtp(r) \/ SendLeft(r)
      PROVE  request'[s] = request[s]
             \/ (request[s].pc \in {"claimed", "failed", "left", "sent"} /\ request'[s].tid = request[s].tid)
  BY <1>3 DEF Smtp, SendLeft, Request
<1>4. ASSUME NEW r \in Senders, SendConflict(r) \/ SendFailed(r) \/ SendStamp(r) \/ SendStop(r)
      PROVE  request'[s] = request[s]
  BY <1>4 DEF SendConflict, SendFailed, SendStamp, SendStop, IdleRequest
<1>5. \/ UNCHANGED request
      \/ \E r \in Senders : \/ \E i \in Invoices : SendCheck(r, i)
                            \/ SendClaim(r) \/ Smtp(r) \/ SendLeft(r)
                            \/ SendConflict(r) \/ SendFailed(r) \/ SendStamp(r) \/ SendStop(r)
  BY DEF Next, vars, issue, reopenForCorrection, SdiAnswerElsewhere, Provider, SdiAnswer, SyncRead, Learn, UploadMatch,
         UploadFind, Record, RecordDuplicate, ReaderStop
<1>6. QED
  BY <1>1, <1>2, <1>3, <1>4, <1>5

\* A request is checked for an invoice that this tool sends.
LEMMA CheckedHere ==
  ASSUME BaseInv, [Next]_vars, NEW s \in Senders, request'[s].pc = "checked"
  PROVE  request'[s] = request[s] \/ request'[s].invoice \notin Imported
<1> USE DEF BaseInv, TypeOK
<1>1. ASSUME NEW r \in Senders, NEW i \in Invoices, SendCheck(r, i)
      PROVE  request'[s] = request[s] \/ request'[s].invoice \notin Imported
  BY <1>1 DEF SendCheck
<1>2. ASSUME NEW r \in Senders, SendClaim(r) \/ Smtp(r) \/ SendLeft(r) PROVE request'[s] = request[s]
  BY <1>2 DEF SendClaim, Smtp, SendLeft, Request
<1>3. ASSUME NEW r \in Senders, SendConflict(r) \/ SendFailed(r) \/ SendStamp(r) \/ SendStop(r)
      PROVE  request'[s] = request[s]
  BY <1>3 DEF SendConflict, SendFailed, SendStamp, SendStop, IdleRequest
<1>4. \/ UNCHANGED request
      \/ \E r \in Senders : \/ \E i \in Invoices : SendCheck(r, i)
                            \/ SendClaim(r) \/ Smtp(r) \/ SendLeft(r)
                            \/ SendConflict(r) \/ SendFailed(r) \/ SendStamp(r) \/ SendStop(r)
  BY DEF Next, vars, issue, reopenForCorrection, SdiAnswerElsewhere, Provider, SdiAnswer, SyncRead, Learn, UploadMatch,
         UploadFind, Record, RecordDuplicate, ReaderStop
<1>5. QED
  BY <1>1, <1>2, <1>3, <1>4

LEMMA ChannelStep ==
  ASSUME BaseInv, ChannelOK, [Next]_vars
  PROVE  ChannelOK'
<1> USE DEF BaseInv, TypeOK
<1>1. ASSUME NEW t \in Tid, message'[t] # "none" PROVE transmission'[t].channel = "PEC"
  <2>1. Made(t) /\ transmission[t].channel = "PEC"
    <3>1. CASE message[t] # "none"
      BY <3>1 DEF RowsOK, ChannelOK
    <3>2. CASE message[t] = "none"
      <4>1. PICK s \in Senders : Smtp(s)
        BY <1>1, <3>2 DEF Next, vars, issue, reopenForCorrection, SdiAnswerElsewhere, SendCheck, SendClaim, SendConflict,
             SendFailed, SendLeft, SendStamp, SendStop, Provider, SdiAnswer, SyncRead, Learn, UploadMatch, UploadFind,
             Record, RecordDuplicate, ReaderStop
      <4>2. request[s].pc = "claimed" /\ request[s].tid = t
        BY <1>1, <3>2, <4>1 DEF Smtp
      <4>3. QED
        BY <4>2 DEF RequestsOK, ChannelOK
    <3>3. QED
      BY <3>1, <3>2
  <2>2. QED
    BY <2>1, MadeKept DEF Kept
<1>2. ASSUME NEW s \in Senders, request'[s].pc \in {"claimed", "failed", "left", "sent"}
      PROVE  transmission'[request'[s].tid].channel = "PEC"
  <2>1. CASE SendClaim(s)
    <3>1. PICK t \in Tid : /\ transmission' = [transmission EXCEPT ![t] = [status |-> "PENDING",
                                invoice |-> request[s].invoice, file |-> request[s].file, channel |-> "PEC", sent |-> FALSE]]
                           /\ request' = [request EXCEPT ![s].pc = "claimed", ![s].tid = t]
      BY <2>1 DEF SendClaim
    <3>2. request'[s].tid = t /\ transmission'[t].channel = "PEC"
      BY <3>1 DEF Request
    <3>3. QED
      BY <3>1, <3>2
  <2>2. CASE request[s].pc \in {"claimed", "failed", "left", "sent"} /\ request'[s].tid = request[s].tid
    <3>1. Made(request[s].tid) /\ request[s].tid \in Tid /\ transmission[request[s].tid].channel = "PEC"
      BY <2>2 DEF RequestsOK, ChannelOK
    <3>2. QED
      BY <2>2, <3>1, MadeKept DEF Kept
  <2>3. QED
    BY <1>2, <2>1, <2>2, RequestHolds
<1>3. ASSUME NEW s \in Senders, request'[s].pc = "checked" PROVE request'[s].invoice \notin Imported
  BY <1>3, CheckedHere DEF ChannelOK
<1>4. ASSUME NEW t \in Tid, NEW j \in Imported, Made(t)', transmission'[t].channel = "PEC"
      PROVE  transmission'[t].file # invoice'[j].file
  <2>1. CASE Kept(t)
    BY <1>4, <2>1, ImportedKept DEF Kept, ChannelOK
  <2>2. ASSUME NEW i \in Invoices, ClaimedFor(t, i) PROVE transmission'[t].file # invoice'[j].file
    <3>1. i \notin Imported /\ invoice[i].file \in File /\ transmission'[t].file = invoice[i].file
      BY <2>2 DEF ClaimedFor, MadeFor, ChannelOK, FilesOK
    <3>2. NoFile \notin File /\ j \in Invoices
      BY SdiAssumption DEF File, NoFile
    <3>3. QED
      BY <3>1, <3>2, ImportedKept DEF FilesOK
  <2>3. QED
    BY <1>4, <2>1, <2>2, RowStep
<1>5. QED
  BY <1>1, <1>2, <1>3, <1>4 DEF ChannelOK

LEMMA VerdictsStep ==
  ASSUME BaseInv, VerdictsOK, [Next]_vars
  PROVE  VerdictsOK'
<1> USE DEF BaseInv, TypeOK
<1> SUFFICES ASSUME NEW v \in verdict'
             PROVE  /\ v.of # 0 => message'[v.of] = "delivered" /\ v.file = transmission'[v.of].file
                    /\ v.of = 0 => \E i \in Imported : v.file = invoice'[i].file
    BY DEF VerdictsOK
<1>1. CASE v \in verdict
  <2>1. v.of # 0 => v.of \in Tid
    BY <1>1, SdiAssumption DEF Receipt, Tid
  <2>2. v.of # 0 => message'[v.of] = "delivered" /\ v.file = transmission'[v.of].file
    BY <1>1, <2>1, DeliveredStays, MadeKept DEF VerdictsOK, RowsOK, Kept
  <2>3. v.of = 0 => \E i \in Imported : v.file = invoice'[i].file
    BY <1>1, ImportedKept DEF VerdictsOK
  <2>4. QED
    BY <2>2, <2>3
<1>2. ASSUME NEW t \in Tid, SdiAnswer(t), v \notin verdict
      PROVE  v.of # 0 /\ message'[v.of] = "delivered" /\ v.file = transmission'[v.of].file
  BY <1>2, SdiAssumption DEF SdiAnswer, Tid
<1>3. ASSUME NEW i \in Invoices, SdiAnswerElsewhere(i), v \notin verdict
      PROVE  v.of = 0 /\ i \in Imported /\ v.file = invoice'[i].file
  BY <1>3 DEF SdiAnswerElsewhere
<1>4. QED
  BY <1>1, <1>2, <1>3, VerdictStep

\* SDI is asked about a file once: by a message, which is the only one delivered, or elsewhere.
LEMMA OneVerdictStep ==
  ASSUME IInv, ChannelOK, VerdictsOK, OneVerdict, [Next]_vars
  PROVE  OneVerdict'
<1> USE DEF IInv, BaseInv, TypeOK
<1>1. CASE UNCHANGED verdict
  BY <1>1 DEF OneVerdict
<1>2. ASSUME NEW t \in Tid, SdiAnswer(t) PROVE OneVerdict'
  <2>1. PICK type \in SdiTypes : verdict' = verdict \cup {[type |-> type, of |-> t, file |-> transmission[t].file]}
    BY <1>2 DEF SdiAnswer
  <2>2. ASSUME NEW w \in verdict, w.file = transmission[t].file PROVE FALSE
    <3>1. message[t] = "delivered" /\ w.of # t
      BY <1>2 DEF SdiAnswer
    <3>2. CASE w.of # 0
      <4>1. w.of \in Tid /\ message[w.of] = "delivered" /\ w.file = transmission[w.of].file
        BY <3>2, SdiAssumption DEF Receipt, Tid, VerdictsOK
      <4>2. Open(t) /\ Open(w.of)
        BY <3>1, <4>1 DEF Open
      <4>3. QED
        BY <2>2, <3>1, <4>1, <4>2 DEF OneOpen
    <3>3. CASE w.of = 0
      <4>1. Made(t) /\ transmission[t].channel = "PEC"
        BY <3>1 DEF RowsOK, ChannelOK
      <4>2. QED
        BY <2>2, <3>3, <4>1 DEF VerdictsOK, ChannelOK
    <3>4. QED
      BY <3>2, <3>3
  <2>3. QED
    BY <2>1, <2>2 DEF OneVerdict
<1>3. ASSUME NEW i \in Invoices, SdiAnswerElsewhere(i) PROVE OneVerdict'
  BY <1>3 DEF SdiAnswerElsewhere, Judged, OneVerdict
<1>4. QED
  BY <1>1, <1>2, <1>3, VerdictStep

LEMMA CurrentStep ==
  ASSUME GenuineInv, CurrentOK, [Next]_vars
  PROVE  CurrentOK'
<1> USE DEF GenuineInv, BaseInv, TypeOK
<1> SUFFICES ASSUME NEW t \in Tid, Made(t)', \A v \in verdict' : v.file = transmission'[t].file => v.type # "NS"
             PROVE  invoice'[transmission'[t].invoice].file = transmission'[t].file
    BY DEF CurrentOK
<1>1. CASE Made(t)
  <2> DEFINE i == transmission[t].invoice
  <2>1. Kept(t) /\ i \in Invoices /\ transmission[t].file \in File
    BY <1>1, MadeKept DEF RowsOK
  <2>2. (\A v \in verdict : v.file = transmission[t].file => v.type # "NS") /\ invoice[i].file = transmission[t].file
    BY <1>1, <2>1, VerdictsGrow DEF Kept, CurrentOK
  <2>3. NoFile \notin File
    BY SdiAssumption DEF File, NoFile
  <2>4. ~ issue(i)
    BY <2>1, <2>2, <2>3 DEF issue, BlankOK
  <2>5. ~ reopenForCorrection(i)
    <3>1. SUFFICES ASSUME invoice[i].status = "REJECTED" PROVE FALSE
      BY DEF reopenForCorrection
    <3>2. PICK v \in verdict : v.file = invoice[i].file /\ OutcomeOf[v.type].invoice = "REJECTED"
      BY <2>1, <3>1 DEF DecidedOK, Decided
    <3>3. v.type \in SdiTypes
      BY DEF ReadersOK
    <3>4. v.type = "NS"
      BY <3>2, <3>3 DEF OutcomeOf, SdiTypes
    <3>5. QED
      BY <2>2, <3>2, <3>4
  <2>6. invoice'[i].file = invoice[i].file
    BY <2>1, <2>4, <2>5, InvoiceStep DEF InvoiceMoves
  <2>7. QED
    BY <2>1, <2>2, <2>6 DEF Kept
<1>2. ASSUME NEW i \in Invoices, MadeFor(t, i) PROVE invoice'[transmission'[t].invoice].file = transmission'[t].file
  BY <1>2 DEF MadeFor
<1>3. CASE ~ Made(t)
  BY <1>2, <1>3, RowStep DEF Kept
<1>4. QED
  BY <1>1, <1>3

LEMMA LifeInit == Init => LifeInv
<1> SUFFICES ASSUME Init PROVE LifeInv
    OBVIOUS
<1>1. OneOpen /\ IssuedClosed
  BY DEF Init, OneOpen, IssuedClosed, Open, Unsent, Unreported, IdleRequest
<1>2. ChannelOK /\ VerdictsOK /\ OneVerdict /\ CurrentOK
  BY DEF Init, ChannelOK, VerdictsOK, OneVerdict, CurrentOK, Made, NoTransmission, IdleRequest
<1>3. QED
  BY <1>1, <1>2, BaseInit, GenuineInit DEF LifeInv, IInv

LEMMA LifeStep ==
  ASSUME SmtpAmbiguous = FALSE
  PROVE  LifeInv /\ [Next]_vars => LifeInv'
<1> SUFFICES ASSUME LifeInv, [Next]_vars PROVE LifeInv'
    OBVIOUS
<1>1. IInv'
  BY BaseStep, OneOpenStep, IssuedClosedStep DEF LifeInv, IInv
<1>2. QED
  BY <1>1, GenuineStep, ChannelStep, VerdictsStep, OneVerdictStep, CurrentStep DEF LifeInv, GenuineInv

\* SDI issues an invoice at most once, in whatever files it is sent, when an SMTP error means that the message did not
\* leave (sdi-transmissions.service.ts, send; invoice-correction.ts: only a rejected file is left for another).
THEOREM IssuedAtMostOnce ==
  ASSUME SmtpAmbiguous = FALSE
  PROVE  Spec => []IssuedOnce
<1>1. ASSUME LifeInv PROVE IssuedOnce
  <2> SUFFICES ASSUME NEW v \in verdict, NEW w \in verdict, v.of # 0, w.of # 0, v # w,
                      v.type \in {"RC", "MC"}, w.type \in {"RC", "MC"},
                      transmission[v.of].invoice = transmission[w.of].invoice
               PROVE  FALSE
      BY DEF IssuedOnce
  <2>1. ASSUME NEW x \in verdict, x.of # 0, x.type \in {"RC", "MC"}
        PROVE  invoice[transmission[x.of].invoice].file = x.file
    <3>1. x.of \in Tid /\ message[x.of] = "delivered" /\ x.file = transmission[x.of].file
      BY <1>1, <2>1, SdiAssumption DEF LifeInv, IInv, BaseInv, TypeOK, Receipt, Tid, VerdictsOK
    <3>2. Made(x.of)
      BY <1>1, <3>1 DEF LifeInv, IInv, BaseInv, RowsOK
    <3>3. \A y \in verdict : y.file = x.file => y.type # "NS"
      BY <1>1, <2>1 DEF LifeInv, OneVerdict
    <3>4. QED
      BY <1>1, <3>1, <3>2, <3>3 DEF LifeInv, CurrentOK
  <2>2. v.file = w.file
    BY <2>1
  <2>3. QED
    BY <1>1, <2>2 DEF LifeInv, OneVerdict
<1>2. QED
  BY <1>1, LifeInit, LifeStep, PTL DEF Spec

-----------------------------------------------------------------------------
(***************************************************************************)
(* The refinement: each step is one of InvoiceLifecycle on one invoice.    *)
(***************************************************************************)
\* What stands for the variables of InvoiceLifecycle.
StatusOf == [i \in Invoices |-> invoice[i].status]
FileOf   == [i \in Invoices |-> invoice[i].file]
Used     == UsedFiles \ {NoFile}

\* One invoice written.
LEMMA Written ==
  ASSUME NEW i \in Invoices, \A j \in Invoices : j # i => invoice'[j] = invoice[j]
  PROVE  /\ StatusOf' = [StatusOf EXCEPT ![i] = invoice'[i].status]
         /\ FileOf' = [FileOf EXCEPT ![i] = invoice'[i].file]
         /\ invoice'[i].file = invoice[i].file => UNCHANGED FileOf
         /\ invoice'[i].status = invoice[i].status => UNCHANGED StatusOf
  BY DEF StatusOf, FileOf

\* A transmission has the file of its invoice from the start, so only an invoice brings a new one.
LEMMA UsedByTransmissions ==
  ASSUME BaseInv, BlankOK, [Next]_vars, NEW t \in Tid
  PROVE  \/ transmission'[t].file = transmission[t].file
         \/ transmission[t].file = NoFile /\ \E i \in Invoices : /\ transmission'[t].file = invoice[i].file
                                                                 /\ invoice'[i].file = invoice[i].file
  BY RowStep DEF Kept, MadeFor, BlankOK

LEMMA UsedKept ==
  ASSUME BaseInv, BlankOK, [Next]_vars,
         \A i \in Invoices : \/ invoice'[i].file = invoice[i].file
                             \/ /\ invoice'[i].file = NoFile
                                /\ \E t \in Tid : Made(t) /\ transmission[t].file = invoice[i].file
  PROVE  UNCHANGED Used
<1>1. ASSUME NEW f \in UsedFiles, f # NoFile PROVE f \in UsedFiles'
  <2>1. CASE \E t \in Tid : transmission[t].file = f
    BY <1>1, <2>1, UsedByTransmissions DEF UsedFiles
  <2>2. CASE \E i \in Invoices : invoice[i].file = f /\ invoice'[i].file = f
    BY <2>2 DEF UsedFiles
  <2>3. QED
    BY <1>1, <2>1, <2>2 DEF UsedFiles
<1>2. ASSUME NEW f \in UsedFiles', f # NoFile PROVE f \in UsedFiles
  <2>1. ASSUME NEW t \in Tid, transmission'[t].file = f PROVE f \in UsedFiles
    BY <2>1, UsedByTransmissions DEF UsedFiles
  <2>2. ASSUME NEW i \in Invoices, invoice'[i].file = f PROVE f \in UsedFiles
    BY <1>2, <2>2 DEF UsedFiles
  <2>3. QED
    BY <2>1, <2>2 DEF UsedFiles
<1>3. QED
  BY <1>1, <1>2 DEF Used

LEMMA IssueIsIssue ==
  ASSUME BaseInv, BlankOK, NEW i \in Invoices, issue(i)
  PROVE  Lifecycle!Issue(i)
<1> USE DEF BaseInv, TypeOK
<1>1. PICK f \in File : /\ \A g \in UsedFiles : g < f
                        /\ invoice' = [invoice EXCEPT ![i] = [status |-> "ISSUED", file |-> f]]
  BY DEF issue
<1>2. /\ invoice[i].status = "DRAFT" /\ invoice[i].file = NoFile /\ UNCHANGED transmission
      /\ invoice'[i].status = "ISSUED" /\ invoice'[i].file = f
      /\ \A j \in Invoices : j # i => invoice'[j] = invoice[j]
  BY <1>1 DEF issue, BlankOK
<1>3. f \notin UsedFiles /\ f # NoFile
  <2>1. ~ (f < f) /\ NoFile \notin File
    BY SdiAssumption DEF File, NoFile
  <2>2. QED
    BY <1>1, <2>1
<1>4. Used' = Used \cup {f}
  <2>1. ASSUME NEW g PROVE g \in UsedFiles' /\ g # NoFile <=> (g \in UsedFiles /\ g # NoFile) \/ g = f
    BY <1>2, <1>3 DEF UsedFiles
  <2>2. QED
    BY <2>1 DEF Used
<1>5. StatusOf' = [StatusOf EXCEPT ![i] = "ISSUED"] /\ FileOf' = [FileOf EXCEPT ![i] = f] /\ StatusOf[i] = "DRAFT"
  BY <1>2, Written DEF StatusOf
<1>6. f \in File \ Used
  BY <1>3 DEF Used
<1>7. QED
  BY <1>4, <1>5, <1>6 DEF Lifecycle!Issue, Lifecycle!TakeFile, Lifecycle!Become, StatusOf, FileOf, Used

LEMMA CorrectIsCorrect ==
  ASSUME GenuineInv, [Next]_vars, NEW i \in Invoices, reopenForCorrection(i)
  PROVE  Lifecycle!Correct(i)
<1> USE DEF GenuineInv, BaseInv, TypeOK
<1>1. /\ invoice[i].status = "REJECTED" /\ invoice'[i].status = "DRAFT" /\ invoice'[i].file = NoFile
      /\ \A j \in Invoices : j # i => invoice'[j] = invoice[j]
  BY DEF reopenForCorrection
<1>2. UNCHANGED Used
  <2>1. \E t \in Tid : Made(t) /\ transmission[t].file = invoice[i].file
    BY <1>1 DEF DecidedOK, Decided
  <2>2. QED
    BY <1>1, <2>1, UsedKept
<1>3. StatusOf' = [StatusOf EXCEPT ![i] = "DRAFT"] /\ FileOf' = [FileOf EXCEPT ![i] = NoFile] /\ StatusOf[i] = "REJECTED"
  BY <1>1, Written DEF StatusOf
<1>4. QED
  BY <1>2, <1>3 DEF Lifecycle!Correct, Lifecycle!Become, StatusOf, FileOf, Used

\* A receipt of SDI decides an undecided invoice, or says again what has decided it.
LEMMA JudgingDecides ==
  ASSUME GenuineInv, OneVerdict, NEW i \in Invoices, Judging(i)
  PROVE  /\ invoice'[i].status \in Decided
         /\ invoice[i].status \in {"ISSUED", "SENT"} \/ invoice'[i].status = invoice[i].status
<1> USE DEF GenuineInv, BaseInv, TypeOK
<1>1. PICK v \in verdict, t \in Tid : /\ v.file = invoice[i].file /\ v.type \in SdiTypes
                                      /\ invoice'[i].status = OutcomeOf[v.type].invoice
                                      /\ Made(t) /\ transmission[t].file = invoice[i].file
  BY JudgingGenuine
<1>2. invoice'[i].status \in Decided
  BY <1>1 DEF OutcomeOf, SdiTypes, Decided
<1>3. invoice[i].status # "DRAFT"
  <2>1. invoice[i].file \in File /\ NoFile \notin File
    BY <1>1, SdiAssumption DEF RowsOK, File, NoFile
  <2>2. QED
    BY <2>1 DEF BlankOK
<1>4. invoice[i].status \in Decided => invoice'[i].status = invoice[i].status
  BY <1>1 DEF DecidedOK, OneVerdict
<1>5. invoice[i].status \in InvoiceStatus
  BY DEF InvoiceRow
<1>6. QED
  BY <1>2, <1>3, <1>4, <1>5 DEF InvoiceStatus, Decided

LEMMA MoveIsMove ==
  ASSUME GenuineInv, OneVerdict, [Next]_vars, NEW i \in Invoices, invoice'[i].file = invoice[i].file,
         Resent(i) \/ Reopened(i) \/ Judging(i), \A j \in Invoices : j # i => invoice'[j] = invoice[j]
  PROVE  Lifecycle!Send(i) \/ Lifecycle!Reopen(i) \/ Lifecycle!Decide(i) \/ UNCHANGED Lifecycle!vars
<1>1. UNCHANGED Used
  BY UsedKept DEF GenuineInv
<1>2. UNCHANGED FileOf /\ StatusOf' = [StatusOf EXCEPT ![i] = invoice'[i].status] /\ StatusOf[i] = invoice[i].status
      /\ (invoice'[i].status = invoice[i].status => UNCHANGED StatusOf)
  BY Written DEF StatusOf
<1>3. CASE Resent(i)
  <2>1. StatusOf[i] = "ISSUED" /\ StatusOf' = [StatusOf EXCEPT ![i] = "SENT"]
    BY <1>2, <1>3 DEF Resent
  <2>2. Lifecycle!Send(i)
    BY <1>1, <1>2, <2>1 DEF Lifecycle!Send, Lifecycle!Become, StatusOf, FileOf, Used
  <2>3. QED
    BY <2>2
<1>4. CASE Reopened(i)
  <2>1. StatusOf[i] = "SENT" /\ StatusOf' = [StatusOf EXCEPT ![i] = "ISSUED"]
    BY <1>2, <1>4 DEF Reopened
  <2>2. Lifecycle!Reopen(i)
    BY <1>1, <1>2, <2>1 DEF Lifecycle!Reopen, Lifecycle!Become, StatusOf, FileOf, Used
  <2>3. QED
    BY <2>2
<1>5. CASE Judging(i)
  <2>1. invoice'[i].status \in Decided
        /\ (StatusOf[i] \in {"ISSUED", "SENT"} \/ UNCHANGED StatusOf)
    BY <1>2, <1>5, JudgingDecides
  <2>2. CASE UNCHANGED StatusOf
    BY <1>1, <1>2, <2>2 DEF Lifecycle!vars, StatusOf, FileOf, Used
  <2>3. CASE StatusOf[i] \in {"ISSUED", "SENT"}
    <3>1. Lifecycle!Decide(i)
      BY <1>1, <1>2, <2>1, <2>3
      DEF Lifecycle!Decide, Lifecycle!Become, Lifecycle!Undecided, Lifecycle!Decided, StatusOf, FileOf, Used, Decided
    <3>2. QED
      BY <3>1
  <2>4. QED
    BY <2>1, <2>2, <2>3
<1>6. QED
  BY <1>3, <1>4, <1>5

LEMMA LifecycleStep == LifeInv /\ [Next]_vars => [Lifecycle!Next]_Lifecycle!vars
<1> SUFFICES ASSUME LifeInv, [Next]_vars PROVE Lifecycle!Next \/ UNCHANGED Lifecycle!vars
    OBVIOUS
<1> USE DEF LifeInv, GenuineInv
<1>1. CASE UNCHANGED invoice
  <2>1. UNCHANGED <<StatusOf, FileOf, Used>>
    BY <1>1, UsedKept DEF StatusOf, FileOf
  <2>2. QED
    BY <2>1 DEF Lifecycle!vars, StatusOf, FileOf, Used
<1>2. ASSUME NEW i \in Invoices, InvoiceMoves(i), \A j \in Invoices : j # i => invoice'[j] = invoice[j]
      PROVE  Lifecycle!Next \/ UNCHANGED Lifecycle!vars
  <2>1. CASE issue(i)
    BY <2>1, IssueIsIssue DEF Lifecycle!Next
  <2>2. CASE reopenForCorrection(i)
    BY <2>2, CorrectIsCorrect DEF Lifecycle!Next
  <2>3. CASE invoice'[i].file = invoice[i].file /\ (Resent(i) \/ Reopened(i) \/ Judging(i))
    BY <1>2, <2>3, MoveIsMove DEF Lifecycle!Next
  <2>4. QED
    BY <1>2, <2>1, <2>2, <2>3 DEF InvoiceMoves
<1>3. QED
  BY <1>1, <1>2, InvoiceStep

LEMMA LifecycleInit == Init => Lifecycle!Init
<1> SUFFICES ASSUME Init PROVE Lifecycle!Init
    OBVIOUS
<1> USE GenuineInit DEF GenuineInv, BaseInv, TypeOK
<1>1. \A i \in Invoices : invoice[i] \in InvoiceRow /\ invoice[i].status \in {"DRAFT", "ISSUED"}
  BY DEF Init
<1>2. StatusOf \in [Invoices -> {"NONE", "DRAFT", "ISSUED"}] /\ FileOf \in [Invoices -> File \cup {NoFile}]
  BY <1>1 DEF StatusOf, FileOf, InvoiceRow
<1>3. \A i, j \in Invoices : FileOf[i] = FileOf[j] => i = j \/ FileOf[i] = NoFile
  BY DEF FileOf, FilesOK
<1>4. \A i \in Invoices : StatusOf[i] = "ISSUED" <=> FileOf[i] # NoFile
  <2>1. NoFile \notin File
    BY SdiAssumption DEF File, NoFile
  <2>2. QED
    BY <1>1, <2>1 DEF StatusOf, FileOf, FilesOK, BlankOK
<1>5. Used = {FileOf[i] : i \in Invoices} \ {NoFile}
  <2>1. \A t \in Tid : transmission[t].file = NoFile
    BY DEF Init, NoTransmission
  <2>2. \A i \in Invoices : FileOf[i] = invoice[i].file
    BY DEF FileOf
  <2>3. ASSUME NEW f PROVE f \in UsedFiles /\ f # NoFile <=> f \in {FileOf[i] : i \in Invoices} /\ f # NoFile
    BY <2>1, <2>2 DEF UsedFiles
  <2>4. QED
    BY <2>3 DEF Used
<1>6. QED
  BY <1>2, <1>3, <1>4, <1>5 DEF Lifecycle!Init, StatusOf, FileOf, Used

\* Requests, syncs and uploads, wherever they stop, move an invoice only as InvoiceLifecycle says, when an SMTP error means
\* that the message did not leave (sdi-transmissions.service.ts, sdi-receipts.service.ts, invoice-status.service.ts).
THEOREM LifecycleKept ==
  ASSUME SmtpAmbiguous = FALSE
  PROVE  Spec => ImplementsLifecycle
<1>1. LifeInv /\ [Next]_vars => LifeInv'
  BY LifeStep
<1>2. QED
  BY <1>1, LifeInit, LifecycleInit, LifecycleStep, PTL DEF Spec, ImplementsLifecycle, Lifecycle!Spec
=============================================================================
