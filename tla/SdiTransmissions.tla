---------------------------- MODULE SdiTransmissions ----------------------------
(***************************************************************************)
(* Sending numbered invoices of one tenant to SDI over PEC, and reading    *)
(* the receipts that come back: apps/api/src/sdi and the status changes it *)
(* asks of apps/api/src/invoices/services/invoice-status.service.ts.       *)
(*                                                                         *)
(* Every database call is a step of its own, a $transaction is one step.   *)
(* A request of the sender, a mailbox sync and an upload of receipts hold  *)
(* what they read until they write, so their steps interleave; each of     *)
(* them may stop between two steps.  The tenant's PEC provider and SDI are *)
(* modelled by the messages and receipts they may produce.                 *)
(***************************************************************************)
EXTENDS Integers, FiniteSets, Functions

CONSTANTS
  Invoices,           \* invoices of the tenant
  Imported,           \* the ones sent to SDI with another tool
  NoInvoice,
  Senders,            \* concurrent requests "Invia allo SDI"
  Syncs,              \* mailbox syncs running at once (two after a takeover)
  Uploads,            \* concurrent uploads of receipts
  MaxTransmissions,   \* bound of this model: transmissions ever made
  MaxFiles,           \* bound of this model: file names ever used
  AssignedAtStart,    \* is SDI's address for this tenant known from the settings?
  SmtpAmbiguous       \* may SMTP report an error after the message has left?

ASSUME SdiAssumption ==
  /\ Imported \subseteq Invoices /\ IsFiniteSet(Imported) /\ Cardinality(Imported) <= MaxFiles
  /\ NoInvoice \notin Invoices
  /\ Syncs \cap Uploads = {}
  /\ MaxTransmissions \in Nat /\ MaxFiles \in Nat
  /\ AssignedAtStart \in BOOLEAN /\ SmtpAmbiguous \in BOOLEAN

VARIABLES
  invoice,        \* the invoice rows: status and xmlFileName
  transmission,   \* the SdiTransmission rows, numbered by createdAt
  recorded,       \* the SdiNotification rows: <<transmission, receipt>>
  assigned,       \* is sdiPecAssigned known?
  request,        \* requests of the senders in progress
  reader,         \* syncs and uploads in progress
  message,        \* the PEC message of each transmission, seen from outside
  verdict         \* receipts issued by SDI

vars == <<invoice, transmission, recorded, assigned, request, reader, message, verdict>>

Tid     == 1..MaxTransmissions
File    == 1..MaxFiles
NoFile  == 0
Readers == Syncs \cup Uploads

InvoiceStatus      == {"DRAFT", "ISSUED", "SENT", "DELIVERED", "NOT_DELIVERED", "REJECTED"}
Awaiting           == {"PENDING", "SENT", "ACCEPTED_BY_PEC", "DELIVERED_TO_SDI"}
Outcomes           == {"SDI_DELIVERED", "SDI_NOT_DELIVERED", "SDI_REJECTED"}
TransmissionStatus == Awaiting \cup Outcomes \cup {"ERROR"}

\* Receipts of SDI, and what each one makes of the transmission and of the invoice.
SdiTypes == {"RC", "MC", "NS"}
OutcomeSwapped ==   \* mutant: the status of the invoice written on the transmission
  [RC |-> [transmission |-> "DELIVERED",         invoice |-> "DELIVERED"],
   MC |-> [transmission |-> "NOT_DELIVERED",     invoice |-> "NOT_DELIVERED"],
   NS |-> [transmission |-> "REJECTED",          invoice |-> "REJECTED"]]
OutcomeOf ==
  [RC |-> [transmission |-> "SDI_DELIVERED",     invoice |-> "DELIVERED"],
   MC |-> [transmission |-> "SDI_NOT_DELIVERED", invoice |-> "NOT_DELIVERED"],
   NS |-> [transmission |-> "SDI_REJECTED",      invoice |-> "REJECTED"]]

\* Receipts of the PEC provider that move a transmission; a delay notice is only recorded.
Arrivals      == {"accettazione", "avvenuta-consegna"}
Failures      == {"non-accettazione", "errore-consegna"}
ProviderTypes == Arrivals \cup Failures

\* "of" is the message a receipt answers (0: sent with another tool), the rest of its dedupeKey follows from it.
Receipt   == [type : SdiTypes \cup ProviderTypes, of : 0..MaxTransmissions, file : File]
NoReceipt == [type |-> "none", of |-> 0, file |-> NoFile]

NoTransmission == [status |-> "NONE", invoice |-> NoInvoice, file |-> NoFile, channel |-> "PEC", sent |-> FALSE]
IdleRequest    == [pc |-> "idle", invoice |-> NoInvoice, file |-> NoFile, tid |-> 0]
IdleReader     == [pc |-> "idle", receipt |-> NoReceipt, tid |-> 0, status |-> "NONE", sent |-> FALSE]

Made(t)        == transmission[t].status # "NONE"
IsNext(t)      == ~Made(t) /\ \A u \in Tid : u < t => Made(u)
OfFile(f)      == {t \in Tid : Made(t) /\ transmission[t].file = f}
IsNewest(t, f) == t \in OfFile(f) /\ \A u \in OfFile(f) : u <= t

InvoiceRow      == [status : InvoiceStatus, file : File \cup {NoFile}]
TransmissionRow == [status : TransmissionStatus \cup {"NONE"}, invoice : Invoices \cup {NoInvoice},
                    file : File \cup {NoFile}, channel : {"PEC", "OTHER"}, sent : BOOLEAN]
Request         == [pc : {"idle", "checked", "claimed", "failed", "left", "sent"},
                    invoice : Invoices \cup {NoInvoice}, file : File \cup {NoFile}, tid : Tid \cup {0}]
Reader          == [pc : {"idle", "decided", "matched", "learn"}, receipt : Receipt \cup {NoReceipt},
                    tid : Tid \cup {0}, status : TransmissionStatus \cup {"NONE"}, sent : BOOLEAN]
MessageState    == {"none", "left", "accepted", "refused", "delivered", "bounced"}

TypeOK ==
  /\ invoice \in [Invoices -> InvoiceRow]
  /\ transmission \in [Tid -> TransmissionRow]
  /\ recorded \subseteq Tid \X Receipt
  /\ assigned \in BOOLEAN
  /\ request \in [Senders -> Request]
  /\ reader \in [Readers -> Reader]
  /\ message \in [Tid -> MessageState]
  /\ verdict \subseteq Receipt

\* Drafts, and the invoices imported with the file they were sent in.
Init ==
  /\ \E names \in Bijection(Imported, 1..Cardinality(Imported)) :
       invoice = [i \in Invoices |-> IF i \in Imported THEN [status |-> "ISSUED", file |-> names[i]]
                                                       ELSE [status |-> "DRAFT", file |-> NoFile]]
  /\ transmission = [t \in Tid |-> NoTransmission]
  /\ recorded = {}
  /\ assigned = AssignedAtStart
  /\ request = [s \in Senders |-> IdleRequest]
  /\ reader = [p \in Readers |-> IdleReader]
  /\ message = [t \in Tid |-> "none"]
  /\ verdict = {}

-----------------------------------------------------------------------------
(***************************************************************************)
(* Status changes of an invoice asked by the transmission of file f        *)
(* (InvoiceStatusService): each applies only while f is the current file.  *)
(***************************************************************************)
setOutcomeOfAnyFile(v, f, outcome) == [v EXCEPT !.status = outcome]                             \* mutant
claimForSending(v, f) == IF v.file = f /\ v.status = "ISSUED" THEN [v EXCEPT !.status = "SENT"] ELSE v
reopen(v, f)          == IF v.file = f /\ v.status = "SENT" THEN [v EXCEPT !.status = "ISSUED"] ELSE v
setSdiOutcome(v, f, outcome) == IF v.file = f THEN [v EXCEPT !.status = outcome] ELSE v

UsedFiles == {invoice[i].file : i \in Invoices} \cup {transmission[t].file : t \in Tid}

\* Issuing a draft takes the progressive after every name already used (InvoiceIssuing shows how).
issue(i) ==
  /\ invoice[i].status = "DRAFT"
  /\ \E f \in File :
       /\ \A g \in UsedFiles : g < f
       /\ \A g \in File : g < f => \E h \in UsedFiles : g <= h
       /\ invoice' = [invoice EXCEPT ![i] = [status |-> "ISSUED", file |-> f]]
  /\ UNCHANGED <<transmission, recorded, assigned, request, reader, message, verdict>>

reopenUndelivered(i) ==   \* mutant: an invoice made available is corrected like a rejected one
  /\ invoice[i].status \in {"REJECTED", "NOT_DELIVERED"}
  /\ i \notin Imported
  /\ invoice' = [invoice EXCEPT ![i] = [status |-> "DRAFT", file |-> NoFile]]
  /\ UNCHANGED <<transmission, recorded, assigned, request, reader, message, verdict>>

\* A rejected invoice becomes a numbered draft again and leaves its file.
reopenForCorrection(i) ==
  /\ invoice[i].status = "REJECTED"
  /\ i \notin Imported
  /\ invoice' = [invoice EXCEPT ![i] = [status |-> "DRAFT", file |-> NoFile]]
  /\ UNCHANGED <<transmission, recorded, assigned, request, reader, message, verdict>>

-----------------------------------------------------------------------------
(***************************************************************************)
(* A request to send an invoice (SdiTransmissionsService.send).            *)
(***************************************************************************)
SendCheck(s, i) ==
  /\ request[s].pc = "idle"
  /\ i \notin Imported
  /\ invoice[i].status = "ISSUED"
  /\ ~assigned => \A t \in Tid : ~transmission[t].sent
  /\ request' = [request EXCEPT ![s] = [pc |-> "checked", invoice |-> i, file |-> invoice[i].file, tid |-> 0]]
  /\ UNCHANGED <<invoice, transmission, recorded, assigned, reader, message, verdict>>

SendWithoutClaim(s) ==   \* mutant: the number of rows the claim updated is not looked at
  LET q == request[s] IN
  /\ q.pc = "checked"
  /\ invoice' = [invoice EXCEPT ![q.invoice] = claimForSending(@, q.file)]
  /\ \E t \in Tid :
       /\ IsNext(t)
       /\ transmission' = [transmission EXCEPT ![t] =
            [status |-> "PENDING", invoice |-> q.invoice, file |-> q.file, channel |-> "PEC", sent |-> FALSE]]
       /\ request' = [request EXCEPT ![s].pc = "claimed", ![s].tid = t]
  /\ UNCHANGED <<recorded, assigned, reader, message, verdict>>

\* One transaction: the claim and the PENDING row.
SendClaim(s) ==
  LET q == request[s]
      i == q.invoice
      claimed == claimForSending(invoice[i], q.file)
  IN
  /\ q.pc = "checked"
  /\ claimed # invoice[i]
  /\ invoice' = [invoice EXCEPT ![i] = claimed]
  /\ \E t \in Tid :
       /\ IsNext(t)
       /\ transmission' = [transmission EXCEPT ![t] =
            [status |-> "PENDING", invoice |-> i, file |-> q.file, channel |-> "PEC", sent |-> FALSE]]
       /\ request' = [request EXCEPT ![s].pc = "claimed", ![s].tid = t]
  /\ UNCHANGED <<recorded, assigned, reader, message, verdict>>

SendConflict(s) ==
  LET q == request[s] IN
  /\ q.pc = "checked"
  /\ claimForSending(invoice[q.invoice], q.file) = invoice[q.invoice]
  /\ request' = [request EXCEPT ![s] = IdleRequest]
  /\ UNCHANGED <<invoice, transmission, recorded, assigned, reader, message, verdict>>

\* smtp.send: the message leaves or not, and the call succeeds only if it left.
Smtp(s) ==
  /\ request[s].pc = "claimed"
  /\ \/ /\ message' = [message EXCEPT ![request[s].tid] = "left"]
        /\ request' = [request EXCEPT ![s].pc = "left"]
     \/ /\ request' = [request EXCEPT ![s].pc = "failed"]
        /\ UNCHANGED message
     \/ /\ SmtpAmbiguous
        /\ message' = [message EXCEPT ![request[s].tid] = "left"]
        /\ request' = [request EXCEPT ![s].pc = "failed"]
  /\ UNCHANGED <<invoice, transmission, recorded, assigned, reader, verdict>>

\* One transaction: the failure, and the invoice reopened only if the transmission is still PENDING.
SendFailed(s) ==
  LET t == request[s].tid
      v == transmission[t]
  IN
  /\ request[s].pc = "failed"
  /\ \/ /\ v.status = "PENDING"
        /\ transmission' = [transmission EXCEPT ![t].status = "ERROR"]
        /\ invoice' = [invoice EXCEPT ![v.invoice] = reopen(@, v.file)]
     \/ /\ v.status # "PENDING"
        /\ UNCHANGED <<transmission, invoice>>
  /\ request' = [request EXCEPT ![s] = IdleRequest]
  /\ UNCHANGED <<recorded, assigned, reader, message, verdict>>

\* The two updates after the message has left: status and send time, then the send time alone.
SendLeft(s) ==
  LET t == request[s].tid IN
  /\ request[s].pc = "left"
  /\ \/ /\ transmission[t].status = "PENDING"
        /\ transmission' = [transmission EXCEPT ![t].status = "SENT", ![t].sent = TRUE]
     \/ /\ transmission[t].status # "PENDING"
        /\ UNCHANGED transmission
  /\ request' = [request EXCEPT ![s].pc = "sent"]
  /\ UNCHANGED <<invoice, recorded, assigned, reader, message, verdict>>

SendStamp(s) ==
  /\ request[s].pc = "sent"
  /\ transmission' = [transmission EXCEPT ![request[s].tid].sent = TRUE]
  /\ request' = [request EXCEPT ![s] = IdleRequest]
  /\ UNCHANGED <<invoice, recorded, assigned, reader, message, verdict>>

\* The API stops, or the database fails: nothing written yet is kept but what is committed.
SendStop(s) ==
  /\ request[s].pc # "idle"
  /\ request' = [request EXCEPT ![s] = IdleRequest]
  /\ UNCHANGED <<invoice, transmission, recorded, assigned, reader, message, verdict>>

-----------------------------------------------------------------------------
(***************************************************************************)
(* The PEC provider of the tenant and SDI.  A message that left is         *)
(* accepted or refused, then delivered to SDI's mailbox or bounced; SDI    *)
(* answers each delivery, and rejects a file name it already judged        *)
(* (error 00002).                                                          *)
(***************************************************************************)
Provider(t) ==
  /\ \/ message[t] = "left"     /\ \E m \in {"accepted", "refused"}  : message' = [message EXCEPT ![t] = m]
     \/ message[t] = "accepted" /\ \E m \in {"delivered", "bounced"} : message' = [message EXCEPT ![t] = m]
  /\ UNCHANGED <<invoice, transmission, recorded, assigned, request, reader, verdict>>

Judged(f) == \E v \in verdict : v.file = f

SdiAnswer(t) ==
  /\ message[t] = "delivered"
  /\ \A v \in verdict : v.of # t
  /\ \E type \in SdiTypes :
       /\ Judged(transmission[t].file) => type = "NS"
       /\ verdict' = verdict \cup {[type |-> type, of |-> t, file |-> transmission[t].file]}
  /\ UNCHANGED <<invoice, transmission, recorded, assigned, request, reader, message>>

SdiAnswerElsewhere(i) ==
  /\ i \in Imported
  /\ ~Judged(invoice[i].file)
  /\ \E type \in SdiTypes : verdict' = verdict \cup {[type |-> type, of |-> 0, file |-> invoice[i].file]}
  /\ UNCHANGED <<invoice, transmission, recorded, assigned, request, reader, message>>

ProviderReceipts(t) ==
  {r \in [type : ProviderTypes, of : {t}, file : {transmission[t].file}] :
     \/ r.type = "accettazione"      /\ message[t] \in {"accepted", "delivered", "bounced"}
     \/ r.type = "non-accettazione"  /\ message[t] = "refused"
     \/ r.type = "avvenuta-consegna" /\ message[t] = "delivered"
     \/ r.type = "errore-consegna"   /\ message[t] = "bounced"}

Inbox == (UNION {ProviderReceipts(t) : t \in Tid}) \cup {v \in verdict : v.of # 0}

-----------------------------------------------------------------------------
(***************************************************************************)
(* How a receipt moves a transmission last seen as v                       *)
(* (transmission-transitions.ts); "NONE" when it is only recorded.         *)
(***************************************************************************)
sdiReceiptTransition(v, type) == IF v.status \in Outcomes THEN "NONE" ELSE OutcomeOf[type].transmission

providerReceiptTransition(v, type) ==
  CASE v.status \in Outcomes -> "NONE"
    [] type = "accettazione" /\ v.status \in {"PENDING", "SENT", "ERROR"} -> "ACCEPTED_BY_PEC"
    [] type = "avvenuta-consegna" /\ v.status \notin Outcomes \cup {"DELIVERED_TO_SDI"} -> "DELIVERED_TO_SDI"
    [] type \in Failures /\ v.status \notin Outcomes \cup {"ERROR"} -> "ERROR"
    [] OTHER -> "NONE"

Transition(v, type) == IF type \in SdiTypes THEN sdiReceiptTransition(v, type) ELSE providerReceiptTransition(v, type)

InvoiceAfterOutcome(w, f, v, type) ==   \* mutant: only outcomes reach the invoice
  IF type \in SdiTypes THEN setSdiOutcome(w, f, OutcomeOf[type].invoice) ELSE w

\* The invoice w of a file f after the receipt moved the transmission last seen as v.
InvoiceAfter(w, f, v, type) ==
  CASE type \in SdiTypes -> setSdiOutcome(w, f, OutcomeOf[type].invoice)
    [] type \in Failures -> reopen(w, f)
    [] type \in Arrivals -> IF v.status = "ERROR" THEN claimForSending(w, f) ELSE w

\* The transmission a receipt of the mailbox is about: the message it answers, or the last one of its file.
Matches(t, r) == IF r.type \in ProviderTypes THEN t = r.of ELSE IsNewest(t, r.file)

\* The provider sends the acceptance first, and a sync reads the mailbox in the order of arrival.
InOrder(r) ==
  r.type \in {"avvenuta-consegna", "errore-consegna"} =>
    \E m \in recorded : m[2] = [r EXCEPT !.type = "accettazione"]

\* A sync reads a message and finds its transmission.  Reading again a recorded one changes nothing and is left out.
SyncRead(p) ==
  /\ reader[p].pc = "idle"
  /\ \E r \in Inbox :
       /\ InOrder(r)
       /\ \E t \in Tid :
            /\ Matches(t, r)
            /\ <<t, r>> \notin recorded
            /\ reader' = [reader EXCEPT ![p] = [pc |-> "matched", receipt |-> r, tid |-> t,
                                                status |-> transmission[t].status, sent |-> transmission[t].sent]]
  /\ UNCHANGED <<invoice, transmission, recorded, assigned, request, message, verdict>>

\* The invoice a file belongs to: its current one, or the one of an earlier transmission.
InvoiceOfFile(i, f) ==
  \/ invoice[i].file = f
  \/ /\ \A j \in Invoices : invoice[j].file # f
     /\ \E t \in Tid : IsNewest(t, f) /\ transmission[t].invoice = i

\* Is the outcome of f already known, from the last transmission of the file?
KnownOutcome(f) == \E t \in Tid : IsNewest(t, f) /\ transmission[t].status \in Outcomes

\* An uploaded receipt of a stored invoice that is neither recorded nor at odds with a known outcome.
UploadMatch(p) ==
  /\ reader[p].pc = "idle"
  /\ \E r \in verdict :
       /\ \E i \in Invoices : InvoiceOfFile(i, r.file)
       /\ \A m \in recorded : m[2] # r
       /\ ~KnownOutcome(r.file)
       /\ reader' = [reader EXCEPT ![p].pc = "decided", ![p].receipt = r]
  /\ UNCHANGED <<invoice, transmission, recorded, assigned, request, message, verdict>>

\* It reads the last transmission of the file again, or makes one for an invoice sent with another tool.
UploadFind(p) ==
  LET f == reader[p].receipt.file
      Matched(t, status, sent) ==
        reader' = [reader EXCEPT ![p].pc = "matched", ![p].tid = t, ![p].status = status, ![p].sent = sent]
  IN
  /\ reader[p].pc = "decided"
  /\ \/ \E t \in Tid :
          /\ IsNewest(t, f)
          /\ Matched(t, transmission[t].status, transmission[t].sent)
          /\ UNCHANGED transmission
     \/ /\ OfFile(f) = {}
        /\ \E t \in Tid, i \in Invoices :
             /\ IsNext(t)
             /\ InvoiceOfFile(i, f)
             /\ transmission' = [transmission EXCEPT ![t] =
                  [status |-> "SENT", invoice |-> i, file |-> f, channel |-> "OTHER", sent |-> FALSE]]
             /\ Matched(t, "SENT", FALSE)
  /\ UNCHANGED <<invoice, recorded, assigned, request, message, verdict>>

\* A sync goes on to learn the address of SDI after one of its receipts.
AfterRecord(p) ==
  IF p \in Syncs /\ reader[p].receipt.type \in SdiTypes /\ ~assigned
  THEN [reader EXCEPT ![p].pc = "learn"]
  ELSE [reader EXCEPT ![p] = IdleReader]

\* SdiReceiptsService.record, one transaction: the notification, then what was decided from the row as it was read.
Record(p) ==
  LET v == reader[p]
      t == v.tid
      w == transmission[t]
      next == Transition(v, v.receipt.type)
  IN
  /\ v.pc = "matched"
  /\ <<t, v.receipt>> \notin recorded
  /\ recorded' = recorded \cup {<<t, v.receipt>>}
  /\ \/ /\ next = "NONE"
        /\ UNCHANGED <<transmission, invoice>>
     \/ /\ next # "NONE"
        /\ transmission' = [transmission EXCEPT ![t].status = next,
                                                ![t].sent = IF v.receipt.type \in Arrivals THEN TRUE ELSE @]
        /\ invoice' = [invoice EXCEPT ![w.invoice] = InvoiceAfter(@, w.file, v, v.receipt.type)]
  /\ reader' = AfterRecord(p)
  /\ UNCHANGED <<assigned, request, message, verdict>>

\* The same receipt was recorded in the meantime: the unique key makes the transaction fail.
RecordDuplicate(p) ==
  /\ reader[p].pc = "matched"
  /\ <<reader[p].tid, reader[p].receipt>> \in recorded
  /\ reader' = AfterRecord(p)
  /\ UNCHANGED <<invoice, transmission, recorded, assigned, request, message, verdict>>

Learn(p) ==
  /\ reader[p].pc = "learn"
  /\ assigned' = TRUE
  /\ reader' = [reader EXCEPT ![p] = IdleReader]
  /\ UNCHANGED <<invoice, transmission, recorded, request, message, verdict>>

ReaderStop(p) ==
  /\ reader[p].pc # "idle"
  /\ reader' = [reader EXCEPT ![p] = IdleReader]
  /\ UNCHANGED <<invoice, transmission, recorded, assigned, request, message, verdict>>

-----------------------------------------------------------------------------
Next ==
  \/ \E i \in Invoices : issue(i) \/ reopenForCorrection(i) \/ SdiAnswerElsewhere(i)
  \/ \E s \in Senders :
       \/ \E i \in Invoices : SendCheck(s, i)
       \/ SendClaim(s) \/ SendConflict(s) \/ Smtp(s) \/ SendFailed(s) \/ SendLeft(s) \/ SendStamp(s) \/ SendStop(s)
  \/ \E t \in Tid : Provider(t) \/ SdiAnswer(t)
  \/ \E p \in Syncs : SyncRead(p) \/ Learn(p)
  \/ \E p \in Uploads : UploadMatch(p) \/ UploadFind(p)
  \/ \E p \in Readers : Record(p) \/ RecordDuplicate(p) \/ ReaderStop(p)

Spec == Init /\ [][Next]_vars

awaitingUntilArrived == \E t \in Tid : transmission[t].status \in {"PENDING", "SENT", "ACCEPTED_BY_PEC"}   \* mutant
\* The scheduler polls a mailbox only while some PEC transmission awaits its outcome.
tenantsAwaitingReceipts == \E t \in Tid : transmission[t].channel = "PEC" /\ transmission[t].status \in Awaiting
ScheduledRead(p) == tenantsAwaitingReceipts /\ SyncRead(p)

\* Provider and SDI answer; the scheduler polls; a read that keeps being started is not stopped for ever.
Fairness ==
  /\ \A t \in Tid : WF_vars(Provider(t)) /\ WF_vars(SdiAnswer(t))
  /\ \A p \in Syncs : WF_vars(ScheduledRead(p)) /\ SF_vars(Record(p)) /\ SF_vars(RecordDuplicate(p)) /\ WF_vars(Learn(p))

FairSpec == Spec /\ Fairness

-----------------------------------------------------------------------------
(***************************************************************************)
(* Properties.                                                             *)
(***************************************************************************)

\* SDI receives a file at most once, whatever the interleaving of requests, syncs and uploads and wherever they stop
\* (send, record: the claim comes before the message, and only a failed message reopens).  Needs an SMTP error to mean
\* that the message did not leave.
NoDuplicateDelivery ==
  \A t, u \in Tid : message[t] = "delivered" /\ message[u] = "delivered" /\ t # u => transmission[t].file # transmission[u].file

\* An invoice is issued by SDI at most once: two of its files never both get an RC or an MC (reopenForCorrection
\* only after a rejection of the file that was sent).
IssuedOnce ==
  \A v, w \in verdict :
    /\ v.of # 0 /\ w.of # 0 /\ v # w
    /\ v.type \in {"RC", "MC"} /\ w.type \in {"RC", "MC"}
    => transmission[v.of].invoice # transmission[w.of].invoice

\* An outcome shown on an invoice was given by SDI to its current file, not to a file it had before a correction.
OutcomeGenuine ==
  \A i \in Invoices : \A type \in SdiTypes :
    invoice[i].status = OutcomeOf[type].invoice => \E v \in verdict : v.file = invoice[i].file /\ v.type = type

\* An invoice shown as sent is waiting for something: a transmission of its file still awaits an outcome, so that it is
\* polled and its failure can reopen the invoice (send, record: invoice and transmission change together).
SentIsAwaited ==
  \A i \in Invoices : invoice[i].status = "SENT" =>
    \E t \in OfFile(invoice[i].file) : transmission[t].invoice = i /\ transmission[t].status \in Awaiting

\* transmission-statuses.ts:7, "Outcomes of SDI [...] Nothing overrides them".
OutcomeNeverOverridden ==
  [][\A t \in Tid : transmission[t].status \in Outcomes => transmission'[t].status = transmission[t].status]_vars

\* invoice-status.service.ts:31, "Sent -> issued: the file never reached SDI, so the invoice can be sent again":
\* no transmission of the file is recorded as delivered to SDI when the invoice is reopened.
ReopenedNeverReachedSdi ==
  [][\A i \in Invoices : invoice[i].status = "SENT" /\ invoice'[i].status = "ISSUED" =>
       \A t \in OfFile(invoice[i].file) : transmission'[t].status # "DELIVERED_TO_SDI"]_vars

\* A file delivered to SDI ends with its outcome on the invoice, or the invoice has moved on to another file.
DeliveryDecided ==
  \A t \in Tid : message[t] = "delivered" ~>
    \E i \in Invoices : i = transmission[t].invoice
      /\ (invoice[i].file # transmission[t].file \/ invoice[i].status \in {"DELIVERED", "NOT_DELIVERED", "REJECTED"})

\* The invoices live as InvoiceLifecycle says: every step of the code is one of its steps on one invoice, or none.
Lifecycle == INSTANCE InvoiceLifecycle WITH
  Files <- File, status <- [i \in Invoices |-> invoice[i].status], file <- [i \in Invoices |-> invoice[i].file],
  used <- UsedFiles \ {NoFile}

\* Refinement: no request, sync or upload, wherever it stops, moves an invoice along a way that InvoiceLifecycle does not
\* have: no second decision, no decision on a draft, no file given twice (send, record, reopen, claimForSending).
ImplementsLifecycle == Lifecycle!Spec
=============================================================================
