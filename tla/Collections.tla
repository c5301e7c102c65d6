------------------------------ MODULE Collections ------------------------------
(***************************************************************************)
(* Collections on the documents of one tenant:                             *)
(* apps/api/src/payments/services/payments.service.ts.                     *)
(*                                                                         *)
(* create reads the document, then sums, checks and inserts in a           *)
(* transaction under the advisory lock of the document; remove reads and   *)
(* deletes a row with no lock at all.  What was given back to the customer *)
(* is a negative amount, and a credit note has all signs reversed.         *)
(* Amounts are whole cents; dates, rates and methods are data.             *)
(***************************************************************************)
EXTENDS Integers, FiniteSets, Functions

CONSTANTS
  Documents,         \* issued documents
  Clerks, NoClerk,   \* concurrent requests
  MaxPayments,       \* bound of this model: collections ever recorded
  Totals, Amounts    \* totals a document may have, amounts a request may ask for

ASSUME CollectionsAssumption ==
  /\ {"none", "removed"} \cap Documents = {} /\ NoClerk \notin Clerks
  /\ MaxPayments \in Nat /\ Totals \subseteq Nat /\ Amounts \subseteq Int

VARIABLES
  document,    \* the invoice rows: type, status and total
  payment,     \* the Payment rows
  clerk,       \* requests in progress, with what they read
  collecting,  \* holder of the lock "collect:<document>"
  history      \* seen from outside: documents corrected, given money back on, with a collection removed

collectionVars == <<document, payment, clerk, collecting, history>>

Pid       == 1..MaxPayments
NoPayment == [of |-> "none", amount |-> 0]
Removed   == [of |-> "removed", amount |-> 0]   \* an id is never used again
IdleClerk == [pc |-> "idle"]

CollectionsTypeOK ==
  /\ document \in [Documents -> [type : {"TD01", "TD04"}, status : {"ISSUED", "DRAFT"}, total : Totals]]
  /\ payment \in [Pid -> [of : Documents, amount : Amounts] \cup {NoPayment, Removed}]
  /\ clerk \in [Clerks -> {IdleClerk}
       \cup [pc : {"create"}, of : Documents, amount : Amounts, total : Totals]
       \cup [pc : {"summed"}, of : Documents, amount : Amounts, total : Totals, recorded : Int]
       \cup [pc : {"remove"}, id : Pid]]
  /\ collecting \in [Documents -> Clerks \cup {NoClerk}]
  /\ history \in [corrected : SUBSET Documents, givenBack : SUBSET Documents, removed : SUBSET Documents]

CollectionsInit ==
  /\ document \in [Documents -> [type : {"TD01", "TD04"}, status : {"ISSUED"}, total : Totals]]
  /\ payment = [p \in Pid |-> NoPayment]
  /\ clerk = [c \in Clerks |-> IdleClerk]
  /\ collecting = [d \in Documents |-> NoClerk]
  /\ history = [corrected |-> {}, givenBack |-> {}, removed |-> {}]

Recorded(p) == payment[p].of \in Documents
SumOf(d)    == SumFunction([p \in {q \in Pid : payment[q].of = d} |-> payment[p].amount])
Sign(d)     == IF document[d].type = "TD04" THEN -1 ELSE 1
\* What was collected on a document, or refunded on a credit note.
Collected(d) == Sign(d) * SumOf(d)

EndClerk(c) == clerk' = [clerk EXCEPT ![c] = IdleClerk]

CreateRead(c, d) ==
  /\ clerk[c] = IdleClerk
  /\ document[d].status # "DRAFT"
  /\ \E a \in Amounts : clerk' = [clerk EXCEPT ![c] = [pc |-> "create", of |-> d, amount |-> a, total |-> document[d].total]]
  /\ UNCHANGED <<document, payment, collecting, history>>

CreateSumUnlocked(c) ==   \* mutant: the sum is read before the lock is there
  LET q == clerk[c] IN
  /\ q.pc = "create"
  /\ clerk' = [clerk EXCEPT ![c] = [pc |-> "summed", of |-> q.of, amount |-> q.amount, total |-> q.total, recorded |-> SumOf(q.of)]]
  /\ UNCHANGED <<document, payment, collecting, history>>

\* The lock, and the sum of what is recorded by now.
CreateSum(c) ==
  LET q == clerk[c] IN
  /\ q.pc = "create"
  /\ collecting[q.of] = NoClerk
  /\ collecting' = [collecting EXCEPT ![q.of] = c]
  /\ clerk' = [clerk EXCEPT ![c] = [pc |-> "summed", of |-> q.of, amount |-> q.amount, total |-> q.total, recorded |-> SumOf(q.of)]]
  /\ UNCHANGED <<document, payment, history>>

Unlock(c) == collecting' = [d \in Documents |-> IF collecting[d] = c THEN NoClerk ELSE collecting[d]]

checkCollectable(d, total, recorded, amount) == Sign(d) * recorded + Sign(d) * amount \in 0..total

\* The row is inserted and the transaction commits.
CreateInsert(c) ==
  LET q == clerk[c] IN
  /\ q.pc = "summed"
  /\ checkCollectable(q.of, q.total, q.recorded, q.amount)
  /\ \E p \in Pid :
       /\ payment[p] = NoPayment /\ \A o \in Pid : o < p => payment[o] # NoPayment
       /\ payment' = [payment EXCEPT ![p] = [of |-> q.of, amount |-> q.amount]]
  /\ history' = IF Sign(q.of) * q.amount < 0 THEN [history EXCEPT !.givenBack = @ \cup {q.of}] ELSE history
  /\ EndClerk(c)
  /\ Unlock(c)
  /\ UNCHANGED document

\* Refused by the check, failed, or the API stopped: the transaction is rolled back.
CreateEnd(c) ==
  /\ clerk[c].pc \in {"create", "summed"}
  /\ EndClerk(c)
  /\ Unlock(c)
  /\ UNCHANGED <<document, payment, history>>

RemoveRead(c, p) ==
  /\ clerk[c] = IdleClerk
  /\ Recorded(p)
  /\ clerk' = [clerk EXCEPT ![c] = [pc |-> "remove", id |-> p]]
  /\ UNCHANGED <<document, payment, collecting, history>>

\* Found by its id alone; a row that is gone makes the request fail.
RemoveWrite(c) ==
  LET q == clerk[c] IN
  /\ q.pc = "remove"
  /\ IF Recorded(q.id)
     THEN /\ payment' = [payment EXCEPT ![q.id] = Removed]
          /\ history' = [history EXCEPT !.removed = @ \cup {payment[q.id].of}]
     ELSE UNCHANGED <<payment, history>>
  /\ EndClerk(c)
  /\ UNCHANGED <<document, collecting>>

\* Rejected by SDI and reopened, then issued again with what it says by now (InvoiceIssuing); its collections stay.
Reopened(d) ==
  /\ document[d].status = "ISSUED"
  /\ document' = [document EXCEPT ![d].status = "DRAFT"]
  /\ history' = [history EXCEPT !.corrected = @ \cup {d}]
  /\ UNCHANGED <<payment, clerk, collecting>>

IssuedAgain(d) ==
  /\ document[d].status = "DRAFT"
  /\ \E total \in Totals : document' = [document EXCEPT ![d].status = "ISSUED", ![d].total = total]
  /\ UNCHANGED <<payment, clerk, collecting, history>>

CollectionsNext ==
  \/ \E c \in Clerks :
       \/ \E d \in Documents : CreateRead(c, d)
       \/ \E p \in Pid : RemoveRead(c, p)
       \/ CreateSum(c) \/ CreateInsert(c) \/ CreateEnd(c) \/ RemoveWrite(c)
  \/ \E d \in Documents : Reopened(d) \/ IssuedAgain(d)

CollectionsSpec == CollectionsInit /\ [][CollectionsNext]_collectionVars

-----------------------------------------------------------------------------
\* An invoice is not collected twice, nor a credit note refunded twice, and no more goes back than came in, however the
\* requests overlap (create: one at a time per document).  Removals do no harm where no money ever went back; a
\* document corrected after its collection may have become smaller than it.
CollectedWithinTotal ==
  \A d \in Documents :
    /\ d \notin history.corrected
    /\ d \notin history.removed \/ d \notin history.givenBack
    => Collected(d) \in 0..document[d].total
================================================================================
