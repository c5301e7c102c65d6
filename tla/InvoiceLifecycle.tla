---------------------------- MODULE InvoiceLifecycle ----------------------------
(***************************************************************************)
(* What the API promises about the status and the file of an invoice,      *)
(* whatever the requests, mailbox syncs and uploads behind it do: the life *)
(* of the enum InvoiceStatus of apps/api/prisma/schema.prisma.             *)
(*                                                                         *)
(* SdiTransmissions and InvoiceIssuing implement it, each with its own     *)
(* part of the code in detail.  What is abstracted: who asks for a change, *)
(* how many steps it takes, the transmissions, the lock and the disk.      *)
(***************************************************************************)
CONSTANTS Invoices, Files, NoFile

VARIABLES
  status,   \* of each invoice
  file,     \* the current file of each invoice
  used      \* files that issued invoices have or had when they were sent

vars == <<status, file, used>>

Undecided == {"ISSUED", "SENT"}
Decided   == {"DELIVERED", "NOT_DELIVERED", "REJECTED"}

\* Nothing yet, drafts, and invoices that came with their file.
Init ==
  /\ status \in [Invoices -> {"NONE", "DRAFT", "ISSUED"}]
  /\ file \in [Invoices -> Files \cup {NoFile}]
  /\ \A i, j \in Invoices : file[i] = file[j] => i = j \/ file[i] = NoFile
  /\ \A i \in Invoices : status[i] = "ISSUED" <=> file[i] # NoFile
  /\ used = {file[i] : i \in Invoices} \ {NoFile}

Become(i, s) == status' = [status EXCEPT ![i] = s]

\* A draft is made; it may be removed; an imported invoice comes with a file no other invoice has.
Create(i) == status[i] = "NONE" /\ Become(i, "DRAFT") /\ UNCHANGED <<file, used>>

Remove(i) == status[i] = "DRAFT" /\ Become(i, "REMOVED") /\ UNCHANGED <<file, used>>

\* The only way to a file: one never used before for a draft, one nobody has for an import.
TakeFile(i, f) ==
  /\ Become(i, "ISSUED")
  /\ file' = [file EXCEPT ![i] = f]
  /\ used' = used \cup {f}

Issue(i)  == status[i] = "DRAFT" /\ \E f \in Files \ used : TakeFile(i, f)
Import(i) == status[i] = "NONE" /\ \E f \in Files \ {file[j] : j \in Invoices} : TakeFile(i, f)

\* Sent, or again to be sent: the file stays.
Send(i)   == status[i] = "ISSUED" /\ Become(i, "SENT")   /\ UNCHANGED <<file, used>>
Reopen(i) == status[i] = "SENT"   /\ Become(i, "ISSUED") /\ UNCHANGED <<file, used>>

\* SDI decides once.  Only a rejection is followed by something: a correction, which leaves the file.
Decide(i) == status[i] \in Undecided /\ (\E s \in Decided : Become(i, s)) /\ UNCHANGED <<file, used>>

Correct(i) ==
  /\ status[i] = "REJECTED"
  /\ Become(i, "DRAFT")
  /\ file' = [file EXCEPT ![i] = NoFile]
  /\ UNCHANGED used

Next == \E i \in Invoices :
  Create(i) \/ Remove(i) \/ Issue(i) \/ Import(i) \/ Send(i) \/ Reopen(i) \/ Decide(i) \/ Correct(i)

Spec == Init /\ [][Next]_vars
=================================================================================
