--------------------------------- MODULE Forms ---------------------------------
(***************************************************************************)
(* F24 forms outside the installment plans, of one tenant and one year:    *)
(*   - the stamp duty of a quarter, by form or on the portal:              *)
(*     apps/api/src/f24/services/stamp-duty.service.ts;                    *)
(*   - the four fixed installments of Artigiani and Commercianti, and      *)
(*     contributions entered by hand: contribution-f24.service.ts;         *)
(*   - the status of a form: updateStatus in f24.service.ts.               *)
(*                                                                         *)
(* Every request reads first and writes by id afterwards; nothing locks a  *)
(* quarter or the installments.  Amounts and dates are data.               *)
(***************************************************************************)
EXTENDS Integers, FiniteSets

CONSTANTS
  Quarters,        \* quarters with stamp duty, among 1..4
  Payers,          \* concurrent requests
  MaxForms,        \* bound of this model: forms ever created
  AskedStatuses,   \* statuses requests ask for; the web interface never asks for CANCELLED
  OnePayer         \* do the requests that create a payment come one at a time?

ASSUME FormsAssumption ==
  /\ Quarters \subseteq 1..4 /\ MaxForms \in Nat /\ OnePayer \in BOOLEAN
  /\ AskedStatuses \subseteq {"PLANNED", "PAID", "CANCELLED"}

VARIABLES
  form,    \* the F24 rows outside plans
  period,  \* the StampDutyPeriod rows: form linked, paid on the portal
  payer    \* requests in progress, with what they read

formVars == <<form, period, payer>>

Fid          == 1..MaxForms
NoForm       == 0
Installments == 1..4
NoRow        == [of |-> "none", n |-> 0, status |-> "none"]
DeletedRow   == [of |-> "deleted", n |-> 0, status |-> "none"]   \* an id is never used again
IdlePayer    == [pc |-> "idle"]

FormsTypeOK ==
  /\ form \in [Fid -> [of : {"quarter", "installment", "by_hand"}, n : 0..4, status : {"PLANNED", "PAID", "CANCELLED"}] \cup {NoRow, DeletedRow}]
  /\ period \in [Quarters -> [f24 : Fid \cup {NoForm}, paidOn : BOOLEAN]]
  /\ payer \in [Payers -> {IdlePayer}
       \cup [pc : {"createF24", "mark"}, quarter : Quarters]
       \cup [pc : {"fixed"}, next : Installments]
       \cup [pc : {"update"}, id : Fid, status : AskedStatuses]
       \cup [pc : {"remove"}, id : Fid]]

FormsInit ==
  /\ form = [f \in Fid |-> NoRow]
  /\ period = [q \in Quarters |-> [f24 |-> NoForm, paidOn |-> FALSE]]
  /\ payer = [p \in Payers |-> IdlePayer]

Saved(f)          == form[f] \notin {NoRow, DeletedRow}
EndPayer(p)       == payer' = [payer EXCEPT ![p] = IdlePayer]
NextForm(f)       == form[f] = NoRow /\ \A o \in Fid : o < f => form[o] # NoRow
PlannedNext(f, of, n) == [form EXCEPT ![f] = [of |-> of, n |-> n + 1, status |-> "PLANNED"]]   \* mutant
Planned(f, of, n) == [form EXCEPT ![f] = [of |-> of, n |-> n, status |-> "PLANNED"]]
Paying            == {"createF24", "mark", "fixed"}
MayPay(p)         == OnePayer => \A o \in Payers \ {p} : payer[o].pc \notin Paying

ShownPlanned(q) == IF period[q].f24 # NoForm /\ form[period[q].f24].status = "PLANNED" THEN period[q].f24 ELSE NoForm   \* mutant
\* list: a cancelled form no longer pays the quarter.
Shown(q) == IF period[q].f24 # NoForm /\ form[period[q].f24].status # "CANCELLED" THEN period[q].f24 ELSE NoForm

CreateF24Read(p, q) ==
  /\ payer[p] = IdlePayer /\ MayPay(p)
  /\ ~ period[q].paidOn /\ Shown(q) = NoForm
  /\ payer' = [payer EXCEPT ![p] = [pc |-> "createF24", quarter |-> q]]
  /\ UNCHANGED <<form, period>>

\* The form and the link to it, in one transaction.
CreateF24Write(p) ==
  /\ payer[p].pc = "createF24"
  /\ \E f \in Fid :
       /\ NextForm(f)
       /\ form' = Planned(f, "quarter", payer[p].quarter)
       /\ period' = [period EXCEPT ![payer[p].quarter].f24 = f]
  /\ EndPayer(p)

MarkRead(p, q) ==
  /\ payer[p] = IdlePayer /\ MayPay(p)
  /\ Shown(q) = NoForm
  /\ payer' = [payer EXCEPT ![p] = [pc |-> "mark", quarter |-> q]]
  /\ UNCHANGED <<form, period>>

MarkWrite(p) ==
  /\ payer[p].pc = "mark"
  /\ period' = [period EXCEPT ![payer[p].quarter].paidOn = TRUE]
  /\ EndPayer(p)
  /\ UNCHANGED form

Unmark(q) ==
  /\ period[q].paidOn
  /\ period' = [period EXCEPT ![q].paidOn = FALSE]
  /\ UNCHANGED <<form, payer>>

FixedRows == {f \in Fid : form[f].of \in {"installment", "by_hand"} /\ form[f].status # "CANCELLED"}

ExistingAll == Cardinality(FixedRows) >= 4   \* mutant: what is missing may be created
\* Any row with the reason of the fixed contribution, also one entered by hand.
Existing == FixedRows # {}

FixedRead(p) ==
  /\ payer[p] = IdlePayer /\ MayPay(p)
  /\ ~ Existing
  /\ payer' = [payer EXCEPT ![p] = [pc |-> "fixed", next |-> 1]]
  /\ UNCHANGED <<form, period>>

\* One insert for each installment: each is committed on its own.
FixedWrite(p) ==
  LET i == payer[p].next IN
  /\ payer[p].pc = "fixed"
  /\ \E f \in Fid : NextForm(f) /\ form' = Planned(f, "installment", i)
  /\ IF i < 4 THEN payer' = [payer EXCEPT ![p].next = i + 1] ELSE EndPayer(p)
  /\ UNCHANGED period

CreateByHand ==
  /\ \E f \in Fid : NextForm(f) /\ form' = Planned(f, "by_hand", 0)
  /\ UNCHANGED <<period, payer>>

UpdateStatusRead(p, f) ==
  /\ payer[p] = IdlePayer
  /\ Saved(f)
  /\ \E st \in AskedStatuses : payer' = [payer EXCEPT ![p] = [pc |-> "update", id |-> f, status |-> st]]
  /\ UNCHANGED <<form, period>>

\* By id: it fails if the form is gone.
UpdateStatusWrite(p) ==
  LET q == payer[p] IN
  /\ q.pc = "update"
  /\ form' = IF Saved(q.id) THEN [form EXCEPT ![q.id].status = q.status] ELSE form
  /\ EndPayer(p)
  /\ UNCHANGED period

FormRemoveRead(p, f) ==
  /\ payer[p] = IdlePayer
  /\ Saved(f) /\ form[f].status # "PAID"
  /\ payer' = [payer EXCEPT ![p] = [pc |-> "remove", id |-> f]]
  /\ UNCHANGED <<form, period>>

\* By id; the quarter loses the link.
FormRemoveWrite(p) ==
  LET f == payer[p].id IN
  /\ payer[p].pc = "remove"
  /\ form' = IF Saved(f) THEN [form EXCEPT ![f] = DeletedRow] ELSE form
  /\ period' = [q \in Quarters |-> IF period[q].f24 = f THEN [period[q] EXCEPT !.f24 = NoForm] ELSE period[q]]
  /\ EndPayer(p)

\* A failed statement or a stop: what was committed stays.
PayerEnds(p) ==
  /\ payer[p] # IdlePayer
  /\ EndPayer(p)
  /\ UNCHANGED <<form, period>>

FormsNext ==
  \/ CreateByHand
  \/ \E q \in Quarters : Unmark(q)
  \/ \E p \in Payers :
       \/ \E q \in Quarters : CreateF24Read(p, q) \/ MarkRead(p, q)
       \/ \E f \in Fid : UpdateStatusRead(p, f) \/ FormRemoveRead(p, f)
       \/ CreateF24Write(p) \/ MarkWrite(p) \/ FixedRead(p) \/ FixedWrite(p)
       \/ UpdateStatusWrite(p) \/ FormRemoveWrite(p) \/ PayerEnds(p)

FormsSpec == FormsInit /\ [][FormsNext]_formVars

-----------------------------------------------------------------------------
\* A quarter is never shown as paid twice, by two forms or by a form and on the portal, over any sequence of payments,
\* corrections and deletions in which the requests that pay come one at a time (createF24, markPaidOnPortal, remove).
QuarterPaidOnce ==
  \A q \in Quarters :
    LET paid == {f \in Fid : form[f].of = "quarter" /\ form[f].n = q /\ form[f].status = "PAID"} IN
    /\ Cardinality(paid) <= 1
    /\ period[q].paidOn => paid = {}

\* No installment has two forms, although a creation that failed half way leaves some of the four and can be asked for
\* again at any moment (createFixedInstallments).
InstallmentsOnce == \A f, g \in Fid : {form[f].of, form[g].of} = {"installment"} /\ form[f].n = form[g].n => f = g
================================================================================
