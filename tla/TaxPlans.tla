-------------------------------- MODULE TaxPlans --------------------------------
(***************************************************************************)
(* Tax credits of one tenant and what uses them up: the F24 installment    *)
(* plans (apps/api/src/f24/services/f24.service.ts), whose forms offset    *)
(* them, and the filed returns (taxes/services/return-filing.service.ts),  *)
(* which register them and carry those of the year before.  The credits    *)
(* themselves are tax-credits/services/tax-credits.service.ts.             *)
(*                                                                         *)
(* A request reads what it decides on, and writes later, by the id it      *)
(* read; each write is one statement or transaction.  Amounts are in units *)
(* of the instance; what a year owes or overpaid is data.                  *)
(***************************************************************************)
EXTENDS Integers, FiniteSetsExt, Functions

CONSTANTS
  Requests,      \* concurrent requests
  Years,         \* tax years that may have a return or a plan, consecutive
  MaxCredits,    \* bound of this model: credits in the registry
  Dues,          \* what the balance and the advances of a year come to
  Excesses,      \* substitute tax overpaid in a year (LM45 - LM42), negative when it is owed
  InpsExcesses,  \* contributions overpaid in a year (RR8), never negative
  Entered,       \* amounts of the credits entered by hand
  EnteredYears,  \* and their reference years
  Overlaps,      \* sets of operations of which two may be under way at once
  AnyReturn      \* may a return be taken back after the next one has carried its credits?

Ops == {"createPlan", "deletePlan", "updateStatus", "update", "remove", "markFiled", "unmark"}

ASSUME PlansAssumption ==
  /\ IsFiniteSet(Requests) /\ Years \subseteq Nat \ {0} /\ IsFiniteSet(Years)
  /\ MaxCredits \in Nat
  /\ Dues \subseteq Nat \ {0} /\ Entered \subseteq Nat \ {0} /\ EnteredYears \subseteq Int
  /\ Excesses \subseteq Int /\ InpsExcesses \subseteq Nat
  /\ Overlaps \subseteq SUBSET Ops /\ AnyReturn \in BOOLEAN

VARIABLES
  credit,      \* the TaxCredit rows
  plan,        \* the InstallmentPlan rows by tax year, with the uses of their credit lines
  filed,       \* the TaxReturn rows by year, all FILED
  request      \* requests in progress, with what they read

vars == <<credit, plan, filed, request>>

CreditIds   == 1..MaxCredits
CreditYears == Years \cup EnteredYears
Codes       == {"SUBSTITUTE", "INPS"}   \* TREASURY 1792, and the reason of the contributions
\* Ids are never given twice, and those of the credits are in the order of createdAt: a new row takes an id that no
\* request has read, and a new credit one after all others.
RowIds      == 1..Cardinality(Requests)
None        == 0

\* `ret` is the year of the return that registered a credit, `by` of the one that absorbed it; no row has amount 0.
Credit == [code : Codes, year : CreditYears, amount : Nat \ {0}, ret : Years \cup {None}, by : Years \cup {None}]
NoCredit == [amount |-> 0, by |-> None]
Uses     == [CreditIds -> Nat]
NoUses   == [c \in CreditIds |-> 0]
\* `paid`: some form of the plan is PAID, the others PLANNED or CANCELLED.
Plan     == [id : RowIds, uses : Uses, paid : BOOLEAN]
NoPlan   == [id |-> 0, uses |-> NoUses, paid |-> FALSE]
\* LM43, and the part of it already used, LM44.
Return   == [id : RowIds, previous : Nat, previousUsed : Nat]
NoReturn == [id |-> 0]

Idle    == [op |-> "idle"]
Request == {Idle}
  \cup [op : {"createPlan"}, year : Years, uses : Uses]
  \cup [op : {"deletePlan", "unmark"}, year : Years, id : RowIds]
  \cup [op : {"update", "remove"}, credit : CreditIds]
  \cup [op : {"markFiled"}, year : Years, previous : Nat, previousUsed : Nat, credits : [Codes -> Nat]]

TypeOK ==
  /\ credit \in [CreditIds -> Credit \cup {NoCredit}]
  /\ plan \in [Years -> Plan \cup {NoPlan}]
  /\ filed \in [Years -> Return \cup {NoReturn}]
  /\ request \in [Requests -> Request]

Init ==
  /\ credit = [c \in CreditIds |-> NoCredit]
  /\ plan = [y \in Years |-> NoPlan]
  /\ filed = [y \in Years |-> NoReturn]
  /\ request = [r \in Requests |-> Idle]

Exists(c) == credit[c].amount > 0
Filed(y)  == filed[y] # NoReturn

\* The newest credit that is in the registry or that a request has read.
lastCredit ==
  LET read(q) == IF q.op \in {"update", "remove"} THEN {q.credit}
                 ELSE IF q.op = "createPlan" THEN {c \in CreditIds : q.uses[c] > 0} ELSE {}
  IN Max({0} \cup {c \in CreditIds : Exists(c)} \cup UNION {read(request[r]) : r \in Requests})
FreshId(y, op) ==
  CHOOSE id \in RowIds : \A r \in Requests : request[r].op = op /\ request[r].year = y => request[r].id # id

\* Only the operations of Overlaps are under way together; any other request waits for the answer.
MayStart(r, op) ==
  /\ request[r] = Idle
  /\ \A o \in Requests : request[o] # Idle => {request[o].op, op} \in Overlaps

\* A request starts with what it reads, and ends with its write or its refusal.
Begin(r, q) ==
  /\ MayStart(r, q.op)
  /\ request' = [request EXCEPT ![r] = q]
  /\ UNCHANGED <<credit, plan, filed>>
End(r) == request' = [request EXCEPT ![r] = Idle]

-----------------------------------------------------------------------------
(***************************************************************************)
(* The registry: what of a credit is left, and the credits entered.        *)
(***************************************************************************)
Used(c)      == SumFunction([y \in Years |-> plan[y].uses[c]])
RemainingAbsorbed(c) == credit[c].amount - Used(c)   \* mutant: an absorbed credit keeps what is left of it
Remaining(c) == IF credit[c].by # None THEN 0 ELSE credit[c].amount - Used(c)
available    == {c \in CreditIds : Exists(c) /\ Remaining(c) > 0}

\* Deleting credits deletes the uses of them.
Forget(gone) == [y \in Years |-> [plan[y] EXCEPT !.uses = [c \in CreditIds |-> IF c \in gone THEN 0 ELSE @[c]]]]

\* A credit as the taxpayer enters it.
Entry(ret) == [code : Codes, year : EnteredYears, amount : Entered, ret : {ret}, by : {None}]

create(r) ==
  /\ request[r] = Idle /\ lastCredit < MaxCredits
  /\ \E e \in Entry(None) : credit' = [credit EXCEPT ![lastCredit + 1] = e]
  /\ UNCHANGED <<plan, filed, request>>

unusedInForms(c) == Exists(c) /\ credit[c].by = None   \* mutant: the uses are not looked at
unused(c) == Exists(c) /\ Used(c) = 0 /\ credit[c].by = None

UpdateRead(r, c) == unused(c) /\ Begin(r, [op |-> "update", credit |-> c])
RemoveRead(r, c) == unused(c) /\ Begin(r, [op |-> "remove", credit |-> c])

\* Written by id alone, if the row is still there.
UpdateWrite(r) ==
  /\ request[r].op = "update"
  /\ LET c == request[r].credit IN
     IF Exists(c)
     THEN \E e \in Entry(credit[c].ret) : credit' = [credit EXCEPT ![c] = [e EXCEPT !.by = credit[c].by]]
     ELSE UNCHANGED credit
  /\ End(r) /\ UNCHANGED <<plan, filed>>

RemoveWrite(r) ==
  /\ request[r].op = "remove"
  /\ credit' = [credit EXCEPT ![request[r].credit] = NoCredit]
  /\ plan' = Forget({request[r].credit})
  /\ End(r) /\ UNCHANGED filed

-----------------------------------------------------------------------------
(***************************************************************************)
(* Installment plans.                                                      *)
(***************************************************************************)
\* Oldest reference year first, then in the order they were entered.
Earlier(S, c) == {d \in S : \/ credit[d].year < credit[c].year
                            \/ credit[d].year = credit[c].year /\ d < c}

\* The uses of the credits S that offset what is due, or as much of it as they cover.
buildCompensation(S, due) ==
  LET total(T) == SumFunction([c \in T |-> Remaining(c)]) IN
  [c \in CreditIds |->
     IF c \in S THEN Max({0, Min({Remaining(c), due - total(Earlier(S, c))})}) ELSE 0]

\* The taxpayer may use no credit, and one entered by hand may not be usable yet.
PlanRead(r, y) ==
  /\ plan[y] = NoPlan
  /\ \E due \in Dues, S \in SUBSET available :
       /\ S = {} \/ \A c \in available \ S : credit[c].ret = None
       /\ Begin(r, [op |-> "createPlan", year |-> y, uses |-> buildCompensation(S, due)])

\* One statement: refused by the unique key of the year, and when a credit it uses is gone.
PlanSave(r) ==
  LET q == request[r] IN
  /\ q.op = "createPlan"
  /\ IF plan[q.year] = NoPlan /\ \A c \in CreditIds : q.uses[c] > 0 => Exists(c)
     THEN plan' = [plan EXCEPT ![q.year] = [id |-> FreshId(q.year, "deletePlan"), uses |-> q.uses, paid |-> FALSE]]
     ELSE UNCHANGED plan
  /\ End(r) /\ UNCHANGED <<credit, filed>>

\* A form is paid, or its payment taken back, which leaves another paid or none.
updateStatus(r, y) ==
  /\ MayStart(r, "updateStatus") /\ plan[y] # NoPlan
  /\ plan' = [plan EXCEPT ![y].paid = ~@]
  /\ UNCHANGED <<credit, filed, request>>

DeletePlanRead(r, y) ==
  /\ plan[y] # NoPlan /\ ~plan[y].paid
  /\ Begin(r, [op |-> "deletePlan", year |-> y, id |-> plan[y].id])

DeletePlanWrite(r) ==
  LET q == request[r] IN
  /\ q.op = "deletePlan"
  /\ plan' = IF plan[q.year].id = q.id THEN [plan EXCEPT ![q.year] = NoPlan] ELSE plan
  /\ End(r) /\ UNCHANGED <<credit, filed>>

-----------------------------------------------------------------------------
(***************************************************************************)
(* Filed returns.                                                          *)
(***************************************************************************)
previousCredits(y) == {c \in CreditIds : Exists(c) /\ credit[c].code = "SUBSTITUTE" /\ credit[c].year = y - 1}

\* LM47: what was overpaid, with what was left of the credit of the year before.
FileRead(r, y) ==
  LET previous     == SumFunction([c \in previousCredits(y) |-> credit[c].amount])
      previousUsed == SumFunction([c \in previousCredits(y) |-> Used(c)])
  IN /\ ~ Filed(y)
     /\ \E excess \in Excesses, inps \in InpsExcesses :
          Begin(r, [op |-> "markFiled", year |-> y, previous |-> previous, previousUsed |-> previousUsed,
                    credits |-> [k \in Codes |-> IF k = "INPS" THEN inps ELSE Max({0, excess + previous - previousUsed})]])

\* The credits a return gives.
GivenOfAll(amounts) == Codes   \* mutant: those of nothing too
Given(amounts) == {k \in Codes : amounts[k] > 0}

\* Upsert of the return, its credits, and the credits of the year before closed by it: one transaction.
FileWrite(r) ==
  LET q      == request[r]
      given  == Given(q.credits)
      id(k)  == lastCredit + Cardinality({j \in given : j = k \/ j = "SUBSTITUTE"})
      new(k) == [code |-> k, year |-> q.year, amount |-> q.credits[k], ret |-> q.year, by |-> None]
      closed == {c \in previousCredits(q.year) : credit[c].by = None}
  IN /\ q.op = "markFiled" /\ lastCredit + Cardinality(given) <= MaxCredits
     /\ filed' = [filed EXCEPT ![q.year] =
                    [id |-> IF Filed(q.year) THEN @.id ELSE FreshId(q.year, "unmark"),
                     previous |-> q.previous, previousUsed |-> q.previousUsed]]
     /\ credit' = [c \in CreditIds |->
                     IF c \in closed THEN [credit[c] EXCEPT !.by = q.year]
                     ELSE IF \E k \in given : c = id(k) THEN new(CHOOSE k \in given : c = id(k))
                     ELSE credit[c]]
     /\ End(r) /\ UNCHANGED plan

Registered(y) == {c \in CreditIds : Exists(c) /\ credit[c].ret = y}

\* Nobody asks whether the next return has carried a credit of this one.
UnmarkRead(r, y) ==
  /\ Filed(y)
  /\ \A c \in Registered(y) : Used(c) = 0
  /\ AnyReturn \/ \A c \in Registered(y) : credit[c].by = None
  /\ Begin(r, [op |-> "unmark", year |-> y, id |-> filed[y].id])

\* The credits it registered go, and those it absorbed reopen (SET NULL).
UnmarkWrite(r) ==
  LET y == request[r].year IN
  /\ request[r].op = "unmark"
  /\ IF filed[y].id = request[r].id
     THEN /\ filed' = [filed EXCEPT ![y] = NoReturn]
          /\ credit' = [c \in CreditIds |-> IF c \in Registered(y) THEN NoCredit
                                            ELSE IF credit[c].by = y THEN [credit[c] EXCEPT !.by = None]
                                            ELSE credit[c]]
          /\ plan' = Forget(Registered(y))
     ELSE UNCHANGED <<credit, plan, filed>>
  /\ End(r)

-----------------------------------------------------------------------------
Next ==
  \E r \in Requests :
    \/ create(r) \/ UpdateWrite(r) \/ RemoveWrite(r)
    \/ PlanSave(r) \/ DeletePlanWrite(r) \/ FileWrite(r) \/ UnmarkWrite(r)
    \/ \E c \in CreditIds : UpdateRead(r, c) \/ RemoveRead(r, c)
    \/ \E y \in Years : \/ PlanRead(r, y) \/ updateStatus(r, y) \/ DeletePlanRead(r, y)
                          \/ FileRead(r, y) \/ UnmarkRead(r, y)

Spec == Init /\ [][Next]_vars

-----------------------------------------------------------------------------
(***************************************************************************)
(* Properties.                                                             *)
(***************************************************************************)
\* The forms of all plans together never use more of a credit than it is worth (tax-credits.service.ts:25).
NotOverspent == \A c \in CreditIds : Used(c) <= credit[c].amount

\* What a return has carried from the year before is still in the registry and no form has used it since:
\* "their figures would no longer match" (tax-credits.service.ts:53), "it can no longer be compensated"
\* (return-filing.service.ts:85).
CarriedOnce ==
  \A y \in Years : Filed(y) =>
    LET absorbed == {c \in CreditIds : credit[c].by = y} IN
    filed[y].previous - filed[y].previousUsed <= SumFunction([c \in absorbed |-> credit[c].amount - Used(c)])
=============================================================================
