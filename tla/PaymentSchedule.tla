----------------------------- MODULE PaymentSchedule -----------------------------
(***************************************************************************)
(* The F24 forms of a tax year (fiscal-rules: installment-plan.ts and      *)
(* f24-schedule.ts): credits cover the debts first (Compensation), what is *)
(* left of balance and first advance is split in installments with         *)
(* surcharge and interest, the second advance has a form of its own        *)
(* (buildPaymentSchedule).  Amounts are cents; a day of the payment year   *)
(* is 100 * month + day.                                                   *)
(***************************************************************************)
EXTENDS Integers, Sequences, FiniteSets, FiniteSetsExt, Functions, Rounding

Sections   == {"TREASURY", "INPS"}
Splittable == {"BALANCE", "FIRST_ADVANCE"}
Roles      == Splittable \cup {"SECOND_ADVANCE"}

\* The first dates of a plan and their surcharge, in hundredths of a percent.
startOptions == [ORDINARY |-> [date |-> 630, surcharge |-> 0],  EXTENDED |-> [date |-> 720, surcharge |-> 0],
                 DEFERRED |-> [date |-> 730, surcharge |-> 40], DEFERRED_EXTENDED |-> [date |-> 820, surcharge |-> 80]]
secondAdvanceDate == 1130

-----------------------------------------------------------------------------
(* The installments of one amount *)

\* The commercial method: months of thirty days.
commercialDays(from, to) == 30 * (to \div 100 - from \div 100) + AtMost(to % 100, 30) - AtMost(from % 100, 30)

\* The nominal day of the second installment, before the August deferral.
secondNominalDueDate(first) == 100 * (first \div 100 + 1) + rules.installmentDay

secondInstallmentInterestPct(first) ==
  Round(rules.annualInterest * commercialDays(first, secondNominalDueDate(first)), 360)

applyAugustDeferral(t) == IF t \in 801..820 THEN 820 ELSE t

maxInstallmentDates(first) ==
  LET nominal(k) == applyAugustDeferral(100 * (first \div 100 + k) + rules.installmentDay)
      limit      == 100 * rules.end.month + rules.end.day
      later      == {k \in 1..(rules.end.month - first \div 100) : \A j \in 1..k : nominal(j) <= limit}
  IN [k \in 1..(Cardinality(later) + 1) |-> IF k = 1 THEN first ELSE nominal(k - 1)]

principalEven(amount, n, i) == Round(amount, n)   \* mutant: no installment absorbs the rounding
principal(amount, n, i) == IF i = n THEN amount - (n - 1) * Round(amount, n) ELSE Round(amount, n)

\* n equal installments, the last of which absorbs the rounding; interest from the second on.
buildInstallmentPlan(amount, first, n) ==
  LET pct(i) == IF i = 1 THEN 0 ELSE secondInstallmentInterestPct(first) + rules.increment * (i - 2)
  IN [i \in 1..n |-> [dueDate   |-> maxInstallmentDates(first)[i],
                      principal |-> principal(amount, n, i),
                      interest  |-> Round(principal(amount, n, i) * pct(i), 10000)]]

-----------------------------------------------------------------------------
(* The forms.  A row pays `debit` for a debt <<section, role>>; `surcharge` is the part of it that is not the debt. *)

\* A professional fund has no INPS rows.
sections(scheme) == {"TREASURY"} \cup (IF scheme = "PROFESSIONAL_FUND" THEN {} ELSE {"INPS"})

\* The contribution rows carry no surcharge: it is paid with the interest.
surchargeWithInterest(section) == section = "INPS"

line(debt, amount, surcharge) == [section |-> debt[1], role |-> debt[2], debit |-> amount, surcharge |-> surcharge]
f24Form(kind, date, lines)       == [kind |-> kind, date |-> date, lines |-> lines]

Surcharge(amount, start) == Round(amount * startOptions[start].surcharge, 10000)

\* The debts that are split, as they are when the form is made.
Components(scheme, amounts) == {d \in sections(scheme) \X Splittable : amounts[d[1]][d[2]] > 0}

\* The rows of one installment of a debt, `share` of which is surcharge.
DebtRows(d, installment, share) ==
  LET withInterest == IF surchargeWithInterest(d[1]) THEN share ELSE 0
      inside       == IF ~ surchargeWithInterest(d[1]) /\ share > 0 THEN share ELSE 0
  IN {line(d, installment.principal - withInterest, inside)}
     \cup (IF installment.interest > 0 \/ withInterest > 0
           THEN {[section |-> d[1], role |-> "INTEREST", of |-> d[2], debit |-> installment.interest + withInterest, surcharge |-> 0]}
           ELSE {})

\* The rows of the i-th installment.  The two debts of a section have different reference years, so each interest row is of one debt.
InstallmentRows(scheme, amounts, start, n, i) ==
  LET plan(amount)         == buildInstallmentPlan(amount, startOptions[start].date, n)[i]
      Rows(d, with, plain) == DebtRows(d, with, with.principal - plain.principal)
      RowsOf(d, amount)    == Rows(d, plan(amount + Surcharge(amount, start)), plan(amount))
  IN UNION {RowsOf(d, amounts[d[1]][d[2]]) : d \in Components(scheme, amounts)}

buildPaymentSchedule(scheme, amounts, start, n) ==
  LET dates  == maxInstallmentDates(startOptions[start].date)
      second == {<<s, "SECOND_ADVANCE">> : s \in {t \in sections(scheme) : amounts[t]["SECOND_ADVANCE"] > 0}}
  IN (IF Components(scheme, amounts) = {} THEN <<>>
      ELSE [i \in 1..n |-> f24Form(IF n = 1 THEN "BALANCE" ELSE "INSTALLMENT", dates[i], InstallmentRows(scheme, amounts, start, n, i))])
     \o (IF second = {} THEN <<>>
         ELSE <<f24Form("SECOND_ADVANCE", secondAdvanceDate, {line(d, amounts[d[1]][d[2]], 0) : d \in second})>>)

-----------------------------------------------------------------------------
(* Compensation: a form that balances to zero *)

\* How much of the k-th amount is taken when `available` is taken from the amounts in order.
Taken(sequence, available, k) ==
  LET before == MapThenSumSet(LAMBDA j : sequence[j], 1..(k - 1))
  IN AtMost(sequence[k], AtLeast(0, available - before))

DebtsInOrder(scheme, order) ==
  LET of(s) == IF s \in sections(scheme) THEN <<<<s, "BALANCE">>, <<s, "FIRST_ADVANCE">>>> ELSE <<>>
  IN IF order = "TAX_FIRST" THEN of("TREASURY") \o of("INPS") ELSE of("INPS") \o of("TREASURY")

\* `part` of each of the debts is covered; `credits` are the amounts of the available credits in the order they are used.
Covered(due, credits, debts, part) ==
  LET covered == MapThenSumSet(LAMBDA k : part[k], DOMAIN debts)
      paid(d) == SumFunction([k \in DOMAIN debts |-> IF debts[k] = d THEN part[k] ELSE 0])
  IN [lines  |-> {line(debts[k], part[k], 0) : k \in {j \in DOMAIN debts : part[j] > 0}},
      usages |-> [k \in DOMAIN credits |-> Taken(credits, covered, k)],
      due    |-> [s \in Sections |-> [r \in Roles |-> due[s][r] - paid(<<s, r>>)]]]

Compensation(scheme, due, credits, order) ==
  LET available       == MapThenSumSet(LAMBDA k : credits[k], DOMAIN credits)
      amounts(debts)  == [k \in DOMAIN debts |-> due[debts[k][1]][debts[k][2]]]
      part(debts, of) == [k \in DOMAIN debts |-> Taken(of, available, k)]
      Cover(debts)    == Covered(due, credits, debts, part(debts, amounts(debts)))
  IN Cover(DebtsInOrder(scheme, order))

\* compute: the forms of the plan, in the order they are paid.
compute(q) ==
  LET Forms(credited) ==
        (IF credited.lines = {} THEN <<>>
         ELSE <<f24Form("COMPENSATION", startOptions[q.start].date, credited.lines)>>)
        \o buildPaymentSchedule(q.scheme, credited.due, q.start, q.n)
  IN Forms(Compensation(q.scheme, q.due, q.credits, q.order))

-----------------------------------------------------------------------------
(* What the forms of a plan promise *)

\* What the forms pay for one debt, without surcharge and interest: the sums that later reach the return.
PaidBy(form, d) == SumFunction([l \in {x \in form.lines : x.section = d[1] /\ x.role = d[2]} |-> l.debit - l.surcharge])
PaidFor(forms, d) == SumFunction([f \in DOMAIN forms |-> PaidBy(forms[f], d)])

\* The forms pay every debt to the cent, whatever the number of installments, the surcharge and the credits; the credits
\* pay as much as they can of balance and first advance and no more; what is paid beyond the debts is the surcharge on
\* what the credits left and the interest of its installments, none of which is negative or after the end of the plan.
Exact(q, forms, credited) ==
  LET left(d)         == credited.due[d[1]][d[2]]
      split           == {d \in sections(q.scheme) \X Splittable : left(d) > 0}
      interest(plan)  == SumFunction([i \in 1..q.n |-> plan[i].interest])
      added(surcharge, amount) ==
        surcharge + interest(buildInstallmentPlan(amount + surcharge, startOptions[q.start].date, q.n))
      used            == SumFunction(credited.usages)
      owed            == SumFunction([d \in sections(q.scheme) \X Roles |-> q.due[d[1]][d[2]]])
      extra           == SumFunction([d \in split |-> added(Surcharge(left(d), q.start), left(d))])
      debits          == SumFunction([f \in DOMAIN forms |-> SumFunction([l \in forms[f].lines |-> l.debit])])
  IN /\ \A d \in sections(q.scheme) \X Roles : PaidFor(forms, d) = q.due[d[1]][d[2]]
     /\ debits = owed + extra
     /\ \A k \in DOMAIN q.credits : credited.usages[k] \in 0..q.credits[k]
     /\ used = SumFunction([l \in credited.lines |-> l.debit])
     /\ split # {} => used = SumFunction(q.credits)
     /\ \A f \in DOMAIN forms : \A l \in forms[f].lines : l.debit > 0 /\ l.surcharge \in 0..l.debit
     /\ \A f, g \in DOMAIN forms :
          f < g /\ "SECOND_ADVANCE" \notin {forms[f].kind, forms[g].kind} => forms[f].date <= forms[g].date
     /\ \A f \in DOMAIN forms : forms[f].date <= 1216 /\ forms[f].date \notin 801..819

ScheduleExactFor(q) == Exact(q, compute(q), Compensation(q.scheme, q.due, q.credits, q.order))
================================================================================
