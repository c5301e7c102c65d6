----------------------------- MODULE TaxComputation -----------------------------
(***************************************************************************)
(* The yearly figures of a flat-rate taxpayer: substitute tax and          *)
(* contributions (fiscal-rules: substitute-tax.ts, inps-*.ts,              *)
(* contribution-schemes.ts, tax-computation.ts), what the paid F24 forms   *)
(* carry to the next year (taxes.service.ts) and the rows of the return    *)
(* (tax-return-lm.ts, tax-return-rr.ts, return-guide.service.ts).  Rows of *)
(* the return and incomes are whole euros, everything else cents.          *)
(***************************************************************************)
EXTENDS PaymentSchedule

-----------------------------------------------------------------------------
(* Substitute tax *)

\* The start year and the four years after it; `age` counts from the start year.
reducedRateApplies(i) == i.eligible /\ i.age \in 0..(rules.reducedRateYears - 1)

computeSubstituteTax(i) ==
  LET collected == roundEuro(i.revenue, 100)
      gross     == roundEuro(collected * i.coefficient, 100)
      deducted  == AtMost(roundEuro(i.contributionsPaid, 100), gross)
      tax       == roundEuro((gross - deducted) * (IF reducedRateApplies(i) THEN rules.reducedRate ELSE rules.standardRate), 100)
  IN [grossIncome |-> gross, contributionsDeducted |-> deducted, substituteTax |-> tax,
      taxNetOfCredits |-> AtLeast(0, tax - roundEuro(i.taxCredits, 100))]

Advance(total, first) == [total |-> total, first |-> first, second |-> total - first]
NO_ADVANCE            == Advance(0, 0)

\* Not due for a small tax, in one payment when the first would be small.
substituteTaxAdvance(net, isa) ==
  LET total == 100 * net
      first == Round(total * (IF isa THEN rules.isaFirstInstallment ELSE rules.firstInstallment), 100)
  IN IF total < rules.notDueBelow THEN NO_ADVANCE
     ELSE IF first <= rules.singleAtMost THEN Advance(total, 0) ELSE Advance(total, first)

-----------------------------------------------------------------------------
(* Contributions *)

inpsRate(i) == IF i.inpsReducedRate THEN rules.inpsReducedRate ELSE rules.inpsFullRate

computeSeparateSchemeContribution(gross, i) == Round(AtMost(gross, rules.inpsCeiling) * inpsRate(i), 10000)

inpsAdvance(gross, i) ==
  LET contribution == Round(AtMost(gross, rules.inpsCeiling) * inpsRate(i), 100)
      total        == Round(contribution * rules.inpsAdvance, 100)
  IN Advance(total, Round(total, 2))

\* What remains of a contribution, in twentieths.
reduction(i) == IF i.flatRateReduction THEN 20 - selfEmployed.reduction \div 5 ELSE 20

\* The contribution on the minimum income, in whole cents, and its four installments.
selfEmployedFixedContribution(i) ==
  LET ivs   == Round(selfEmployed.incomeFloor * selfEmployed.rates[i.scheme].base * reduction(i), 500)
      total == ivs + selfEmployed.maternity
      each  == total \div selfEmployed.installments
  IN [ivs |-> ivs, maternity |-> selfEmployed.maternity,
      installments |-> [k \in 1..selfEmployed.installments |->
                          IF k = selfEmployed.installments THEN total - each * (k - 1) ELSE each]]

\* The contribution above the minimum income, in units of 1/50000 of a euro.
excess(gross, i) ==
  LET capped  == AtMost(gross, IF i.seniorityBefore1996 THEN selfEmployed.ceilingWithSeniority ELSE selfEmployed.ceiling)
      taxable == AtLeast(0, capped - selfEmployed.incomeFloor)
      first   == AtLeast(0, AtMost(capped, selfEmployed.higherRateThreshold) - selfEmployed.incomeFloor)
      rate    == selfEmployed.rates[i.scheme]
  IN (first * rate.base + (taxable - first) * rate.higher) * reduction(i)

selfEmployedExcessContribution(gross, i) == Round(excess(gross, i), 50000)

selfEmployedAdvance(gross, i) ==
  LET total == Round(excess(gross, i), 500) IN IF total <= 0 THEN NO_ADVANCE ELSE Advance(total, Round(total, 2))

\* The schemes whose contributions are computed, and what each computes.
contributionScheme(i) == IF i.scheme = "PROFESSIONAL_FUND" THEN "none"
                         ELSE IF i.scheme \in DOMAIN selfEmployed.rates THEN "selfEmployed" ELSE "separate"

computeContribution(gross, i) ==
  CASE contributionScheme(i) = "none"         -> 0
    [] contributionScheme(i) = "separate"     -> computeSeparateSchemeContribution(gross, i)
    [] contributionScheme(i) = "selfEmployed" -> selfEmployedExcessContribution(gross, i)

contributionAdvance(gross, i) ==
  CASE contributionScheme(i) = "none"         -> NO_ADVANCE
    [] contributionScheme(i) = "separate"     -> inpsAdvance(gross, i)
    [] contributionScheme(i) = "selfEmployed" -> selfEmployedAdvance(gross, i)

-----------------------------------------------------------------------------
(* The year: what it owes, and what its forms carry to the next *)

\* The rule sets of the income year and of the payment year have the same values here.
summary(i) ==
  LET tax          == computeSubstituteTax(i)
      contribution == computeContribution(tax.grossIncome, i)
  IN [result      |-> tax, inpsContribution |-> contribution,
      taxBalance  |-> tax.taxNetOfCredits - roundEuro(i.taxAdvancesPaid, 100),
      inpsBalance |-> IF contributionScheme(i) = "none" THEN 0 ELSE 100 * contribution - i.inpsAdvancesPaid,
      tax         |-> substituteTaxAdvance(tax.taxNetOfCredits, i.isaSubject),
      inps        |-> contributionAdvance(tax.grossIncome, i)]

\* The debts of the plan, before credits.
dueOf(i) ==
  LET s == summary(i) IN
  [TREASURY |-> [BALANCE |-> 100 * AtLeast(0, s.taxBalance), FIRST_ADVANCE |-> s.tax.first,  SECOND_ADVANCE |-> s.tax.second],
   INPS     |-> [BALANCE |-> AtLeast(0, s.inpsBalance),      FIRST_ADVANCE |-> s.inps.first, SECOND_ADVANCE |-> s.inps.second]]

CarriedWithSurcharge(l) == l.debit   \* mutant: the surcharges are counted
Carried(l) == l.debit - l.surcharge

\* What the next year takes from the paid forms of this plan: its advances, and the contributions paid.
paidFromF24(forms) ==
  LET of(f, section, roles) == SumFunction([l \in {x \in forms[f].lines : x.section = section /\ x.role \in roles} |-> Carried(l)])
      sum(section, roles)   == SumFunction([f \in DOMAIN forms |-> of(f, section, roles)])
  IN [taxAdvancesPaid   |-> sum("TREASURY", {"FIRST_ADVANCE", "SECOND_ADVANCE"}),
      inpsAdvancesPaid  |-> sum("INPS", {"FIRST_ADVANCE", "SECOND_ADVANCE"}),
      contributionsPaid |-> sum("INPS", Roles)]

-----------------------------------------------------------------------------
(* The rows of the return; a balance is the debt, or minus the credit *)

lmReturnRows(i, previous) ==
  LET t        == computeSubstituteTax(i)
      net      == t.substituteTax - AtMost(roundEuro(i.taxCredits, 100), t.substituteTax)
      advances == roundEuro(i.taxAdvancesPaid, 100)
      amount   == roundEuro(previous.amount, 100)
      used     == roundEuro(previous.used, 100)
      paid     == roundEuro(i.contributionsPaid, 100)
  IN [LM42 |-> net, LM43 |-> amount, LM44 |-> used, LM45 |-> advances, balance |-> net - amount + used - advances,
      LM49 |-> AtLeast(0, paid - t.contributionsDeducted)]

BalanceOf(due, paid) == roundEuro(due - paid, 100)

\* Section II (RR6 to RR8), and RR2.27 to RR2.30 of section I.
contributionReturnRows(contribution, paid) ==
  [due |-> contribution, paid |-> roundEuro(paid, 100), balance |-> BalanceOf(100 * contribution, paid)]

fixedReturnBalanceByTerm(i, paid) ==   \* mutant: each term rounded by itself
  LET fixed == selfEmployedFixedContribution(i) IN roundEuro(fixed.ivs, 100) + roundEuro(fixed.maternity, 100) - roundEuro(paid, 100)

\* RR2.11 to RR2.17 of section I.
fixedReturnBalance(i, paid) ==
  LET fixed == selfEmployedFixedContribution(i) IN BalanceOf(fixed.ivs + fixed.maternity, paid)

-----------------------------------------------------------------------------
(* What the figures promise.  q is a year: its input, the credit of the year before, and how the plan is paid. *)

PlanOf(q) == [scheme |-> q.year.scheme, due |-> dueOf(q.year), order |-> q.order, start |-> q.start, n |-> q.n,
              credits |-> IF q.credit = 0 THEN <<>> ELSE <<q.credit>>]

\* Once every form of a year's plan is paid, the next year counts exactly the advances that were computed for it and the
\* contributions that were due, without surcharge or interest, so that advances and balance make up the next year's tax (the
\* tax advances to the euro, as the return takes them: a debt of a few euros split in many rows keeps its surcharge apart badly).
Closes(q, s, paid) ==
  LET next      == [q.year EXCEPT !.revenue = q.next, !.contributionsPaid = paid.contributionsPaid,
                                  !.taxAdvancesPaid = paid.taxAdvancesPaid, !.inpsAdvancesPaid = paid.inpsAdvancesPaid]
      after(of) == s.tax.total + 100 * of.taxBalance = 100 * of.result.taxNetOfCredits
  IN /\ 100 * roundEuro(paid.taxAdvancesPaid, 100) = s.tax.total
     /\ paid.inpsAdvancesPaid = s.inps.total
     /\ paid.contributionsPaid = AtLeast(0, s.inpsBalance) + s.inps.total
     /\ after(summary(next))

YearClosesFor(q) == Closes(q, summary(q.year), paidFromF24(compute(PlanOf(q))))

\* The return says what the F24 plan pays: LM46 or LM47 is the tax balance of the plan when the plan uses the whole credit
\* of the year before, RR7 or RR8 the contribution balance to the euro, and a taxpayer who paid the fixed installments as
\* computed neither owes nor claims anything in RR2.
Agrees(q, s, plan, used, lm, rr, fixed) ==
  /\ used = q.credit => AtLeast(0, lm.balance) = roundEuro(PaidFor(compute(plan), <<"TREASURY", "BALANCE">>), 100)
  /\ lm.balance + lm.LM43 - lm.LM44 = s.taxBalance
  /\ contributionScheme(q.year) # "none" => 100 * rr.balance - s.inpsBalance \in -50..50
  /\ contributionScheme(q.year) = "selfEmployed" =>
       fixedReturnBalance(q.year, MapThenSumSet(LAMBDA k : fixed.installments[k], DOMAIN fixed.installments)) = 0

ReturnAgreesFor(q) ==
  LET Used(plan, usages) == MapThenSumSet(LAMBDA k : usages[k], DOMAIN plan.credits)
      With(s, plan, used) ==
        Agrees(q, s, plan, used, lmReturnRows(q.year, [amount |-> q.credit, used |-> used]),
               contributionReturnRows(s.inpsContribution, q.year.inpsAdvancesPaid), selfEmployedFixedContribution(q.year))
      Of(s, plan) == With(s, plan, Used(plan, Compensation(plan.scheme, plan.due, plan.credits, plan.order).usages))
  IN Of(summary(q.year), PlanOf(q))
================================================================================
