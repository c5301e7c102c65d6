--------------------------------- MODULE Revenue ---------------------------------
(***************************************************************************)
(* The revenue of a year: what is collected (payments.service.ts,          *)
(* common/revenue.ts), how the return guide explains it from the invoices  *)
(* (return-guide.service.ts) and the warning given before an invoice is    *)
(* issued (invoices.service.ts, revenue-thresholds.ts).                    *)
(*                                                                         *)
(* The year is 0, other years are before and after it.  Collections are    *)
(* euro cents, totals cents of the document's currency, exchange rates     *)
(* whole; a fund contribution is 4% of the rest, so that a share of a cent *)
(* is a number of 26ths.                                                   *)
(***************************************************************************)
EXTENDS Sequences, FiniteSets, SequencesExt, Rounding

Parts == 26
Cents(n) == Round(n, Parts)

\* Of the rule set: the regime ends in a year that collects more.
immediateExitThreshold == 10000000

ISSUED_STATUSES == {"DELIVERED", "NOT_DELIVERED"}
NEVER_ISSUED    == {"DRAFT", "CANCELLED", "REJECTED"}

isIssued(d) == d.status \in ISSUED_STATUSES \/ (d.imported /\ d.status = "ISSUED")

\* What is revenue of an amount collected on a document, in parts of a cent: not the fund's share.
revenueShare(amount, d) == amount * (IF d.fund = 0 THEN Parts ELSE ((d.total - d.fund) * Parts) \div d.total)

\* The collections of a document that fall in the years Y, as parts of revenue.
CollectedIn(d, Y) == SumFunction([k \in DOMAIN d.collected |-> IF d.collected[k].year \in Y THEN revenueShare(d.collected[k].amount, d) ELSE 0])

collectedRevenue(docs) == Cents(SumFunction([i \in DOMAIN docs |-> CollectedIn(docs[i], {0})]))

-----------------------------------------------------------------------------
(* The guide to the return *)

\* What a document asks for; a credit note gives it back.
IssuedRevenue(d) == (IF d.type = "TD04" THEN -1 ELSE 1) * revenueShare(d.total * d.rate, d)

OfYear(docs) == {i \in DOMAIN docs : docs[i].year = 0 /\ isIssued(docs[i])}
Others(docs) == {i \in DOMAIN docs : docs[i].year # 0 /\ \E k \in DOMAIN docs[i].collected : docs[i].collected[k].year = 0}

\* One entry for each invoice of another year, rounded after each collection.
CollectedEntry(d) == FoldLeft(LAMBDA amount, p : IF p.year = 0 THEN Cents(amount * Parts + revenueShare(p.amount, d)) ELSE amount, 0, d.collected)

guide(docs) ==
  LET missing(i) == Cents(IssuedRevenue(docs[i]) - CollectedIn(docs[i], {0})) IN
  [issuedInYear            |-> Cents(SumFunction([i \in OfYear(docs) |-> IssuedRevenue(docs[i])])),
   collectedInYear         |-> collectedRevenue(docs),
   notCollectedInYear      |-> [i \in {j \in OfYear(docs) : missing(j) # 0} |-> missing(i)],
   collectedFromOtherYears |-> [i \in Others(docs) |-> CollectedEntry(docs[i])]]

-----------------------------------------------------------------------------
(* Before an issue *)

thresholdOutlook(collected, outstanding, invoiceTotal) ==
  LET projected == collected + Cents(outstanding) + Cents(invoiceTotal)
  IN [projected |-> projected, projectedOverExit |-> projected > immediateExitThreshold]

\* Documents not collected yet, credit notes left out, and the draft being issued, the k-th.
thresholds(docs, k) ==
  LET due(d) == AtLeast(0, revenueShare(d.total * d.rate, d) - CollectedIn(d, {-1, 0, 1}))
      open   == {i \in DOMAIN docs : docs[i].status \notin NEVER_ISSUED /\ docs[i].type # "TD04"}
  IN thresholdOutlook(collectedRevenue(docs), SumFunction([i \in open |-> due(docs[i])]),
                      IF docs[k].type = "TD04" THEN 0 ELSE revenueShare(docs[k].total * docs[k].rate, docs[k]))

\* thresholdStatus: beyond the exit threshold compute refuses the F24 plan of the year.
exceedsExitThreshold(docs) == collectedRevenue(docs) > immediateExitThreshold

-----------------------------------------------------------------------------
(* What the figures promise *)

HasFund(docs) == \E i \in DOMAIN docs : docs[i].fund # 0

\* "Proposed - not collected + collected from other years = collected in the year" (return-guide.service.spec.ts), when every
\* document of the year with collections counts as issued: the lists explain the whole difference between the revenue by issue
\* date and the collected one, credit notes, foreign currencies and collections in several years included.  Each figure that
\* splits off a fund's share is rounded by itself, to half a cent.
Explained(docs, g) ==
  LET difference == g.issuedInYear - SumFunction(g.notCollectedInYear) + SumFunction(g.collectedFromOtherYears) - g.collectedInYear
      rounded    == 2 + Cardinality(OfYear(docs)) + SumFunction([i \in Others(docs) |-> Len(docs[i].collected)])
      explainable == \A i \in DOMAIN docs : docs[i].year = 0 /\ CollectedIn(docs[i], {0}) # 0 => isIssued(docs[i])
  IN explainable => 2 * difference \in (IF HasFund(docs) THEN -rounded..rounded ELSE {0})

\* d once what is left of it is collected, or given back, in the year and at its own rate: bounds of checkCollectable.
Settled(d) ==
  LET sign == IF d.type = "TD04" THEN -1 ELSE 1
      left == d.total * d.rate - sign * SumFunction([k \in DOMAIN d.collected |-> d.collected[k].amount])
  IN [d EXCEPT !.collected = Append(@, [year |-> 0, amount |-> sign * AtLeast(0, left)])]

\* "The projection errs on the high side" (thresholds): who issues the k-th without being told of the exit threshold does not
\* pass it, and is not refused the plan of the year, whichever of the documents counted are then collected or given back.
Warned(docs, k, told) ==
  LET counted  == {k} \cup {i \in DOMAIN docs : docs[i].status \notin NEVER_ISSUED}
      after(S) == [i \in DOMAIN docs |-> IF i \in S THEN Settled(docs[i]) ELSE docs[i]]
  IN \A S \in SUBSET counted :
       /\ collectedRevenue(after(S)) <= told.projected + (IF HasFund(docs) THEN 2 ELSE 0)
       /\ ~ told.projectedOverExit /\ ~ HasFund(docs) => ~ exceedsExitThreshold(after(S))

RevenueExplainedFor(q) == Explained(q.docs, guide(q.docs)) /\ Warned(q.docs, q.draft, thresholds(q.docs, q.draft))
================================================================================
