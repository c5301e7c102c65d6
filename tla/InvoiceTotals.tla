------------------------------ MODULE InvoiceTotals ------------------------------
(***************************************************************************)
(* The amounts of an invoice (invoices.service.ts): prepare computes and   *)
(* stores them, at issue toFatturaPa copies some to the document, and      *)
(* computeTotals (packages/fatturapa) works the totals of the XML out      *)
(* again from its lines.  Amounts are cents, quantities hundredths; a line *)
(* is a quantity and a unit price.                                         *)
(***************************************************************************)
EXTENDS Integers, Sequences, FiniteSetsExt, Rounding

Kinds   == {"IT_B2B", "IT_B2C", "IT_PA", "EU", "EU_B2C", "NON_EU", "NON_EU_B2C"}
Schemes == {"INPS_SEPARATE", "INPS_ARTISANS", "INPS_TRADERS", "PROFESSIONAL_FUND"}
None    == 0   \* no fund rate, or no amount

\* Place of supply: outside the scope of VAT (N2.1) or made in Italy (N2.2).
customerTreatment(kind, septies) ==
  [nature         |-> IF kind \in {"EU", "NON_EU"} \/ (kind = "NON_EU_B2C" /\ septies) THEN "N2.1" ELSE "N2.2",
   reverseCharge  |-> kind = "EU",
   legalReference |-> IF kind \in {"EU", "NON_EU"} THEN "7-ter"
                      ELSE IF kind = "NON_EU_B2C" /\ septies THEN "7-septies" ELSE "L. 190/2014"]

AddUp(amounts) == MapThenSumSet(LAMBDA k : amounts[k], DOMAIN amounts)

\* Only the Gestione Separata may charge the surcharge, only a professional fund its contribution.
refusesSurcharge(d)  == d.surcharge /\ d.scheme # "INPS_SEPARATE"
professionalFundOf(d) == IF d.scheme = "PROFESSIONAL_FUND" /\ d.charged THEN d.fundRate ELSE None

\* The row that create and update save.
prepare(d) ==
  LET lines      == [k \in DOMAIN d.lines |-> Round(d.lines[k].quantity * d.lines[k].price, 100)]
      linesTotal == AddUp(lines)
      surcharge  == IF d.surcharge THEN Round(linesTotal * rules.inpsSurcharge, 100) ELSE 0
      fund       == Round(linesTotal * professionalFundOf(d), 100)
      nonSubject == linesTotal + surcharge + fund
      stamp      == IF nonSubject > rules.stampThreshold THEN rules.stampAmount ELSE 0
  IN [lines |-> lines, taxableAmount |-> linesTotal, inpsSurcharge |-> surcharge, professionalFund |-> fund,
      virtualStamp |-> nonSubject > rules.stampThreshold, stampAmount |-> stamp, total |-> nonSubject + stamp,
      vatNature |-> customerTreatment(d.kind, d.septies).nature]

\* The installments of the payment terms, `terms` being how many days they list; no day is one payment on sight.
paymentSchedule(total, terms) ==
  LET n == AtLeast(1, terms)  each == total \div n
  IN [k \in 1..n |-> IF k = n THEN total - each * (n - 1) ELSE each]

\* The document issued; `kind` is the customer's at the time of issue.
toFatturaPa(row, kind, septies, terms) ==
  LET treatment == customerTreatment(kind, septies) IN
  [lines          |-> row.lines,
   fund           |-> IF row.inpsSurcharge > 0 THEN row.inpsSurcharge ELSE AtLeast(0, row.professionalFund),
   stampDuty      |-> IF row.virtualStamp THEN row.stampAmount ELSE None,
   vatNature      |-> row.vatNature,
   legalReference |-> IF row.vatNature # "N2.1" THEN "L. 190/2014"
                      ELSE IF treatment.nature = "N2.1" THEN treatment.legalReference ELSE "7-ter",
   invcont        |-> treatment.reverseCharge,
   condition      |-> IF terms > 1 THEN "TP01" ELSE "TP02",
   installments   |-> paymentSchedule(row.total, terms)]

computeTotalsOfLines(x) ==   \* mutant: the fund is not in the taxable amount
  LET linesTotal == AddUp(x.lines)
  IN [taxable |-> linesTotal, documentTotal |-> linesTotal + x.stampDuty]
computeTotals(x) ==
  LET taxable == AddUp(x.lines) + x.fund
  IN [taxable |-> taxable, documentTotal |-> taxable + x.stampDuty]

-----------------------------------------------------------------------------
(* What an issued invoice promises *)

\* The totals worked out again from the XML are those of the row, the installments add up to them, one contribution at
\* most is charged, and the stamp duty is on the invoice exactly when what it charges is above the threshold.  The
\* legal reference fits the nature even when the customer changed after the draft, the reverse charge when it did not.
InvoiceAddsUpFor(q) ==
  LET row    == prepare(q.draft)
      xml    == toFatturaPa(row, q.kind, q.draft.septies, q.terms)
      totals == computeTotals(xml)
  IN ~ refusesSurcharge(q.draft) =>
       /\ totals.documentTotal = row.total
       /\ totals.taxable = row.taxableAmount + row.inpsSurcharge + row.professionalFund
       /\ row.inpsSurcharge = 0 \/ row.professionalFund = 0
       /\ (xml.stampDuty > 0) <=> (totals.taxable > rules.stampThreshold)
       /\ AddUp(xml.installments) = totals.documentTotal
       /\ \A k \in DOMAIN xml.installments : xml.installments[k] - xml.installments[1] \in 0..(Len(xml.installments) - 1)
       /\ (xml.condition = "TP01") <=> (Len(xml.installments) > 1)
       /\ (xml.legalReference = "L. 190/2014") <=> (xml.vatNature = "N2.2")
       /\ q.kind = q.draft.kind => (xml.invcont => xml.vatNature = "N2.1")
================================================================================
