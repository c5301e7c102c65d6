-------------------------------- MODULE Rounding --------------------------------
(***************************************************************************)
(* Amounts and rates of the fiscal rules (packages/fiscal-rules).          *)
(*                                                                         *)
(* The code computes with floating point euros; here amounts are whole     *)
(* cents or euros, and what a product or a division gives is rounded as    *)
(* the code does.  Math.round takes a half up, but the floating point      *)
(* value of a half cent may be just below it (34050 * 26.07% gives 8876.83 *)
(* and not 8876.84), so a half goes the way `tie` says; one behaviour      *)
(* rounds all its halves the same way.                                     *)
(***************************************************************************)
EXTENDS Integers

VARIABLE tie   \* 1: a half is rounded up, 0: down

\* roundCents and round2: n / d to the nearest unit.
Round(n, d) == (2 * n + d - (1 - tie)) \div (2 * d)

\* roundEuro where the half is exact (amounts in cents, whole percentages of whole euros).
roundEuro(n, d) == (2 * n + d) \div (2 * d)

AtMost(a, b)  == IF a < b THEN a ELSE b
AtLeast(a, b) == IF a > b THEN a ELSE b

\* The values of the rule set used here: cents, whole euros for incomes, hundredths of a percent for rates with decimals.
rules ==
  [standardRate |-> 15, reducedRate |-> 5, reducedRateYears |-> 5,
   notDueBelow |-> 5165, singleAtMost |-> 10300, firstInstallment |-> 40, isaFirstInstallment |-> 50,
   installmentDay |-> 16, end |-> [month |-> 12, day |-> 16], annualInterest |-> 400, increment |-> 33,
   inpsFullRate |-> 2607, inpsReducedRate |-> 2400, inpsCeiling |-> 122295, inpsAdvance |-> 80, inpsSurcharge |-> 4,
   stampDeferral |-> 500000, stampThreshold |-> 7747, stampAmount |-> 200]

\* Artigiani and Commercianti: the two rates in 25ths of a percent.
selfEmployed ==
  [incomeFloor |-> 18808, higherRateThreshold |-> 56224, ceilingWithSeniority |-> 93707, ceiling |-> 122295,
   rates |-> [INPS_ARTISANS |-> [base |-> 600, higher |-> 625], INPS_TRADERS |-> [base |-> 612, higher |-> 637]],
   maternity |-> 744, reduction |-> 35, installments |-> 4]
================================================================================
