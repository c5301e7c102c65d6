--------------------------- MODULE CompensationLimits ---------------------------
(***************************************************************************)
(* The yearly limit on credits used in compensation (compensation-         *)
(* limits.ts, tax-credits.service.ts) over the forms with compensation     *)
(* that the plans of f24.service.ts produce one after the other.           *)
(***************************************************************************)
EXTENDS PaymentSchedule

COMPENSATION_LIMIT == 500000

\* The debts of the same tax as a credit; a credit of any other code has none.
VERTICAL_COMPENSATION(code) ==
  CASE code = "1792" -> {"1790", "1791", "1792"}
    [] code = "4001" -> {"4001", "4033", "4034"}
    [] code = "3844" -> {"3843", "3844"}
    [] OTHER         -> {}

\* The codes of the rows of a plan that credits may cover.
CodeOf(l) == IF l.section = "INPS" THEN "PXX" ELSE IF l.role = "BALANCE" THEN "1792" ELSE "1790"

\* The uses of the credits of a plan p, in the order they are consumed; p.of says the code and the reference year of each.
Uses(p, credited) == [k \in DOMAIN p.credits |-> [of |-> p.of[k], amount |-> credited.usages[k]]]

\* The debts of the same tax as the code that the form compensates.
SameTax(code, lines) == SumFunction([l \in lines |-> IF CodeOf(l) \in VERTICAL_COMPENSATION(code) THEN l.debit ELSE 0])

\* horizontalUses: what the k-th credit takes beyond the debts of its own tax that the credits before it left.
Horizontal(uses, lines, k) ==
  LET before == SumFunction([j \in 1..(k - 1) |-> IF uses[j].of.code = uses[k].of.code THEN uses[j].amount ELSE 0])
      left   == AtLeast(0, SameTax(uses[k].of.code, lines) - before)
  IN IF uses[k].of.code = "PXX" THEN 0 ELSE uses[k].amount - AtMost(left, uses[k].amount)

\* What is used of the credits of one code and reference year, and the part of it that counts for the limit.
UsedOf(uses, of)              == SumFunction([k \in DOMAIN uses |-> IF uses[k].of = of THEN uses[k].amount ELSE 0])
HorizontalOf(uses, lines, of) == SumFunction([k \in DOMAIN uses |-> IF uses[k].of = of THEN Horizontal(uses, lines, k) ELSE 0])

\* creditsAboveLimit, with earlierUses: of the forms before, every use counts whole.
AboveLimit(uses, lines, earlier) ==
  LET current == {uses[k].of : k \in {j \in DOMAIN uses : Horizontal(uses, lines, j) > 0}}
  IN {of \in current : HorizontalOf(uses, lines, of) + SumFunction([e \in DOMAIN earlier |-> UsedOf(earlier[e], of)]) > COMPENSATION_LIMIT}

-----------------------------------------------------------------------------
(* What the warning promises *)

CoveredBy(p) == Compensation(p.scheme, p.due, p.credits, p.order)

\* The parts of the credits of a code that do not count are the debts of its own tax that the form compensates, or all the
\* form takes of them, and no more, in whatever order they are used.
SplitRight(uses, lines) ==
  \A k \in DOMAIN uses :
    LET code   == uses[k].of.code
        same   == {j \in DOMAIN uses : uses[j].of.code = code}
        used   == SumFunction([j \in same |-> uses[j].amount])
        counts == SumFunction([j \in same |-> Horizontal(uses, lines, j)])
    IN code # "PXX" => used - counts = AtMost(used, SameTax(code, lines))

\* When the credits of one code and year have been used beyond the limit for other taxes, over all the forms, the plan that does
\* it is told, whatever the earlier plans were.
LimitTold(uses, lines, usesBefore, linesBefore) ==
  \A of \in {uses[k].of : k \in DOMAIN uses} :
    HorizontalOf(uses, lines, of) > 0
    /\ HorizontalOf(uses, lines, of) + HorizontalOf(usesBefore, linesBefore, of) > COMPENSATION_LIMIT
      => of \in AboveLimit(uses, lines, <<usesBefore>>)

LimitsKeptFor(q) ==
  LET Check(before, now) ==
        /\ SplitRight(Uses(q.plan, now), now.lines)
        /\ LimitTold(Uses(q.plan, now), now.lines, Uses(q.before, before), before.lines)
  IN Check(CoveredBy(q.before), CoveredBy(q.plan))
================================================================================
