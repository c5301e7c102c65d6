-------------------------------- MODULE MCPlans --------------------------------
(* Instances of TaxPlans for TLC. *)
EXTENDS TaxPlans, TLC

\* Requests are interchangeable.
Interchangeable == Permutations(Requests)
OverpaidOrOwed  == {-1, 2}

\* What a plan is computed from, or a return is filed with, may change meanwhile in four ways that the code does not exclude;
\* every other two operations may overlap.
SafeOverlaps ==
  {{op, other} : op, other \in Ops} \ ({{"createPlan"}, {"createPlan", "update"}}
                                      \cup {{"markFiled", op} : op \in {"createPlan", "update", "remove", "unmark"}})
================================================================================
