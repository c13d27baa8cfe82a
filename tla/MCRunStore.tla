----------------------------- MODULE MCRunStore -----------------------------
(* Instances of RunStore for TLC. *)
EXTENDS RunStore, TLC

\* Two runs of one plan.
SharedPlan == [r \in Runs |-> "p1"]

\* Every run plans for itself, but the last has no plan.
OwnPlans == [r \in Runs |-> IF r = "r1" THEN "p1" ELSE IF r = "r2" THEN "p2" ELSE NoPlan]

Symmetry == Permutations(Writers)
=============================================================================
