----------------------------- MODULE MCBilling -----------------------------
(* Instances of Billing for TLC: a short and a long billing cycle.         *)
EXTENDS Billing, TLC

MCMonths == [c \in Cycles |-> IF c = "monthly" THEN 1 ELSE 2]
Symmetry == Permutations(Orders) \cup Permutations(Confirmers)
=============================================================================
