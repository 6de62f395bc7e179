----------------------------- MODULE MCCapacity -----------------------------
(* Capacity on small instances: a plan with room, a trial and an expired   *)
(* account; requests are interchangeable.                                  *)
EXTENDS Capacity

MCPlans == {[entitlement |-> "subscribed", campaigns |-> 2, clients |-> 1],
            [entitlement |-> "trialing", campaigns |-> 2, clients |-> 1],
            [entitlement |-> "blocked", campaigns |-> 2, clients |-> 1]}

\* A package may allow no client at all (assertNonNegativeInteger).
MCSweepPlans == {[entitlement |-> "subscribed", campaigns |-> 2, clients |-> 1],
                 [entitlement |-> "subscribed", campaigns |-> 1, clients |-> 0]}

RequestSymmetry == Permutations(Requests)
=============================================================================
