-------------------------- MODULE MCLeadIngestion --------------------------
(* LeadIngestion on a small instance: every lead is owned by every tenant,  *)
(* the case of two companies that subscribed the same Page.                 *)
EXTENDS LeadIngestion, TLC

MCOwners == [l \in Leads |-> Tenants]
Symmetry == Permutations(Workers) \cup Permutations(Msgs) \cup Permutations(Leads) \cup Permutations(Tenants)
=============================================================================
