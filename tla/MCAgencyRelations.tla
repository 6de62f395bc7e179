-------------------------- MODULE MCAgencyRelations --------------------------
(* AgencyRelations on small instances: a plan that allows one client and    *)
(* one that allows none; invocations are interchangeable, and so are the   *)
(* companies still to be created.                                          *)
EXTENDS AgencyRelations, TLC

CONSTANTS a1, a2

MCLimit == (a1 :> 0) @@ (a2 :> 1)
Symmetry == Permutations(Procs) \cup Permutations(Fresh)
=============================================================================
