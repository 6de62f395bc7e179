-------------------------- MODULE MCMetaConnection --------------------------
(* MetaConnection on a small instance: connections, Pages and invocations   *)
(* are interchangeable.                                                    *)
EXTENDS MetaConnection, TLC

\* Selecting a Page meets connections through the flag alone: with a Page
\* selected, or about to be, the first connection, its expiry on file, and no
\* sweep. The last connection granted has its expiry on file: a token without
\* one meets the sweep, and what comes after it, in the first two.
Focus ==
    /\ \/ ~chosen /\ ~unchosen /\ \A p \in Procs : proc[p].page = None
       \/ /\ Cardinality(Granted) <= 1 /\ (Granted # {} => dated)
          /\ ~swept /\ faults = 0 /\ todo = {}
    /\ Granted = Conns => dated

Symmetry == Permutations(Conns) \cup Permutations(Pages) \cup Permutations(Procs)
=============================================================================
