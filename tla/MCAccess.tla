------------------------------ MODULE MCAccess ------------------------------
(* Access on a small instance: users, sessions and invocations are          *)
(* interchangeable.                                                        *)
EXTENDS Access, TLC

\* Patches of users meet sessions through one statement, the update of the
\* status, and the sessions of two users do not meet at all: with sessions
\* open or a password being changed, one user at work, an owner, and one patch
\* at a time, of the status alone (one that is not active is as good as another).
Focus ==
    \/ /\ \A s \in Sessions : session[s].st = "free"
       /\ \A p \in Procs : proc[p].pc \in {"idle", "login", "count", "update"}
       /\ abandoned = {}
    \/ /\ \E u \in Users :
             /\ \A s \in Sessions : session[s].user \in {u, None}
             /\ \A p \in Procs : proc[p].user \in {u, None}
             /\ \A v \in Users : user[v].role = Owner /\ (v # u => user[v].status = "active")
       /\ \A r \in Roles : manages[r]
       /\ Cardinality({p \in Procs : proc[p].pc \in {"count", "update"}}) <= 1
       /\ \A p \in Procs : proc[p].role = None /\ proc[p].status # "other"
       /\ ~raced /\ ~skipped

Symmetry == Permutations(Users) \cup Permutations(Sessions) \cup Permutations(Procs)
=============================================================================
