------------------------------ MODULE LeadBook ------------------------------
(***************************************************************************)
(* What every ingestion pipeline promises, with nothing said of how: a     *)
(* lead that exists at the source is written into the CRM at most once,    *)
(* for one tenant entitled to it, is never rewritten or lost afterwards,   *)
(* and in the end is there.                                                *)
(***************************************************************************)
CONSTANTS
    Leads,      \* lead ids at the source
    Tenants,
    Owners,     \* Owners[l]: the tenants the lead may be recorded for
    Unrecorded  \* "no tenant yet"

VARIABLES
    known,  \* leads that exist at the source
    book    \* book[l]: the tenant whose CRM holds l

bookVars == <<known, book>>

Init ==
    /\ known = {}
    /\ book = [l \in Leads |-> Unrecorded]

Appear(l) ==
    /\ l \notin known
    /\ known' = known \cup {l}
    /\ UNCHANGED book

Record(l, t) ==
    /\ l \in known
    /\ book[l] = Unrecorded
    /\ t \in Owners[l]
    /\ book' = [book EXCEPT ![l] = t]
    /\ UNCHANGED known

Next == \E l \in Leads : Appear(l) \/ \E t \in Tenants : Record(l, t)

Spec == Init /\ [][Next]_bookVars

\* A known lead with an owner is recorded in the end.
FairSpec == Spec /\ \A l \in Leads : WF_bookVars(\E t \in Tenants : Record(l, t))
=============================================================================
