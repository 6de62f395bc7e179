------------------------------ MODULE ClaimBook ------------------------------
(***************************************************************************)
(* What the relations between agencies and clients promise: a client is    *)
(* claimed by one agency at a time, and only a free one can be claimed, so *)
(* that no agency takes a client from another.                             *)
(***************************************************************************)
CONSTANTS Agencies, Clients, None

VARIABLE holder  \* per client, the agency that claims it

Init == holder \in [Clients -> Agencies \cup {None}]

Claim(a, c) ==
    /\ holder[c] = None
    /\ holder' = [holder EXCEPT ![c] = a]

Release(c) ==
    /\ holder[c] # None
    /\ holder' = [holder EXCEPT ![c] = None]

Next == \E c \in Clients : Release(c) \/ \E a \in Agencies : Claim(a, c)

Spec == Init /\ [][Next]_holder
=============================================================================
