---------------------------- MODULE ConnectionBook ----------------------------
(***************************************************************************)
(* What the rows of meta_connections promise: a tenant has one connection  *)
(* at a time, every grant is a new one, and what is over stays over.       *)
(***************************************************************************)
CONSTANTS Conns, None

VARIABLES
    current,  \* the tenant's connection, or None
    granted   \* every connection there ever was

Init == current = None /\ granted = {}

Connect(c) ==
    /\ current = None
    /\ c \notin granted
    /\ current' = c
    /\ granted' = granted \cup {c}

End ==
    /\ current # None
    /\ current' = None
    /\ UNCHANGED granted

Next == End \/ \E c \in Conns : Connect(c)

Spec == Init /\ [][Next]_<<current, granted>>
=============================================================================
