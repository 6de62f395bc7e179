--------------------------- MODULE PaymentLedger ---------------------------
(***************************************************************************)
(* What a payment promises, with nothing said of how it is confirmed: the  *)
(* order of a captured payment is granted once, adds exactly the slots it  *)
(* was placed for, and never takes a date back. Slots and the capacity     *)
(* date change in no other way.                                            *)
(***************************************************************************)
EXTENDS Naturals

CONSTANT Orders

VARIABLES
    worth,     \* campaign slots the order is for
    captured,  \* orders whose payment was captured
    granted,   \* orders that were granted
    slots,     \* campaign slots bought
    until,     \* end of the base plan (0: none)
    capacity   \* end of the bought capacity (0: none)

ledgerVars == <<worth, captured, granted, slots, until, capacity>>

Init ==
    /\ worth = [o \in Orders |-> 0]
    /\ captured = {} /\ granted = {}
    /\ slots = 0 /\ capacity = 0
    /\ until \in Nat

Place(o) ==
    /\ o \notin captured
    /\ \A p \in Orders \ {o} : worth'[p] = worth[p]
    /\ UNCHANGED <<captured, granted, slots, until, capacity>>

Pay(o) ==
    /\ captured' = captured \cup {o}
    /\ UNCHANGED <<worth, granted, slots, until, capacity>>

\* More slots are added to those still valid, or replace those that lapsed.
Grant(o) ==
    /\ o \in captured \ granted
    /\ granted' = granted \cup {o}
    /\ slots' \in IF worth[o] = 0 THEN {slots} ELSE {slots + worth[o], worth[o]}
    /\ until' >= until
    /\ capacity' >= capacity
    /\ UNCHANGED <<worth, captured>>

\* The platform's administrators may move the end of the plan.
Override == UNCHANGED <<worth, captured, granted, slots, capacity>>

Next == Override \/ \E o \in Orders : Place(o) \/ Pay(o) \/ Grant(o)

Spec == Init /\ [][Next]_ledgerVars
=============================================================================
