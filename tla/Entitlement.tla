---------------------------- MODULE Entitlement ----------------------------
(***************************************************************************)
(* The trial and subscription state machine of src/domain/trial.ts: what   *)
(* an account may do is never stored, it is read off its dates. A company  *)
(* is a record of the columns this depends on, dates are numbers and SQL's *)
(* NULL is None.                                                           *)
(***************************************************************************)
EXTENDS Naturals

CONSTANT None  \* NULL

ASSUME NoneIsNoDate == None \notin Nat

States == {"trialing", "trial_expired", "subscribed", "subscription_expired"}

Future(date, now) == date # None /\ date > now

EntitlementState(c, now) ==
    IF c.status = "trialing"
    THEN IF Future(c.trialEnds, now) THEN "trialing" ELSE "trial_expired"
    ELSE IF c.status = "expired" \/ (c.expires # None /\ c.expires <= now)
         THEN "subscription_expired" ELSE "subscribed"

Blocked(c, now) == EntitlementState(c, now) \in {"trial_expired", "subscription_expired"}

\* Bought capacity counts while its cycle lasts (activeExtraSlots).
ActiveExtra(c, now) ==
    IF Future(c.capacityUntil, now)
    THEN [campaigns |-> c.campaigns, clients |-> c.clients]
    ELSE [campaigns |-> 0, clients |-> 0]
=============================================================================
