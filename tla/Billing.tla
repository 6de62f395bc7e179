------------------------------ MODULE Billing ------------------------------
(***************************************************************************)
(* Payments of one paying account (a pool root company):                   *)
(*   - billing_orders rows, from "created" to "paid";                      *)
(*   - the two confirmation paths that race for an order: the browser's    *)
(*     /api/billing/verify and Razorpay's payment.captured webhook, which  *)
(*     Razorpay repeats until it is answered 200 (application/billing.ts); *)
(*   - what a paid order grants: the base plan or extra capacity, in one   *)
(*     SQL statement (repositories/billing.ts);                            *)
(*   - the administrators' actions on the same rows, several statements    *)
(*     each (application/platformAdmin.ts).                                *)
(* Invocations (Confirmers, Admins) interleave between their statements.   *)
(***************************************************************************)
EXTENDS Entitlement, FiniteSets

CONSTANTS
    Orders,       \* billing_orders ids
    Confirmers,   \* concurrent verify and webhook invocations
    Admins,       \* concurrent invocations of administrators' actions
    Cycles,       \* billing cycles
    Months,       \* Months[c]: length of cycle c
    Quantities,   \* quantities an order can be for
    OverageKind,  \* what this type of account buys more of
    TrialDays,    \* by how much one extension moves the end of a trial
    AdminActs,    \* the administrators' actions this instance allows
    MaxTime       \* bound on the clock

ASSUME MonthsAssumption == Months \in [Cycles -> Nat \ {0}]
ASSUME QuantitiesAssumption == Quantities \subseteq Nat \ {0}
ASSUME OverageKindAssumption == OverageKind \in {"individual_campaigns", "agency_bundles"}
ASSUME TrialDaysAssumption == TrialDays \in Nat \ {0}
ASSUME AdminActsAssumption == AdminActs \subseteq {"extend", "force", "cancel", "refund"}
ASSUME NoneIsNobody == None \notin Orders \cup Cycles \cup Admins
ASSUME MaxTimeAssumption == MaxTime \in Nat

VARIABLES
    now,
    company,    \* the columns of crm.companies that payments write
    order,      \* crm.billing_orders
    captured,   \* orders whose payment Razorpay has captured
    answered,   \* orders whose webhook was answered 200
    conf,       \* the confirming invocations
    admin,      \* the administrators' invocations
    paidUntil,  \* observer: the cycle end an order was granted with
    overruled   \* observer: orders paid before an administrator set the end

vars == <<now, company, order, captured, answered, conf, admin,
          paidUntil, overruled>>

Dates == Nat \cup {None}
Base == "base_subscription"
NoOrder == [st |-> "none", kind |-> None, qty |-> 0,
            confirmed |-> FALSE, cycle |-> None, refundedBy |-> None]
ConfIdle == [pc |-> "idle", via |-> "verify", order |-> None, until |-> None]
AdminIdle == [pc |-> "idle", act |-> "none", order |-> None, target |-> None]

\* Nobody writes "expired" to subscription_status.
CompanyState == [status : {"trialing", "active"}, trialEnds : Dates, expires : Dates,
                 campaigns : Nat, clients : Nat, capacityUntil : Dates]
OrderState == [st : {"none", "created", "paid"}, kind : {None, Base, OverageKind},
               qty : Nat, cycle : Cycles \cup {None},
               confirmed : BOOLEAN, refundedBy : Admins \cup {None}]
ConfState == [pc : {"idle", "apply", "stamp", "answer"}, via : {"verify", "webhook"},
              order : Orders \cup {None}, until : Dates]
AdminState == [pc : {"idle", "write", "refund"},
               act : AdminActs \cup {"none"}, order : Orders \cup {None},
               target : Dates]

Init ==
    /\ now = 1
    /\ \E plan \in {[status |-> "trialing", trialEnds |-> 1 + TrialDays],
                    [status |-> "active", trialEnds |-> None]} :
         company = [status |-> plan.status, trialEnds |-> plan.trialEnds, expires |-> None,
                    campaigns |-> 0, clients |-> 0, capacityUntil |-> None]
    /\ order = [o \in Orders |-> NoOrder]
    /\ captured = {} /\ answered = {}
    /\ conf = [c \in Confirmers |-> ConfIdle]
    /\ admin = [a \in Admins |-> AdminIdle]
    /\ paidUntil = [o \in Orders |-> None]
    /\ overruled = {}

-----------------------------------------------------------------------------
(* What an order grants.                                                   *)

CampaignSlots(o) ==
    CASE order[o].kind = Base -> 0
      [] order[o].kind = "agency_bundles" -> 2 * order[o].qty
      [] OTHER -> order[o].qty

ClientSlots(o) == IF order[o].kind = "agency_bundles" THEN order[o].qty ELSE 0

\* The later of a date on file and a new one.
Extend(date, until) == IF Future(date, until) THEN date ELSE until

\* Broken variant: a renewal always counts from now.
AfterBasePaymentFromNow(until) ==
    [company EXCEPT !.status = "active", !.expires = until]

AfterBasePayment(until) ==
    [company EXCEPT
        !.status = "active",
        !.expires = IF company.status = "active" THEN Extend(@, until) ELSE until]

\* Broken variant: a top-up replaces what is still valid.
AfterOveragePaymentReplacing(o, until) ==
    [company EXCEPT !.campaigns = CampaignSlots(o), !.clients = ClientSlots(o),
                    !.capacityUntil = Extend(@, until)]

\* Slots bought while earlier ones are still good are added to them.
AfterOveragePayment(o, until) ==
    LET kept == ActiveExtra(company, now) IN
    [company EXCEPT
        !.campaigns = kept.campaigns + CampaignSlots(o),
        !.clients = kept.clients + ClientSlots(o),
        !.capacityUntil = Extend(@, until)]

AfterPayment(o, until) ==
    IF order[o].kind = Base THEN AfterBasePayment(until) ELSE AfterOveragePayment(o, until)

-----------------------------------------------------------------------------
(* The outside world.                                                      *)

Tick ==
    /\ now < MaxTime
    /\ now' = now + 1
    /\ UNCHANGED <<company, order, captured, answered, conf, admin, paidUntil,
                   overruled>>

\* The buyer pays an order. Razorpay signs the payment for the browser and
\* captures it.
Capture(o) ==
    /\ order[o].st = "created" /\ o \notin captured
    /\ captured' = captured \cup {o}
    /\ UNCHANGED <<now, company, order, answered, conf, admin, paidUntil, overruled>>

\* createOverageOrder, createBaseSubscriptionOrder: the row is inserted before
\* the buyer is shown anything to pay.
CreateOrder(o, kind, qty, cycle) ==
    /\ order[o].st = "none"
    /\ kind = Base => qty = 1
    /\ order' = [order EXCEPT ![o] = [NoOrder EXCEPT !.st = "created", !.kind = kind,
                                                     !.qty = qty, !.cycle = cycle]]
    /\ UNCHANGED <<now, company, captured, answered, conf, admin, paidUntil,
                   overruled>>

-----------------------------------------------------------------------------
(* Confirmation.                                                           *)

Begin(c, pc, via, o, until) ==
    conf' = [conf EXCEPT ![c] = [pc |-> pc, via |-> via, order |-> o, until |-> until]]

CycleEnd(o) == now + Months[order[o].cycle]

\* verifyAndApplyOveragePayment, up to the statement: the order is read and
\* the signature checked, which only a paid order has.
StartVerify(c, o) ==
    /\ conf[c].pc = "idle"
    /\ o \in captured
    /\ Begin(c, "apply", "verify", o, CycleEnd(o))
    /\ UNCHANGED <<now, company, order, captured, answered, admin, paidUntil,
                   overruled>>

\* Broken variant: a webhook that finds the order paid answers at once.
StartWebhookWithoutStamp(c, o) ==
    /\ conf[c].pc = "idle"
    /\ o \in captured
    /\ IF order[o].st = "created" THEN Begin(c, "apply", "webhook", o, CycleEnd(o))
                                 ELSE Begin(c, "answer", "webhook", o, None)
    /\ UNCHANGED <<now, company, order, captured, answered, admin, paidUntil, overruled>>

\* confirmOveragePaymentFromWebhook, up to its first write. Razorpay may
\* deliver an event any number of times.
StartWebhook(c, o) ==
    /\ conf[c].pc = "idle"
    /\ o \in captured
    /\ IF order[o].st = "created" THEN Begin(c, "apply", "webhook", o, CycleEnd(o))
                                 ELSE Begin(c, "stamp", "webhook", o, None)
    /\ UNCHANGED <<now, company, order, captured, answered, admin, paidUntil,
                   overruled>>

\* Broken variant: the statement does not look at the order's status.
ApplyAgain(c) ==
    LET o == conf[c].order IN
    /\ conf[c].pc = "apply"
    /\ order' = [order EXCEPT ![o].st = "paid"]
    /\ company' = AfterPayment(o, conf[c].until)
    /\ paidUntil' = [paidUntil EXCEPT ![o] = conf[c].until]
    /\ conf' = [conf EXCEPT ![c] = ConfIdle]
    /\ UNCHANGED <<now, captured, answered, admin, overruled>>

\* markBillingOrderPaidAndApply: one statement, which only changes an order
\* that is still "created". A webhook that loses goes on to the stamp.
Apply(c) ==
    LET o == conf[c].order
        won == order[o].st = "created"
        verify == conf[c].via = "verify"
    IN
    /\ conf[c].pc = "apply"
    /\ IF won
       THEN /\ order' = [order EXCEPT ![o].st = "paid", ![o].confirmed = @ \/ ~verify]
            /\ company' = AfterPayment(o, conf[c].until)
            /\ paidUntil' = [paidUntil EXCEPT ![o] = conf[c].until]
       ELSE UNCHANGED <<order, company, paidUntil>>
    /\ conf' = IF verify THEN [conf EXCEPT ![c] = ConfIdle]
               ELSE [conf EXCEPT ![c].pc = IF won THEN "answer" ELSE "stamp", ![c].until = None]
    /\ UNCHANGED <<now, captured, answered, admin, overruled>>

\* stampBillingOrderWebhookConfirmed.
Stamp(c) ==
    /\ conf[c].pc = "stamp"
    /\ order' = [order EXCEPT ![conf[c].order].confirmed = TRUE]
    /\ conf' = [conf EXCEPT ![c].pc = "answer"]
    /\ UNCHANGED <<now, company, captured, answered, admin, paidUntil, overruled>>

\* The webhook's 200 reaches Razorpay.
Answer(c) ==
    /\ conf[c].pc = "answer"
    /\ answered' = answered \cup {conf[c].order}
    /\ conf' = [conf EXCEPT ![c] = ConfIdle]
    /\ UNCHANGED <<now, company, order, captured, admin, paidUntil, overruled>>

\* Broken variant: the webhook answers 200 although it failed.
ConfirmCrashAnswered(c) ==
    /\ conf[c].pc # "idle"
    /\ conf' = [conf EXCEPT ![c] = ConfIdle]
    /\ answered' = answered \cup {conf[c].order}
    /\ UNCHANGED <<now, company, order, captured, admin, paidUntil, overruled>>

\* A statement throws (500) or the invocation dies: Razorpay hears no 200.
ConfirmCrash(c) ==
    /\ conf[c].pc # "idle"
    /\ conf' = [conf EXCEPT ![c] = ConfIdle]
    /\ UNCHANGED <<now, company, order, captured, answered, admin, paidUntil,
                   overruled>>

-----------------------------------------------------------------------------
(* Administrators. Each action reads the row and decides what to write     *)
(* (application/platformAdmin.ts), then writes it, whatever happened in    *)
(* between (repositories/platformAdmin.ts). The audit log is left out.     *)

Decide(a, pc, act, o, target) ==
    /\ act \in AdminActs
    /\ admin[a].pc = "idle"
    /\ admin' = [admin EXCEPT ![a] = [pc |-> pc, act |-> act, order |-> o,
                                      target |-> target]]
    /\ UNCHANGED <<now, company, order, captured, answered, conf, paidUntil,
                   overruled>>

\* Bounded: an extension starts from an end that is not beyond the clock.
ExtendTrial(a) ==
    /\ company.status = "trialing"
    /\ company.trialEnds # None => company.trialEnds <= MaxTime
    /\ LET base == IF company.trialEnds = None THEN now ELSE company.trialEnds IN
       Decide(a, "write", "extend", None, base + TrialDays)

ForceActivate(a, cycle) == Decide(a, "write", "force", None, now + Months[cycle])

CancelSubscription(a) ==
    /\ EntitlementState(company, now) = "subscribed"
    /\ Decide(a, "write", "cancel", None, None)

RefundOrder(a, o) ==
    /\ order[o].st = "paid" /\ order[o].refundedBy = None
    /\ Decide(a, "refund", "refund", o, None)

\* Broken variant: cancelling flips the status column as well.
AfterAdminFlipping(act, target) ==
    IF act = "cancel" THEN [company EXCEPT !.status = "expired", !.expires = target]
    ELSE [company EXCEPT !.status = "active", !.expires = target]

AfterAdmin(act, target) ==
    CASE act = "extend" -> [company EXCEPT !.trialEnds = target]
      [] act = "force" -> [company EXCEPT !.status = "active", !.expires = target]
      [] OTHER -> [company EXCEPT !.expires = target]

PaidOrders == {o \in Orders : order[o].st = "paid"}

\* The UPDATE, whatever happened since the reads.
Write(a) ==
    LET act == admin[a].act
        target == IF act = "cancel" THEN now ELSE admin[a].target
    IN
    /\ admin[a].pc = "write"
    /\ company' = AfterAdmin(act, target)
    /\ admin' = [admin EXCEPT ![a] = AdminIdle]
    /\ overruled' = IF act = "extend" THEN overruled ELSE overruled \cup PaidOrders
    /\ UNCHANGED <<now, order, captured, answered, conf, paidUntil>>

\* Broken variant: the refund is written unconditionally.
RefundAgain(a) ==
    /\ admin[a].pc = "refund"
    /\ order' = [order EXCEPT ![admin[a].order].refundedBy = a]
    /\ admin' = [admin EXCEPT ![a] = AdminIdle]
    /\ UNCHANGED <<now, company, captured, answered, conf, paidUntil, overruled>>

\* markBillingOrderRefunded: conditional on a paid order without a refund.
Refund(a) ==
    LET o == admin[a].order
        open == order[o].st = "paid" /\ order[o].refundedBy = None
    IN
    /\ admin[a].pc = "refund"
    /\ order' = IF open THEN [order EXCEPT ![o].refundedBy = a] ELSE order
    /\ admin' = [admin EXCEPT ![a] = AdminIdle]
    /\ UNCHANGED <<now, company, captured, answered, conf, paidUntil, overruled>>

AdminCrash(a) ==
    /\ admin[a].pc # "idle"
    /\ admin' = [admin EXCEPT ![a] = AdminIdle]
    /\ UNCHANGED <<now, company, order, captured, answered, conf, paidUntil,
                   overruled>>

-----------------------------------------------------------------------------

ConfirmStep(c) == Apply(c) \/ Stamp(c) \/ Answer(c) \/ ConfirmCrash(c)
AdminStep(a) == Write(a) \/ Refund(a) \/ AdminCrash(a)

Next ==
    \/ Tick
    \/ \E o \in Orders, kind \in {Base, OverageKind}, qty \in Quantities, cycle \in Cycles :
         CreateOrder(o, kind, qty, cycle)
    \/ \E o \in Orders : Capture(o)
    \/ \E c \in Confirmers, o \in Orders : StartVerify(c, o) \/ StartWebhook(c, o)
    \/ \E c \in Confirmers : ConfirmStep(c)
    \/ \E a \in Admins : ExtendTrial(a) \/ CancelSubscription(a) \/ AdminStep(a)
    \/ \E a \in Admins, cycle \in Cycles : ForceActivate(a, cycle)
    \/ \E a \in Admins, o \in Orders : RefundOrder(a, o)

Spec == Init /\ [][Next]_vars

(***************************************************************************)
(* Fairness. An invocation that runs goes on until it ends or dies;        *)
(* Razorpay repeats a webhook until it is answered, and the statement that *)
(* applies a given order succeeds if tried again and again. Nothing is     *)
(* assumed of the browser or of administrators.                            *)
(***************************************************************************)
Deliver(o) == o \notin answered /\ \E c \in Confirmers : StartWebhook(c, o)
ApplyOrder(o) == \E c \in Confirmers : conf[c].order = o /\ Apply(c)

FairSpec ==
    /\ Spec
    /\ \A c \in Confirmers : WF_vars(ConfirmStep(c))
    /\ \A o \in Orders : SF_vars(Deliver(o)) /\ SF_vars(ApplyOrder(o))

-----------------------------------------------------------------------------
(* Properties.                                                             *)

\* What the columns, rows and invocations can hold: no order is granted,
\* refunded or confirmed with anything the code does not write.
TypeOK ==
    /\ now \in Nat
    /\ company \in CompanyState
    /\ order \in [Orders -> OrderState]
    /\ captured \subseteq Orders
    /\ answered \subseteq Orders
    /\ conf \in [Confirmers -> ConfState]
    /\ admin \in [Admins -> AdminState]
    /\ paidUntil \in [Orders -> Dates]
    /\ overruled \subseteq Orders

\* The paid overage orders whose own cycle is running.
RunningOverage ==
    {o \in Orders : /\ order[o].st = "paid"
                    /\ order[o].kind = OverageKind
                    /\ Future(paidUntil[o], now)}

\* What these orders bought, slot by slot.
PaidCampaigns == UNION {{o} \X (1..CampaignSlots(o)) : o \in RunningOverage}
PaidClients == UNION {{o} \X (1..ClientSlots(o)) : o \in RunningOverage}

\* Every slot whose own cycle has been paid for and is running counts towards
\* the limit, in whatever order the purchases were made, confirmed and lapsed.
PaidSlotsAreHonoured ==
    LET extra == ActiveExtra(company, now) IN
    /\ Cardinality(PaidCampaigns) <= extra.campaigns
    /\ Cardinality(PaidClients) <= extra.clients

\* An account is never locked out during a base cycle it has paid for, unless
\* an administrator moved the end after that payment.
PaidPlanIsUsable ==
    \A o \in Orders \ overruled :
        /\ order[o].st = "paid" /\ order[o].kind = Base
        /\ Future(paidUntil[o], now)
        => ~Blocked(company, now)

\* Once Razorpay has its 200 and stops repeating, the payment is applied and
\* its confirmation recorded.
AnsweredIsConfirmed ==
    \A o \in answered : order[o].st = "paid" /\ order[o].confirmed

\* A refund is recorded by one administrator and never overwritten.
RefundIsFinal ==
    [][\A o \in Orders : order[o].refundedBy # None => order'[o].refundedBy = order[o].refundedBy]_vars

\* Whatever races, an order is granted once and only for captured money, adds
\* what was bought, and never takes a date back. No date counts as 0, so that
\* the end a base payment gives an active account that had none, and was
\* subscribed for ever, is not one taken back.
Dated(date) == IF date = None THEN 0 ELSE date

Ledger == INSTANCE PaymentLedger WITH
    worth <- [o \in Orders |-> CampaignSlots(o)],
    granted <- PaidOrders,
    slots <- company.campaigns,
    until <- Dated(company.expires),
    capacity <- Dated(company.capacityUntil)

ImplementsLedger == Ledger!Spec

\* Captured money is granted in the end, though the browser may never call
\* back and invocations may die.
CapturedIsGranted == \A o \in Orders : o \in captured ~> order[o].st = "paid"
=============================================================================
