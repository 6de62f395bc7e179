--------------------------- MODULE BillingProofs ---------------------------
(***************************************************************************)
(* Proofs about Billing for any number of orders, invocations and          *)
(* administrators, any cycles and quantities, and an unbounded clock.      *)
(***************************************************************************)
EXTENDS Billing, FiniteSetTheorems, TLAPS

(***************************************************************************)
(* Beyond the types: nothing is known of an order before it is placed, a   *)
(* placed one says what it is for, and only a paid one is refunded.        *)
(***************************************************************************)
OrderInv ==
    \A o \in Orders :
        /\ order[o].st = "none" => order[o] = NoOrder /\ o \notin captured
        /\ order[o].st # "none" => /\ order[o].kind \in {Base, OverageKind}
                                   /\ order[o].qty > 0
                                   /\ order[o].cycle \in Cycles
        /\ order[o].refundedBy # None => order[o].st = "paid"

\* A confirming invocation is at work on captured money, and beyond its first
\* write only if the order is paid.
ConfInv ==
    \A c \in Confirmers :
        /\ conf[c].pc # "idle" => conf[c].order \in captured
        /\ conf[c].pc = "apply" => conf[c].until \in Nat
        /\ conf[c].pc \in {"stamp", "answer"} => order[conf[c].order].st = "paid"
        /\ conf[c].pc = "answer" => order[conf[c].order].confirmed

\* What an administrator's invocation is about to write makes sense, and a
\* cancellation was decided on an account that has left its trial.
AdminInv ==
    \A a \in Admins :
        /\ admin[a].pc = "write" => admin[a].act \in {"extend", "force", "cancel"}
        /\ admin[a].pc = "write" /\ admin[a].act = "cancel" => company.status = "active"
        /\ admin[a].pc = "refund" => admin[a].order \in Orders

\* A trial has no subscription end, and the subscription of an account with a
\* paid base order ends no earlier than that order's cycle.
PlanInv ==
    /\ company.status = "trialing" => company.expires = None
    /\ \A o \in Orders \ overruled :
          order[o].st = "paid" /\ order[o].kind = Base =>
              /\ company.status = "active"
              /\ company.expires \in Nat
              /\ paidUntil[o] \in Nat
              /\ paidUntil[o] <= company.expires

Sound == TypeOK /\ OrderInv /\ ConfInv /\ AnsweredIsConfirmed /\ AdminInv /\ PlanInv

LEMMA Constants ==
    /\ None \notin Nat /\ None \notin Orders /\ None \notin Cycles /\ None \notin Admins
    /\ TrialDays \in Nat \ {0}
    /\ MaxTime \in Nat
    /\ \A c \in Cycles : Months[c] \in Nat \ {0}
    /\ \A q \in Quantities : q \in Nat \ {0}
  BY NoneIsNoDate, NoneIsNobody, TrialDaysAssumption, MaxTimeAssumption,
     MonthsAssumption, QuantitiesAssumption

LEMMA SoundInit == Init => Sound
  <1>. SUFFICES ASSUME Init
                PROVE  Sound
    OBVIOUS
  <1>. USE Constants
  <1>1. TypeOK
    <2>1. company \in CompanyState
      BY DEF Init, CompanyState, Dates
    <2>2. order \in [Orders -> OrderState]
      BY DEF Init, OrderState, NoOrder
    <2>3. conf \in [Confirmers -> ConfState]
      BY DEF Init, ConfState, ConfIdle, Dates
    <2>4. admin \in [Admins -> AdminState]
      BY DEF Init, AdminState, AdminIdle, Dates
    <2>. QED
      BY <2>1, <2>2, <2>3, <2>4 DEF Init, TypeOK, Dates
  <1>2. OrderInv
    BY DEF Init, OrderInv, NoOrder
  <1>3. ConfInv /\ AnsweredIsConfirmed /\ AdminInv
    BY DEF Init, ConfInv, AnsweredIsConfirmed, AdminInv, ConfIdle, AdminIdle
  <1>4. PlanInv
    BY DEF Init, PlanInv, NoOrder
  <1>. QED
    BY <1>1, <1>2, <1>3, <1>4 DEF Sound

-----------------------------------------------------------------------------
(* What a payment does to the account.                                     *)

\* The account after a payment is well-typed, and neither the plan's end nor
\* that of the bought capacity moves back.
LEMMA PaymentExtends ==
    ASSUME Sound, NEW o \in Orders, order[o].st = "created", NEW until \in Nat
    PROVE  /\ AfterPayment(o, until) \in CompanyState
           /\ order[o].kind = Base =>
                 /\ AfterPayment(o, until).status = "active"
                 /\ AfterPayment(o, until).expires \in Nat
                 /\ AfterPayment(o, until).expires >= until
                 /\ company.expires \in Nat => AfterPayment(o, until).expires >= company.expires
                 /\ AfterPayment(o, until).campaigns = company.campaigns
                 /\ AfterPayment(o, until).capacityUntil = company.capacityUntil
           /\ order[o].kind # Base =>
                 /\ AfterPayment(o, until).status = company.status
                 /\ AfterPayment(o, until).expires = company.expires
                 /\ AfterPayment(o, until).capacityUntil \in Nat
                 /\ company.capacityUntil \in Nat =>
                        AfterPayment(o, until).capacityUntil >= company.capacityUntil
                 /\ AfterPayment(o, until).campaigns
                        \in {company.campaigns + CampaignSlots(o), CampaignSlots(o)}
  <1>. DEFINE q == order[o].qty
              k == order[o].kind
  <1>0. /\ company \in CompanyState /\ order[o] \in OrderState /\ now \in Nat
        /\ k \in {Base, OverageKind} /\ q \in Nat /\ q > 0
        /\ company.status = "trialing" => company.expires = None
    BY DEF Sound, TypeOK, OrderInv, PlanInv, OrderState
  <1>1. CampaignSlots(o) \in Nat /\ ClientSlots(o) \in Nat
    BY <1>0 DEF CampaignSlots, ClientSlots
  <1>2. ActiveExtra(company, now).campaigns \in {0, company.campaigns}
        /\ ActiveExtra(company, now).clients \in {0, company.clients}
    BY DEF ActiveExtra
  <1>3. CASE k = Base
    <2>. DEFINE end == IF company.status = "active" THEN Extend(company.expires, until) ELSE until
    <2>1. AfterPayment(o, until) = [company EXCEPT !.status = "active", !.expires = end]
      BY <1>3 DEF AfterPayment, AfterBasePayment
    <2>2. /\ end \in Nat /\ end >= until
          /\ company.expires \in Nat => end >= company.expires
      BY <1>0, Constants DEF CompanyState, Dates, Extend, Future
    <2>. HIDE DEF end
    <2>. QED
      BY <1>0, <1>3, <2>1, <2>2 DEF CompanyState, Dates
  <1>4. CASE k # Base
    <2>. DEFINE end == Extend(company.capacityUntil, until)
                extra == ActiveExtra(company, now)
    <2>1. AfterPayment(o, until) =
             [company EXCEPT !.campaigns = extra.campaigns + CampaignSlots(o),
                             !.clients = extra.clients + ClientSlots(o),
                             !.capacityUntil = end]
      BY <1>4 DEF AfterPayment, AfterOveragePayment
    <2>2. /\ end \in Nat
          /\ company.capacityUntil \in Nat => end >= company.capacityUntil
      BY <1>0, Constants DEF Extend, Future, CompanyState, Dates
    <2>3. /\ extra.campaigns + CampaignSlots(o) \in Nat
          /\ extra.clients + ClientSlots(o) \in Nat
          /\ extra.campaigns + CampaignSlots(o) \in {company.campaigns + CampaignSlots(o), CampaignSlots(o)}
      BY <1>0, <1>1, <1>2 DEF CompanyState
    <2>. HIDE DEF end, extra
    <2>. QED
      BY <1>0, <1>4, <2>1, <2>2, <2>3 DEF CompanyState, Dates
  <1>. QED
    BY <1>3, <1>4

-----------------------------------------------------------------------------
(* Every step keeps the invariant.                                         *)

LEMMA ApplySound ==
    ASSUME Sound, NEW c \in Confirmers, Apply(c)
    PROVE  Sound'
  <1>. DEFINE o == conf[c].order
              until == conf[c].until
              verify == conf[c].via = "verify"
  <1>0. /\ o \in Orders /\ o \in captured /\ until \in Nat /\ conf[c] \in ConfState
        /\ order[o] \in OrderState /\ order[o].st # "none"
        /\ company \in CompanyState
    BY DEF Apply, Sound, TypeOK, ConfInv, OrderInv, NoOrder
  <1>1. CASE order[o].st # "created"
    <2>1. /\ order' = order /\ company' = company /\ paidUntil' = paidUntil
          /\ UNCHANGED <<now, captured, answered, admin, overruled>>
          /\ conf' = IF verify THEN [conf EXCEPT ![c] = ConfIdle]
                     ELSE [conf EXCEPT ![c].pc = "stamp", ![c].until = None]
      BY <1>1 DEF Apply
    <2>2. conf' \in [Confirmers -> ConfState]
      BY <1>0, <2>1 DEF Sound, TypeOK, ConfState, ConfIdle, Dates
    <2>3. order[o].st = "paid"
      BY <1>0, <1>1 DEF OrderState
    <2>4. ConfInv'
      BY <1>0, <2>1, <2>3 DEF Sound, TypeOK, ConfInv, ConfIdle, ConfState
    <2>. QED
      BY <2>1, <2>2, <2>4 DEF Sound, TypeOK, OrderInv, AnsweredIsConfirmed, AdminInv, PlanInv
  <1>2. CASE order[o].st = "created"
    <2>1. /\ order' = [order EXCEPT ![o].st = "paid", ![o].confirmed = @ \/ ~verify]
          /\ company' = AfterPayment(o, until)
          /\ paidUntil' = [paidUntil EXCEPT ![o] = until]
          /\ UNCHANGED <<now, captured, answered, admin, overruled>>
          /\ conf' = IF verify THEN [conf EXCEPT ![c] = ConfIdle]
                     ELSE [conf EXCEPT ![c].pc = "answer", ![c].until = None]
      BY <1>2 DEF Apply
    <2>2. /\ order' \in [Orders -> OrderState]
          /\ order'[o].st = "paid" /\ (~verify => order'[o].confirmed)
          /\ order'[o].kind = order[o].kind /\ order'[o].qty = order[o].qty
          /\ order'[o].cycle = order[o].cycle /\ order'[o].refundedBy = order[o].refundedBy
          /\ \A p \in Orders \ {o} : order'[p] = order[p]
      BY <1>0, <2>1 DEF Sound, TypeOK, OrderState
    <2>3. conf' \in [Confirmers -> ConfState]
      BY <1>0, <2>1 DEF Sound, TypeOK, ConfState, ConfIdle, Dates
    <2>4. TypeOK'
      BY <1>0, <1>2, <2>1, <2>2, <2>3, PaymentExtends DEF Sound, TypeOK, Dates
    <2>5. OrderInv'
      BY <1>0, <2>1, <2>2 DEF Sound, OrderInv
    <2>6. ConfInv'
      <3>1. \A d \in Confirmers \ {c} : conf'[d] = conf[d]
        BY <2>1 DEF Sound, TypeOK
      <3>2. /\ conf'[c].pc \in {"idle", "answer"}
            /\ conf'[c].pc = "answer" => ~verify /\ conf'[c].order = o
        BY <1>0, <2>1 DEF Sound, TypeOK, ConfIdle, ConfState
      <3>3. \A p \in Orders : order[p].st = "paid" => order'[p] = order[p]
        BY <1>2, <2>2
      <3>4. ASSUME NEW d \in Confirmers \ {c}
            PROVE  /\ conf'[d].pc # "idle" => conf'[d].order \in captured'
                   /\ conf'[d].pc = "apply" => conf'[d].until \in Nat
                   /\ conf'[d].pc \in {"stamp", "answer"} => order'[conf'[d].order].st = "paid"
                   /\ conf'[d].pc = "answer" => order'[conf'[d].order].confirmed
        <4>1. conf'[d] = conf[d] /\ captured' = captured
          BY <2>1, <3>1
        <4>2. conf[d].pc # "idle" => conf[d].order \in Orders
          BY DEF Sound, TypeOK, ConfInv
        <4>. QED
          BY <3>3, <4>1, <4>2 DEF Sound, ConfInv
      <3>5. /\ conf'[c].pc # "idle" => conf'[c].order \in captured'
            /\ conf'[c].pc = "answer" => order'[conf'[c].order].st = "paid"
                                        /\ order'[conf'[c].order].confirmed
        <4>1. captured' = captured
          BY <2>1
        <4>. QED
          BY <1>0, <2>2, <3>2, <4>1
      <3>6. ASSUME NEW d \in Confirmers
            PROVE  /\ conf'[d].pc # "idle" => conf'[d].order \in captured'
                   /\ conf'[d].pc = "apply" => conf'[d].until \in Nat
                   /\ conf'[d].pc \in {"stamp", "answer"} => order'[conf'[d].order].st = "paid"
                   /\ conf'[d].pc = "answer" => order'[conf'[d].order].confirmed
        <4>1. CASE d = c
          BY <3>2, <3>5, <4>1
        <4>2. CASE d # c
          BY <3>4, <4>2
        <4>. QED
          BY <4>1, <4>2
      <3>. QED
        BY <3>6 DEF ConfInv
    <2>7. AnsweredIsConfirmed'
      BY <1>2, <2>1, <2>2 DEF Sound, TypeOK, AnsweredIsConfirmed
    <2>8. AdminInv'
      BY <1>0, <1>2, <2>1, PaymentExtends DEF Sound, AdminInv
    <2>9. PlanInv'
      <3>1. CASE order[o].kind = Base
        <4>1. /\ company'.status = "active" /\ company'.expires \in Nat /\ company'.expires >= until
              /\ company.expires \in Nat => company'.expires >= company.expires
          BY <1>0, <1>2, <2>1, <3>1, PaymentExtends
        <4>2. ASSUME NEW p \in Orders \ overruled, p # o, order[p].st = "paid", order[p].kind = Base
              PROVE  paidUntil'[p] \in Nat /\ paidUntil'[p] <= company'.expires
          <5>1. /\ company.expires \in Nat /\ paidUntil[p] \in Nat
                /\ paidUntil[p] <= company.expires
            BY <4>2 DEF Sound, PlanInv
          <5>2. paidUntil'[p] = paidUntil[p]
            BY <2>1, <4>2 DEF Sound, TypeOK
          <5>. QED
            BY <4>1, <5>1, <5>2
        <4>3. paidUntil'[o] = until
          BY <1>0, <2>1 DEF Sound, TypeOK
        <4>4. ASSUME NEW p \in Orders \ overruled', order'[p].st = "paid", order'[p].kind = Base
              PROVE  /\ company'.status = "active"
                     /\ company'.expires \in Nat
                     /\ paidUntil'[p] \in Nat
                     /\ paidUntil'[p] <= company'.expires
          <5>1. p \in Orders \ overruled
            BY <2>1, <4>4
          <5>2. CASE p = o
            BY <1>0, <4>1, <4>3, <5>2
          <5>3. CASE p # o
            BY <2>2, <4>1, <4>2, <4>4, <5>1, <5>3
          <5>. QED
            BY <5>2, <5>3
        <4>. QED
          BY <4>1, <4>4 DEF PlanInv
      <3>2. CASE order[o].kind # Base
        <4>1. company'.status = company.status /\ company'.expires = company.expires
          BY <1>0, <1>2, <2>1, <3>2, PaymentExtends
        <4>2. \A p \in Orders \ {o} : paidUntil'[p] = paidUntil[p]
          BY <2>1 DEF Sound, TypeOK
        <4>3. ASSUME NEW p \in Orders \ overruled', order'[p].st = "paid", order'[p].kind = Base
              PROVE  /\ p \in Orders \ overruled
                     /\ order[p].st = "paid" /\ order[p].kind = Base
                     /\ paidUntil'[p] = paidUntil[p]
          BY <2>1, <2>2, <3>2, <4>2, <4>3
        <4>. QED
          BY <4>1, <4>3 DEF Sound, PlanInv
      <3>. QED
        BY <3>1, <3>2
    <2>. QED
      BY <2>4, <2>5, <2>6, <2>7, <2>8, <2>9 DEF Sound
  <1>. QED
    BY <1>1, <1>2

\* The other steps of a confirmation leave the account alone.
LEMMA ConfirmSound ==
    ASSUME Sound, NEW c \in Confirmers, Stamp(c) \/ Answer(c) \/ ConfirmCrash(c)
    PROVE  Sound'
  <1>. DEFINE o == conf[c].order
  <1>0. /\ o \in Orders /\ conf[c] \in ConfState /\ order[o] \in OrderState
    BY DEF Stamp, Answer, ConfirmCrash, Sound, TypeOK, ConfInv
  <1>1. conf' \in [Confirmers -> ConfState]
    BY <1>0 DEF Stamp, Answer, ConfirmCrash, Sound, TypeOK, ConfState, ConfIdle, Dates
  <1>2. CASE Stamp(c)
    <2>1. /\ order' \in [Orders -> OrderState]
          /\ order'[o].confirmed /\ order'[o].st = "paid" /\ order[o].st = "paid"
          /\ order'[o].kind = order[o].kind /\ order'[o].qty = order[o].qty
          /\ order'[o].cycle = order[o].cycle /\ order'[o].refundedBy = order[o].refundedBy
          /\ \A p \in Orders \ {o} : order'[p] = order[p]
      BY <1>0, <1>2 DEF Stamp, Sound, TypeOK, OrderState, ConfInv
    <2>2. /\ conf'[c].pc = "answer" /\ conf'[c].order = o
          /\ \A d \in Confirmers \ {c} : conf'[d] = conf[d]
      BY <1>0, <1>2 DEF Stamp, Sound, TypeOK, ConfState
    <2>3. UNCHANGED <<now, company, captured, answered, admin, paidUntil, overruled>>
      BY <1>2 DEF Stamp
    <2>4. ConfInv'
      BY <1>0, <1>2, <2>1, <2>2, <2>3 DEF Stamp, Sound, TypeOK, ConfInv
    <2>5. OrderInv'
      BY <1>0, <2>1, <2>3 DEF Sound, OrderInv
    <2>6. AnsweredIsConfirmed' /\ AdminInv' /\ PlanInv'
      BY <1>0, <2>1, <2>3 DEF Sound, TypeOK, AnsweredIsConfirmed, AdminInv, PlanInv
    <2>. QED
      BY <1>1, <2>1, <2>3, <2>4, <2>5, <2>6 DEF Sound, TypeOK
  <1>3. CASE Answer(c) \/ ConfirmCrash(c)
    <2>1. /\ UNCHANGED <<now, company, order, captured, admin, paidUntil, overruled>>
          /\ conf' = [conf EXCEPT ![c] = ConfIdle]
          /\ answered' = answered \/ (conf[c].pc = "answer" /\ answered' = answered \cup {o})
      BY <1>3 DEF Answer, ConfirmCrash
    <2>2. ConfInv'
      BY <2>1 DEF Sound, TypeOK, ConfInv, ConfIdle
    <2>3. AnsweredIsConfirmed' /\ answered' \subseteq Orders
      BY <1>0, <2>1 DEF Sound, TypeOK, AnsweredIsConfirmed, ConfInv
    <2>. QED
      BY <1>1, <2>1, <2>2, <2>3 DEF Sound, TypeOK, OrderInv, AdminInv, PlanInv
  <1>. QED
    BY <1>2, <1>3

\* An order that is placed, paid for, or about to be confirmed.
LEMMA OrderSound ==
    ASSUME Sound, NEW o \in Orders,
           \/ \E kind \in {Base, OverageKind}, qty \in Quantities, cycle \in Cycles :
                 CreateOrder(o, kind, qty, cycle)
           \/ Capture(o)
           \/ \E c \in Confirmers : StartVerify(c, o) \/ StartWebhook(c, o)
    PROVE  Sound'
  <1>1. ASSUME NEW kind \in {Base, OverageKind}, NEW qty \in Quantities, NEW cycle \in Cycles,
               CreateOrder(o, kind, qty, cycle)
        PROVE  Sound'
    <2>1. /\ order[o].st = "none" /\ o \notin captured
          /\ UNCHANGED <<now, company, captured, answered, conf, admin, paidUntil, overruled>>
      BY <1>1 DEF CreateOrder, Sound, OrderInv
    <2>2. /\ order' \in [Orders -> OrderState]
          /\ order'[o].st = "created" /\ order'[o].kind = kind /\ order'[o].qty = qty
          /\ order'[o].cycle = cycle /\ order'[o].refundedBy = None
          /\ \A p \in Orders \ {o} : order'[p] = order[p]
      BY <1>1, Constants DEF CreateOrder, Sound, TypeOK, OrderState, NoOrder
    <2>3. OrderInv'
      BY <1>1, <2>1, <2>2, Constants DEF Sound, OrderInv
    <2>4. \A p \in Orders : order[p].st = "paid" => order'[p] = order[p]
      BY <2>1, <2>2
    <2>5. ConfInv' /\ AnsweredIsConfirmed'
      BY <2>1, <2>4 DEF Sound, TypeOK, ConfInv, AnsweredIsConfirmed
    <2>6. PlanInv' /\ AdminInv'
      BY <2>1, <2>2 DEF Sound, PlanInv, AdminInv
    <2>. QED
      BY <2>1, <2>2, <2>3, <2>5, <2>6 DEF Sound, TypeOK
  <1>2. CASE Capture(o)
    BY <1>2 DEF Capture, Sound, TypeOK, OrderInv, ConfInv, AnsweredIsConfirmed, AdminInv, PlanInv
  <1>3. ASSUME NEW c \in Confirmers, StartVerify(c, o) \/ StartWebhook(c, o)
        PROVE  Sound'
    <2>0. /\ o \in captured /\ order[o] \in OrderState /\ order[o].st # "none"
          /\ order[o].cycle \in Cycles
          /\ UNCHANGED <<now, company, order, captured, answered, admin, paidUntil, overruled>>
      BY <1>3 DEF StartVerify, StartWebhook, Sound, TypeOK, OrderInv, NoOrder
    <2>1. CycleEnd(o) \in Nat
      BY <2>0, Constants DEF CycleEnd, Sound, TypeOK
    <2>2. PICK pc \in {"apply", "stamp"}, via \in {"verify", "webhook"}, until \in Dates :
            /\ conf' = [conf EXCEPT ![c] = [pc |-> pc, via |-> via, order |-> o, until |-> until]]
            /\ pc = "apply" => until \in Nat
            /\ pc = "stamp" => order[o].st = "paid"
      BY <1>3, <2>0, <2>1 DEF StartVerify, StartWebhook, Begin, OrderState, Dates
    <2>3. conf' \in [Confirmers -> ConfState]
      BY <2>2 DEF Sound, TypeOK, ConfState
    <2>4. ConfInv'
      BY <2>0, <2>2 DEF Sound, TypeOK, ConfInv
    <2>. QED
      BY <2>0, <2>3, <2>4 DEF Sound, TypeOK, OrderInv, AnsweredIsConfirmed, AdminInv, PlanInv
  <1>. QED
    BY <1>1, <1>2, <1>3

\* What administrators decide.
LEMMA DecideSound ==
    ASSUME Sound, NEW a \in Admins,
           NEW pc \in {"write", "refund"}, NEW act \in {"extend", "force", "cancel", "refund"},
           NEW o \in Orders \cup {None}, NEW target \in Dates,
           Decide(a, pc, act, o, target),
           pc = "write" => act # "refund",
           pc = "write" /\ act = "cancel" => company.status = "active",
           pc = "refund" => o \in Orders
    PROVE  Sound'
  <1>1. /\ admin' \in [Admins -> AdminState]
        /\ admin' = [admin EXCEPT ![a] = [pc |-> pc, act |-> act, order |-> o, target |-> target]]
        /\ UNCHANGED <<now, company, order, captured, answered, conf, paidUntil, overruled>>
    BY DEF Decide, Sound, TypeOK, AdminState
  <1>2. AdminInv'
    BY <1>1 DEF Sound, TypeOK, AdminInv
  <1>. QED
    BY <1>1, <1>2 DEF Sound, TypeOK, OrderInv, ConfInv, AnsweredIsConfirmed, PlanInv

LEMMA AdminDecides ==
    ASSUME Sound, NEW a \in Admins,
           \/ ExtendTrial(a) \/ CancelSubscription(a)
           \/ \E cycle \in Cycles : ForceActivate(a, cycle)
           \/ \E o \in Orders : RefundOrder(a, o)
    PROVE  Sound'
  <1>0. /\ company \in CompanyState /\ now \in Nat /\ None \in Dates
    BY DEF Sound, TypeOK, Dates
  <1>1. CASE ExtendTrial(a)
    <2>1. PICK base \in Nat : Decide(a, "write", "extend", None, base + TrialDays)
      BY <1>0, <1>1 DEF ExtendTrial, CompanyState, Dates
    <2>2. base + TrialDays \in Dates
      BY <2>1, Constants DEF Dates
    <2>. QED
      BY <2>1, <2>2, DecideSound
  <1>2. CASE CancelSubscription(a)
    <2>1. company.status = "active"
      BY <1>0, <1>2 DEF CancelSubscription, EntitlementState, CompanyState
    <2>. QED
      BY <1>0, <1>2, <2>1, DecideSound DEF CancelSubscription
  <1>3. ASSUME NEW cycle \in Cycles, ForceActivate(a, cycle)
        PROVE  Sound'
    <2>1. now + Months[cycle] \in Dates
      BY <1>0, Constants DEF Dates
    <2>. QED
      BY <1>3, <2>1, DecideSound DEF ForceActivate
  <1>4. ASSUME NEW o \in Orders, RefundOrder(a, o)
        PROVE  Sound'
    BY <1>0, <1>4, DecideSound DEF RefundOrder
  <1>. QED
    BY <1>1, <1>2, <1>3, <1>4

LEMMA AdminActsSound ==
    ASSUME Sound, NEW a \in Admins, AdminStep(a)
    PROVE  Sound'
  <1>0. /\ company \in CompanyState /\ now \in Nat /\ admin[a] \in AdminState
    BY DEF Sound, TypeOK
  <1>1. /\ admin' = [admin EXCEPT ![a] = AdminIdle]
        /\ admin' \in [Admins -> AdminState]
        /\ UNCHANGED <<now, captured, answered, conf, paidUntil>>
    BY DEF AdminStep, Write, Refund, AdminCrash, Sound, TypeOK, AdminState, AdminIdle, Dates
  <1>2. CASE AdminCrash(a)
    <2>1. UNCHANGED <<company, order, overruled>>
      BY <1>2 DEF AdminCrash
    <2>2. AdminInv'
      BY <1>1, <2>1 DEF Sound, TypeOK, AdminInv, AdminIdle
    <2>. QED
      BY <1>1, <2>1, <2>2 DEF Sound, TypeOK, OrderInv, ConfInv, AnsweredIsConfirmed, PlanInv
  <1>3. CASE Refund(a)
    <2>1. admin[a].order \in Orders
      BY <1>3 DEF Refund, Sound, AdminInv
    <2>2. /\ order' \in [Orders -> OrderState]
          /\ \A p \in Orders : /\ order'[p].st = order[p].st /\ order'[p].kind = order[p].kind
                               /\ order'[p].qty = order[p].qty /\ order'[p].cycle = order[p].cycle
                               /\ order'[p].confirmed = order[p].confirmed
                               /\ order'[p] = order[p] \/ order[p].st = "paid"
      BY <1>3, <2>1 DEF Refund, Sound, TypeOK, OrderState
    <2>3. UNCHANGED <<company, overruled>>
      BY <1>3 DEF Refund
    <2>4. OrderInv'
      BY <1>1, <2>2 DEF Sound, OrderInv
    <2>5. ConfInv' /\ AnsweredIsConfirmed'
      BY <1>1, <2>2 DEF Sound, TypeOK, ConfInv, AnsweredIsConfirmed
    <2>6. AdminInv'
      BY <1>1, <2>3 DEF Sound, TypeOK, AdminInv, AdminIdle
    <2>7. PlanInv'
      BY <1>1, <2>2, <2>3 DEF Sound, PlanInv
    <2>. QED
      BY <1>1, <2>2, <2>3, <2>4, <2>5, <2>6, <2>7 DEF Sound, TypeOK
  <1>4. CASE Write(a)
    <2>. DEFINE act == admin[a].act
                target == IF act = "cancel" THEN now ELSE admin[a].target
    <2>1. /\ act \in {"extend", "force", "cancel"} /\ target \in Dates
          /\ act = "cancel" => company.status = "active"
      BY <1>0, <1>4 DEF Write, Sound, AdminInv, AdminState, Dates
    <2>2. /\ company' = AfterAdmin(act, target) /\ order' = order
          /\ overruled' = IF act = "extend" THEN overruled ELSE overruled \cup PaidOrders
      BY <1>4 DEF Write
    <2>3. /\ company' \in CompanyState
          /\ act = "extend" => company'.status = company.status /\ company'.expires = company.expires
          /\ act # "extend" => company'.status = "active"
          /\ company.status = "active" => company'.status = "active"
      BY <1>0, <2>1, <2>2 DEF AfterAdmin, CompanyState
    <2>4. overruled' \subseteq Orders
      BY <2>2 DEF PaidOrders, Sound, TypeOK
    <2>5. AdminInv'
      BY <1>1, <2>3 DEF Sound, TypeOK, AdminInv, AdminIdle
    <2>6. PlanInv'
      <3>1. CASE act = "extend"
        BY <1>1, <2>2, <2>3, <3>1 DEF Sound, PlanInv
      <3>2. CASE act # "extend"
        BY <1>1, <2>2, <2>3, <3>2 DEF Sound, PlanInv, PaidOrders
      <3>. QED
        BY <3>1, <3>2
    <2>. QED
      BY <1>1, <2>2, <2>3, <2>4, <2>5, <2>6 DEF Sound, TypeOK, OrderInv, ConfInv, AnsweredIsConfirmed
  <1>. QED
    BY <1>2, <1>3, <1>4 DEF AdminStep

LEMMA SoundStep == Sound /\ [Next]_vars => Sound'
  <1>. SUFFICES ASSUME Sound, [Next]_vars
                PROVE  Sound'
    OBVIOUS
  <1>1. CASE UNCHANGED vars \/ Tick
    BY <1>1 DEF vars, Tick, Sound, TypeOK, OrderInv, ConfInv, AnsweredIsConfirmed, AdminInv, PlanInv
  <1>2. ASSUME NEW o \in Orders,
               \/ \E kind \in {Base, OverageKind}, qty \in Quantities, cycle \in Cycles :
                     CreateOrder(o, kind, qty, cycle)
               \/ Capture(o)
               \/ \E c \in Confirmers : StartVerify(c, o) \/ StartWebhook(c, o)
        PROVE  Sound'
    BY <1>2, OrderSound
  <1>3. ASSUME NEW c \in Confirmers, ConfirmStep(c)
        PROVE  Sound'
    BY <1>3, ApplySound, ConfirmSound DEF ConfirmStep
  <1>4. ASSUME NEW a \in Admins,
               \/ ExtendTrial(a) \/ CancelSubscription(a) \/ AdminStep(a)
               \/ \E cycle \in Cycles : ForceActivate(a, cycle)
               \/ \E o \in Orders : RefundOrder(a, o)
        PROVE  Sound'
    BY <1>4, AdminDecides, AdminActsSound
  <1>. QED
    BY <1>1, <1>2, <1>3, <1>4 DEF Next

THEOREM AlwaysSound == Spec => []Sound
  BY SoundInit, SoundStep, PTL DEF Spec

-----------------------------------------------------------------------------

\* The types hold in every reachable state: no order is granted or refunded
\* that was never placed, and a trial never carries a subscription's status.
THEOREM TypeCorrect == Spec => []TypeOK
  BY AlwaysSound, PTL DEF Sound

\* Whatever payments, lapses and administrators' writes come in between, an
\* account is usable during every base cycle it paid for.
THEOREM PaidUsable == Spec => []PaidPlanIsUsable
  <1>1. Sound => PaidPlanIsUsable
    BY Constants DEF Sound, TypeOK, PlanInv, PaidPlanIsUsable, Future, Blocked, EntitlementState
  <1>. QED
    BY <1>1, AlwaysSound, PTL

\* A webhook that was answered 200 left a paid order with its confirmation.
THEOREM AnsweredConfirmed == Spec => []AnsweredIsConfirmed
  BY AlwaysSound, PTL DEF Sound

\* No race of administrators or confirmations rewrites a recorded refund.
THEOREM RefundFinal == Spec => RefundIsFinal
  <1>1. Sound /\ [Next]_vars => [\A o \in Orders :
            order[o].refundedBy # None => order'[o].refundedBy = order[o].refundedBy]_vars
    <2>. SUFFICES ASSUME Sound, Next, NEW o \in Orders, order[o].refundedBy # None
                  PROVE  order'[o].refundedBy = order[o].refundedBy
      BY DEF vars
    <2>0. order[o].st = "paid" /\ order \in [Orders -> OrderState]
      BY DEF Sound, TypeOK, OrderInv
    <2>1. CASE order' = order
      BY <2>1
    <2>2. ASSUME NEW p \in Orders, NEW kind \in {Base, OverageKind}, NEW qty \in Quantities,
                 NEW cycle \in Cycles, CreateOrder(p, kind, qty, cycle)
          PROVE  order'[o] = order[o]
      BY <2>0, <2>2 DEF CreateOrder
    <2>3. ASSUME NEW c \in Confirmers, Apply(c) \/ Stamp(c)
          PROVE  order'[o].refundedBy = order[o].refundedBy
      BY <2>0, <2>3 DEF Apply, Stamp, OrderState
    <2>4. ASSUME NEW a \in Admins, Refund(a)
          PROVE  order'[o].refundedBy = order[o].refundedBy
      BY <2>0, <2>4 DEF Refund, OrderState
    <2>. QED
      BY <2>1, <2>2, <2>3, <2>4 DEF Next, Tick, Capture, StartVerify, StartWebhook, ConfirmStep,
         Answer, ConfirmCrash, ExtendTrial, CancelSubscription, AdminStep, ForceActivate,
         RefundOrder, Decide, Write, AdminCrash
  <1>. QED
    BY <1>1, AlwaysSound, PTL DEF Spec, RefundIsFinal

-----------------------------------------------------------------------------
(* What was bought counts as long as its own cycle lasts.                  *)

\* The end of the bought capacity is no earlier than that of any purchase: when
\* it has passed, no purchase is running that could still count.
CapacityCovers ==
    \A o \in Orders : order[o].st = "paid" /\ order[o].kind = OverageKind =>
        /\ paidUntil[o] \in Nat /\ company.capacityUntil \in Nat
        /\ paidUntil[o] <= company.capacityUntil

SlotsInv ==
    /\ CapacityCovers
    /\ IsFiniteSet(PaidCampaigns) /\ IsFiniteSet(PaidClients)
    /\ PaidSlotsAreHonoured

\* One more order adds at most its slots.
LEMMA OneOrderMore ==
    ASSUME NEW S, IsFiniteSet(S), NEW o, NEW n \in Nat, NEW T, T \subseteq S \cup ({o} \X (1..n))
    PROVE  IsFiniteSet(T) /\ Cardinality(T) <= Cardinality(S) + n
  <1>. DEFINE U == {o} \X (1..n)
  <1>1. IsFiniteSet(1..n) /\ Cardinality(1..n) = n
    BY FS_Interval
  <1>2. IsFiniteSet({o}) /\ Cardinality({o}) = 1
    BY FS_Singleton
  <1>3. IsFiniteSet(U) /\ Cardinality(U) = n
    <2>1. IsFiniteSet(U) /\ Cardinality(U) = Cardinality({o}) * Cardinality(1..n)
      BY <1>1, <1>2, FS_Product, Zenon
    <2>. HIDE DEF U
    <2>. QED
      BY <1>1, <1>2, <2>1
  <1>. HIDE DEF U
  <1>4. /\ IsFiniteSet(S \cup U) /\ IsFiniteSet(S \cap U)
        /\ Cardinality(S \cup U) = Cardinality(S) + Cardinality(U) - Cardinality(S \cap U)
    BY <1>3, FS_Union, FS_Subset
  <1>5. /\ Cardinality(S) \in Nat /\ Cardinality(S \cap U) \in Nat /\ Cardinality(S \cup U) \in Nat
    BY <1>4, FS_CardinalityType
  <1>6. IsFiniteSet(T) /\ Cardinality(T) <= Cardinality(S \cup U) /\ Cardinality(T) \in Nat
    BY <1>4, FS_Subset, FS_CardinalityType DEF U
  <1>. QED
    BY <1>3, <1>4, <1>5, <1>6

\* Slots that lapsed are no longer counted, and it takes a later date than that
\* of every purchase to still count what the account has.
LEMMA SlotsCounted ==
    ASSUME Sound, SlotsInv
    PROVE  /\ ~Future(company.capacityUntil, now) => RunningOverage = {}
           /\ Cardinality(PaidCampaigns) \in Nat /\ Cardinality(PaidClients) \in Nat
           /\ Cardinality(PaidCampaigns) <= ActiveExtra(company, now).campaigns
           /\ Cardinality(PaidClients) <= ActiveExtra(company, now).clients
  <1>1. ~Future(company.capacityUntil, now) => RunningOverage = {}
    BY Constants DEF Sound, TypeOK, SlotsInv, CapacityCovers, RunningOverage, Future
  <1>. QED
    BY <1>1, FS_CardinalityType DEF SlotsInv, PaidSlotsAreHonoured

\* No slots run when the capacity has lapsed; otherwise all it has counts.
LEMMA SlotsSuffice ==
    ASSUME CapacityCovers', now' \in Nat, company' \in CompanyState,
           IsFiniteSet(PaidCampaigns') /\ IsFiniteSet(PaidClients'),
           Future(company'.capacityUntil, now') =>
              /\ Cardinality(PaidCampaigns') <= company'.campaigns
              /\ Cardinality(PaidClients') <= company'.clients
    PROVE  SlotsInv'
  <1>1. CASE Future(company'.capacityUntil, now')
    BY <1>1 DEF SlotsInv, PaidSlotsAreHonoured, ActiveExtra
  <1>2. CASE ~Future(company'.capacityUntil, now')
    <2>1. RunningOverage' = {}
      BY <1>2, Constants DEF CapacityCovers, RunningOverage, Future
    <2>2. PaidCampaigns' = {} /\ PaidClients' = {}
      BY <2>1 DEF PaidCampaigns, PaidClients
    <2>3. ActiveExtra(company', now') = [campaigns |-> 0, clients |-> 0]
      BY <1>2 DEF ActiveExtra
    <2>. QED
      BY <2>2, <2>3, FS_EmptySet DEF SlotsInv, PaidSlotsAreHonoured
  <1>. QED
    BY <1>1, <1>2

\* What changes neither the paid orders nor what was bought keeps the slots,
\* and so does the clock.
LEMMA SlotsQuiet ==
    ASSUME Sound, SlotsInv, Sound', now' >= now, paidUntil' = paidUntil,
           company'.campaigns = company.campaigns, company'.clients = company.clients,
           company'.capacityUntil = company.capacityUntil,
           \A o \in Orders : order'[o].st = "paid" =>
               order[o].st = "paid" /\ order'[o].kind = order[o].kind /\ order'[o].qty = order[o].qty
    PROVE  SlotsInv'
  <1>0. /\ now \in Nat /\ now' \in Nat /\ company' \in CompanyState
        /\ paidUntil \in [Orders -> Dates] /\ company \in CompanyState
    BY DEF Sound, TypeOK
  <1>1. CapacityCovers'
    BY DEF SlotsInv, CapacityCovers
  <1>2. \A o \in RunningOverage' : /\ o \in RunningOverage
                                   /\ order'[o].kind = order[o].kind /\ order'[o].qty = order[o].qty
    BY <1>0, Constants DEF RunningOverage, Future, Dates
  <1>3. PaidCampaigns' \subseteq PaidCampaigns /\ PaidClients' \subseteq PaidClients
    BY <1>2 DEF PaidCampaigns, PaidClients, CampaignSlots, ClientSlots
  <1>4. /\ IsFiniteSet(PaidCampaigns') /\ Cardinality(PaidCampaigns') <= Cardinality(PaidCampaigns)
        /\ IsFiniteSet(PaidClients') /\ Cardinality(PaidClients') <= Cardinality(PaidClients)
    BY <1>3, FS_Subset DEF SlotsInv
  <1>5. Cardinality(PaidCampaigns') \in Nat /\ Cardinality(PaidClients') \in Nat
    BY <1>4, FS_CardinalityType
  <1>6. ASSUME Future(company'.capacityUntil, now')
        PROVE  ActiveExtra(company, now) = [campaigns |-> company.campaigns, clients |-> company.clients]
    BY <1>0, <1>6, Constants DEF ActiveExtra, Future, CompanyState, Dates
  <1>7. company.campaigns \in Nat /\ company.clients \in Nat
    BY <1>0 DEF CompanyState
  <1>8. ASSUME Future(company'.capacityUntil, now')
        PROVE  /\ Cardinality(PaidCampaigns') <= company'.campaigns
               /\ Cardinality(PaidClients') <= company'.clients
    BY <1>4, <1>5, <1>6, <1>7, <1>8, SlotsCounted
  <1>. QED
    BY <1>0, <1>1, <1>4, <1>8, SlotsSuffice

\* The statement that applies an order keeps every slot that is running, and
\* adds those of the order: they outlast nothing, or what they are added to.
LEMMA SlotsGranted ==
    ASSUME Sound, SlotsInv, NEW c \in Confirmers, Apply(c), order[conf[c].order].st = "created"
    PROVE  SlotsInv'
  <1>. DEFINE extra == ActiveExtra(company, now)
  <1>a. PICK o : o = conf[c].order
    OBVIOUS
  <1>b. PICK until : until = conf[c].until
    OBVIOUS
  <1>0. /\ o \in Orders /\ until \in Nat /\ order[o] \in OrderState /\ now \in Nat
        /\ order \in [Orders -> OrderState]
        /\ company \in CompanyState /\ company' \in CompanyState /\ now' = now
        /\ order[o].qty > 0 /\ order[o].kind \in {Base, OverageKind} /\ Base # OverageKind
        /\ paidUntil \in [Orders -> Dates]
    BY <1>a, <1>b, ApplySound, OverageKindAssumption
    DEF Apply, Sound, TypeOK, ConfInv, OrderInv, NoOrder, Base
  <1>1. /\ order' = [order EXCEPT ![o].st = "paid", ![o].confirmed = @ \/ ~(conf[c].via = "verify")]
        /\ company' = AfterPayment(o, until)
        /\ paidUntil' = [paidUntil EXCEPT ![o] = until]
    BY <1>a, <1>b DEF Apply
  <1>2. /\ order'[o].st = "paid"
        /\ order'[o].kind = order[o].kind /\ order'[o].qty = order[o].qty
        /\ paidUntil'[o] = until
        /\ \A p \in Orders \ {o} : order'[p] = order[p] /\ paidUntil'[p] = paidUntil[p]
    BY <1>0, <1>1 DEF OrderState
  <1>3. /\ CampaignSlots(o) \in Nat /\ ClientSlots(o) \in Nat
        /\ order[o].kind = Base => CampaignSlots(o) = 0 /\ ClientSlots(o) = 0
    BY <1>0, OverageKindAssumption DEF CampaignSlots, ClientSlots, OrderState, Base
  <1>4. /\ extra.campaigns \in Nat /\ extra.clients \in Nat
        /\ Future(company.capacityUntil, now) =>
             extra.campaigns = company.campaigns /\ extra.clients = company.clients
    BY <1>0 DEF ActiveExtra, CompanyState
  <1>5. \A p \in RunningOverage' : \/ p \in RunningOverage /\ p # o
                                   \/ p = o /\ order[o].kind = OverageKind
    BY <1>0, <1>2 DEF RunningOverage
  <1>6. \A p \in Orders \ {o} : CampaignSlots(p)' = CampaignSlots(p) /\ ClientSlots(p)' = ClientSlots(p)
    BY <1>2 DEF CampaignSlots, ClientSlots
  <1>7. CampaignSlots(o)' = CampaignSlots(o) /\ ClientSlots(o)' = ClientSlots(o)
    BY <1>2 DEF CampaignSlots, ClientSlots
  <1>8. RunningOverage \subseteq Orders
    BY DEF RunningOverage
  <1>9. /\ PaidCampaigns' \subseteq PaidCampaigns \cup ({o} \X (1..CampaignSlots(o)))
        /\ PaidClients' \subseteq PaidClients \cup ({o} \X (1..ClientSlots(o)))
    BY <1>5, <1>6, <1>7, <1>8 DEF PaidCampaigns, PaidClients
  <1>. HIDE DEF extra
  <1>10. /\ IsFiniteSet(PaidCampaigns')
         /\ Cardinality(PaidCampaigns') <= Cardinality(PaidCampaigns) + CampaignSlots(o)
         /\ IsFiniteSet(PaidClients')
         /\ Cardinality(PaidClients') <= Cardinality(PaidClients) + ClientSlots(o)
    BY <1>3, <1>9, OneOrderMore DEF SlotsInv
  <1>11. /\ Cardinality(PaidCampaigns) \in Nat /\ Cardinality(PaidClients) \in Nat
         /\ Cardinality(PaidCampaigns) <= extra.campaigns
         /\ Cardinality(PaidClients) <= extra.clients
         /\ Cardinality(PaidCampaigns') \in Nat /\ Cardinality(PaidClients') \in Nat
    BY <1>10, SlotsCounted, FS_CardinalityType DEF extra
  <1>12. CASE order[o].kind = Base
    <2>1. /\ company'.campaigns = company.campaigns /\ company'.clients = company.clients
          /\ company'.capacityUntil = company.capacityUntil
      BY <1>0, <1>1, <1>12 DEF AfterPayment, AfterBasePayment, CompanyState
    <2>2. CapacityCovers'
      BY <1>0, <1>2, <1>12, <2>1 DEF SlotsInv, CapacityCovers
    <2>3. Future(company'.capacityUntil, now') =>
             /\ Cardinality(PaidCampaigns') <= company'.campaigns
             /\ Cardinality(PaidClients') <= company'.clients
      BY <1>0, <1>3, <1>4, <1>10, <1>11, <1>12, <2>1
    <2>. QED
      BY <1>0, <1>10, <2>2, <2>3, SlotsSuffice
  <1>13. CASE order[o].kind # Base
    <2>1. /\ company'.campaigns = extra.campaigns + CampaignSlots(o)
          /\ company'.clients = extra.clients + ClientSlots(o)
          /\ company'.capacityUntil = Extend(company.capacityUntil, until)
      BY <1>0, <1>1, <1>13 DEF AfterPayment, AfterOveragePayment, CompanyState, extra
    <2>2. /\ company'.capacityUntil \in Nat /\ company'.capacityUntil >= until
          /\ company.capacityUntil \in Nat => company'.capacityUntil >= company.capacityUntil
      BY <1>0, <2>1, Constants DEF Extend, Future, CompanyState, Dates
    <2>3. CapacityCovers'
      <3>1. ASSUME NEW p \in Orders, order'[p].st = "paid", order'[p].kind = OverageKind
            PROVE  paidUntil'[p] \in Nat /\ paidUntil'[p] <= company'.capacityUntil
        <4>1. CASE p = o
          BY <1>0, <1>2, <2>2, <4>1
        <4>2. CASE p # o
          <5>1. /\ paidUntil[p] \in Nat /\ company.capacityUntil \in Nat
                /\ paidUntil[p] <= company.capacityUntil
            BY <1>2, <3>1, <4>2 DEF SlotsInv, CapacityCovers
          <5>. QED
            BY <1>2, <2>2, <4>2, <5>1
        <4>. QED
          BY <4>1, <4>2
      <3>. QED
        BY <2>2, <3>1 DEF CapacityCovers
    <2>4. /\ Cardinality(PaidCampaigns') <= company'.campaigns
          /\ Cardinality(PaidClients') <= company'.clients
      BY <1>3, <1>4, <1>10, <1>11, <2>1
    <2>. QED
      BY <1>0, <1>10, <2>3, <2>4, SlotsSuffice
  <1>. QED
    BY <1>12, <1>13

LEMMA SlotsStep ==
    ASSUME Sound, SlotsInv, [Next]_vars
    PROVE  SlotsInv'
  <1>0. Sound' /\ order \in [Orders -> OrderState] /\ company \in CompanyState /\ now \in Nat
    BY SoundStep DEF Sound, TypeOK
  <1>1. CASE UNCHANGED <<order, company, paidUntil>> /\ now' \in {now, now + 1}
    BY <1>0, <1>1, SlotsQuiet
  <1>2. ASSUME NEW o \in Orders, NEW kind \in {Base, OverageKind}, NEW qty \in Quantities,
               NEW cycle \in Cycles, CreateOrder(o, kind, qty, cycle)
        PROVE  SlotsInv'
    <2>1. \A p \in Orders : order'[p].st = "paid" => order'[p] = order[p]
      BY <1>0, <1>2 DEF CreateOrder, NoOrder
    <2>. QED
      BY <1>0, <1>2, <2>1, SlotsQuiet DEF CreateOrder
  <1>3. ASSUME NEW c \in Confirmers, Apply(c) PROVE SlotsInv'
    <2>1. CASE order[conf[c].order].st = "created"
      BY <1>3, <2>1, SlotsGranted
    <2>2. CASE order[conf[c].order].st # "created"
      BY <1>1, <1>3, <2>2 DEF Apply
    <2>. QED
      BY <2>1, <2>2
  <1>4. ASSUME NEW c \in Confirmers, Stamp(c) PROVE SlotsInv'
    <2>1. \A p \in Orders : /\ order'[p].st = order[p].st /\ order'[p].kind = order[p].kind
                            /\ order'[p].qty = order[p].qty
      BY <1>0, <1>4 DEF Stamp, OrderState
    <2>. QED
      BY <1>0, <1>4, <2>1, SlotsQuiet DEF Stamp
  <1>5. ASSUME NEW a \in Admins, Write(a) PROVE SlotsInv'
    <2>1. /\ company'.campaigns = company.campaigns /\ company'.clients = company.clients
          /\ company'.capacityUntil = company.capacityUntil
      BY <1>0, <1>5 DEF Write, AfterAdmin, CompanyState
    <2>. QED
      BY <1>0, <1>5, <2>1, SlotsQuiet DEF Write
  <1>6. ASSUME NEW a \in Admins, Refund(a) PROVE SlotsInv'
    <2>1. \A p \in Orders : /\ order'[p].st = order[p].st /\ order'[p].kind = order[p].kind
                            /\ order'[p].qty = order[p].qty
      BY <1>0, <1>6 DEF Refund, OrderState
    <2>. QED
      BY <1>0, <1>6, <2>1, SlotsQuiet DEF Refund
  <1>. QED
    BY <1>1, <1>2, <1>3, <1>4, <1>5, <1>6
    DEF Next, vars, Tick, Capture, StartVerify, StartWebhook, ConfirmStep, Answer, ConfirmCrash,
        ExtendTrial, CancelSubscription, AdminStep, ForceActivate, RefundOrder, Decide, AdminCrash

\* However many purchases overlap, in whatever order they are confirmed and
\* lapse, every slot of a running cycle counts towards the limit.
THEOREM SlotsHonoured == Spec => []PaidSlotsAreHonoured
  <1>1. Init => SlotsInv
    <2>. SUFFICES ASSUME Init PROVE SlotsInv
      OBVIOUS
    <2>1. RunningOverage = {} /\ CapacityCovers
      BY DEF Init, NoOrder, RunningOverage, CapacityCovers
    <2>2. PaidCampaigns = {} /\ PaidClients = {}
      BY <2>1 DEF PaidCampaigns, PaidClients
    <2>3. company.campaigns = 0 /\ company.clients = 0
      BY DEF Init
    <2>4. ActiveExtra(company, now).campaigns = 0 /\ ActiveExtra(company, now).clients = 0
      BY <2>3 DEF ActiveExtra
    <2>. QED
      BY <2>1, <2>2, <2>4, FS_EmptySet DEF SlotsInv, PaidSlotsAreHonoured
  <1>2. Sound /\ SlotsInv /\ [Next]_vars => SlotsInv'
    BY SlotsStep
  <1>3. SlotsInv => PaidSlotsAreHonoured
    BY DEF SlotsInv
  <1>. QED
    BY <1>1, <1>2, <1>3, AlwaysSound, PTL DEF Spec

-----------------------------------------------------------------------------
(* Billing implements PaymentLedger.                                       *)

Worth == [o \in Orders |-> CampaignSlots(o)]

\* A step that leaves the ledger's state alone but perhaps the plan's end.
LEMMA QuietStep ==
    ASSUME order' = order \/ (\A o \in Orders : /\ order'[o].kind = order[o].kind
                                             /\ order'[o].qty = order[o].qty
                                             /\ order'[o].st = order[o].st),
           captured' = captured,
           company'.campaigns = company.campaigns,
           company'.capacityUntil = company.capacityUntil
    PROVE  Ledger!Override
  <1>1. Worth' = Worth /\ PaidOrders' = PaidOrders
    BY DEF Worth, CampaignSlots, PaidOrders
  <1>. QED
    BY <1>1 DEF Ledger!Override, Worth, Dated

LEMMA GrantStep ==
    ASSUME Sound, NEW c \in Confirmers, Apply(c)
    PROVE  [Ledger!Next]_(Ledger!ledgerVars)
  <1>. DEFINE o == conf[c].order
              until == conf[c].until
  <1>0. /\ o \in Orders /\ o \in captured /\ until \in Nat /\ order[o] \in OrderState
        /\ company \in CompanyState /\ company' \in CompanyState
        /\ company.status = "trialing" => company.expires = None
        /\ order[o].st # "none" /\ order[o].qty > 0 /\ order[o].kind \in {Base, OverageKind}
    BY ApplySound DEF Apply, Sound, TypeOK, ConfInv, OrderInv, PlanInv, NoOrder
  <1>1. CASE order[o].st # "created"
    <2>1. order' = order /\ company' = company /\ captured' = captured
      BY <1>1 DEF Apply
    <2>. QED
      BY <2>1, QuietStep DEF Ledger!Next
  <1>2. CASE order[o].st = "created"
    <2>1. /\ order' = [order EXCEPT ![o].st = "paid", ![o].confirmed = @ \/ ~(conf[c].via = "verify")]
          /\ company' = AfterPayment(o, until)
          /\ captured' = captured
      BY <1>2 DEF Apply
    <2>2. /\ order'[o].st = "paid"
          /\ order'[o].kind = order[o].kind /\ order'[o].qty = order[o].qty
          /\ \A p \in Orders \ {o} : order'[p] = order[p]
      BY <1>0, <2>1 DEF Sound, TypeOK, OrderState
    <2>3. Worth' = Worth
      BY <2>2 DEF Worth, CampaignSlots
    <2>4. PaidOrders' = PaidOrders \cup {o} /\ o \notin PaidOrders
      BY <1>0, <1>2, <2>2 DEF PaidOrders
    <2>5. Dated(company.expires) \in Nat /\ Dated(company'.expires) \in Nat
          /\ Dated(company.capacityUntil) \in Nat /\ Dated(company'.capacityUntil) \in Nat
      BY <1>0 DEF Dated, CompanyState, Dates
    <2>6. CASE order[o].kind = Base
      <3>1. /\ company'.expires \in Nat
            /\ company.expires \in Nat => company'.expires >= company.expires
            /\ company'.campaigns = company.campaigns
            /\ company'.capacityUntil = company.capacityUntil
        BY <1>0, <1>2, <2>1, <2>6, PaymentExtends
      <3>2. Dated(company'.expires) >= Dated(company.expires)
        BY <1>0, <2>5, <3>1, Constants DEF Dated, CompanyState, Dates
      <3>3. Worth[o] = 0
        BY <1>0, <2>6 DEF Worth, CampaignSlots, Base
      <3>4. Dated(company'.capacityUntil) >= Dated(company.capacityUntil)
        BY <2>5, <3>1
      <3>5. Ledger!Grant(o)
        BY <1>0, <2>1, <2>3, <2>4, <3>1, <3>2, <3>3, <3>4 DEF Ledger!Grant, Worth
      <3>. QED
        BY <1>0, <3>5 DEF Ledger!Next
    <2>7. CASE order[o].kind # Base
      <3>1. /\ company'.expires = company.expires
            /\ company'.capacityUntil \in Nat
            /\ company.capacityUntil \in Nat => company'.capacityUntil >= company.capacityUntil
            /\ company'.campaigns \in {company.campaigns + CampaignSlots(o), CampaignSlots(o)}
        BY <1>0, <1>2, <2>1, <2>7, PaymentExtends
      <3>2. Dated(company'.capacityUntil) >= Dated(company.capacityUntil)
        BY <1>0, <2>5, <3>1, Constants DEF Dated, CompanyState, Dates
      <3>3. Worth[o] = CampaignSlots(o) /\ Worth[o] # 0
        BY <1>0, <2>7 DEF Worth, CampaignSlots, OrderState
      <3>4. Dated(company'.expires) >= Dated(company.expires)
        BY <2>5, <3>1
      <3>5. Ledger!Grant(o)
        BY <1>0, <2>1, <2>3, <2>4, <3>1, <3>2, <3>3, <3>4 DEF Ledger!Grant, Worth
      <3>. QED
        BY <1>0, <3>5 DEF Ledger!Next
    <2>. QED
      BY <2>6, <2>7
  <1>. QED
    BY <1>1, <1>2

LEMMA LedgerStep == Sound /\ [Next]_vars => [Ledger!Next]_(Ledger!ledgerVars)
  <1>. SUFFICES ASSUME Sound, [Next]_vars
                PROVE  [Ledger!Next]_(Ledger!ledgerVars)
    OBVIOUS
  <1>1. CASE UNCHANGED <<order, captured, company>>
    BY <1>1, QuietStep DEF Ledger!Next
  <1>2. ASSUME NEW o \in Orders, NEW kind \in {Base, OverageKind}, NEW qty \in Quantities,
               NEW cycle \in Cycles, CreateOrder(o, kind, qty, cycle)
        PROVE  Ledger!Next
    <2>1. /\ order[o].st = "none" /\ o \notin captured
          /\ UNCHANGED <<company, captured>>
      BY <1>2 DEF CreateOrder, Sound, OrderInv
    <2>2. /\ order'[o].st = "created"
          /\ \A p \in Orders \ {o} : order'[p] = order[p]
      BY <1>2 DEF CreateOrder, Sound, TypeOK, NoOrder
    <2>3. \A p \in Orders \ {o} : Worth'[p] = Worth[p]
      BY <2>2 DEF Worth, CampaignSlots
    <2>4. PaidOrders' = PaidOrders
      BY <2>1, <2>2 DEF PaidOrders
    <2>5. Ledger!Place(o)
      BY <2>1, <2>3, <2>4 DEF Ledger!Place, Worth, Dated
    <2>. QED
      BY <2>5 DEF Ledger!Next
  <1>3. ASSUME NEW o \in Orders, Capture(o)
        PROVE  Ledger!Next
    <2>1. Worth' = Worth /\ PaidOrders' = PaidOrders
      BY <1>3 DEF Capture, Worth, CampaignSlots, PaidOrders
    <2>2. Ledger!Pay(o)
      BY <1>3, <2>1 DEF Capture, Ledger!Pay, Worth, Dated
    <2>. QED
      BY <2>2 DEF Ledger!Next
  <1>4. ASSUME NEW c \in Confirmers, Stamp(c)
        PROVE  Ledger!Next
    <2>1. /\ UNCHANGED <<company, captured>>
          /\ \A o \in Orders : /\ order'[o].kind = order[o].kind
                               /\ order'[o].qty = order[o].qty
                               /\ order'[o].st = order[o].st
      BY <1>4 DEF Stamp, Sound, TypeOK, OrderState
    <2>. QED
      BY <2>1, QuietStep DEF Ledger!Next
  <1>5. ASSUME NEW a \in Admins, Write(a)
        PROVE  Ledger!Next
    <2>1. /\ UNCHANGED <<order, captured>>
          /\ company'.campaigns = company.campaigns
          /\ company'.capacityUntil = company.capacityUntil
      BY <1>5 DEF Write, AfterAdmin, Sound, TypeOK, CompanyState
    <2>. QED
      BY <2>1, QuietStep DEF Ledger!Next
  <1>6. ASSUME NEW a \in Admins, Refund(a)
        PROVE  Ledger!Next
    <2>1. /\ UNCHANGED <<company, captured>>
          /\ \A o \in Orders : /\ order'[o].kind = order[o].kind
                               /\ order'[o].qty = order[o].qty
                               /\ order'[o].st = order[o].st
      BY <1>6 DEF Refund, Sound, TypeOK, OrderState
    <2>. QED
      BY <2>1, QuietStep DEF Ledger!Next
  <1>. QED
    BY <1>1, <1>2, <1>3, <1>4, <1>5, <1>6, GrantStep
    DEF Next, vars, Tick, StartVerify, StartWebhook, ConfirmStep, Answer, ConfirmCrash,
        ExtendTrial, CancelSubscription, AdminStep, ForceActivate, RefundOrder, Decide, AdminCrash

\* Whatever races, an order is granted once and only for captured money, adds
\* what was bought, and never takes a date back.
THEOREM Refinement == Spec => ImplementsLedger
  <1>1. Init => Ledger!Init
    BY DEF Init, Ledger!Init, CampaignSlots, NoOrder, PaidOrders, Dated, Base
  <1>. QED
    BY <1>1, LedgerStep, AlwaysSound, PTL DEF Spec, ImplementsLedger, Ledger!Spec
=============================================================================
