---------------------- MODULE LeadIngestionRefinement ----------------------
(***************************************************************************)
(* The pipeline implements LeadBook: every row it writes is for a lead     *)
(* that exists at Meta, goes to one of the lead's owners, is the first of  *)
(* its lead and is never changed afterwards.                               *)
(***************************************************************************)
EXTENDS LeadIngestionProofs

Exists(e) == e.lead \in submitted

(***************************************************************************)
(* Everything in flight stems from a lead Meta has: the batches and queues *)
(* of the webhooks, stored events, messages, workers, and what the sweep   *)
(* has listed.                                                             *)
(***************************************************************************)
HooksTraced ==
    \A h \in Hooks : /\ hook[h].batch \subseteq submitted
                     /\ \A e \in hook[h].todo \cup hook[h].queue : Exists(e)
                     /\ hook[h].pc = "mark" => Exists(hook[h].cur)

QueueTraced ==
    /\ \A m \in Msgs : Live(m) => Exists(msg[m].event)
    /\ \A w \in Workers : worker[w].pc # "idle" => Exists(worker[w].event)

StatusTraced == \A e \in Events : status[e] # "none" => Exists(e)

SweepTraced ==
    /\ \A e \in sweep.list \cup sweep.missing : Exists(e)
    /\ sweep.pc = "mark" => Exists(sweep.cur)

Traced == HooksTraced /\ QueueTraced /\ StatusTraced /\ SweepTraced

LEMMA MarkTraced ==
    ASSUME Typed, Traced, NEW e \in Events, Exists(e), NEW s \in Statuses, Mark(e, s),
           submitted' = submitted
    PROVE  StatusTraced'
  BY Constants DEF Mark, Traced, StatusTraced, Exists, Typed, TypeOK

LEMMA ReturnTraced ==
    ASSUME Typed, Traced, NEW w \in Workers, NEW ends \in BOOLEAN, Return(w, ends),
           submitted' = submitted
    PROVE  QueueTraced'
  <1>. USE DEF Typed, TypeOK, Traced
  <1>1. \A v \in Workers : worker'[v].pc # "idle" =>
            worker[v].pc # "idle" /\ worker'[v].event = worker[v].event
    BY DEF Return, WorkerIdle
  <1>2. \A m \in Msgs : Live(m)' => Live(m) /\ msg'[m].event = msg[m].event
    <2>1. CASE ~worker[w].heard
      BY <2>1 DEF Return, Live
    <2>2. CASE worker[w].heard /\ ends
      BY <2>2 DEF Return, Live, MsgFree, HeardIsRunning
    <2>3. CASE worker[w].heard /\ ~ends
      <3>1. worker[w].msg \in Msgs /\ Live(worker[w].msg) /\ msg' = FailedAttempt(worker[w].msg)
        BY <2>3 DEF Return, Live, HeardIsRunning
      <3>. QED
        BY <3>1, FailedAttemptTyped DEF Live
    <2>. QED
      BY <2>1, <2>2, <2>3
  <1>. QED
    BY <1>1, <1>2 DEF QueueTraced, Exists

LEMMA GotoTraced ==
    ASSUME Typed, Traced, NEW w \in Workers, worker[w].pc # "idle", NEW pc \in WorkerPCs,
           Goto(w, pc), msg' = msg, submitted' = submitted
    PROVE  QueueTraced'
  <1>1. \A v \in Workers : worker'[v].event = worker[v].event
                        /\ (worker'[v].pc # "idle" => worker[v].pc # "idle")
    BY DEF Goto, Typed, TypeOK, WorkerState
  <1>. QED
    BY <1>1 DEF Traced, QueueTraced, Exists, Live

LEMMA PublishTraced ==
    ASSUME Typed, Traced, NEW e \in Events, Exists(e), Publish(e), worker' = worker,
           submitted' = submitted
    PROVE  QueueTraced'
  <1>1. PICK m \in Msgs :
          msg' = [msg EXCEPT ![m] = [st |-> "queued", event |-> e, tries |-> 0]]
    BY DEF Publish
  <1>. QED
    BY <1>1 DEF Typed, TypeOK, Traced, QueueTraced, Exists, Live

LEMMA WorkerTraced ==
    ASSUME Typed, Traced, NEW w \in Workers, WorkerStep(w)
    PROVE  Traced'
  <1>. DEFINE Rest == UNCHANGED <<submitted, hook, sweep>>
  <1>0. SUFFICES QueueTraced' /\ StatusTraced' /\ Rest
    BY DEF Traced, HooksTraced, SweepTraced, Exists
  <1>a. worker[w].pc # "idle"
    BY DEF WorkerStep, WorkerDbFails, CheckEntitlement, MarkBlocked, Claim, CheckExists,
           MarkDuplicate, ResolvePage, MarkProcessing, FetchDetails, InsertLead,
           MarkOutcome, ReleaseClaim, MarkRetrying, At
  <1>b. Event(w) \in Events /\ Exists(Event(w))
    BY <1>a DEF Event, Typed, BusyHasEvent, Traced, QueueTraced
  <1>r. ASSUME NEW ends \in BOOLEAN, Return(w, ends), submitted' = submitted
        PROVE  QueueTraced'
    BY <1>r, ReturnTraced
  <1>g. ASSUME NEW pc \in WorkerPCs, Goto(w, pc), msg' = msg, submitted' = submitted
        PROVE  QueueTraced'
    BY <1>a, <1>g, GotoTraced
  <1>s. ASSUME NEW s \in Statuses, Mark(Event(w), s), submitted' = submitted
        PROVE  StatusTraced'
    BY <1>b, <1>s, MarkTraced
  <1>u. ASSUME status' = status, submitted' = submitted
        PROVE  StatusTraced'
    BY <1>u, Constants DEF Traced, StatusTraced, Exists
  <1>1. CASE WorkerDbFails(w)
    BY <1>1, <1>r, <1>s, <1>u DEF WorkerDbFails, Throw, Statuses
  <1>2. CASE MarkBlocked(w) \/ MarkDuplicate(w)
    BY <1>2, <1>r, <1>s DEF MarkBlocked, MarkDuplicate, Statuses
  <1>3. CASE CheckEntitlement(w) \/ Claim(w) \/ CheckExists(w) \/ ResolvePage(w)
    BY <1>3, <1>g, <1>u DEF CheckEntitlement, Claim, CheckExists, ResolvePage, WorkerPCs
  <1>4. CASE FetchDetails(w) \/ InsertLead(w) \/ ReleaseClaim(w)
    BY <1>4, <1>g, <1>u DEF FetchDetails, InsertLead, ReleaseClaim, WorkerPCs
  <1>5. CASE MarkProcessing(w)
    BY <1>5, <1>g, <1>s DEF MarkProcessing, WorkerPCs, Statuses
  <1>6. CASE MarkOutcome(w)
    BY <1>6, <1>g, <1>r, <1>s, <1>u DEF MarkOutcome, WorkerPCs, Statuses
  <1>7. CASE MarkRetrying(w)
    BY <1>7, <1>r, <1>s, <1>u DEF MarkRetrying, Throw, Statuses
  <1>. QED
    BY <1>1, <1>2, <1>3, <1>4, <1>5, <1>6, <1>7 DEF WorkerStep

LEMMA HookTraced ==
    ASSUME Typed, Traced, NEW h \in Hooks, HookStep(h)
    PROVE  Traced'
  <1>. USE DEF Typed, TypeOK
  <1>. DEFINE HookOK == /\ \A i \in Hooks \ {h} : hook'[i] = hook[i]
                        /\ hook'[h].batch \subseteq submitted
                        /\ \A e \in hook'[h].todo \cup hook'[h].queue : Exists(e)
                        /\ hook'[h].pc = "mark" => Exists(hook'[h].cur)
              Rest == UNCHANGED <<submitted, worker, sweep>>
  <1>0. SUFFICES HookOK /\ QueueTraced' /\ StatusTraced' /\ Rest
    <2>1. HooksTraced'
      BY DEF Traced, HooksTraced, Exists
    <2>. QED
      BY <2>1 DEF Traced, SweepTraced, Exists
  <1>q. ASSUME UNCHANGED <<submitted, msg, worker>>
        PROVE  QueueTraced'
    BY <1>q DEF Traced, QueueTraced, Exists, Live
  <1>u. ASSUME UNCHANGED <<submitted, status>>
        PROVE  StatusTraced'
    BY <1>u, Constants DEF Traced, StatusTraced, Exists
  <1>1. CASE WebhookDelivery(h)
    <2>1. PICK batch \in SUBSET submitted \ {{}} :
            hook' = [hook EXCEPT ![h] =
                      [HookIdle EXCEPT !.pc = "capture", !.batch = batch,
                                       !.todo = {e \in Events : e.lead \in batch}]]
      BY <1>1 DEF WebhookDelivery
    <2>2. HookOK
      BY <2>1 DEF HookIdle, Exists
    <2>. QED
      BY <1>1, <1>q, <1>u, <2>2 DEF WebhookDelivery
  <1>2. CASE Ack(h)
    BY <1>2, <1>q, <1>u DEF Ack, HookState, Traced, HooksTraced
  <1>3. CASE HookMarkEnqueued(h)
    <2>1. hook[h].cur \in Events /\ Exists(hook[h].cur)
      BY <1>3 DEF HookMarkEnqueued, BusyHasEvent, Traced, HooksTraced
    <2>2. hook' = [hook EXCEPT ![h] = [hook[h] EXCEPT !.pc = "enqueue", !.cur = None,
                                                      !.queue = @ \ {hook[h].cur}]]
      BY <1>3 DEF HookMarkEnqueued
    <2>3. HookOK
      BY <2>2 DEF HookState, Traced, HooksTraced
    <2>4. submitted' = submitted
      BY <1>3 DEF HookMarkEnqueued
    <2>5. StatusTraced'
      <3>1. CASE status' = status
        BY <1>u, <2>4, <3>1
      <3>2. CASE Mark(hook[h].cur, "enqueued")
        BY <2>1, <2>4, <3>2, MarkTraced DEF Statuses
      <3>. QED
        BY <1>3, <3>1, <3>2 DEF HookMarkEnqueued
    <2>. QED
      BY <1>3, <1>q, <2>3, <2>5 DEF HookMarkEnqueued
  <1>4. CASE HookDone(h) \/ HookCrash(h)
    BY <1>4, <1>q, <1>u DEF HookDone, HookCrash, HookIdle
  <1>5. ASSUME NEW e \in Events, CaptureEvent(h, e)
        PROVE  HookOK /\ QueueTraced' /\ StatusTraced' /\ Rest
    <2>0. Exists(e)
      BY <1>5 DEF CaptureEvent, Traced, HooksTraced
    <2>1. PICK queue \in SUBSET (hook[h].queue \cup {e}) :
            hook' = [hook EXCEPT ![h] = [hook[h] EXCEPT !.todo = @ \ {e}, !.queue = queue]]
      BY <1>5 DEF CaptureEvent, HookState
    <2>2. HookOK
      BY <1>5, <2>0, <2>1 DEF CaptureEvent, HookState, Traced, HooksTraced
    <2>3. StatusTraced'
      BY <1>5, <2>0, Constants DEF CaptureEvent, Traced, StatusTraced, Exists
    <2>. QED
      BY <1>5, <1>q, <2>2, <2>3 DEF CaptureEvent
  <1>6. ASSUME NEW e \in Events, HookPublish(h, e)
        PROVE  HookOK /\ QueueTraced' /\ StatusTraced' /\ Rest
    <2>1. Exists(e)
      BY <1>6 DEF HookPublish, Traced, HooksTraced
    <2>2. hook' = [hook EXCEPT ![h] = [hook[h] EXCEPT !.pc = "mark", !.cur = e]]
      BY <1>6 DEF HookPublish
    <2>3. HookOK
      BY <2>1, <2>2 DEF HookState, Traced, HooksTraced
    <2>4. QueueTraced'
      BY <1>6, <2>1, PublishTraced DEF HookPublish
    <2>. QED
      BY <1>6, <1>u, <2>3, <2>4 DEF HookPublish
  <1>7. ASSUME NEW e \in Events, HookPublishFails(h, e)
        PROVE  HookOK /\ QueueTraced' /\ StatusTraced' /\ Rest
    BY <1>7, <1>q, <1>u DEF HookPublishFails, HookState, Traced, HooksTraced
  <1>. QED
    BY <1>1, <1>2, <1>3, <1>4, <1>5, <1>6, <1>7 DEF HookStep

LEMMA SweepStepTraced ==
    ASSUME Typed, Traced, SweepStep
    PROVE  Traced'
  <1>. USE DEF Typed, TypeOK
  <1>. DEFINE Rest == UNCHANGED <<submitted, hook, worker>>
              Goal == QueueTraced' /\ StatusTraced' /\ SweepTraced' /\ Rest
  <1>0. SUFFICES Goal
    BY DEF Traced, HooksTraced, Exists
  <1>q. ASSUME UNCHANGED <<submitted, msg, worker>>
        PROVE  QueueTraced'
    BY <1>q DEF Traced, QueueTraced, Exists, Live
  <1>u. ASSUME UNCHANGED <<submitted, status>>
        PROVE  StatusTraced'
    BY <1>u, Constants DEF Traced, StatusTraced, Exists
  <1>1. CASE SweepStart
    BY <1>1, <1>q, <1>u
    DEF SweepStart, SweepIdle, UnenqueuedEvents, Traced, StatusTraced, SweepTraced, Exists
  <1>2. CASE SweepMarkEnqueued
    <2>1. sweep.cur \in Events /\ Exists(sweep.cur) /\ submitted' = submitted
      BY <1>2 DEF SweepMarkEnqueued, BusyHasEvent, Traced, SweepTraced
    <2>2. StatusTraced'
      <3>1. CASE status' = status
        BY <1>u, <2>1, <3>1
      <3>2. CASE Mark(sweep.cur, "enqueued")
        BY <2>1, <3>2, MarkTraced DEF Statuses
      <3>. QED
        BY <1>2, <3>1, <3>2 DEF SweepMarkEnqueued
    <2>3. SweepTraced'
      BY <1>2 DEF SweepMarkEnqueued, SweepState, Traced, SweepTraced, Exists
    <2>. QED
      BY <1>2, <1>q, <2>2, <2>3 DEF SweepMarkEnqueued
  <1>3. CASE SweepListTenants
    <2>1. PICK eligible \in SUBSET Tenants :
            sweep' = [sweep EXCEPT !.pc = "scan", !.todo = eligible]
      BY <1>3 DEF SweepListTenants
    <2>2. SweepTraced'
      BY <1>3, <2>1 DEF SweepListTenants, SweepState, Traced, SweepTraced, Exists
    <2>. QED
      BY <1>3, <1>q, <1>u, <2>2 DEF SweepListTenants
  <1>4. CASE SweepScanFails \/ SweepDone \/ SweepCrash
    <2>1. SweepTraced'
      <3>1. CASE SweepScanFails
        BY <3>1 DEF SweepScanFails, SweepState, Traced, SweepTraced, Exists
      <3>2. CASE SweepDone \/ SweepCrash
        BY <3>2 DEF SweepDone, SweepCrash, SweepIdle, SweepTraced
      <3>. QED
        BY <1>4, <3>1, <3>2
    <2>. QED
      BY <1>4, <1>q, <1>u, <2>1 DEF SweepScanFails, SweepDone, SweepCrash
  <1>5. ASSUME NEW e \in Events, SweepPublish(e)
        PROVE  Goal
    <2>1. Exists(e)
      BY <1>5 DEF SweepPublish, Traced, SweepTraced
    <2>2. QueueTraced'
      BY <1>5, <2>1, PublishTraced DEF SweepPublish
    <2>3. SweepTraced'
      BY <1>5, <2>1 DEF SweepPublish, SweepState, Traced, SweepTraced, Exists
    <2>. QED
      BY <1>5, <1>u, <2>2, <2>3 DEF SweepPublish
  <1>6. ASSUME NEW e \in Events, SweepPublishFails(e) \/ SweepRecover(e)
        PROVE  Goal
    BY <1>6, <1>q, <1>u
    DEF SweepPublishFails, SweepRecover, SweepState, Traced, SweepTraced, Exists
  <1>7. ASSUME NEW t \in Tenants, SweepScanTenant(t)
        PROVE  Goal
    BY <1>7, <1>q, <1>u
    DEF SweepScanTenant, MissingLeads, SweepState, Traced, SweepTraced, Exists
  <1>. QED
    BY <1>1, <1>2, <1>3, <1>4, <1>5, <1>6, <1>7 DEF SweepStep

\* Leads are never taken back, so what stems from one still does.
LEMMA QuietTraced ==
    ASSUME Typed, Traced, submitted \subseteq submitted',
           UNCHANGED <<hook, status, msg, worker, sweep>>
    PROVE  Traced'
  BY Constants
  DEF Typed, TypeOK, Traced, HooksTraced, QueueTraced, StatusTraced, SweepTraced, Exists, Live

LEMMA TracedStep ==
    ASSUME Typed, Traced, [Next]_vars
    PROVE  Traced'
  <1>. USE DEF Typed, TypeOK
  <1>1. ASSUME submitted \subseteq submitted', UNCHANGED <<hook, status, msg, worker, sweep>>
        PROVE  Traced'
    BY <1>1, QuietTraced
  <1>2. ASSUME NEW m \in Msgs, NEW w \in Workers, Deliver(m, w)
        PROVE  Traced'
    <2>1. \A n \in Msgs : msg'[n].event = msg[n].event /\ (Live(n)' => Live(n))
      BY <1>2 DEF Deliver, MsgState, Live
    <2>2. \A v \in Workers \ {w} : worker'[v] = worker[v]
      BY <1>2 DEF Deliver
    <2>3. worker'[w].event = msg[m].event /\ Live(m)
      BY <1>2 DEF Deliver, Live
    <2>4. QueueTraced'
      BY <1>2, <2>1, <2>2, <2>3 DEF Deliver, Traced, QueueTraced, Exists
    <2>. QED
      BY <1>2, <2>4, Constants
      DEF Deliver, Traced, HooksTraced, StatusTraced, SweepTraced, Exists
  <1>3. ASSUME NEW w \in Workers, ResponseLost(w)
        PROVE  Traced'
    <2>1. \A v \in Workers : worker'[v].event = worker[v].event /\ worker'[v].pc = worker[v].pc
      BY <1>3 DEF ResponseLost, WorkerState
    <2>2. \A n \in Msgs : msg'[n].event = msg[n].event /\ (Live(n)' => Live(n))
      BY <1>3, FailedAttemptTyped DEF ResponseLost, HeardIsRunning, Live
    <2>3. QueueTraced'
      BY <1>3, <2>1, <2>2 DEF ResponseLost, Traced, QueueTraced, Exists
    <2>. QED
      BY <1>3, <2>3, Constants
      DEF ResponseLost, Traced, HooksTraced, StatusTraced, SweepTraced, Exists
  <1>4. ASSUME NEW w \in Workers, WorkerCrash(w)
        PROVE  Traced'
    <2>1. QueueTraced'
      BY <1>4, ReturnTraced DEF WorkerCrash, Throw
    <2>. QED
      BY <1>4, <2>1, Constants
      DEF WorkerCrash, Traced, HooksTraced, StatusTraced, SweepTraced, Exists
  <1>5. ASSUME NEW m \in Msgs, DeadLetter(m)
        PROVE  Traced'
    <2>1. msg[m].event \in Events /\ Exists(msg[m].event) /\ submitted' = submitted
      BY <1>5 DEF DeadLetter, BusyHasEvent, Live, Traced, QueueTraced
    <2>2. StatusTraced'
      BY <1>5, <2>1, MarkTraced DEF DeadLetter, Statuses
    <2>3. QueueTraced'
      BY <1>5 DEF DeadLetter, MsgFree, Traced, QueueTraced, Exists, Live
    <2>. QED
      BY <1>5, <2>2, <2>3 DEF DeadLetter, Traced, HooksTraced, SweepTraced, Exists
  <1>6. ASSUME NEW h \in Hooks, HookStep(h) PROVE Traced'
    BY <1>6, HookTraced
  <1>7. ASSUME NEW w \in Workers, WorkerStep(w) PROVE Traced'
    BY <1>7, WorkerTraced
  <1>8. CASE SweepStep
    BY <1>8, SweepStepTraced
  <1>9. CASE UNCHANGED vars
    BY <1>1, <1>9 DEF vars
  <1>10. ASSUME NEW l \in Leads, LeadSubmitted(l) \/ LeadAges(l) \/ ClaimExpires(l)
         PROVE  Traced'
    BY <1>1, <1>10 DEF LeadSubmitted, LeadAges, ClaimExpires
  <1>11. ASSUME NEW t \in Tenants, EntitlementChanges(t) PROVE Traced'
    BY <1>1, <1>11 DEF EntitlementChanges
  <1>. QED
    BY <1>2, <1>3, <1>4, <1>5, <1>6, <1>7, <1>8, <1>9, <1>10, <1>11 DEF Next

LEMMA AlwaysTraced == Spec => []Traced
  <1>1. Init => Traced
    BY DEF Init, Traced, HooksTraced, QueueTraced, StatusTraced, SweepTraced, HookIdle,
           MsgFree, WorkerIdle, SweepIdle, Live
  <1>2. Typed /\ Traced /\ [Next]_vars => Traced'
    BY TracedStep
  <1>. QED
    BY <1>1, <1>2, AlwaysTyped, PTL DEF Spec

-----------------------------------------------------------------------------
(* The refinement.                                                         *)

Holder == [l \in Leads |-> IF Recorded(l) THEN Head(leads[l]) ELSE None]

\* The value of the refinement mapping at a lead without and with a row.
LEMMA HolderOf ==
    ASSUME NEW l \in Leads
    PROVE  /\ leads[l] = << >> => Holder[l] = None
           /\ \A t \in Tenants : leads[l] = <<t>> => Holder[l] = t
  BY DEF Holder, Recorded

\* Only the environment submits leads.
LEMMA Submission ==
    ASSUME [Next]_vars
    PROVE  submitted' = submitted \/ \E l \in Leads : LeadSubmitted(l)
  BY DEF Next, vars, LeadAges, ClaimExpires, EntitlementChanges, DeadLetter, Deliver,
         ResponseLost, WorkerCrash, HookStep, WebhookDelivery, CaptureEvent, Ack,
         HookPublish, HookPublishFails, HookMarkEnqueued, HookDone, HookCrash, WorkerStep,
         WorkerDbFails, CheckEntitlement, MarkBlocked, Claim, CheckExists, MarkDuplicate,
         ResolvePage, MarkProcessing, FetchDetails, InsertLead, MarkOutcome, ReleaseClaim,
         MarkRetrying, SweepStep, SweepStart, SweepPublish, SweepPublishFails,
         SweepMarkEnqueued, SweepListTenants, SweepScanTenant, SweepRecover,
         SweepScanFails, SweepDone, SweepCrash

\* A step maps to a new lead at the source, to one record, or to a stutter.
LEMMA BookStep ==
    ASSUME Typed, SingleRows, Traced, [Next]_vars
    PROVE  [Book!Next]_(Book!bookVars)
  <1>. USE DEF Typed, TypeOK
  <1>1. submitted' = submitted \/ \E l \in Leads : LeadSubmitted(l)
    BY Submission
  <1>2. CASE leads' = leads
    <2>1. Holder' = Holder
      BY <1>2 DEF Holder, Recorded
    <2>2. CASE submitted' = submitted
      BY <2>1, <2>2 DEF Book!bookVars, Holder
    <2>3. ASSUME NEW l \in Leads, LeadSubmitted(l)
          PROVE  Book!Next
      BY <2>1, <2>3 DEF LeadSubmitted, Book!Next, Book!Appear, Holder
    <2>. QED
      BY <1>1, <2>2, <2>3
  <1>3. ASSUME NEW e \in Events, Writing(e), leads' = RowsAfterInsert(e), submitted' = submitted
        PROVE  [Book!Next]_(Book!bookVars)
    <2>0. e.lead \in Leads /\ e.tenant \in Owners[e.lead] /\ e.tenant \in Tenants
      BY DEF Events
    <2>1. CASE Recorded(e.lead)
      <3>1. leads' = leads
        BY <1>3, <2>1 DEF RowsAfterInsert
      <3>2. Holder' = Holder
        BY <3>1 DEF Holder, Recorded
      <3>. QED
        BY <1>3, <3>2 DEF Book!bookVars, Holder
    <2>2. CASE ~Recorded(e.lead)
      <3>1. e.lead \in submitted
        BY <1>3 DEF Writing, At, Event, Traced, QueueTraced, SweepTraced, Exists
      <3>2. /\ leads'[e.lead] = <<e.tenant>>
            /\ \A l \in Leads \ {e.lead} : leads'[l] = leads[l]
        BY <1>3, <2>2, InsertedRow
      <3>3. Holder[e.lead] = None
        BY <2>0, <2>2, HolderOf DEF Recorded
      <3>4. Holder'[e.lead] = e.tenant
        <4>1. Holder'[e.lead] = IF leads'[e.lead] # << >> THEN Head(leads'[e.lead]) ELSE None
          BY <2>0 DEF Holder, Recorded
        <4>2. <<e.tenant>> # << >> /\ Head(<<e.tenant>>) = e.tenant
          OBVIOUS
        <4>. QED
          BY <3>2, <4>1, <4>2
      <3>5. \A l \in Leads \ {e.lead} : Holder'[l] = Holder[l]
        BY <3>2 DEF Holder, Recorded
      <3>6. Holder' = [Holder EXCEPT ![e.lead] = e.tenant]
        BY <2>0, <3>4, <3>5 DEF Holder
      <3>7. Book!Record(e.lead, e.tenant)
        BY <1>3, <2>0, <3>1, <3>3, <3>6 DEF Book!Record, Holder
      <3>. QED
        BY <2>0, <3>7 DEF Book!Next
    <2>. QED
      BY <2>1, <2>2
  <1>. QED
    BY <1>2, <1>3, RowsStep

\* The pipeline implements the promise of LeadBook (its safety part).
THEOREM Refinement == Spec => ImplementsBook
  <1>1. Init => Book!Init
    BY DEF Init, Book!Init, Recorded
  <1>2. Typed /\ SingleRows /\ Traced /\ [Next]_vars => [Book!Next]_(Book!bookVars)
    BY BookStep
  <1>. QED
    BY <1>1, <1>2, AlwaysTyped, AlwaysSingle, AlwaysTraced, PTL
    DEF Spec, ImplementsBook, Book!Spec
=============================================================================
