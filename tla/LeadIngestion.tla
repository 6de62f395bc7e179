--------------------------- MODULE LeadIngestion ---------------------------
(***************************************************************************)
(* The tenant-level Meta lead pipeline, from Meta's webhook call to the    *)
(* crm.leads row:                                                          *)
(*   - webhook invocations (Hooks) capture one meta_lead_events row per    *)
(*     owning tenant, acknowledge Meta, then publish one QStash message    *)
(*     per captured event (metaLeadEventService.ts);                       *)
(*   - QStash (Msgs) delivers a message to a worker invocation, retries a  *)
(*     failed attempt and calls the dead-letter endpoint at the end;       *)
(*   - worker invocations (Workers) run processMetaLeadEvent.ts, one       *)
(*     action per awaited call, guarded by a Redis claim;                  *)
(*   - the reconciliation sweep (reconcile.ts) republishes unconfirmed     *)
(*     events and recovers leads that Meta has and the CRM has not.        *)
(* Postgres statements are atomic, several of them never are: the driver   *)
(* is Neon over HTTP, with no transaction around a handler.                *)
(***************************************************************************)
EXTENDS Naturals, Sequences, FiniteSets

CONSTANTS
    Leads,    \* Meta lead ids (leadgen_id)
    Tenants,  \* companies
    Owners,   \* Owners[l]: the tenants whose subscribed Page the lead is for
    Hooks,    \* concurrent webhook invocations
    Workers,  \* concurrent worker invocations
    Msgs,     \* QStash messages that can be live at the same time
    Retries,  \* QStash retries after the first attempt (5 in the code)
    Faults,   \* which failures the environment may inject
    None      \* "no message", "no event"

FaultKinds == {"crash", "redis", "db", "graph", "page", "response", "queue",
               "entitlement", "age"}

ASSUME OwnersAssumption == Owners \in [Leads -> SUBSET Tenants]
ASSUME RetriesAssumption == Retries \in Nat
ASSUME FaultsAssumption == Faults \subseteq FaultKinds
ASSUME NoneAssumption == None \notin Tenants \cup Msgs

VARIABLES
    submitted,  \* leads that exist on Meta's side
    aged,       \* submitted leads older than the sweep's lookback window
    acked,      \* leads of a webhook call that was answered 200
    hook,       \* the webhook invocations
    status,     \* meta_lead_events.status per (tenant, leadgen_id)
    msg,        \* the QStash messages
    worker,     \* the worker invocations
    claims,     \* Redis keys leadid:<id>
    leads,      \* crm.leads: per meta_lead_id, the owning tenants of its rows
    blocked,    \* tenants whose entitlement has expired
    sweep,      \* the reconciliation sweep
    dropped     \* observer: events whose message ended blocked or dead-lettered

vars == <<submitted, aged, acked, hook, status, msg, worker, claims, leads,
          blocked, sweep, dropped>>

Events == {e \in [tenant : Tenants, lead : Leads] : e.tenant \in Owners[e.lead]}

Statuses == {"none", "received", "enqueued", "processing", "completed",
             "duplicate", "blocked", "retrying", "failed"}

HookIdle == [pc |-> "idle", batch |-> {}, todo |-> {}, queue |-> {}, cur |-> None]
MsgFree == [st |-> "free", event |-> None, tries |-> 0]
WorkerIdle == [pc |-> "idle", msg |-> None, event |-> None, heard |-> FALSE]
SweepIdle == [pc |-> "idle", list |-> {}, cur |-> None, todo |-> {}, missing |-> {}]

HookState == [pc : {"idle", "capture", "enqueue", "mark"}, batch : SUBSET Leads,
              todo : SUBSET Events, queue : SUBSET Events, cur : Events \cup {None}]
MsgState == [st : {"free", "queued", "running", "exhausted"},
             event : Events \cup {None}, tries : 0..Retries]
WorkerPCs == {"idle", "entitlement", "blocked", "claim", "exists", "duplicate",
              "page", "processing", "fetch", "insert", "complete", "lost",
              "release", "retrying"}
WorkerState == [pc : WorkerPCs, msg : Msgs \cup {None},
                event : Events \cup {None}, heard : BOOLEAN]
SweepState == [pc : {"idle", "republish", "mark", "scan"}, list : SUBSET Events,
               cur : Events \cup {None}, todo : SUBSET Tenants,
               missing : SUBSET Events]

\* What the rows, keys, messages and invocations can hold: no message is
\* attempted more than QStash's retry limit allows.
TypeOK ==
    /\ submitted \subseteq Leads
    /\ aged \subseteq Leads
    /\ acked \subseteq Leads
    /\ hook \in [Hooks -> HookState]
    /\ status \in [Events -> Statuses]
    /\ msg \in [Msgs -> MsgState]
    /\ worker \in [Workers -> WorkerState]
    /\ claims \subseteq Leads
    /\ leads \in [Leads -> Seq(Tenants)]
    /\ blocked \subseteq Tenants
    /\ sweep \in SweepState
    /\ dropped \subseteq Events

Init ==
    /\ submitted = {} /\ aged = {} /\ acked = {}
    /\ hook = [h \in Hooks |-> HookIdle]
    /\ status = [e \in Events |-> "none"]
    /\ msg = [m \in Msgs |-> MsgFree]
    /\ worker = [w \in Workers |-> WorkerIdle]
    /\ claims = {}
    /\ leads = [l \in Leads |-> << >>]
    /\ blocked \in IF "entitlement" \in Faults THEN SUBSET Tenants ELSE {{}}
    /\ sweep = SweepIdle
    /\ dropped = {}

-----------------------------------------------------------------------------
(* Operators shared by the actions.                                        *)

Recorded(l) == leads[l] # << >>
Mark(e, s) == status' = [status EXCEPT ![e] = s]

\* Broken variant: an insert without the unique index.
RowsAfterBlindInsert(e) == [leads EXCEPT ![e.lead] = Append(@, e.tenant)]

\* Broken variant: the upsert somebody might write instead.
RowsAfterUpsert(e) == [leads EXCEPT ![e.lead] = <<e.tenant>>]

\* The rows of crm.leads after an INSERT for e: the unique index on
\* meta_lead_id, over all tenants, turns a second row into a "duplicate".
RowsAfterInsert(e) ==
    IF Recorded(e.lead) THEN leads ELSE RowsAfterBlindInsert(e)

Live(m) == msg[m].st # "free"

\* QStash accepts a message for e. A slot is reused once its message ended.
Publish(e) ==
    \E m \in Msgs :
        /\ ~Live(m)
        /\ msg' = [msg EXCEPT ![m] = [st |-> "queued", event |-> e, tries |-> 0]]

\* Broken variant: one retry too many.
FailedAttemptOffByOne(m) ==
    IF msg[m].tries <= Retries
    THEN [msg EXCEPT ![m].st = "queued", ![m].tries = @ + 1]
    ELSE [msg EXCEPT ![m].st = "exhausted"]

\* QStash saw the attempt on message m fail: another one, or the callback.
FailedAttempt(m) ==
    IF msg[m].tries < Retries
    THEN [msg EXCEPT ![m].st = "queued", ![m].tries = @ + 1]
    ELSE [msg EXCEPT ![m].st = "exhausted"]

\* The worker's response: 200 ends the message, anything else is a failed
\* attempt. A response nobody waits for any more changes nothing.
Return(w, ends) ==
    /\ worker' = [worker EXCEPT ![w] = WorkerIdle]
    /\ msg' = IF ~worker[w].heard THEN msg
              ELSE IF ends THEN [msg EXCEPT ![worker[w].msg] = MsgFree]
              ELSE FailedAttempt(worker[w].msg)

Throw(w) == Return(w, FALSE)
Goto(w, pc) == worker' = [worker EXCEPT ![w].pc = pc]

-----------------------------------------------------------------------------
(* The environment: Meta, the clock, billing.                              *)

LeadSubmitted(l) ==
    /\ l \notin submitted
    /\ submitted' = submitted \cup {l}
    /\ UNCHANGED <<aged, acked, hook, status, msg, worker, claims, leads,
                   blocked, sweep, dropped>>

LeadAges(l) ==
    /\ "age" \in Faults
    /\ l \in submitted \ aged
    /\ aged' = aged \cup {l}
    /\ UNCHANGED <<submitted, acked, hook, status, msg, worker, claims, leads,
                   blocked, sweep, dropped>>

EntitlementChanges(t) ==
    /\ "entitlement" \in Faults
    /\ blocked' = IF t \in blocked THEN blocked \ {t} ELSE blocked \cup {t}
    /\ UNCHANGED <<submitted, aged, acked, hook, status, msg, worker, claims,
                   leads, sweep, dropped>>

\* The claim's TTL (15 minutes) runs out, whoever set it.
ClaimExpires(l) ==
    /\ l \in claims
    /\ claims' = claims \ {l}
    /\ UNCHANGED <<submitted, aged, acked, hook, status, msg, worker, leads,
                   blocked, sweep, dropped>>

-----------------------------------------------------------------------------
(* The webhook invocation.                                                 *)

\* Broken variant: a call is taken for Meta's whoever made it.
UnverifiedDelivery(h) ==
    /\ hook[h].pc = "idle"
    /\ \E batch \in SUBSET Leads \ {{}} :
         hook' = [hook EXCEPT ![h] =
                    [HookIdle EXCEPT !.pc = "capture", !.batch = batch,
                                     !.todo = {e \in Events : e.lead \in batch}]]
    /\ UNCHANGED <<submitted, aged, acked, status, msg, worker, claims, leads,
                   blocked, sweep, dropped>>

\* Meta calls /leadgen with any batch of leads: first deliveries, retries and
\* duplicates look alike, and Meta may also never call.
WebhookDelivery(h) ==
    /\ hook[h].pc = "idle"
    /\ \E batch \in SUBSET submitted \ {{}} :
         hook' = [hook EXCEPT ![h] =
                    [HookIdle EXCEPT !.pc = "capture", !.batch = batch,
                                     !.todo = {e \in Events : e.lead \in batch}]]
    /\ UNCHANGED <<submitted, aged, acked, status, msg, worker, claims, leads,
                   blocked, sweep, dropped>>

\* recordMetaLeadEvent, and on a conflict the look at the existing row: only a
\* row still at "received" is queued again.
CaptureEvent(h, e) ==
    /\ hook[h].pc = "capture"
    /\ e \in hook[h].todo
    /\ status' = IF status[e] = "none" THEN [status EXCEPT ![e] = "received"] ELSE status
    /\ hook' = [hook EXCEPT ![h].todo = @ \ {e},
                            ![h].queue = IF status[e] \in {"none", "received"}
                                         THEN @ \cup {e} ELSE @]
    /\ UNCHANGED <<submitted, aged, acked, msg, worker, claims, leads, blocked,
                   sweep, dropped>>

\* Broken variant: acknowledge first, store afterwards.
AckedEarly(h) == TRUE

\* The 200: only after every event of the call is stored.
AllCaptured(h) == hook[h].todo = {}

Ack(h) ==
    /\ hook[h].pc = "capture"
    /\ AllCaptured(h)
    /\ acked' = acked \cup hook[h].batch
    /\ hook' = [hook EXCEPT ![h].pc = "enqueue"]
    /\ UNCHANGED <<submitted, aged, status, msg, worker, claims, leads, blocked,
                   sweep, dropped>>

HookPublish(h, e) ==
    /\ hook[h].pc = "enqueue"
    /\ e \in hook[h].queue
    /\ Publish(e)
    /\ hook' = [hook EXCEPT ![h].pc = "mark", ![h].cur = e]
    /\ UNCHANGED <<submitted, aged, acked, status, worker, claims, leads,
                   blocked, sweep, dropped>>

HookPublishFails(h, e) ==
    /\ "queue" \in Faults
    /\ hook[h].pc = "enqueue"
    /\ e \in hook[h].queue
    /\ hook' = [hook EXCEPT ![h].queue = @ \ {e}]
    /\ UNCHANGED <<submitted, aged, acked, status, msg, worker, claims, leads,
                   blocked, sweep, dropped>>

\* markMetaLeadEventEnqueued: an UPDATE by id, whatever the status is by now.
HookMarkEnqueued(h) ==
    /\ hook[h].pc = "mark"
    /\ \/ Mark(hook[h].cur, "enqueued")
       \/ "db" \in Faults /\ UNCHANGED status
    /\ hook' = [hook EXCEPT ![h].pc = "enqueue", ![h].cur = None,
                            ![h].queue = @ \ {hook[h].cur}]
    /\ UNCHANGED <<submitted, aged, acked, msg, worker, claims, leads, blocked,
                   sweep, dropped>>

HookDone(h) ==
    /\ hook[h].pc = "enqueue"
    /\ hook[h].queue = {}
    /\ hook' = [hook EXCEPT ![h] = HookIdle]
    /\ UNCHANGED <<submitted, aged, acked, status, msg, worker, claims, leads,
                   blocked, sweep, dropped>>

\* A capture that throws answers 500; a killed invocation answers nothing.
HookCrash(h) ==
    /\ hook[h].pc # "idle"
    /\ \/ "crash" \in Faults
       \/ "db" \in Faults /\ hook[h].pc = "capture"
    /\ hook' = [hook EXCEPT ![h] = HookIdle]
    /\ UNCHANGED <<submitted, aged, acked, status, msg, worker, claims, leads,
                   blocked, sweep, dropped>>

-----------------------------------------------------------------------------
(* QStash.                                                                 *)

Deliver(m, w) ==
    /\ msg[m].st = "queued"
    /\ worker[w].pc = "idle"
    /\ msg' = [msg EXCEPT ![m].st = "running"]
    /\ worker' = [worker EXCEPT ![w] = [pc |-> "entitlement", msg |-> m,
                                        event |-> msg[m].event, heard |-> TRUE]]
    /\ UNCHANGED <<submitted, aged, acked, hook, status, claims, leads, blocked,
                   sweep, dropped>>

\* QStash stops waiting (timeout, broken connection) and the worker goes on.
ResponseLost(w) ==
    /\ "response" \in Faults
    /\ worker[w].heard
    /\ worker' = [worker EXCEPT ![w].heard = FALSE]
    /\ msg' = FailedAttempt(worker[w].msg)
    /\ UNCHANGED <<submitted, aged, acked, hook, status, claims, leads, blocked,
                   sweep, dropped>>

WorkerCrash(w) ==
    /\ "crash" \in Faults
    /\ worker[w].pc # "idle"
    /\ Throw(w)
    /\ UNCHANGED <<submitted, aged, acked, hook, status, claims, leads, blocked,
                   sweep, dropped>>

\* handleDeadLetter: markMetaLeadEventFailed on the message's event.
DeadLetter(m) ==
    /\ msg[m].st = "exhausted"
    /\ Mark(msg[m].event, "failed")
    /\ dropped' = dropped \cup {msg[m].event}
    /\ msg' = [msg EXCEPT ![m] = MsgFree]
    /\ UNCHANGED <<submitted, aged, acked, hook, worker, claims, leads, blocked, sweep>>

-----------------------------------------------------------------------------
(* The worker: processMetaLeadEvent, one action per awaited call.          *)

At(w, pc) == worker[w].pc = pc
Event(w) == worker[w].event

\* A database call outside the try block throws straight to the handler: a
\* claim already set stays set. A failing UPDATE may have been applied before
\* its answer was lost, and the log row after "blocked" may fail on its own.
WorkerDbFails(w) ==
    /\ "db" \in Faults
    /\ \/ /\ worker[w].pc \in {"entitlement", "blocked", "exists", "duplicate", "page", "processing"}
          /\ UNCHANGED status
       \/ /\ worker[w].pc \in {"blocked", "duplicate", "processing"}
          /\ Mark(Event(w), worker[w].pc)
    /\ Throw(w)
    /\ UNCHANGED <<submitted, aged, acked, hook, claims, leads, blocked, sweep, dropped>>

CheckEntitlement(w) ==
    /\ At(w, "entitlement")
    /\ Goto(w, IF Event(w).tenant \in blocked THEN "blocked" ELSE "claim")
    /\ UNCHANGED <<submitted, aged, acked, hook, status, msg, claims, leads,
                   blocked, sweep, dropped>>

MarkBlocked(w) ==
    /\ At(w, "blocked")
    /\ Mark(Event(w), "blocked")
    /\ dropped' = IF worker[w].heard THEN dropped \cup {Event(w)} ELSE dropped
    /\ Return(w, TRUE)
    /\ UNCHANGED <<submitted, aged, acked, hook, claims, leads, blocked, sweep>>

\* tryClaimLeadId: SET NX; if Redis answers with an error the worker goes on
\* as if it had the claim, and the key may or may not have been set.
Claim(w) ==
    /\ At(w, "claim")
    /\ LET l == Event(w).lead IN
         \/ /\ l \notin claims
            /\ claims' = claims \cup {l}
            /\ Goto(w, "exists")
         \/ /\ l \in claims
            /\ Goto(w, "duplicate")
            /\ UNCHANGED claims
         \/ /\ "redis" \in Faults
            /\ claims' \in {claims, claims \cup {l}}
            /\ Goto(w, "exists")
    /\ UNCHANGED <<submitted, aged, acked, hook, status, msg, leads, blocked,
                   sweep, dropped>>

\* leadExistsByMetaLeadId. The claim is kept when the lead exists.
CheckExists(w) ==
    /\ At(w, "exists")
    /\ Goto(w, IF Recorded(Event(w).lead) THEN "duplicate" ELSE "page")
    /\ UNCHANGED <<submitted, aged, acked, hook, status, msg, claims, leads,
                   blocked, sweep, dropped>>

MarkDuplicate(w) ==
    /\ At(w, "duplicate")
    /\ Mark(Event(w), "duplicate")
    /\ Return(w, TRUE)
    /\ UNCHANGED <<submitted, aged, acked, hook, claims, leads, blocked, sweep, dropped>>

\* getMetaPageInternalByPageId: no Page when it was disconnected meanwhile.
ResolvePage(w) ==
    /\ At(w, "page")
    /\ \/ Goto(w, "processing")
       \/ "page" \in Faults /\ Goto(w, "release")
    /\ UNCHANGED <<submitted, aged, acked, hook, status, msg, claims, leads,
                   blocked, sweep, dropped>>

MarkProcessing(w) ==
    /\ At(w, "processing")
    /\ Mark(Event(w), "processing")
    /\ Goto(w, "fetch")
    /\ UNCHANGED <<submitted, aged, acked, hook, msg, claims, leads, blocked,
                   sweep, dropped>>

\* Broken variant: a failed Graph call is reported without releasing the claim.
FetchDetailsKeepingClaim(w) ==
    /\ At(w, "fetch")
    /\ \/ Goto(w, "insert")
       \/ "graph" \in Faults /\ Goto(w, "retrying")
    /\ UNCHANGED <<submitted, aged, acked, hook, status, msg, claims, leads,
                   blocked, sweep, dropped>>

FetchDetails(w) ==
    /\ At(w, "fetch")
    /\ \/ Goto(w, "insert")
       \/ "graph" \in Faults /\ Goto(w, "release")
    /\ UNCHANGED <<submitted, aged, acked, hook, status, msg, claims, leads,
                   blocked, sweep, dropped>>

\* resolveLeadFields, the campaign lookup and insertMetaSyncLead. A failing
\* INSERT may have been applied before its answer was lost.
InsertLead(w) ==
    /\ At(w, "insert")
    /\ LET e == Event(w) IN
         \/ /\ leads' = RowsAfterInsert(e)
            /\ Goto(w, IF Recorded(e.lead) THEN "lost" ELSE "complete")
         \/ /\ "db" \in Faults
            /\ leads' \in {leads, RowsAfterInsert(e)}
            /\ Goto(w, "release")
    /\ UNCHANGED <<submitted, aged, acked, hook, status, msg, claims, blocked,
                   sweep, dropped>>

\* Broken variant: the loser of the insert race also says "completed".
MarkOutcomeAlwaysCompleted(w) ==
    /\ worker[w].pc \in {"complete", "lost"}
    /\ Mark(Event(w), "completed")
    /\ Return(w, TRUE)
    /\ UNCHANGED <<submitted, aged, acked, hook, claims, leads, blocked, sweep, dropped>>

\* After the insert: markMetaLeadEventCompleted, or ...Duplicate when another
\* invocation was first, and the log row. All are inside the try block.
MarkOutcome(w) ==
    /\ worker[w].pc \in {"complete", "lost"}
    /\ LET outcome == IF At(w, "complete") THEN "completed" ELSE "duplicate" IN
         \/ /\ Mark(Event(w), outcome)
            /\ Return(w, TRUE)
         \/ /\ "db" \in Faults
            /\ Mark(Event(w), outcome) \/ UNCHANGED status
            /\ Goto(w, "release")
            /\ UNCHANGED msg
    /\ UNCHANGED <<submitted, aged, acked, hook, claims, leads, blocked, sweep, dropped>>

\* releaseLeadIdClaim: DEL of the key, whoever holds it; errors are swallowed.
ReleaseClaim(w) ==
    /\ At(w, "release")
    /\ \/ claims' = claims \ {Event(w).lead}
       \/ "redis" \in Faults /\ UNCHANGED claims
    /\ Goto(w, "retrying")
    /\ UNCHANGED <<submitted, aged, acked, hook, status, msg, leads, blocked,
                   sweep, dropped>>

MarkRetrying(w) ==
    /\ At(w, "retrying")
    /\ \/ Mark(Event(w), "retrying")
       \/ "db" \in Faults /\ UNCHANGED status
    /\ Throw(w)
    /\ UNCHANGED <<submitted, aged, acked, hook, claims, leads, blocked, sweep, dropped>>

WorkerStep(w) ==
    \/ WorkerDbFails(w) \/ CheckEntitlement(w) \/ MarkBlocked(w) \/ Claim(w)
    \/ CheckExists(w) \/ MarkDuplicate(w) \/ ResolvePage(w) \/ MarkProcessing(w)
    \/ FetchDetails(w) \/ InsertLead(w) \/ MarkOutcome(w) \/ ReleaseClaim(w)
    \/ MarkRetrying(w)

-----------------------------------------------------------------------------
(* The reconciliation sweep.                                               *)

\* Broken variant: the sweep looks for failed attempts instead.
RetryingEvents == {e \in Events : status[e] = "retrying"}

\* getUnenqueuedMetaLeadEvents; its age cutoff is left open.
UnenqueuedEvents == {e \in Events : status[e] = "received"}

SweepStart ==
    /\ sweep.pc = "idle"
    /\ sweep' = [SweepIdle EXCEPT !.pc = "republish", !.list = UnenqueuedEvents]
    /\ UNCHANGED <<submitted, aged, acked, hook, status, msg, worker, claims,
                   leads, blocked, dropped>>

SweepPublish(e) ==
    /\ sweep.pc = "republish"
    /\ e \in sweep.list
    /\ Publish(e)
    /\ sweep' = [sweep EXCEPT !.pc = "mark", !.cur = e]
    /\ UNCHANGED <<submitted, aged, acked, hook, status, worker, claims, leads,
                   blocked, dropped>>

SweepPublishFails(e) ==
    /\ "queue" \in Faults
    /\ sweep.pc = "republish"
    /\ e \in sweep.list
    /\ sweep' = [sweep EXCEPT !.list = @ \ {e}]
    /\ UNCHANGED <<submitted, aged, acked, hook, status, msg, worker, claims,
                   leads, blocked, dropped>>

SweepMarkEnqueued ==
    /\ sweep.pc = "mark"
    /\ \/ Mark(sweep.cur, "enqueued")
       \/ "db" \in Faults /\ UNCHANGED status
    /\ sweep' = [sweep EXCEPT !.pc = "republish", !.cur = None,
                              !.list = @ \ {sweep.cur}]
    /\ UNCHANGED <<submitted, aged, acked, hook, msg, worker, claims, leads,
                   blocked, dropped>>

\* listTenantsForMetaLeadReconciliation: connected tenants with a selected
\* Page and synced forms.
SweepListTenants ==
    /\ sweep.pc = "republish"
    /\ sweep.list = {}
    /\ \E eligible \in IF "page" \in Faults THEN SUBSET Tenants ELSE {Tenants} :
         sweep' = [sweep EXCEPT !.pc = "scan", !.todo = eligible]
    /\ UNCHANGED <<submitted, aged, acked, hook, status, msg, worker, claims,
                   leads, blocked, dropped>>

\* Broken variant: a lead whose event was captured is taken for known.
MissingUncapturedLeads(t) ==
    {e \in Events : /\ e.tenant = t
                    /\ e.lead \in submitted \ aged
                    /\ status[e] = "none"
                    /\ ~Recorded(e.lead)}

\* What Meta lists for the tenant's forms since the lookback, less what the
\* tenant's own rows know: a snapshot, used row by row afterwards.
MissingLeads(t) ==
    {e \in Events : /\ e.tenant = t
                    /\ e.lead \in submitted \ aged
                    /\ \A i \in DOMAIN leads[e.lead] : leads[e.lead][i] # t}

SweepScanTenant(t) ==
    /\ sweep.pc = "scan"
    /\ sweep.missing = {}
    /\ t \in sweep.todo
    /\ sweep' = [sweep EXCEPT !.todo = @ \ {t}, !.missing = MissingLeads(t)]
    /\ UNCHANGED <<submitted, aged, acked, hook, status, msg, worker, claims,
                   leads, blocked, dropped>>

\* insertMetaSyncLead for one missing lead. No entitlement check, no claim,
\* and the event's status is not touched.
SweepRecover(e) ==
    /\ e \in sweep.missing
    /\ leads' = RowsAfterInsert(e)
    /\ sweep' = [sweep EXCEPT !.missing = @ \ {e}]
    /\ UNCHANGED <<submitted, aged, acked, hook, status, msg, worker, claims,
                   blocked, dropped>>

\* A Graph or database error abandons the rest of the tenant's scan.
SweepScanFails ==
    /\ Faults \cap {"graph", "db"} # {}
    /\ sweep.missing # {}
    /\ sweep' = [sweep EXCEPT !.missing = {}]
    /\ UNCHANGED <<submitted, aged, acked, hook, status, msg, worker, claims,
                   leads, blocked, dropped>>

SweepDone ==
    /\ sweep.pc = "scan"
    /\ sweep.todo = {} /\ sweep.missing = {}
    /\ sweep' = SweepIdle
    /\ UNCHANGED <<submitted, aged, acked, hook, status, msg, worker, claims,
                   leads, blocked, dropped>>

\* Killed, or a query outside the per-item try blocks threw.
SweepCrash ==
    /\ Faults \cap {"crash", "db"} # {}
    /\ sweep.pc # "idle"
    /\ sweep' = SweepIdle
    /\ UNCHANGED <<submitted, aged, acked, hook, status, msg, worker, claims,
                   leads, blocked, dropped>>

-----------------------------------------------------------------------------

HookStep(h) ==
    \/ WebhookDelivery(h) \/ Ack(h) \/ HookMarkEnqueued(h) \/ HookDone(h) \/ HookCrash(h)
    \/ \E e \in Events : CaptureEvent(h, e) \/ HookPublish(h, e) \/ HookPublishFails(h, e)

SweepStep ==
    \/ SweepStart \/ SweepMarkEnqueued \/ SweepListTenants \/ SweepScanFails
    \/ SweepDone \/ SweepCrash
    \/ \E e \in Events : SweepPublish(e) \/ SweepPublishFails(e) \/ SweepRecover(e)
    \/ \E t \in Tenants : SweepScanTenant(t)

Next ==
    \/ \E l \in Leads : LeadSubmitted(l) \/ LeadAges(l) \/ ClaimExpires(l)
    \/ \E t \in Tenants : EntitlementChanges(t)
    \/ \E h \in Hooks : HookStep(h)
    \/ \E m \in Msgs : DeadLetter(m)
    \/ \E m \in Msgs, w \in Workers : Deliver(m, w)
    \/ \E w \in Workers : ResponseLost(w) \/ WorkerCrash(w) \/ WorkerStep(w)
    \/ SweepStep

Spec == Init /\ [][Next]_vars

(***************************************************************************)
(* Fairness. QStash keeps delivering queued messages and calls the         *)
(* dead-letter endpoint; an invocation that runs keeps running until it    *)
(* ends or crashes; the schedule starts a sweep every 15 minutes, and a    *)
(* sweep does not fail every time: publishing and recovering a given event *)
(* succeed if tried again and again. Nothing is assumed of Meta's calls.   *)
(***************************************************************************)
Fairness ==
    /\ \A m \in Msgs : WF_vars(DeadLetter(m)) /\ WF_vars(\E w \in Workers : Deliver(m, w))
    /\ \A w \in Workers : WF_vars(WorkerStep(w))
    /\ \A h \in Hooks : WF_vars(HookStep(h) /\ hook[h].pc # "idle")
    /\ \A e \in Events : SF_vars(SweepPublish(e)) /\ SF_vars(SweepRecover(e))
    /\ \A t \in Tenants : SF_vars(SweepScanTenant(t))
    /\ SF_vars(SweepListTenants)
    /\ WF_vars(SweepStep)

FairSpec == Spec /\ Fairness

-----------------------------------------------------------------------------
(* Properties.                                                             *)

\* A lead id never gets two rows, whatever races: two workers of two tenants,
\* a worker and the sweep, a retry after an insert whose answer was lost.
OneRowPerLead == \A l \in Leads : Len(leads[l]) <= 1

\* "completed" is only ever said of an event whose tenant has the lead.
CompletedHasLead ==
    \A e \in Events : status[e] = "completed" => leads[e.lead] = <<e.tenant>>

\* A 200 to Meta means every owning tenant has the event stored, so nothing
\* that happens afterwards needs Meta to call again.
AckedIsDurable ==
    \A e \in Events : e.lead \in acked => status[e] # "none"

\* The events of a lead are all finished, unsuccessfully and unnoticed: no
\* message is left for it, none is waiting to be published, none was reported
\* as blocked or dead-lettered, and there is no lead.
EventsOf(l) == {e \in Events : e.lead = l}

Discarded(l) ==
    /\ ~Recorded(l)
    /\ \E e \in EventsOf(l) : status[e] # "none"
    /\ \A e \in EventsOf(l) : status[e] # "received" /\ e \notin dropped
    /\ \A m \in Msgs : Live(m) => msg[m].event.lead # l

\* Graph errors, missing Pages, expiring claims, queue failures and races of
\* any number of messages never discard a lead silently. True as long as a
\* worker is not killed or cut off and neither store fails under it.
NoSilentDiscard == \A l \in Leads : ~Discarded(l)

\* The pipeline implements the promise of LeadBook.
Book == INSTANCE LeadBook WITH
    Unrecorded <- None,
    known <- submitted,
    book <- [l \in Leads |-> IF Recorded(l) THEN Head(leads[l]) ELSE None]

ImplementsBook == Book!Spec
ImplementsFairBook == Book!FairSpec

\* An event does not stay "received" for ever.
ReceivedIsPublished ==
    \A e \in Events : status[e] = "received" ~> status[e] # "received"
=============================================================================
