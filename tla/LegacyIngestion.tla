-------------------------- MODULE LegacyIngestion --------------------------
(***************************************************************************)
(* The per-campaign Meta lead pipeline, kept beside the tenant-level one   *)
(* of LeadIngestion and writing the same rows:                             *)
(*   - a call of a campaign's own webhook URL (Calls) stores one           *)
(*     raw_meta_events row per lead, a redelivery another one, and         *)
(*     publishes each before it answers (ingestWebhook.ts);                *)
(*   - QStash (Tasks) delivers to a worker invocation (Jobs) that runs     *)
(*     processLead.ts, one action per awaited call;                        *)
(*   - the first half of the reconciliation sweep scans every campaign     *)
(*     and republishes rows that were not published (reconcile.ts).        *)
(* Redis keys, crm.leads, the leads at Meta and the entitlements are       *)
(* shared with the other pipeline: `claims`, `leads`, `submitted`, `aged`  *)
(* and `blocked` are changed by it too.                                    *)
(***************************************************************************)
EXTENDS Naturals, Sequences, FiniteSets

CONSTANTS
    Leads,    \* Meta lead ids
    Tenants,  \* companies, each with one campaign that has a webhook of its own
    Routes,   \* Routes[l]: the tenants whose campaign's webhook is told of l
    Raws,     \* raw_meta_events rows that can be written: a bound
    Calls,    \* concurrent webhook invocations
    Tasks,    \* QStash messages that can be live at the same time
    Jobs,     \* concurrent worker invocations
    Retries,  \* QStash retries after the first attempt (5 in the code)
    Faults,   \* which failures the environment may inject
    None      \* "no row", "no message"

VARIABLES
    submitted, aged, blocked, claims, leads,  \* shared, see LeadIngestion
    raw,       \* crm.raw_meta_events
    call,      \* the webhook invocations
    task,      \* the QStash messages
    job,       \* the worker invocations
    scan,      \* the first half of the reconciliation sweep
    reported,  \* observer: leads whose message ended blocked or dead-lettered
    abandoned, \* observer: leads a worker stopped short of, see Abandon
    deadRows   \* leads whose row has status "dead_lettered"

shared == <<submitted, aged, blocked, claims, leads>>
ownVars == <<raw, call, task, job, scan, reported, abandoned, deadRows>>

RawFree == [st |-> "none", tenant |-> None, lead |-> None]
CallIdle == [pc |-> "idle", tenant |-> None, todo |-> {}, cur |-> None]
TaskFree == [st |-> "free", raw |-> None, tries |-> 0]
JobIdle == [pc |-> "idle", task |-> None, raw |-> None, heard |-> FALSE]
ScanIdle == [pc |-> "idle", todo |-> {}, missing |-> {}, list |-> {}, cur |-> None]

RawState == [st : {"none", "received", "enqueued", "enqueue_failed"},
             tenant : Tenants \cup {None}, lead : Leads \cup {None}]
CallState == [pc : {"idle", "save", "publish", "mark", "fail"},
              tenant : Tenants \cup {None}, todo : SUBSET Leads, cur : Raws \cup {None}]
TaskState == [st : {"free", "queued", "running", "exhausted"},
              raw : Raws \cup {None}, tries : 0..Retries]
JobState == [pc : {"idle", "entitlement", "blocked", "claim", "exists", "config",
                   "fetch", "insert", "release"},
             task : Tasks \cup {None}, raw : Raws \cup {None}, heard : BOOLEAN]
ScanState == [pc : {"idle", "scan", "republish", "mark", "fail", "over"},
              todo : SUBSET Tenants, missing : SUBSET (Tenants \X Leads),
              list : SUBSET Raws, cur : Raws \cup {None}]

TypeOK ==
    /\ raw \in [Raws -> RawState]
    /\ call \in [Calls -> CallState]
    /\ task \in [Tasks -> TaskState]
    /\ job \in [Jobs -> JobState]
    /\ scan \in ScanState
    /\ reported \subseteq Leads /\ abandoned \subseteq Leads
    /\ deadRows \subseteq Leads

Init ==
    /\ raw = [r \in Raws |-> RawFree]
    /\ call = [c \in Calls |-> CallIdle]
    /\ task = [q \in Tasks |-> TaskFree]
    /\ job = [j \in Jobs |-> JobIdle]
    /\ scan = ScanIdle
    /\ reported = {} /\ abandoned = {} /\ deadRows = {}

-----------------------------------------------------------------------------

Recorded(l) == leads[l] # << >>

\* Broken variant: the insert overwrites the row of whoever was first.
OverwritingInsert(t, l) == [leads EXCEPT ![l] = <<t>>]

\* insertLead and insertRecoveredLead: the unique index over all tenants turns
\* a second row into a "duplicate".
RowsAfter(t, l) == IF Recorded(l) THEN leads ELSE [leads EXCEPT ![l] = <<t>>]

SetRaw(r, st) == raw' = [raw EXCEPT ![r].st = st]

\* publishLeadReceived; the slot of a finished message is used again.
Publish(r) ==
    \E q \in Tasks :
        /\ task[q].st = "free"
        /\ task' = [task EXCEPT ![q] = [st |-> "queued", raw |-> r, tries |-> 0]]

\* Broken variant: one retry too many.
FailedTryOffByOne(q) ==
    IF task[q].tries <= Retries
    THEN [task EXCEPT ![q].st = "queued", ![q].tries = @ + 1]
    ELSE [task EXCEPT ![q].st = "exhausted"]

FailedTry(q) ==
    IF task[q].tries < Retries
    THEN [task EXCEPT ![q].st = "queued", ![q].tries = @ + 1]
    ELSE [task EXCEPT ![q].st = "exhausted"]

\* The worker answers: 200 ends the message, anything else is a failed try.
Answer(j, ends) ==
    /\ job' = [job EXCEPT ![j] = JobIdle]
    /\ task' = IF ~job[j].heard THEN task
               ELSE IF ends THEN [task EXCEPT ![job[j].task] = TaskFree]
               ELSE FailedTry(job[j].task)

Goto(j, pc) == job' = [job EXCEPT ![j].pc = pc]
At(j, pc) == job[j].pc = pc
LeadOf(j) == raw[job[j].raw].lead
TenantOf(j) == raw[job[j].raw].tenant

\* A worker that has the claim ends without a row: nobody will release its
\* key, or nobody waits for its answer.
Claiming == {"exists", "config", "fetch", "insert", "release"}
Abandon(j, forGood) ==
    abandoned' = IF forGood /\ job[j].pc \in Claiming THEN abandoned \cup {LeadOf(j)} ELSE abandoned

-----------------------------------------------------------------------------
(* The webhook invocation: ingestWebhookPayload, lead after lead.          *)

FreeRaws == {r \in Raws : raw[r].st = "none"}

\* Any batch of a campaign's leads, told before or not. The bound on rows
\* turns away what could not be stored.
CampaignDelivery(c) ==
    /\ call[c].pc = "idle"
    /\ \E t \in Tenants : \E batch \in SUBSET {l \in submitted : t \in Routes[l]} \ {{}} :
         /\ Cardinality(batch) <= Cardinality(FreeRaws)
         /\ call' = [call EXCEPT ![c] = [CallIdle EXCEPT !.pc = "save", !.tenant = t, !.todo = batch]]
    /\ UNCHANGED <<shared, raw, task, job, scan, reported, abandoned, deadRows>>

\* saveRawEvent: always a new row.
SaveRaw(c, l) ==
    /\ call[c].pc = "save"
    /\ l \in call[c].todo
    /\ \E r \in FreeRaws :
         /\ raw' = [raw EXCEPT ![r] = [st |-> "received", tenant |-> call[c].tenant, lead |-> l]]
         /\ call' = [call EXCEPT ![c].pc = "publish", ![c].todo = @ \ {l}, ![c].cur = r]
    /\ UNCHANGED <<shared, task, job, scan, reported, abandoned, deadRows>>

PublishRaw(c) ==
    /\ call[c].pc = "publish"
    /\ \/ Publish(call[c].cur) /\ call' = [call EXCEPT ![c].pc = "mark"]
       \/ "queue" \in Faults /\ call' = [call EXCEPT ![c].pc = "fail"] /\ UNCHANGED task
    /\ UNCHANGED <<shared, raw, job, scan, reported, abandoned, deadRows>>

\* markRawEventEnqueued is in the same try block as the publish: when it
\* fails, the row is marked as not published although it was.
MarkRawEnqueued(c) ==
    /\ call[c].pc = "mark"
    /\ \/ /\ SetRaw(call[c].cur, "enqueued")
          /\ call' = [call EXCEPT ![c].pc = "save", ![c].cur = None]
       \/ /\ "db" \in Faults
          /\ SetRaw(call[c].cur, "enqueued") \/ UNCHANGED raw
          /\ call' = [call EXCEPT ![c].pc = "fail"]
    /\ UNCHANGED <<shared, task, job, scan, reported, abandoned, deadRows>>

MarkRawFailed(c) ==
    /\ call[c].pc = "fail"
    /\ SetRaw(call[c].cur, "enqueue_failed")
    /\ call' = [call EXCEPT ![c].pc = "save", ![c].cur = None]
    /\ UNCHANGED <<shared, task, job, scan, reported, abandoned, deadRows>>

\* Everything stored: 200.
CallDone(c) ==
    /\ call[c].pc = "save"
    /\ call[c].todo = {}
    /\ call' = [call EXCEPT ![c] = CallIdle]
    /\ UNCHANGED <<shared, raw, task, job, scan, reported, abandoned, deadRows>>

\* Killed, or a save or a failure mark threw: 500, and Meta may call again.
CallDies(c) ==
    /\ call[c].pc # "idle"
    /\ \/ "crash" \in Faults
       \/ "db" \in Faults /\ call[c].pc \in {"save", "fail"}
    /\ call' = [call EXCEPT ![c] = CallIdle]
    /\ UNCHANGED <<shared, raw, task, job, scan, reported, abandoned, deadRows>>

-----------------------------------------------------------------------------
(* QStash.                                                                 *)

DeliverTask(q, j) ==
    /\ task[q].st = "queued"
    /\ job[j].pc = "idle"
    /\ task' = [task EXCEPT ![q].st = "running"]
    /\ job' = [job EXCEPT ![j] = [pc |-> "entitlement", task |-> q, raw |-> task[q].raw,
                                  heard |-> TRUE]]
    /\ UNCHANGED <<shared, raw, call, scan, reported, abandoned, deadRows>>

TaskAnswerLost(j) ==
    /\ "response" \in Faults
    /\ job[j].heard
    /\ job' = [job EXCEPT ![j].heard = FALSE]
    /\ task' = FailedTry(job[j].task)
    /\ UNCHANGED <<shared, raw, call, scan, reported, abandoned, deadRows>>

JobDies(j) ==
    /\ "crash" \in Faults
    /\ job[j].pc # "idle"
    /\ Answer(j, FALSE)
    /\ Abandon(j, TRUE)
    /\ UNCHANGED <<shared, raw, call, scan, reported, deadRows>>

\* handleDeadLetter: a log row, and markLeadDeadLettered on the lead's row,
\* which is there when another pipeline wrote it since, whosever it is. (Where
\* either throws, QStash repeats the callback: the message stays exhausted
\* until one succeeds, and the same mark made again changes nothing.)
DeadLetterTask(q) ==
    /\ task[q].st = "exhausted"
    /\ LET l == raw[task[q].raw].lead IN
         /\ reported' = reported \cup {l}
         /\ deadRows' = IF Recorded(l) THEN deadRows \cup {l} ELSE deadRows
    /\ task' = [task EXCEPT ![q] = TaskFree]
    /\ UNCHANGED <<shared, raw, call, job, scan, abandoned>>

-----------------------------------------------------------------------------
(* The worker: processLead, one action per awaited call.                   *)

\* A read outside the try blocks throws with the claim still set.
JobReadFails(j) ==
    /\ "db" \in Faults
    /\ job[j].pc \in {"entitlement", "blocked", "exists", "config"}
    /\ Answer(j, FALSE)
    /\ Abandon(j, TRUE)
    /\ UNCHANGED <<shared, raw, call, scan, reported, deadRows>>

AskEntitlement(j) ==
    /\ At(j, "entitlement")
    /\ Goto(j, IF TenantOf(j) \in blocked THEN "blocked" ELSE "claim")
    /\ UNCHANGED <<shared, raw, call, task, scan, reported, abandoned, deadRows>>

\* The log row is the only trace of a blocked lead.
LogBlocked(j) ==
    /\ At(j, "blocked")
    /\ reported' = reported \cup {LeadOf(j)}
    /\ Answer(j, TRUE)
    /\ UNCHANGED <<shared, raw, call, scan, abandoned, deadRows>>

\* tryClaimLeadId, with the key the tenant pipeline uses: SET NX, and on an
\* error the worker goes on as if it had the claim. A taken key ends it, once
\* its log row is written.
ClaimLead(j) ==
    /\ At(j, "claim")
    /\ LET l == LeadOf(j) IN
         \/ /\ l \notin claims
            /\ claims' = claims \cup {l}
            /\ Goto(j, "exists")
            /\ UNCHANGED task
         \/ /\ l \in claims
            /\ Answer(j, TRUE) \/ ("db" \in Faults /\ Answer(j, FALSE))
            /\ UNCHANGED claims
         \/ /\ "redis" \in Faults
            /\ claims' \in {claims, claims \cup {l}}
            /\ Goto(j, "exists")
            /\ UNCHANGED task
    /\ UNCHANGED <<submitted, aged, blocked, leads, raw, call, scan, reported, abandoned, deadRows>>

\* leadExistsByMetaLeadId: an existing lead ends it, with the claim kept.
LookForLead(j) ==
    /\ At(j, "exists")
    /\ \/ Recorded(LeadOf(j)) /\ Answer(j, TRUE)
       \/ ~Recorded(LeadOf(j)) /\ Goto(j, "config") /\ UNCHANGED task
    /\ UNCHANGED <<shared, raw, call, scan, reported, abandoned, deadRows>>

\* getWebhookConfigByCampaignIdInternal: none when the campaign or its
\* webhook was deleted meanwhile.
ReadConfig(j) ==
    /\ At(j, "config")
    /\ \/ Goto(j, "fetch")
       \/ "page" \in Faults /\ Goto(j, "release")
    /\ UNCHANGED <<shared, raw, call, task, scan, reported, abandoned, deadRows>>

\* Broken variant: a failed Graph call leaves the claim where it is.
FetchLeadKeepingClaim(j) ==
    /\ At(j, "fetch")
    /\ \/ Goto(j, "insert") /\ UNCHANGED task
       \/ "graph" \in Faults /\ Answer(j, FALSE)
    /\ UNCHANGED <<shared, raw, call, scan, reported, abandoned, deadRows>>

FetchLead(j) ==
    /\ At(j, "fetch")
    /\ \/ Goto(j, "insert")
       \/ "graph" \in Faults /\ Goto(j, "release")
    /\ UNCHANGED <<shared, raw, call, task, scan, reported, abandoned, deadRows>>

\* resolveLeadFields, getCampaign, insertLead and the log row, all in one try
\* block. A failing INSERT may have been applied, and so was one whose log
\* row failed.
InsertRow(j) ==
    /\ At(j, "insert")
    /\ \/ leads' = RowsAfter(TenantOf(j), LeadOf(j)) /\ Answer(j, TRUE)
       \/ /\ "db" \in Faults
          /\ leads' \in {leads, RowsAfter(TenantOf(j), LeadOf(j))}
          /\ Goto(j, "release")
          /\ UNCHANGED task
    /\ UNCHANGED <<submitted, aged, blocked, claims, raw, call, scan, reported, abandoned, deadRows>>

\* releaseLeadIdClaim, whoever holds the key, and the throw. What the handler
\* then counts on the lead's row changes nothing here.
ReleaseAndThrow(j) ==
    /\ At(j, "release")
    /\ \/ claims' = claims \ {LeadOf(j)} /\ Abandon(j, ~job[j].heard)
       \/ "redis" \in Faults /\ UNCHANGED claims /\ Abandon(j, TRUE)
    /\ Answer(j, FALSE)
    /\ UNCHANGED <<submitted, aged, blocked, leads, raw, call, scan, reported, deadRows>>

JobStep(j) ==
    \/ JobReadFails(j) \/ AskEntitlement(j) \/ LogBlocked(j) \/ ClaimLead(j)
    \/ LookForLead(j) \/ ReadConfig(j) \/ FetchLead(j) \/ InsertRow(j)
    \/ ReleaseAndThrow(j)

-----------------------------------------------------------------------------
(* The first half of the sweep.                                            *)

\* listActiveWebhookConfigs; a webhook that was never verified is left out.
ScanStart ==
    /\ scan.pc = "idle"
    /\ \E active \in IF "page" \in Faults THEN SUBSET Tenants ELSE {Tenants} :
         scan' = [ScanIdle EXCEPT !.pc = "scan", !.todo = active]
    /\ UNCHANGED <<shared, raw, call, task, job, reported, abandoned, deadRows>>

\* What Meta lists for the campaign's forms since the lookback, less what the
\* campaign's rows know: a snapshot.
ScanCampaign(t) ==
    /\ scan.pc = "scan"
    /\ scan.missing = {}
    /\ t \in scan.todo
    /\ scan' = [scan EXCEPT !.todo = @ \ {t},
                            !.missing = {t} \X {l \in submitted \ aged :
                                /\ t \in Routes[l]
                                /\ \A i \in DOMAIN leads[l] : leads[l][i] # t}]
    /\ UNCHANGED <<shared, raw, call, task, job, reported, abandoned, deadRows>>

\* insertRecoveredLead: no entitlement check and no claim.
RecoverLead(t, l) ==
    /\ <<t, l>> \in scan.missing
    /\ leads' = RowsAfter(t, l)
    /\ scan' = [scan EXCEPT !.missing = @ \ {<<t, l>>}]
    /\ UNCHANGED <<submitted, aged, blocked, claims, raw, call, task, job, reported, abandoned, deadRows>>

\* An error abandons the rest of the form.
ScanFormFails ==
    /\ Faults \cap {"graph", "db"} # {}
    /\ scan.missing # {}
    /\ scan' = [scan EXCEPT !.missing = {}]
    /\ UNCHANGED <<shared, raw, call, task, job, reported, abandoned, deadRows>>

\* getUnenqueuedRawEvents; its age cutoff for "received" is left open.
UnenqueuedRaws == {r \in Raws : raw[r].st \in {"received", "enqueue_failed"}}

ListUnenqueued ==
    /\ scan.pc = "scan"
    /\ scan.todo = {} /\ scan.missing = {}
    /\ scan' = [scan EXCEPT !.pc = "republish", !.list = UnenqueuedRaws]
    /\ UNCHANGED <<shared, raw, call, task, job, reported, abandoned, deadRows>>

RepublishRaw(r) ==
    /\ scan.pc = "republish"
    /\ r \in scan.list
    /\ \/ Publish(r) /\ scan' = [scan EXCEPT !.pc = "mark", !.cur = r]
       \/ "queue" \in Faults /\ scan' = [scan EXCEPT !.pc = "fail", !.cur = r] /\ UNCHANGED task
    /\ UNCHANGED <<shared, raw, call, job, reported, abandoned, deadRows>>

MarkRepublished ==
    /\ scan.pc = "mark"
    /\ \/ /\ SetRaw(scan.cur, "enqueued")
          /\ scan' = [scan EXCEPT !.pc = "republish", !.list = @ \ {scan.cur}, !.cur = None]
       \/ /\ "db" \in Faults
          /\ SetRaw(scan.cur, "enqueued") \/ UNCHANGED raw
          /\ scan' = [scan EXCEPT !.pc = "fail"]
    /\ UNCHANGED <<shared, call, task, job, reported, abandoned, deadRows>>

MarkRepublishFailed ==
    /\ scan.pc = "fail"
    /\ SetRaw(scan.cur, "enqueue_failed")
    /\ scan' = [scan EXCEPT !.pc = "republish", !.list = @ \ {scan.cur}, !.cur = None]
    /\ UNCHANGED <<shared, call, task, job, reported, abandoned, deadRows>>

\* The sweep goes on with the tenant pipeline.
ScanOver ==
    /\ scan.pc = "republish"
    /\ scan.list = {}
    /\ scan' = [ScanIdle EXCEPT !.pc = "over"]
    /\ UNCHANGED <<shared, raw, call, task, job, reported, abandoned, deadRows>>

\* Killed, or a query outside the inner try blocks threw: nothing of the
\* sweep's later halves runs.
ScanDies ==
    /\ Faults \cap {"crash", "db"} # {}
    /\ scan.pc \notin {"idle", "over"}
    /\ scan' = ScanIdle
    /\ UNCHANGED <<shared, raw, call, task, job, reported, abandoned, deadRows>>

-----------------------------------------------------------------------------

CallStep(c) ==
    \/ CampaignDelivery(c) \/ PublishRaw(c) \/ MarkRawEnqueued(c) \/ MarkRawFailed(c)
    \/ CallDone(c) \/ CallDies(c)
    \/ \E l \in Leads : SaveRaw(c, l)

ScanStep ==
    \/ ScanStart \/ ScanFormFails \/ ListUnenqueued \/ MarkRepublished
    \/ MarkRepublishFailed \/ ScanOver \/ ScanDies
    \/ \E t \in Tenants : ScanCampaign(t) \/ \E l \in Leads : RecoverLead(t, l)
    \/ \E r \in Raws : RepublishRaw(r)

Next ==
    \/ \E c \in Calls : CallStep(c)
    \/ \E q \in Tasks : DeadLetterTask(q) \/ \E j \in Jobs : DeliverTask(q, j)
    \/ \E j \in Jobs : TaskAnswerLost(j) \/ JobDies(j) \/ JobStep(j)
    \/ ScanStep
=============================================================================
