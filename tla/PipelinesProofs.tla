-------------------------- MODULE PipelinesProofs --------------------------
(***************************************************************************)
(* Proofs about the three pipelines together, for any number of leads,     *)
(* tenants, messages and invocations and under every fault (but the last   *)
(* theorem, which leaves out some of the tenants' pipeline): the proofs of *)
(* LeadIngestion cover the steps of the tenant pipeline, this module those *)
(* of the other two, and what the two Meta pipelines do to each other.     *)
(***************************************************************************)
EXTENDS LeadIngestionRefinement, Pipelines

-----------------------------------------------------------------------------
(* The campaigns' pipeline: whatever it works on is a stored row of a lead  *)
(* Meta has, for a tenant whose campaign it is.                             *)

Stored(r) == r \in Raws /\ raw[r].st # "none"
Routed(t, l) == l \in submitted /\ t \in Routes[l]

RawsRouted == \A r \in Raws : Stored(r) => Routed(raw[r].tenant, raw[r].lead)

CallsRouted ==
    \A c \in Calls : /\ \A l \in call[c].todo : Routed(call[c].tenant, l)
                     /\ call[c].pc \in {"publish", "mark", "fail"} => Stored(call[c].cur)

TasksStored == \A q \in Tasks : task[q].st # "free" => Stored(task[q].raw)

JobsStored == \A j \in Jobs : job[j].pc # "idle" => Stored(job[j].raw)

\* A job QStash listens to is alone with a running message.
JobsHeard ==
    /\ \A j \in Jobs : job[j].heard => /\ job[j].pc # "idle"
                                       /\ job[j].task \in Tasks
                                       /\ task[job[j].task].st = "running"
    /\ \A i, j \in Jobs : job[i].heard /\ job[j].heard /\ i # j => job[i].task # job[j].task

ScanRouted ==
    /\ \A t \in Tenants, l \in Leads : <<t, l>> \in scan.missing => Routed(t, l)
    /\ \A r \in scan.list : Stored(r)
    /\ scan.pc \in {"mark", "fail"} => Stored(scan.cur)

JobsOK == TasksStored /\ JobsStored /\ JobsHeard
LegacyTyped == Legacy!TypeOK /\ RawsRouted /\ CallsRouted /\ JobsOK /\ ScanRouted

LEMMA LegacyStates ==
    /\ Legacy!RawState' = Legacy!RawState
    /\ Legacy!CallState' = Legacy!CallState
    /\ Legacy!TaskState' = Legacy!TaskState
    /\ Legacy!JobState' = Legacy!JobState
    /\ Legacy!ScanState' = Legacy!ScanState
  BY DEF Legacy!RawState, Legacy!CallState, Legacy!TaskState, Legacy!JobState, Legacy!ScanState

\* A failed try keeps the row of its message, queued or exhausted.
LEMMA FailedTryTyped ==
    ASSUME task \in [Tasks -> Legacy!TaskState], NEW q \in Tasks
    PROVE  /\ Legacy!FailedTry(q) \in [Tasks -> Legacy!TaskState]
           /\ \A p \in Tasks \ {q} : Legacy!FailedTry(q)[p] = task[p]
           /\ Legacy!FailedTry(q)[q].raw = task[q].raw
           /\ Legacy!FailedTry(q)[q].st \in {"queued", "exhausted"}
  <1>1. CASE task[q].tries < Retries
    <2>1. task[q].tries + 1 \in 0..Retries
      BY <1>1, RetriesAssumption DEF Legacy!TaskState
    <2>. QED
      BY <1>1, <2>1 DEF Legacy!FailedTry, Legacy!TaskState
  <1>2. CASE ~(task[q].tries < Retries)
    BY <1>2 DEF Legacy!FailedTry, Legacy!TaskState
  <1>. QED
    BY <1>1, <1>2

LEMMA AnswerTyped ==
    ASSUME LegacyTyped, NEW j \in Jobs, job[j].pc # "idle", NEW ends \in BOOLEAN,
           Legacy!Answer(j, ends), raw' = raw
    PROVE  /\ job' \in [Jobs -> Legacy!JobState]
           /\ task' \in [Tasks -> Legacy!TaskState]
           /\ JobsOK'
  <1>. USE DEF LegacyTyped, Legacy!TypeOK, JobsOK
  <1>0. /\ job' \in [Jobs -> Legacy!JobState]
        /\ \A i \in Jobs : job'[i].pc # "idle" \/ job'[i].heard => i # j /\ job'[i] = job[i]
    BY DEF Legacy!Answer, Legacy!JobIdle, Legacy!JobState
  <1>1. JobsStored'
    BY <1>0 DEF JobsStored, Stored
  <1>2. CASE ~job[j].heard
    <2>1. task' = task
      BY <1>2 DEF Legacy!Answer
    <2>2. TasksStored'
      BY <2>1 DEF TasksStored, Stored
    <2>3. JobsHeard'
      BY <1>0, <2>1 DEF JobsHeard
    <2>. QED
      BY <1>0, <1>1, <2>1, <2>2, <2>3
  <1>3. CASE job[j].heard
    <2>. DEFINE q == job[j].task
    <2>1. q \in Tasks /\ task[q].st = "running"
      BY <1>3 DEF JobsHeard
    <2>2. /\ task' \in [Tasks -> Legacy!TaskState]
          /\ \A p \in Tasks \ {q} : task'[p] = task[p]
          /\ task'[q].st # "free" => task'[q].raw = task[q].raw
      <3>1. CASE ends
        BY <1>3, <2>1, <3>1, RetriesAssumption
        DEF Legacy!Answer, Legacy!TaskFree, Legacy!TaskState
      <3>2. CASE ~ends
        BY <1>3, <2>1, <3>2, FailedTryTyped DEF Legacy!Answer
      <3>. QED
        BY <3>1, <3>2
    <2>3. TasksStored'
      BY <2>1, <2>2 DEF TasksStored, Stored
    <2>4. \A i \in Jobs : job'[i].heard => job[i].heard /\ job'[i] = job[i] /\ job[i].task # q
      BY <1>0, <1>3 DEF JobsHeard
    <2>5. JobsHeard'
      BY <2>2, <2>4 DEF JobsHeard
    <2>. QED
      BY <1>0, <1>1, <2>2, <2>3, <2>5
  <1>. QED
    BY <1>2, <1>3

LEMMA GotoTypedJob ==
    ASSUME LegacyTyped, NEW j \in Jobs, job[j].pc # "idle", NEW pc, Legacy!Goto(j, pc),
           pc \in {"entitlement", "blocked", "claim", "exists", "config", "fetch", "insert", "release"},
           raw' = raw, task' = task
    PROVE  /\ job' \in [Jobs -> Legacy!JobState]
           /\ JobsOK'
  <1>. USE DEF LegacyTyped, Legacy!TypeOK, JobsOK
  <1>1. /\ job' \in [Jobs -> Legacy!JobState]
        /\ \A i \in Jobs : /\ job'[i].pc # "idle" <=> job[i].pc # "idle"
                           /\ job'[i].task = job[i].task
                           /\ job'[i].raw = job[i].raw
                           /\ job'[i].heard = job[i].heard
    BY DEF Legacy!Goto, Legacy!JobState
  <1>2. TasksStored'
    BY DEF TasksStored, Stored
  <1>3. JobsStored'
    BY <1>1 DEF JobsStored, Stored
  <1>4. JobsHeard'
    BY <1>1 DEF JobsHeard
  <1>. QED
    BY <1>1, <1>2, <1>3, <1>4

LEMMA PublishTypedTask ==
    ASSUME LegacyTyped, NEW r, Stored(r), Legacy!Publish(r), raw' = raw, job' = job
    PROVE  /\ task' \in [Tasks -> Legacy!TaskState]
           /\ JobsOK'
  <1>. USE DEF LegacyTyped, Legacy!TypeOK, JobsOK
  <1>1. PICK q \in Tasks :
          /\ task[q].st = "free"
          /\ task' = [task EXCEPT ![q] = [st |-> "queued", raw |-> r, tries |-> 0]]
    BY DEF Legacy!Publish
  <1>2. task' \in [Tasks -> Legacy!TaskState]
    BY <1>1, RetriesAssumption DEF Legacy!TaskState, Stored
  <1>3. \A p \in Tasks : IF p = q THEN task'[p].raw = r ELSE task'[p] = task[p]
    BY <1>1
  <1>4. TasksStored'
    BY <1>3 DEF TasksStored, Stored
  <1>5. JobsStored'
    BY DEF JobsStored, Stored
  <1>6. JobsHeard'
    BY <1>1, <1>3 DEF JobsHeard
  <1>. QED
    BY <1>2, <1>4, <1>5, <1>6

\* Rows are never taken back and never change hands, leads at Meta stay.
Kept ==
    /\ submitted \subseteq submitted'
    /\ \A r \in Raws : Stored(r) => /\ raw'[r].st # "none"
                                    /\ raw'[r].tenant = raw[r].tenant
                                    /\ raw'[r].lead = raw[r].lead

LEMMA KeptTasks ==
    ASSUME JobsOK, Kept, task' = task, job' = job
    PROVE  JobsOK'
  BY DEF JobsOK, TasksStored, JobsStored, JobsHeard, Kept, Stored

LEMMA KeptCalls ==
    ASSUME CallsRouted, Kept, call' = call
    PROVE  CallsRouted'
  BY DEF CallsRouted, Kept, Stored, Routed

LEMMA KeptScan ==
    ASSUME ScanRouted, Kept, scan' = scan
    PROVE  ScanRouted'
  BY DEF ScanRouted, Kept, Stored, Routed

LEMMA SetRawTyped ==
    ASSUME LegacyTyped, NEW r, Stored(r), NEW st, st \in {"received", "enqueued", "enqueue_failed"},
           submitted \subseteq submitted',
           Legacy!SetRaw(r, st) \/ raw' = raw
    PROVE  /\ raw' \in [Raws -> Legacy!RawState]
           /\ RawsRouted'
           /\ Kept
  <1>. USE DEF LegacyTyped, Legacy!TypeOK
  <1>1. CASE raw' = raw
    BY <1>1 DEF RawsRouted, Kept, Stored, Routed
  <1>2. CASE Legacy!SetRaw(r, st)
    <2>1. /\ raw' \in [Raws -> Legacy!RawState]
          /\ \A q \in Raws : /\ Stored(q) <=> raw'[q].st # "none"
                             /\ raw'[q].tenant = raw[q].tenant
                             /\ raw'[q].lead = raw[q].lead
      BY <1>2 DEF Legacy!SetRaw, Stored, Legacy!RawState
    <2>. QED
      BY <2>1 DEF RawsRouted, Kept, Stored, Routed
  <1>. QED
    BY <1>1, <1>2

-----------------------------------------------------------------------------
(* Its steps keep all that.                                                *)

LEMMA CallTyped ==
    ASSUME Typed, LegacyTyped, NEW c \in Calls, Legacy!CallStep(c)
    PROVE  LegacyTyped' /\ leads' = leads /\ claims' = claims
  <1>. USE DEF LegacyTyped, Legacy!TypeOK, Legacy!shared
  <1>. DEFINE Call == call'[c] \in Legacy!CallState
              Others == /\ call' = [call EXCEPT ![c] = call'[c]]
                        /\ UNCHANGED <<Legacy!shared, job, scan, reported, abandoned, deadRows>>
              Routing == /\ \A l \in call'[c].todo : Routed(call'[c].tenant, l)
                         /\ call'[c].pc \in {"publish", "mark", "fail"} =>
                               call'[c].cur \in Raws /\ raw'[call'[c].cur].st # "none"
              RawsKept == raw' \in [Raws -> Legacy!RawState] /\ RawsRouted' /\ Kept
              TasksKept == task' \in [Tasks -> Legacy!TaskState] /\ JobsOK'
  <1>a. ASSUME Call, Others, Routing, RawsKept, TasksKept PROVE LegacyTyped' /\ leads' = leads /\ claims' = claims
    <2>1. call' \in [Calls -> Legacy!CallState] /\ \A d \in Calls \ {c} : call'[d] = call[d]
      BY <1>a
    <2>2. submitted' = submitted
      BY <1>a
    <2>3. CallsRouted'
      <3>1. \A r \in Raws : raw[r].st # "none" => raw'[r].st # "none"
        BY <1>a DEF Kept, Stored
      <3>. QED
        BY <1>a, <2>1, <2>2, <3>1 DEF CallsRouted, Routed, Stored
    <2>4. ScanRouted'
      BY <1>a, KeptScan
    <2>. QED
      BY <1>a, <2>1, <2>3, <2>4, LegacyStates
  <1>b. ASSUME UNCHANGED <<raw, task, job, submitted>> PROVE RawsKept /\ TasksKept
    <2>1. RawsRouted' /\ Kept
      BY <1>b DEF RawsRouted, Kept, Stored, Routed
    <2>. QED
      BY <1>b, <2>1, KeptTasks
  <1>c. call[c] \in Legacy!CallState
    BY DEF Legacy!CallState
  <1>1. CASE Legacy!CampaignDelivery(c)
    <2>1. PICK t \in Tenants, batch \in SUBSET submitted :
            /\ \A l \in batch : t \in Routes[l]
            /\ call' = [call EXCEPT ![c] = [Legacy!CallIdle EXCEPT
                                 !.pc = "save", !.tenant = t, !.todo = batch]]
      BY <1>1 DEF Legacy!CampaignDelivery
    <2>2. call'[c] = [pc |-> "save", tenant |-> t, todo |-> batch, cur |-> None]
      BY <2>1 DEF Legacy!CallIdle
    <2>3. batch \subseteq Leads
      BY <2>1 DEF Typed, TypeOK
    <2>4. Call
      BY <2>2, <2>3 DEF Legacy!CallState
    <2>5. Others /\ UNCHANGED <<raw, task, job, submitted>>
      BY <1>1, <2>1 DEF Legacy!CampaignDelivery
    <2>6. Routing
      BY <2>1, <2>2 DEF Routed
    <2>. QED
      BY <1>a, <1>b, <2>4, <2>5, <2>6
  <1>2. ASSUME NEW l \in Leads, Legacy!SaveRaw(c, l) PROVE LegacyTyped' /\ leads' = leads /\ claims' = claims
    <2>1. PICK r \in Raws :
            /\ raw[r].st = "none"
            /\ raw' = [raw EXCEPT ![r] = [st |-> "received", tenant |-> call[c].tenant, lead |-> l]]
            /\ call' = [call EXCEPT ![c].pc = "publish", ![c].todo = @ \ {l}, ![c].cur = r]
      BY <1>2 DEF Legacy!SaveRaw, Legacy!FreeRaws
    <2>2. Routed(call[c].tenant, l) /\ submitted' = submitted
      BY <1>2 DEF Legacy!SaveRaw, CallsRouted
    <2>3. raw' \in [Raws -> Legacy!RawState]
      BY <2>1, <1>c DEF Legacy!RawState, Legacy!CallState
    <2>4. \A q \in Raws : IF q = r THEN /\ raw'[q].tenant = call[c].tenant
                                        /\ raw'[q].lead = l
                                        /\ raw'[q].st = "received"
                          ELSE raw'[q] = raw[q]
      BY <2>1
    <2>5. RawsRouted'
      BY <2>2, <2>4 DEF RawsRouted, Stored, Routed
    <2>6. Kept
      BY <2>1, <2>2, <2>4 DEF Kept, Stored
    <2>7. TasksKept
      BY <1>2, <2>6, KeptTasks DEF Legacy!SaveRaw
    <2>8. Call /\ call'[c].tenant = call[c].tenant /\ call'[c].todo \subseteq call[c].todo /\ call'[c].cur = r
      BY <2>1, <1>c DEF Legacy!CallState
    <2>9. Routing
      BY <2>2, <2>4, <2>8 DEF CallsRouted, Routed, Stored
    <2>10. Others
      BY <1>2, <2>1 DEF Legacy!SaveRaw
    <2>. QED
      BY <1>a, <2>3, <2>5, <2>6, <2>7, <2>8, <2>9, <2>10
  <1>3. CASE Legacy!PublishRaw(c)
    <2>0. Stored(call[c].cur)
      BY <1>3 DEF Legacy!PublishRaw, CallsRouted
    <2>1. TasksKept
      BY <1>3, <2>0, PublishTypedTask, KeptTasks, <1>b DEF Legacy!PublishRaw
    <2>2. RawsKept
      BY <1>3 DEF Legacy!PublishRaw, RawsRouted, Kept, Stored, Routed
    <2>3. Others /\ Call /\ call'[c].tenant = call[c].tenant /\ call'[c].todo = call[c].todo
          /\ call'[c].cur = call[c].cur
      BY <1>3, <1>c DEF Legacy!PublishRaw, Legacy!CallState
    <2>4. Routing
      BY <1>3, <2>0, <2>3 DEF CallsRouted, Routed, Stored, Legacy!PublishRaw
    <2>. QED
      BY <1>a, <2>1, <2>2, <2>3, <2>4
  <1>4. CASE Legacy!MarkRawEnqueued(c) \/ Legacy!MarkRawFailed(c)
    <2>0. Stored(call[c].cur) /\ submitted' = submitted
      BY <1>4 DEF Legacy!MarkRawEnqueued, Legacy!MarkRawFailed, CallsRouted
    <2>1. \/ Legacy!SetRaw(call[c].cur, "enqueued")
          \/ Legacy!SetRaw(call[c].cur, "enqueue_failed")
          \/ raw' = raw
      BY <1>4 DEF Legacy!MarkRawEnqueued, Legacy!MarkRawFailed
    <2>2. RawsKept
      BY <2>0, <2>1, SetRawTyped
    <2>3. TasksKept
      BY <1>4, <2>2, KeptTasks DEF Legacy!MarkRawEnqueued, Legacy!MarkRawFailed
    <2>4. Others /\ Call /\ call'[c].tenant = call[c].tenant /\ call'[c].todo = call[c].todo
          /\ (call'[c].pc \in {"publish", "mark", "fail"} => call'[c].cur = call[c].cur)
      BY <1>4, <1>c DEF Legacy!MarkRawEnqueued, Legacy!MarkRawFailed, Legacy!CallState
    <2>5. Routing
      BY <2>0, <2>2, <2>4 DEF CallsRouted, Routed, Stored, Kept
    <2>. QED
      BY <1>a, <2>2, <2>3, <2>4, <2>5
  <1>5. CASE Legacy!CallDone(c) \/ Legacy!CallDies(c)
    <2>1. call'[c] = Legacy!CallIdle
      BY <1>5 DEF Legacy!CallDone, Legacy!CallDies
    <2>2. Call /\ Routing
      BY <2>1 DEF Legacy!CallIdle, Legacy!CallState
    <2>. QED
      BY <1>5, <1>a, <1>b, <2>1, <2>2 DEF Legacy!CallDone, Legacy!CallDies
  <1>. QED
    BY <1>1, <1>2, <1>3, <1>4, <1>5 DEF Legacy!CallStep

\* A step of the queue or of a job: it works on tasks and jobs, and may write
\* the lead of a job's row for the tenant whose row it is.
JobFrame ==
    /\ UNCHANGED <<submitted, raw, call, scan>>
    /\ reported' \subseteq Leads /\ abandoned' \subseteq Leads /\ deadRows' \subseteq Leads

TasksKept ==
    /\ task' \in [Tasks -> Legacy!TaskState]
    /\ job' \in [Jobs -> Legacy!JobState]
    /\ JobsOK'

RowStep ==
    \/ leads' = leads
    \/ \E t \in Tenants, l \in Leads : Routed(t, l) /\ leads' = Legacy!RowsAfter(t, l)

LEMMA JobFrameTyped ==
    ASSUME LegacyTyped, JobFrame, TasksKept
    PROVE  LegacyTyped'
  <1>1. Kept
    BY DEF JobFrame, Kept, Stored
  <1>2. CallsRouted' /\ ScanRouted'
    BY <1>1, KeptCalls, KeptScan DEF LegacyTyped, JobFrame
  <1>3. RawsRouted'
    BY DEF LegacyTyped, JobFrame, RawsRouted, Stored, Routed
  <1>4. Legacy!TypeOK'
    BY LegacyStates DEF LegacyTyped, Legacy!TypeOK, JobFrame, TasksKept
  <1>. QED
    BY <1>2, <1>3, <1>4 DEF LegacyTyped, TasksKept

LEMMA StoredLead ==
    ASSUME Typed, LegacyTyped, NEW r, Stored(r)
    PROVE  /\ raw[r].lead \in Leads /\ raw[r].tenant \in Tenants
           /\ Routed(raw[r].tenant, raw[r].lead)
  BY RoutesAssumption DEF Typed, TypeOK, LegacyTyped, RawsRouted, Routed, Stored

LEMMA QueueTypedLegacy ==
    ASSUME Typed, LegacyTyped,
           \/ \E q \in Tasks : Legacy!DeadLetterTask(q) \/ \E j \in Jobs : Legacy!DeliverTask(q, j)
           \/ \E j \in Jobs : Legacy!TaskAnswerLost(j)
    PROVE  LegacyTyped' /\ leads' = leads /\ claims' = claims
  <1>. USE DEF LegacyTyped, Legacy!TypeOK, JobsOK, Legacy!shared
  <1>1. ASSUME NEW q \in Tasks, Legacy!DeadLetterTask(q) PROVE JobFrame /\ TasksKept
    <2>1. Stored(task[q].raw)
      BY <1>1 DEF Legacy!DeadLetterTask, TasksStored
    <2>2. raw[task[q].raw].lead \in Leads
      BY <2>1, StoredLead
    <2>3. JobFrame
      BY <1>1, <2>2 DEF Legacy!DeadLetterTask, JobFrame
    <2>4. /\ task[q].st = "exhausted" /\ task' = [task EXCEPT ![q] = Legacy!TaskFree]
          /\ UNCHANGED <<raw, job>>
      BY <1>1 DEF Legacy!DeadLetterTask
    <2>5. task' \in [Tasks -> Legacy!TaskState]
      BY <2>4, RetriesAssumption DEF Legacy!TaskFree, Legacy!TaskState
    <2>6. \A p \in Tasks : IF p = q THEN task'[p].st = "free" ELSE task'[p] = task[p]
      BY <2>4 DEF Legacy!TaskFree
    <2>7. JobsOK'
      BY <2>4, <2>6 DEF TasksStored, JobsStored, JobsHeard, Stored
    <2>. QED
      BY <2>3, <2>4, <2>5, <2>7 DEF TasksKept
  <1>2. ASSUME NEW q \in Tasks, NEW j \in Jobs, Legacy!DeliverTask(q, j) PROVE JobFrame /\ TasksKept
    <2>1. /\ task[q].st = "queued" /\ job[j].pc = "idle"
          /\ task' = [task EXCEPT ![q].st = "running"]
          /\ job' = [job EXCEPT ![j] = [pc |-> "entitlement", task |-> q, raw |-> task[q].raw,
                                        heard |-> TRUE]]
          /\ raw' = raw
      BY <1>2 DEF Legacy!DeliverTask
    <2>2. JobFrame
      BY <1>2 DEF Legacy!DeliverTask, JobFrame
    <2>3. Stored(task[q].raw)
      BY <2>1 DEF TasksStored
    <2>4. /\ task' \in [Tasks -> Legacy!TaskState]
          /\ \A p \in Tasks : /\ task'[p].raw = task[p].raw
                              /\ IF p = q THEN task'[p].st = "running" ELSE task'[p].st = task[p].st
      BY <2>1 DEF Legacy!TaskState
    <2>5. /\ job' \in [Jobs -> Legacy!JobState]
          /\ \A i \in Jobs \ {j} : job'[i] = job[i]
          /\ job'[j].pc = "entitlement" /\ job'[j].task = q /\ job'[j].raw = task[q].raw
      BY <2>1 DEF Legacy!JobState, Legacy!TaskState
    <2>6. TasksStored' /\ JobsStored'
      BY <2>1, <2>3, <2>4, <2>5 DEF TasksStored, JobsStored, Stored
    <2>7. \A i \in Jobs : job[i].heard => job[i].task # q
      BY <2>1 DEF JobsHeard
    <2>8. JobsHeard'
      BY <2>4, <2>5, <2>7 DEF JobsHeard
    <2>. QED
      BY <2>2, <2>4, <2>5, <2>6, <2>8 DEF TasksKept
  <1>3. ASSUME NEW j \in Jobs, Legacy!TaskAnswerLost(j) PROVE JobFrame /\ TasksKept
    <2>. DEFINE q == job[j].task
    <2>1. /\ job[j].heard /\ job' = [job EXCEPT ![j].heard = FALSE]
          /\ task' = Legacy!FailedTry(q) /\ raw' = raw
      BY <1>3 DEF Legacy!TaskAnswerLost
    <2>2. JobFrame
      BY <1>3 DEF Legacy!TaskAnswerLost, JobFrame
    <2>3. q \in Tasks /\ task[q].st = "running"
      BY <2>1 DEF JobsHeard
    <2>4. /\ task' \in [Tasks -> Legacy!TaskState]
          /\ \A p \in Tasks \ {q} : task'[p] = task[p]
          /\ task'[q].raw = task[q].raw
      BY <2>1, <2>3, FailedTryTyped
    <2>5. /\ job' \in [Jobs -> Legacy!JobState]
          /\ \A i \in Jobs : /\ job'[i].pc = job[i].pc /\ job'[i].raw = job[i].raw
                             /\ job'[i].task = job[i].task
                             /\ job'[i].heard => job[i].heard /\ i # j
      BY <2>1 DEF Legacy!JobState
    <2>6. TasksStored' /\ JobsStored'
      BY <2>1, <2>3, <2>4, <2>5 DEF TasksStored, JobsStored, Stored
    <2>7. \A i \in Jobs : job[i].heard /\ i # j => job[i].task # q
      BY <2>1 DEF JobsHeard
    <2>8. JobsHeard'
      BY <2>4, <2>5, <2>7 DEF JobsHeard
    <2>. QED
      BY <2>2, <2>4, <2>5, <2>6, <2>8 DEF TasksKept
  <1>4. JobFrame /\ TasksKept
    BY <1>1, <1>2, <1>3
  <1>5. leads' = leads /\ claims' = claims
    BY DEF Legacy!DeadLetterTask, Legacy!DeliverTask, Legacy!TaskAnswerLost
  <1>. QED
    BY <1>4, <1>5, JobFrameTyped

LEMMA JobTyped ==
    ASSUME Typed, LegacyTyped, NEW j \in Jobs, Legacy!JobStep(j) \/ Legacy!JobDies(j)
    PROVE  LegacyTyped' /\ claims' \subseteq Leads /\ RowStep
  <1>. USE DEF LegacyTyped, Legacy!TypeOK, Legacy!shared
  <1>. DEFINE Goal == JobFrame /\ TasksKept /\ claims' \subseteq Leads /\ RowStep
  <1>0. job[j].pc # "idle"
    BY DEF Legacy!JobStep, Legacy!JobDies, Legacy!JobReadFails, Legacy!AskEntitlement,
           Legacy!LogBlocked, Legacy!ClaimLead, Legacy!LookForLead, Legacy!ReadConfig,
           Legacy!FetchLead, Legacy!InsertRow, Legacy!ReleaseAndThrow, Legacy!At
  <1>1. Stored(job[j].raw)
    BY <1>0 DEF JobsOK, JobsStored
  <1>2. /\ Legacy!LeadOf(j) \in Leads /\ Legacy!TenantOf(j) \in Tenants
        /\ Routed(Legacy!TenantOf(j), Legacy!LeadOf(j))
    BY <1>1, StoredLead DEF Legacy!LeadOf, Legacy!TenantOf
  <1>3. claims \subseteq Leads /\ claims \cup {Legacy!LeadOf(j)} \subseteq Leads
    BY <1>2 DEF Typed, TypeOK
  <1>4. ASSUME NEW forGood \in BOOLEAN, Legacy!Abandon(j, forGood) PROVE abandoned' \subseteq Leads
    BY <1>2, <1>4 DEF Legacy!Abandon
  <1>a. ASSUME NEW ends \in BOOLEAN, Legacy!Answer(j, ends), raw' = raw PROVE TasksKept
    BY <1>0, <1>a, AnswerTyped DEF TasksKept
  <1>g. ASSUME NEW pc, Legacy!Goto(j, pc), raw' = raw, task' = task,
               pc \in {"entitlement", "blocked", "claim", "exists", "config", "fetch", "insert", "release"}
        PROVE  TasksKept
    BY <1>0, <1>g, GotoTypedJob DEF TasksKept
  <1>5. ASSUME Legacy!JobDies(j) \/ Legacy!JobReadFails(j) PROVE Goal
    <2>1. /\ Legacy!Answer(j, FALSE) /\ Legacy!Abandon(j, TRUE)
          /\ UNCHANGED <<Legacy!shared, raw, call, scan, reported, deadRows>>
      BY <1>5 DEF Legacy!JobDies, Legacy!JobReadFails
    <2>2. TasksKept
      BY <2>1, <1>a
    <2>3. abandoned' \subseteq Leads
      BY <2>1, <1>4
    <2>. QED
      BY <2>1, <2>2, <2>3, <1>3 DEF JobFrame, RowStep
  <1>6. ASSUME Legacy!AskEntitlement(j) \/ Legacy!ReadConfig(j) \/ Legacy!FetchLead(j) PROVE Goal
    <2>1. PICK pc \in {"blocked", "claim", "fetch", "insert", "release"} : Legacy!Goto(j, pc)
      BY <1>6 DEF Legacy!AskEntitlement, Legacy!ReadConfig, Legacy!FetchLead
    <2>2. UNCHANGED <<Legacy!shared, raw, call, task, scan, reported, abandoned, deadRows>>
      BY <1>6 DEF Legacy!AskEntitlement, Legacy!ReadConfig, Legacy!FetchLead
    <2>3. TasksKept
      BY <2>1, <2>2, <1>g
    <2>. QED
      BY <2>2, <2>3, <1>3 DEF JobFrame, RowStep
  <1>7. ASSUME Legacy!LogBlocked(j) PROVE Goal
    <2>1. /\ Legacy!Answer(j, TRUE) /\ reported' = reported \cup {Legacy!LeadOf(j)}
          /\ UNCHANGED <<Legacy!shared, raw, call, scan, abandoned, deadRows>>
      BY <1>7 DEF Legacy!LogBlocked
    <2>2. TasksKept
      BY <2>1, <1>a
    <2>. QED
      BY <2>1, <2>2, <1>2, <1>3 DEF JobFrame, RowStep
  <1>8. ASSUME Legacy!ClaimLead(j) PROVE Goal
    <2>1. /\ claims' \subseteq claims \cup {Legacy!LeadOf(j)}
          /\ UNCHANGED <<submitted, leads, raw, call, scan, reported, abandoned, deadRows>>
      BY <1>8 DEF Legacy!ClaimLead
    <2>2. \/ Legacy!Goto(j, "exists") /\ task' = task
          \/ \E ends \in BOOLEAN : Legacy!Answer(j, ends)
      BY <1>8 DEF Legacy!ClaimLead
    <2>3. TasksKept
      BY <2>1, <2>2, <1>a, <1>g
    <2>. QED
      BY <2>1, <2>3, <1>3 DEF JobFrame, RowStep
  <1>9. ASSUME Legacy!LookForLead(j) PROVE Goal
    <2>1. \/ Legacy!Goto(j, "config") /\ task' = task
          \/ Legacy!Answer(j, TRUE)
      BY <1>9 DEF Legacy!LookForLead
    <2>2. UNCHANGED <<Legacy!shared, raw, call, scan, reported, abandoned, deadRows>>
      BY <1>9 DEF Legacy!LookForLead
    <2>3. TasksKept
      BY <2>1, <2>2, <1>a, <1>g
    <2>. QED
      BY <2>2, <2>3, <1>3 DEF JobFrame, RowStep
  <1>10. ASSUME Legacy!InsertRow(j) PROVE Goal
    <2>1. \/ Legacy!Goto(j, "release") /\ task' = task
          \/ Legacy!Answer(j, TRUE)
      BY <1>10 DEF Legacy!InsertRow
    <2>2. /\ leads' \in {leads, Legacy!RowsAfter(Legacy!TenantOf(j), Legacy!LeadOf(j))}
          /\ UNCHANGED <<submitted, claims, raw, call, scan, reported, abandoned, deadRows>>
      BY <1>10 DEF Legacy!InsertRow
    <2>3. TasksKept
      BY <2>1, <2>2, <1>a, <1>g
    <2>. QED
      BY <2>2, <2>3, <1>2, <1>3 DEF JobFrame, RowStep
  <1>11. ASSUME Legacy!ReleaseAndThrow(j) PROVE Goal
    <2>1. /\ Legacy!Answer(j, FALSE) /\ claims' \subseteq claims
          /\ UNCHANGED <<submitted, leads, raw, call, scan, reported, deadRows>>
      BY <1>11 DEF Legacy!ReleaseAndThrow
    <2>2. \E forGood \in BOOLEAN : Legacy!Abandon(j, forGood)
      BY <1>11 DEF Legacy!ReleaseAndThrow, Legacy!JobState
    <2>3. TasksKept
      BY <2>1, <1>a
    <2>4. abandoned' \subseteq Leads
      BY <2>2, <1>4
    <2>. QED
      BY <2>1, <2>3, <2>4, <1>3 DEF JobFrame, RowStep
  <1>12. Goal
    BY <1>5, <1>6, <1>7, <1>8, <1>9, <1>10, <1>11 DEF Legacy!JobStep
  <1>. QED
    BY <1>12, JobFrameTyped

\* A step of the scan, and one of the tenant pipeline, which takes it over.
LEMMA ScanFrameTyped ==
    ASSUME LegacyTyped, submitted \subseteq submitted', submitted' \subseteq Leads,
           UNCHANGED <<call, job, reported, abandoned, deadRows>>,
           raw' \in [Raws -> Legacy!RawState], RawsRouted', Kept,
           task' \in [Tasks -> Legacy!TaskState], JobsOK',
           scan' \in Legacy!ScanState, ScanRouted'
    PROVE  LegacyTyped'
  <1>1. CallsRouted'
    BY KeptCalls DEF LegacyTyped
  <1>2. Legacy!TypeOK'
    BY LegacyStates DEF LegacyTyped, Legacy!TypeOK
  <1>. QED
    BY <1>1, <1>2 DEF LegacyTyped

LEMMA OtherTyped ==
    ASSUME LegacyTyped, submitted \subseteq submitted', submitted' \subseteq Leads,
           UNCHANGED <<raw, call, task, job, reported, abandoned, deadRows>>,
           scan' = scan \/ scan' = Legacy!ScanIdle
    PROVE  LegacyTyped'
  <1>. USE DEF LegacyTyped, Legacy!TypeOK
  <1>1. RawsRouted' /\ Kept
    BY DEF RawsRouted, Kept, Stored, Routed
  <1>2. JobsOK'
    BY <1>1, KeptTasks
  <1>3. scan' \in Legacy!ScanState
    BY DEF Legacy!ScanState, Legacy!ScanIdle
  <1>4. CASE scan' = scan
    BY <1>1, <1>2, <1>3, <1>4, KeptScan, ScanFrameTyped
  <1>5. CASE scan' = Legacy!ScanIdle
    <2>1. ScanRouted'
      BY <1>5 DEF ScanRouted, Legacy!ScanIdle
    <2>. QED
      BY <1>1, <1>2, <1>3, <2>1, ScanFrameTyped
  <1>. QED
    BY <1>4, <1>5

LEMMA ScanTyped ==
    ASSUME Typed, LegacyTyped, Legacy!ScanStep
    PROVE  LegacyTyped' /\ claims' = claims /\ RowStep
  <1>. USE DEF LegacyTyped, Legacy!TypeOK, Legacy!shared
  <1>. DEFINE Goal == LegacyTyped' /\ claims' = claims /\ RowStep
              Calm == UNCHANGED <<submitted, claims, call, job, reported, abandoned, deadRows>>
              Sound == scan' \in Legacy!ScanState /\ ScanRouted'
              RawsKept == raw' \in [Raws -> Legacy!RawState] /\ RawsRouted' /\ Kept
              TaskKept == task' \in [Tasks -> Legacy!TaskState] /\ JobsOK'
  <1>0. submitted \subseteq Leads
    BY DEF Typed, TypeOK
  <1>a. ASSUME Calm, Sound, RawsKept, TaskKept, RowStep PROVE Goal
    <2>1. submitted' = submitted /\ UNCHANGED <<call, job, reported, abandoned, deadRows>>
      BY <1>a
    <2>2. LegacyTyped'
      BY <1>0, <1>a, <2>1, ScanFrameTyped
    <2>. QED
      BY <1>a, <2>2
  <1>b. ASSUME Calm, raw' = raw PROVE RawsKept
    BY <1>b DEF RawsRouted, Kept, Stored, Routed
  <1>c. ASSUME Calm, RawsKept, task' = task PROVE TaskKept
    BY <1>c, KeptTasks
  <1>d. ASSUME leads' = leads PROVE RowStep
    BY <1>d DEF RowStep
  <1>1. ASSUME Legacy!ScanStart PROVE Goal
    <2>1. PICK active \in SUBSET Tenants : scan' = [Legacy!ScanIdle EXCEPT !.pc = "scan", !.todo = active]
      BY <1>1 DEF Legacy!ScanStart
    <2>2. scan' = [pc |-> "scan", todo |-> active, missing |-> {}, list |-> {}, cur |-> None]
      BY <2>1 DEF Legacy!ScanIdle
    <2>3. Sound
      BY <2>2 DEF Legacy!ScanState, ScanRouted
    <2>4. Calm /\ UNCHANGED <<raw, task, leads>>
      BY <1>1 DEF Legacy!ScanStart
    <2>. QED
      BY <1>a, <1>b, <1>c, <1>d, <2>3, <2>4
  <1>2. ASSUME NEW t \in Tenants, Legacy!ScanCampaign(t) PROVE Goal
    <2>1. /\ Calm /\ UNCHANGED <<raw, task, leads>>
          /\ scan.pc = "scan"
          /\ scan' = [scan EXCEPT !.todo = @ \ {t},
                            !.missing = {t} \X {l \in submitted \ aged :
                                /\ t \in Routes[l]
                                /\ \A i \in DOMAIN leads[l] : leads[l][i] # t}]
      BY <1>2 DEF Legacy!ScanCampaign
    <2>2. /\ scan'.pc = "scan" /\ scan'.list = scan.list
          /\ \A u \in Tenants, l \in Leads : <<u, l>> \in scan'.missing => Routed(u, l)
      BY <2>1 DEF Legacy!ScanState, Routed
    <2>3. scan' \in Legacy!ScanState
      BY <2>1, <1>0 DEF Legacy!ScanState
    <2>4. ScanRouted'
      BY <2>1, <2>2 DEF ScanRouted, Stored, Routed
    <2>. QED
      BY <1>a, <1>b, <1>c, <1>d, <2>1, <2>3, <2>4
  <1>3. ASSUME NEW t \in Tenants, NEW l \in Leads, Legacy!RecoverLead(t, l) PROVE Goal
    <2>1. /\ Calm /\ UNCHANGED <<raw, task>>
          /\ <<t, l>> \in scan.missing
          /\ leads' = Legacy!RowsAfter(t, l)
          /\ scan' = [scan EXCEPT !.missing = @ \ {<<t, l>>}]
      BY <1>3 DEF Legacy!RecoverLead
    <2>2. RowStep
      BY <2>1 DEF RowStep, ScanRouted
    <2>3. scan' \in Legacy!ScanState
      BY <2>1 DEF Legacy!ScanState
    <2>4. /\ scan'.pc = scan.pc /\ scan'.list = scan.list /\ scan'.cur = scan.cur
          /\ scan'.missing \subseteq scan.missing
      BY <2>1 DEF Legacy!ScanState
    <2>5. ScanRouted'
      BY <2>1, <2>4 DEF ScanRouted, Stored, Routed
    <2>. QED
      BY <1>a, <1>b, <1>c, <2>1, <2>2, <2>3, <2>5
  <1>4. ASSUME Legacy!ScanFormFails \/ Legacy!ScanOver \/ Legacy!ScanDies PROVE Goal
    <2>1. Calm /\ UNCHANGED <<raw, task, leads>>
      BY <1>4 DEF Legacy!ScanFormFails, Legacy!ScanOver, Legacy!ScanDies
    <2>2. \/ scan' = [scan EXCEPT !.missing = {}]
          \/ scan' = [pc |-> "over", todo |-> {}, missing |-> {}, list |-> {}, cur |-> None]
          \/ scan' = [pc |-> "idle", todo |-> {}, missing |-> {}, list |-> {}, cur |-> None]
      BY <1>4 DEF Legacy!ScanFormFails, Legacy!ScanOver, Legacy!ScanDies, Legacy!ScanIdle
    <2>3. scan' \in Legacy!ScanState
      BY <2>2 DEF Legacy!ScanState
    <2>4. ScanRouted'
      BY <2>1, <2>2 DEF ScanRouted, Legacy!ScanState, Stored, Routed
    <2>. QED
      BY <1>a, <1>b, <1>c, <1>d, <2>1, <2>3, <2>4
  <1>5. ASSUME Legacy!ListUnenqueued PROVE Goal
    <2>1. /\ Calm /\ UNCHANGED <<raw, task, leads>>
          /\ scan' = [scan EXCEPT !.pc = "republish", !.list = Legacy!UnenqueuedRaws]
      BY <1>5 DEF Legacy!ListUnenqueued
    <2>2. \A r \in Legacy!UnenqueuedRaws : Stored(r)
      BY DEF Legacy!UnenqueuedRaws, Stored
    <2>3. Legacy!UnenqueuedRaws \subseteq Raws
      BY DEF Legacy!UnenqueuedRaws
    <2>4. scan' \in Legacy!ScanState
      BY <2>1, <2>3 DEF Legacy!ScanState
    <2>5. scan'.pc = "republish" /\ scan'.missing = scan.missing /\ scan'.list = Legacy!UnenqueuedRaws
      BY <2>1 DEF Legacy!ScanState
    <2>6. ScanRouted'
      BY <2>1, <2>2, <2>5 DEF ScanRouted, Stored, Routed
    <2>. QED
      BY <1>a, <1>b, <1>c, <1>d, <2>1, <2>4, <2>6
  <1>6. ASSUME NEW r \in Raws, Legacy!RepublishRaw(r) PROVE Goal
    <2>1. /\ Calm /\ UNCHANGED <<raw, leads>>
          /\ r \in scan.list
          /\ Legacy!Publish(r) \/ task' = task
          /\ \E pc \in {"mark", "fail"} : scan' = [scan EXCEPT !.pc = pc, !.cur = r]
      BY <1>6 DEF Legacy!RepublishRaw
    <2>2. Stored(r)
      BY <2>1 DEF ScanRouted
    <2>3. TaskKept
      BY <2>1, <2>2, <1>b, <1>c, PublishTypedTask
    <2>4. /\ scan' \in Legacy!ScanState
          /\ scan'.missing = scan.missing /\ scan'.list = scan.list /\ scan'.cur = r
      BY <2>1 DEF Legacy!ScanState
    <2>5. ScanRouted'
      BY <2>1, <2>2, <2>4 DEF ScanRouted, Stored, Routed
    <2>. QED
      BY <1>a, <1>b, <1>d, <2>1, <2>3, <2>4, <2>5
  <1>7. ASSUME Legacy!MarkRepublished \/ Legacy!MarkRepublishFailed PROVE Goal
    <2>1. /\ Calm /\ UNCHANGED <<task, leads>>
          /\ scan.pc \in {"mark", "fail"}
          /\ \/ \E st \in {"enqueued", "enqueue_failed"} : Legacy!SetRaw(scan.cur, st)
             \/ raw' = raw
          /\ \/ scan' = [scan EXCEPT !.pc = "republish", !.list = @ \ {scan.cur}, !.cur = None]
             \/ scan' = [scan EXCEPT !.pc = "fail"]
      BY <1>7 DEF Legacy!MarkRepublished, Legacy!MarkRepublishFailed
    <2>2. Stored(scan.cur)
      BY <2>1 DEF ScanRouted
    <2>3. RawsKept
      BY <2>1, <2>2, SetRawTyped
    <2>4. TaskKept
      BY <2>1, <2>3, <1>c
    <2>5. /\ scan' \in Legacy!ScanState
          /\ scan'.missing = scan.missing /\ scan'.list \subseteq scan.list
          /\ scan'.pc \in {"mark", "fail"} => scan'.cur = scan.cur
      BY <2>1 DEF Legacy!ScanState
    <2>6. ScanRouted'
      BY <2>1, <2>2, <2>3, <2>5 DEF ScanRouted, Kept, Stored, Routed, Legacy!ScanState
    <2>. QED
      BY <1>a, <1>d, <2>1, <2>3, <2>4, <2>5, <2>6
  <1>. QED
    BY <1>1, <1>2, <1>3, <1>4, <1>5, <1>6, <1>7 DEF Legacy!ScanStep

LEMMA LegacyNextTyped ==
    ASSUME Typed, LegacyTyped, Legacy!Next
    PROVE  LegacyTyped' /\ claims' \subseteq Leads /\ RowStep
  <1>0. claims \subseteq Leads
    BY DEF Typed, TypeOK
  <1>1. ASSUME NEW c \in Calls, Legacy!CallStep(c)
        PROVE  LegacyTyped' /\ claims' \subseteq Leads /\ RowStep
    BY <1>0, <1>1, CallTyped DEF RowStep
  <1>2. ASSUME \/ \E q \in Tasks : Legacy!DeadLetterTask(q) \/ \E j \in Jobs : Legacy!DeliverTask(q, j)
               \/ \E j \in Jobs : Legacy!TaskAnswerLost(j)
        PROVE  LegacyTyped' /\ claims' \subseteq Leads /\ RowStep
    BY <1>0, <1>2, QueueTypedLegacy DEF RowStep
  <1>3. ASSUME NEW j \in Jobs, Legacy!JobStep(j) \/ Legacy!JobDies(j)
        PROVE  LegacyTyped' /\ claims' \subseteq Leads /\ RowStep
    BY <1>3, JobTyped
  <1>4. CASE Legacy!ScanStep
    BY <1>0, <1>4, ScanTyped
  <1>. QED
    BY <1>1, <1>2, <1>3, <1>4 DEF Legacy!Next

\* Leads at Meta, their age and the entitlements are not the campaigns' to change.
LEMMA LegacyShares ==
    ASSUME Legacy!Next
    PROVE  UNCHANGED <<submitted, aged, blocked>>
  <1>. USE DEF Legacy!shared
  <1>1. ASSUME NEW c \in Calls, Legacy!CallStep(c) PROVE UNCHANGED <<submitted, aged, blocked>>
    BY <1>1 DEF Legacy!CallStep, Legacy!CampaignDelivery, Legacy!PublishRaw,
                Legacy!MarkRawEnqueued, Legacy!MarkRawFailed, Legacy!CallDone, Legacy!CallDies,
                Legacy!SaveRaw
  <1>2. ASSUME NEW j \in Jobs, Legacy!JobStep(j) PROVE UNCHANGED <<submitted, aged, blocked>>
    BY <1>2 DEF Legacy!JobStep, Legacy!JobReadFails, Legacy!AskEntitlement, Legacy!LogBlocked,
                Legacy!ClaimLead, Legacy!LookForLead, Legacy!ReadConfig, Legacy!FetchLead,
                Legacy!InsertRow, Legacy!ReleaseAndThrow
  <1>3. CASE Legacy!ScanStep
    BY <1>3 DEF Legacy!ScanStep, Legacy!ScanStart, Legacy!ScanFormFails, Legacy!ListUnenqueued,
                Legacy!MarkRepublished, Legacy!MarkRepublishFailed, Legacy!ScanOver,
                Legacy!ScanDies, Legacy!ScanCampaign, Legacy!RecoverLead, Legacy!RepublishRaw
  <1>. QED
    BY <1>1, <1>2, <1>3 DEF Legacy!Next, Legacy!DeadLetterTask, Legacy!DeliverTask,
       Legacy!TaskAnswerLost, Legacy!JobDies

-----------------------------------------------------------------------------
(* The rows of crm.leads, which both Meta pipelines write.                 *)

\* A lead has no row, or one of a tenant whose Page or campaign it is.
SharedRows ==
    \A l \in Leads : leads[l] = << >> \/ \E t \in Owners[l] \cup Routes[l] : leads[l] = <<t>>

LEMMA RowAfter ==
    ASSUME leads \in [Leads -> Seq(Tenants)], NEW t \in Tenants, NEW l \in Leads,
           leads' = Legacy!RowsAfter(t, l)
    PROVE  /\ leads' \in [Leads -> Seq(Tenants)]
           /\ \A k \in Leads : Recorded(k) \/ k # l => leads'[k] = leads[k]
           /\ ~Recorded(l) => leads'[l] = <<t>>
  <1>1. CASE Recorded(l)
    BY <1>1 DEF Legacy!RowsAfter, Legacy!Recorded, Recorded
  <1>2. CASE ~Recorded(l)
    <2>1. leads' = [leads EXCEPT ![l] = <<t>>]
      BY <1>2 DEF Legacy!RowsAfter, Legacy!Recorded, Recorded
    <2>2. <<t>> \in Seq(Tenants)
      OBVIOUS
    <2>3. leads' \in [Leads -> Seq(Tenants)]
      BY <2>1, <2>2, Zenon
    <2>4. leads'[l] = <<t>> /\ \A k \in Leads \ {l} : leads'[k] = leads[k]
      BY <2>1, Zenon
    <2>. QED
      BY <1>2, <2>3, <2>4
  <1>. QED
    BY <1>1, <1>2

\* Every insert, of a worker, a job or a half of the sweep, is the same.
LEMMA TenantInsert ==
    ASSUME leads \in [Leads -> Seq(Tenants)], NEW e \in Events
    PROVE  RowsAfterInsert(e) = Legacy!RowsAfter(e.tenant, e.lead)
  <1>0. e.lead \in Leads /\ e.tenant \in Tenants
    BY DEF Events
  <1>1. CASE Recorded(e.lead)
    BY <1>1 DEF RowsAfterInsert, Legacy!RowsAfter, Legacy!Recorded, Recorded
  <1>2. CASE ~Recorded(e.lead)
    <2>0. Append(<< >>, e.tenant) = <<e.tenant>>
      OBVIOUS
    <2>1. leads[e.lead] = << >>
      BY <1>2 DEF Recorded
    <2>2. [leads EXCEPT ![e.lead] = Append(@, e.tenant)] = [leads EXCEPT ![e.lead] = <<e.tenant>>]
      BY <2>0, <2>1, Zenon
    <2>. QED
      BY <1>2, <2>2, Zenon
      DEF RowsAfterInsert, RowsAfterBlindInsert, Legacy!RowsAfter, Legacy!Recorded, Recorded
  <1>. QED
    BY <1>1, <1>2

\* What a step does to the leads at Meta and to their rows.
Appears == leads' = leads /\ \E l \in Leads \ submitted : submitted' = submitted \cup {l}
Records ==
    /\ submitted' = submitted
    /\ \E t \in Tenants, l \in Leads :
          /\ l \in submitted /\ t \in Owners[l] \cup Routes[l]
          /\ leads' = Legacy!RowsAfter(t, l)

-----------------------------------------------------------------------------
(* WhatsApp: the types, and what is at work has a selected message.        *)

ReceiverState == [pc : {"idle", "capture", "enqueue", "mark"},
                  batch : SUBSET Messages, todo : SUBSET WhatsApp!Events,
                  queue : SUBSET WhatsApp!Events, cur : WhatsApp!Events \cup {None}]
NoteState == [st : {"free", "queued", "running", "exhausted"},
              event : WhatsApp!Events \cup {None}, tries : 0..Retries]
WriterState == [pc : {"idle", "entitlement", "blocked", "claim", "exists",
                      "duplicate", "read", "processing", "insert",
                      "complete", "lost", "release", "retrying"},
                note : Notes \cup {None}, event : WhatsApp!Events \cup {None},
                heard : BOOLEAN]
ResendState == [pc : {"idle", "publish", "mark"}, list : SUBSET WhatsApp!Events,
                cur : WhatsApp!Events \cup {None}]

\* A writer QStash listens to is alone with a running message, of its own event.
WritersOK ==
    /\ \A n \in Notes : note[n].st # "free" => note[n].event \in WhatsApp!Events
    /\ \A w \in Writers : writer[w].pc # "idle" => writer[w].event \in WhatsApp!Events
    /\ \A w \in Writers : writer[w].heard => /\ writer[w].pc # "idle"
                                             /\ writer[w].note \in Notes
                                             /\ note[writer[w].note].st = "running"
                                             /\ note[writer[w].note].event = writer[w].event
    /\ \A v, w \in Writers : writer[v].heard /\ writer[w].heard /\ v # w =>
                                writer[v].note # writer[w].note

ReceiversOK ==
    \A r \in Receivers : /\ receiver[r].batch \subseteq sent
                         /\ receiver[r].pc = "mark" => receiver[r].cur \in WhatsApp!Events

ResendOK == resend.pc = "mark" => resend.cur \in WhatsApp!Events

MessageTyped ==
    /\ sent \subseteq Messages /\ answered \subseteq sent
    /\ receiver \in [Receivers -> ReceiverState] /\ ReceiversOK
    /\ event \in [WhatsApp!Events -> WhatsApp!Statuses]
    /\ note \in [Notes -> NoteState] /\ writer \in [Writers -> WriterState] /\ WritersOK
    /\ keys \subseteq Messages
    /\ rows \in [Messages -> Seq(Tenants)]
    /\ resend \in ResendState /\ ResendOK
    /\ told \subseteq Messages /\ forsaken \subseteq Messages

LEMMA MessageConstants ==
    /\ WhatsApp!Events' = WhatsApp!Events
    /\ WhatsApp!Statuses' = WhatsApp!Statuses
    /\ ReceiverState' = ReceiverState
    /\ NoteState' = NoteState
    /\ WriterState' = WriterState
    /\ ResendState' = ResendState
  BY DEF WhatsApp!Events, WhatsApp!Statuses, ReceiverState, NoteState, WriterState, ResendState

LEMMA EventParts ==
    ASSUME NEW e \in WhatsApp!Events
    PROVE  e[1] \in Tenants /\ e[2] \in Messages
  BY DEF WhatsApp!Events

LEMMA SetEventTyped ==
    ASSUME event \in [WhatsApp!Events -> WhatsApp!Statuses],
           NEW e \in WhatsApp!Events, NEW st \in WhatsApp!Statuses,
           WhatsApp!SetEvent(e, st) \/ event' = event
    PROVE  event' \in [WhatsApp!Events -> WhatsApp!Statuses]
  BY DEF WhatsApp!SetEvent

LEMMA RowsWithTyped ==
    ASSUME rows \in [Messages -> Seq(Tenants)], NEW e \in WhatsApp!Events
    PROVE  WhatsApp!RowsWith(e) \in [Messages -> Seq(Tenants)]
  <1>1. <<e[1]>> \in Seq(Tenants)
    BY EventParts
  <1>. QED
    BY <1>1, EventParts, Zenon DEF WhatsApp!RowsWith

LEMMA FailedTryOfNote ==
    ASSUME note \in [Notes -> NoteState], NEW n \in Notes
    PROVE  /\ WhatsApp!FailedTry(n) \in [Notes -> NoteState]
           /\ \A m \in Notes \ {n} : WhatsApp!FailedTry(n)[m] = note[m]
           /\ WhatsApp!FailedTry(n)[n].event = note[n].event
           /\ WhatsApp!FailedTry(n)[n].st \in {"queued", "exhausted"}
  <1>1. CASE note[n].tries < Retries
    <2>1. note[n].tries + 1 \in 0..Retries
      BY <1>1, RetriesAssumption DEF NoteState
    <2>. QED
      BY <1>1, <2>1 DEF WhatsApp!FailedTry, NoteState
  <1>2. CASE ~(note[n].tries < Retries)
    BY <1>2 DEF WhatsApp!FailedTry, NoteState
  <1>. QED
    BY <1>1, <1>2

WritersKept ==
    /\ note' \in [Notes -> NoteState]
    /\ writer' \in [Writers -> WriterState]
    /\ WritersOK'

LEMMA WriterAnswers ==
    ASSUME MessageTyped, NEW w \in Writers, writer[w].pc # "idle", NEW ends \in BOOLEAN,
           WhatsApp!Answer(w, ends)
    PROVE  WritersKept
  <1>. USE DEF MessageTyped
  <1>0. /\ writer' \in [Writers -> WriterState]
        /\ \A v \in Writers : writer'[v].pc # "idle" \/ writer'[v].heard => v # w /\ writer'[v] = writer[v]
    BY DEF WhatsApp!Answer, WhatsApp!WriterIdle, WriterState
  <1>1. CASE ~writer[w].heard
    <2>1. note' = note
      BY <1>1 DEF WhatsApp!Answer
    <2>. QED
      BY <1>0, <2>1, MessageConstants DEF WritersOK, WritersKept
  <1>2. CASE writer[w].heard
    <2>. DEFINE n == writer[w].note
    <2>1. n \in Notes /\ note[n].st = "running"
      BY <1>2 DEF WritersOK
    <2>2. /\ note' \in [Notes -> NoteState]
          /\ \A m \in Notes \ {n} : note'[m] = note[m]
          /\ note'[n].st # "free" => note'[n].event = note[n].event
      <3>1. CASE ends
        BY <1>2, <2>1, <3>1, RetriesAssumption DEF WhatsApp!Answer, WhatsApp!NoteFree, NoteState
      <3>2. CASE ~ends
        BY <1>2, <2>1, <3>2, FailedTryOfNote DEF WhatsApp!Answer
      <3>. QED
        BY <3>1, <3>2
    <2>3. \A v \in Writers : writer'[v].heard => writer[v].heard /\ writer'[v] = writer[v] /\ writer[v].note # n
      BY <1>0, <1>2 DEF WritersOK
    <2>4. \A m \in Notes : note'[m].st # "free" => note'[m].event \in WhatsApp!Events
      BY <2>1, <2>2 DEF WritersOK
    <2>5. \A v \in Writers : writer'[v].pc # "idle" => writer'[v].event \in WhatsApp!Events
      BY <1>0 DEF WritersOK
    <2>6. WritersOK'
      BY <2>2, <2>3, <2>4, <2>5, MessageConstants DEF WritersOK
    <2>. QED
      BY <1>0, <2>2, <2>6 DEF WritersKept
  <1>. QED
    BY <1>1, <1>2

LEMMA WriterGoes ==
    ASSUME MessageTyped, NEW w \in Writers, writer[w].pc # "idle", NEW pc, WhatsApp!Goto(w, pc),
           pc \in {"entitlement", "blocked", "claim", "exists", "duplicate", "read", "processing",
                   "insert", "complete", "lost", "release", "retrying"},
           note' = note
    PROVE  WritersKept
  <1>. USE DEF MessageTyped
  <1>1. /\ writer' \in [Writers -> WriterState]
        /\ \A v \in Writers : /\ writer'[v].pc # "idle" <=> writer[v].pc # "idle"
                              /\ writer'[v].note = writer[v].note
                              /\ writer'[v].event = writer[v].event
                              /\ writer'[v].heard = writer[v].heard
    BY DEF WhatsApp!Goto, WriterState
  <1>2. \A v \in Writers : writer'[v].pc # "idle" => writer'[v].event \in WhatsApp!Events
    BY <1>1 DEF WritersOK
  <1>3. \A v \in Writers : writer'[v].heard => /\ writer'[v].pc # "idle"
                                               /\ writer'[v].note \in Notes
                                               /\ note[writer'[v].note].st = "running"
                                               /\ note[writer'[v].note].event = writer'[v].event
    BY <1>1 DEF WritersOK
  <1>4. \A u, v \in Writers : writer'[u].heard /\ writer'[v].heard /\ u # v =>
                                 writer'[u].note # writer'[v].note
    <2>1. \A u, v \in Writers : writer[u].heard /\ writer[v].heard /\ u # v =>
                                   writer[u].note # writer[v].note
      BY DEF WritersOK
    <2>. QED
      BY <1>1, <2>1, Zenon
  <1>5. WritersOK'
    BY <1>2, <1>3, <1>4, MessageConstants DEF WritersOK
  <1>. QED
    BY <1>1, <1>5 DEF WritersKept

LEMMA NotePublished ==
    ASSUME MessageTyped, NEW e \in WhatsApp!Events, WhatsApp!Publish(e), writer' = writer
    PROVE  WritersKept
  <1>. USE DEF MessageTyped
  <1>1. PICK n \in Notes :
          /\ note[n].st = "free"
          /\ note' = [note EXCEPT ![n] = [st |-> "queued", event |-> e, tries |-> 0]]
    BY DEF WhatsApp!Publish
  <1>2. note' \in [Notes -> NoteState]
    BY <1>1, RetriesAssumption DEF NoteState
  <1>3. \A m \in Notes : IF m = n THEN note'[m].event = e ELSE note'[m] = note[m]
    BY <1>1
  <1>4. WritersOK'
    BY <1>1, <1>3, MessageConstants DEF WritersOK
  <1>. QED
    BY <1>2, <1>4 DEF WritersKept

LEMMA WritersIdle ==
    ASSUME MessageTyped, note' = note, writer' = writer
    PROVE  WritersKept
  BY MessageConstants DEF MessageTyped, WritersKept, WritersOK

-----------------------------------------------------------------------------
(* Its steps keep all that.                                                *)

\* A step of a writer or of the queue leaves the webhook and the sweep alone.
MessageKept ==
    /\ UNCHANGED <<sent, answered, receiver, resend>>
    /\ event' \in [WhatsApp!Events -> WhatsApp!Statuses]
    /\ keys' \subseteq Messages
    /\ rows' \in [Messages -> Seq(Tenants)]
    /\ told' \subseteq Messages /\ forsaken' \subseteq Messages

LEMMA MessageKeptTyped ==
    ASSUME MessageTyped, WritersKept, MessageKept
    PROVE  MessageTyped'
  <1>1. ReceiversOK' /\ ResendOK'
    BY MessageConstants DEF MessageTyped, MessageKept, ReceiversOK, ResendOK
  <1>. QED
    BY <1>1, MessageConstants DEF MessageTyped, WritersKept, MessageKept

LEMMA ReceiverTyped ==
    ASSUME MessageTyped, NEW r \in Receivers, WhatsApp!ReceiverStep(r)
    PROVE  MessageTyped' /\ blocked' = blocked
  <1>. USE DEF MessageTyped
  <1>. DEFINE Goal == MessageTyped' /\ blocked' = blocked
              Rest == /\ UNCHANGED <<blocked, sent, writer, keys, rows, resend, told, forsaken>>
                      /\ answered \subseteq answered' /\ answered' \subseteq sent
                      /\ event' \in [WhatsApp!Events -> WhatsApp!Statuses]
              Own == /\ receiver'[r] \in ReceiverState
                     /\ receiver' = [receiver EXCEPT ![r] = receiver'[r]]
                     /\ receiver'[r].batch \subseteq sent
                     /\ receiver'[r].pc = "mark" => receiver'[r].cur \in WhatsApp!Events
  <1>a. ASSUME Rest, Own, WritersKept PROVE Goal
    <2>1. /\ receiver' \in [Receivers -> ReceiverState]
          /\ \A s \in Receivers \ {r} : receiver'[s] = receiver[s]
      BY <1>a
    <2>2. ReceiversOK'
      BY <1>a, <2>1, MessageConstants DEF ReceiversOK
    <2>3. ResendOK'
      BY <1>a, MessageConstants DEF ResendOK
    <2>. QED
      BY <1>a, <2>1, <2>2, <2>3, MessageConstants DEF WritersKept
  <1>b. receiver[r] \in ReceiverState /\ receiver[r].batch \subseteq sent
    BY DEF ReceiversOK
  <1>1. ASSUME WhatsApp!MessageDelivery(r) PROVE Goal
    <2>1. PICK batch \in SUBSET sent \ {{}} :
            receiver' = [receiver EXCEPT ![r] =
                [WhatsApp!ReceiverIdle EXCEPT !.pc = "capture", !.batch = batch,
                            !.todo = {e \in WhatsApp!Events : e[2] \in batch}]]
      BY <1>1 DEF WhatsApp!MessageDelivery
    <2>2. receiver'[r] = [pc |-> "capture", batch |-> batch,
                          todo |-> {e \in WhatsApp!Events : e[2] \in batch}, queue |-> {}, cur |-> None]
      BY <2>1 DEF WhatsApp!ReceiverIdle
    <2>3. batch \in SUBSET Messages /\ batch \subseteq sent
      BY <2>1
    <2>. DEFINE todo == {e \in WhatsApp!Events : e[2] \in batch}
    <2>5. todo \in SUBSET WhatsApp!Events
      OBVIOUS
    <2>6. receiver'[r] \in ReceiverState
      <3>. HIDE DEF todo
      <3>. QED
        BY <2>2, <2>3, <2>5 DEF ReceiverState
    <2>7. Own
      BY <2>1, <2>2, <2>3, <2>6
    <2>4. Rest /\ note' = note
      BY <1>1 DEF WhatsApp!MessageDelivery
    <2>. QED
      BY <1>a, <2>4, <2>7, WritersIdle
  <1>2. ASSUME NEW e \in WhatsApp!Events, WhatsApp!StoreMessage(r, e) PROVE Goal
    <2>1. Own
      BY <1>2, <1>b DEF WhatsApp!StoreMessage, ReceiverState
    <2>2. Rest /\ note' = note
      BY <1>2 DEF WhatsApp!StoreMessage, WhatsApp!Statuses
    <2>. QED
      BY <1>a, <2>1, <2>2, WritersIdle
  <1>3. ASSUME WhatsApp!AnswerMeta(r) PROVE Goal
    <2>1. Own
      BY <1>3, <1>b DEF WhatsApp!AnswerMeta, ReceiverState
    <2>2. Rest /\ note' = note
      BY <1>3, <1>b DEF WhatsApp!AnswerMeta
    <2>. QED
      BY <1>a, <2>1, <2>2, WritersIdle
  <1>4. ASSUME NEW e \in WhatsApp!Events, WhatsApp!PublishMessage(r, e) PROVE Goal
    <2>1. Own
      <3>1. CASE receiver' = [receiver EXCEPT ![r].pc = "mark", ![r].cur = e]
        BY <3>1, <1>b DEF ReceiverState
      <3>2. CASE receiver' = [receiver EXCEPT ![r].queue = @ \ {e}]
        <4>1. receiver[r].pc = "enqueue"
          BY <1>4 DEF WhatsApp!PublishMessage
        <4>. QED
          BY <3>2, <4>1, <1>b DEF ReceiverState
      <3>. QED
        BY <1>4, <3>1, <3>2 DEF WhatsApp!PublishMessage
    <2>2. Rest
      BY <1>4 DEF WhatsApp!PublishMessage
    <2>3. WritersKept
      BY <1>4, <2>2, NotePublished, WritersIdle DEF WhatsApp!PublishMessage
    <2>. QED
      BY <1>a, <2>1, <2>2, <2>3
  <1>5. ASSUME WhatsApp!MarkPublished(r) PROVE Goal
    <2>1. Own
      BY <1>5, <1>b DEF WhatsApp!MarkPublished, ReceiverState
    <2>2. receiver[r].cur \in WhatsApp!Events
      BY <1>5 DEF WhatsApp!MarkPublished, ReceiversOK
    <2>3. event' \in [WhatsApp!Events -> WhatsApp!Statuses]
      BY <1>5, <2>2, SetEventTyped DEF WhatsApp!MarkPublished, WhatsApp!Statuses
    <2>4. Rest /\ note' = note
      BY <1>5, <2>3 DEF WhatsApp!MarkPublished
    <2>. QED
      BY <1>a, <2>1, <2>4, WritersIdle
  <1>6. ASSUME WhatsApp!ReceiverDone(r) \/ WhatsApp!ReceiverDies(r) PROVE Goal
    <2>1. receiver' = [receiver EXCEPT ![r] = WhatsApp!ReceiverIdle]
      BY <1>6 DEF WhatsApp!ReceiverDone, WhatsApp!ReceiverDies
    <2>2. Own
      BY <2>1 DEF WhatsApp!ReceiverIdle, ReceiverState
    <2>3. Rest /\ note' = note
      BY <1>6 DEF WhatsApp!ReceiverDone, WhatsApp!ReceiverDies
    <2>. QED
      BY <1>a, <2>2, <2>3, WritersIdle
  <1>. QED
    BY <1>1, <1>2, <1>3, <1>4, <1>5, <1>6 DEF WhatsApp!ReceiverStep

LEMMA NoteTyped ==
    ASSUME MessageTyped,
           \/ \E n \in Notes : WhatsApp!DeadLetterNote(n) \/ \E w \in Writers : WhatsApp!DeliverNote(n, w)
           \/ \E w \in Writers : WhatsApp!NoteAnswerLost(w)
    PROVE  MessageTyped' /\ blocked' = blocked
  <1>. USE DEF MessageTyped
  <1>1. ASSUME NEW n \in Notes, WhatsApp!DeadLetterNote(n) PROVE WritersKept /\ MessageKept
    <2>1. /\ note[n].st = "exhausted" /\ writer' = writer
          /\ note' = [note EXCEPT ![n] = WhatsApp!NoteFree]
      BY <1>1 DEF WhatsApp!DeadLetterNote
    <2>2. note[n].event \in WhatsApp!Events
      BY <2>1 DEF WritersOK
    <2>3. event' \in [WhatsApp!Events -> WhatsApp!Statuses]
      BY <1>1, <2>2, SetEventTyped DEF WhatsApp!DeadLetterNote, WhatsApp!Statuses
    <2>4. told' \subseteq Messages
      BY <1>1, <2>2, EventParts DEF WhatsApp!DeadLetterNote
    <2>5. MessageKept
      BY <1>1, <2>3, <2>4 DEF WhatsApp!DeadLetterNote, MessageKept
    <2>6. note' \in [Notes -> NoteState]
      BY <2>1, RetriesAssumption DEF WhatsApp!NoteFree, NoteState
    <2>7. \A m \in Notes : IF m = n THEN note'[m].st = "free" ELSE note'[m] = note[m]
      BY <2>1 DEF WhatsApp!NoteFree
    <2>8. WritersOK'
      BY <2>1, <2>7, MessageConstants DEF WritersOK
    <2>. QED
      BY <2>1, <2>5, <2>6, <2>8 DEF WritersKept
  <1>2. ASSUME NEW n \in Notes, NEW w \in Writers, WhatsApp!DeliverNote(n, w) PROVE WritersKept /\ MessageKept
    <2>1. /\ note[n].st = "queued" /\ writer[w].pc = "idle"
          /\ note' = [note EXCEPT ![n].st = "running"]
          /\ writer' = [writer EXCEPT ![w] = [pc |-> "entitlement", note |-> n,
                                              event |-> note[n].event, heard |-> TRUE]]
      BY <1>2 DEF WhatsApp!DeliverNote
    <2>2. note[n].event \in WhatsApp!Events
      BY <2>1 DEF WritersOK
    <2>3. /\ note' \in [Notes -> NoteState]
          /\ \A m \in Notes : /\ note'[m].event = note[m].event
                              /\ IF m = n THEN note'[m].st = "running" ELSE note'[m].st = note[m].st
      BY <2>1 DEF NoteState
    <2>4. /\ writer' \in [Writers -> WriterState]
          /\ \A v \in Writers \ {w} : writer'[v] = writer[v]
          /\ writer'[w].pc = "entitlement" /\ writer'[w].note = n /\ writer'[w].event = note[n].event
      BY <2>1, <2>2 DEF WriterState
    <2>5. \A v \in Writers : writer[v].heard => writer[v].note # n
      BY <2>1 DEF WritersOK
    <2>6. \A m \in Notes : note'[m].st # "free" => note'[m].event \in WhatsApp!Events
      BY <2>1, <2>3 DEF WritersOK
    <2>7. \A v \in Writers : writer'[v].pc # "idle" => writer'[v].event \in WhatsApp!Events
      BY <2>2, <2>4 DEF WritersOK
    <2>8. \A v \in Writers : writer'[v].heard => /\ writer'[v].pc # "idle"
                                                 /\ writer'[v].note \in Notes
                                                 /\ note'[writer'[v].note].st = "running"
                                                 /\ note'[writer'[v].note].event = writer'[v].event
      BY <2>3, <2>4 DEF WritersOK
    <2>9. \A u, v \in Writers : writer'[u].heard /\ writer'[v].heard /\ u # v =>
                                   writer'[u].note # writer'[v].note
      BY <2>4, <2>5 DEF WritersOK
    <2>10. WritersOK'
      BY <2>6, <2>7, <2>8, <2>9, MessageConstants DEF WritersOK
    <2>11. MessageKept
      BY <1>2 DEF WhatsApp!DeliverNote, MessageKept
    <2>. QED
      BY <2>3, <2>4, <2>10, <2>11 DEF WritersKept
  <1>3. ASSUME NEW w \in Writers, WhatsApp!NoteAnswerLost(w) PROVE WritersKept /\ MessageKept
    <2>. DEFINE n == writer[w].note
    <2>1. /\ writer[w].heard /\ writer' = [writer EXCEPT ![w].heard = FALSE]
          /\ note' = WhatsApp!FailedTry(n)
      BY <1>3 DEF WhatsApp!NoteAnswerLost
    <2>2. n \in Notes /\ note[n].st = "running"
      BY <2>1 DEF WritersOK
    <2>3. /\ note' \in [Notes -> NoteState]
          /\ \A m \in Notes \ {n} : note'[m] = note[m]
          /\ note'[n].event = note[n].event
      BY <2>1, <2>2, FailedTryOfNote
    <2>4. /\ writer' \in [Writers -> WriterState]
          /\ \A v \in Writers : /\ writer'[v].pc = writer[v].pc /\ writer'[v].event = writer[v].event
                                /\ writer'[v].note = writer[v].note
                                /\ writer'[v].heard => writer[v].heard /\ v # w
      BY <2>1 DEF WriterState
    <2>5. \A v \in Writers : writer[v].heard /\ v # w => writer[v].note # n
      BY <2>1 DEF WritersOK
    <2>6. \A m \in Notes : note'[m].st # "free" => note'[m].event \in WhatsApp!Events
      BY <2>2, <2>3 DEF WritersOK
    <2>7. \A v \in Writers : writer'[v].pc # "idle" => writer'[v].event \in WhatsApp!Events
      BY <2>4 DEF WritersOK
    <2>8. \A v \in Writers : writer'[v].heard => /\ writer'[v].pc # "idle"
                                                 /\ writer'[v].note \in Notes
                                                 /\ note'[writer'[v].note].st = "running"
                                                 /\ note'[writer'[v].note].event = writer'[v].event
      BY <2>3, <2>4, <2>5 DEF WritersOK
    <2>9. \A u, v \in Writers : writer'[u].heard /\ writer'[v].heard /\ u # v =>
                                   writer'[u].note # writer'[v].note
      BY <2>4 DEF WritersOK
    <2>10. WritersOK'
      BY <2>6, <2>7, <2>8, <2>9, MessageConstants DEF WritersOK
    <2>11. MessageKept
      BY <1>3 DEF WhatsApp!NoteAnswerLost, MessageKept
    <2>. QED
      BY <2>3, <2>4, <2>10, <2>11 DEF WritersKept
  <1>4. MessageTyped'
    BY <1>1, <1>2, <1>3, MessageKeptTyped
  <1>5. blocked' = blocked
    BY DEF WhatsApp!DeadLetterNote, WhatsApp!DeliverNote, WhatsApp!NoteAnswerLost
  <1>. QED
    BY <1>4, <1>5

LEMMA WriterTyped ==
    ASSUME MessageTyped, NEW w \in Writers, WhatsApp!WriterStep(w) \/ WhatsApp!WriterDies(w)
    PROVE  MessageTyped' /\ blocked' = blocked
  <1>. USE DEF MessageTyped
  <1>. DEFINE Goal == WritersKept /\ MessageKept /\ blocked' = blocked
  <1>0. writer[w].pc # "idle"
    BY DEF WhatsApp!WriterStep, WhatsApp!WriterDies, WhatsApp!WriterDbFails,
           WhatsApp!AskEntitlement, WhatsApp!MarkBlocked, WhatsApp!ClaimMessage,
           WhatsApp!LookForRow, WhatsApp!MarkDuplicate, WhatsApp!ReadEvent,
           WhatsApp!MarkProcessing, WhatsApp!InsertRow, WhatsApp!MarkOutcome,
           WhatsApp!ReleaseClaim, WhatsApp!MarkRetrying, WhatsApp!At
  <1>1. WhatsApp!EventOf(w) \in WhatsApp!Events /\ WhatsApp!MessageOf(w) \in Messages
    BY <1>0, EventParts DEF WritersOK, WhatsApp!EventOf, WhatsApp!MessageOf
  <1>a. ASSUME NEW ends \in BOOLEAN, WhatsApp!Answer(w, ends) PROVE WritersKept
    BY <1>0, <1>a, WriterAnswers
  <1>g. ASSUME NEW pc, WhatsApp!Goto(w, pc), note' = note,
               pc \in {"entitlement", "blocked", "claim", "exists", "duplicate", "read", "processing",
                       "insert", "complete", "lost", "release", "retrying"}
        PROVE  WritersKept
    BY <1>0, <1>g, WriterGoes
  <1>s. ASSUME NEW st \in WhatsApp!Statuses, WhatsApp!SetEvent(WhatsApp!EventOf(w), st) \/ event' = event
        PROVE  event' \in [WhatsApp!Events -> WhatsApp!Statuses]
    BY <1>1, <1>s, SetEventTyped
  <1>f. ASSUME WhatsApp!Forsake(w) \/ forsaken' = forsaken PROVE forsaken' \subseteq Messages
    BY <1>1, <1>f DEF WhatsApp!Forsake
  <1>2. ASSUME WhatsApp!WriterDies(w) PROVE Goal
    <2>1. /\ WhatsApp!Answer(w, FALSE)
          /\ WhatsApp!Forsake(w) \/ forsaken' = forsaken
          /\ UNCHANGED <<blocked, sent, answered, receiver, event, keys, rows, resend, told>>
      BY <1>2 DEF WhatsApp!WriterDies
    <2>. QED
      BY <2>1, <1>a, <1>f DEF MessageKept
  <1>3. ASSUME WhatsApp!WriterDbFails(w) PROVE Goal
    <2>1. /\ WhatsApp!Answer(w, FALSE)
          /\ WhatsApp!Forsake(w) \/ forsaken' = forsaken
          /\ UNCHANGED <<blocked, sent, answered, receiver, keys, rows, resend, told>>
      BY <1>3 DEF WhatsApp!WriterDbFails
    <2>2. \E st \in WhatsApp!Statuses : WhatsApp!SetEvent(WhatsApp!EventOf(w), st) \/ event' = event
      BY <1>3 DEF WhatsApp!WriterDbFails, WhatsApp!Statuses
    <2>. QED
      BY <2>1, <2>2, <1>a, <1>f, <1>s DEF MessageKept
  <1>4. ASSUME WhatsApp!AskEntitlement(w) \/ WhatsApp!LookForRow(w) \/ WhatsApp!ReadEvent(w) PROVE Goal
    <2>1. PICK pc \in {"blocked", "claim", "duplicate", "read", "processing"} : WhatsApp!Goto(w, pc)
      BY <1>4 DEF WhatsApp!AskEntitlement, WhatsApp!LookForRow, WhatsApp!ReadEvent
    <2>2. UNCHANGED <<blocked, sent, answered, receiver, event, note, keys, rows, resend,
                      told, forsaken>>
      BY <1>4 DEF WhatsApp!AskEntitlement, WhatsApp!LookForRow, WhatsApp!ReadEvent
    <2>. QED
      BY <2>1, <2>2, <1>g DEF MessageKept
  <1>5. ASSUME WhatsApp!MarkBlocked(w) \/ WhatsApp!MarkDuplicate(w) PROVE Goal
    <2>1. /\ \E st \in {"blocked", "duplicate"} : WhatsApp!SetEvent(WhatsApp!EventOf(w), st)
          /\ told' \subseteq told \cup {WhatsApp!MessageOf(w)}
          /\ WhatsApp!Answer(w, TRUE)
          /\ UNCHANGED <<blocked, sent, answered, receiver, keys, rows, resend, forsaken>>
      BY <1>5 DEF WhatsApp!MarkBlocked, WhatsApp!MarkDuplicate
    <2>2. event' \in [WhatsApp!Events -> WhatsApp!Statuses]
      BY <2>1, <1>s DEF WhatsApp!Statuses
    <2>. QED
      BY <2>1, <2>2, <1>a, <1>1 DEF MessageKept
  <1>6. ASSUME WhatsApp!ClaimMessage(w) PROVE Goal
    <2>1. /\ keys' \subseteq keys \cup {WhatsApp!MessageOf(w)}
          /\ WhatsApp!Goto(w, "exists") \/ WhatsApp!Goto(w, "duplicate")
          /\ UNCHANGED <<blocked, sent, answered, receiver, event, note, rows, resend, told, forsaken>>
      BY <1>6 DEF WhatsApp!ClaimMessage
    <2>. QED
      BY <2>1, <1>g, <1>1 DEF MessageKept
  <1>7. ASSUME WhatsApp!MarkProcessing(w) PROVE Goal
    <2>1. event' \in [WhatsApp!Events -> WhatsApp!Statuses]
      BY <1>7, <1>s DEF WhatsApp!MarkProcessing, WhatsApp!Statuses
    <2>2. /\ WhatsApp!Goto(w, "insert")
          /\ UNCHANGED <<blocked, sent, answered, receiver, note, keys, rows, resend, told, forsaken>>
      BY <1>7 DEF WhatsApp!MarkProcessing
    <2>. QED
      BY <2>1, <2>2, <1>g DEF MessageKept
  <1>8. ASSUME WhatsApp!InsertRow(w) PROVE Goal
    <2>1. /\ rows' \in {rows, WhatsApp!RowsWith(WhatsApp!EventOf(w))}
          /\ \E pc \in {"lost", "complete", "release"} : WhatsApp!Goto(w, pc)
          /\ UNCHANGED <<blocked, sent, answered, receiver, event, note, keys, resend, told, forsaken>>
      BY <1>8 DEF WhatsApp!InsertRow
    <2>2. rows' \in [Messages -> Seq(Tenants)]
      BY <2>1, <1>1, RowsWithTyped
    <2>. QED
      BY <2>1, <2>2, <1>g DEF MessageKept
  <1>9. ASSUME WhatsApp!MarkOutcome(w) PROVE Goal
    <2>1. /\ \/ \E st \in {"completed", "duplicate"} : WhatsApp!SetEvent(WhatsApp!EventOf(w), st)
             \/ event' = event
          /\ \/ WhatsApp!Answer(w, TRUE)
             \/ WhatsApp!Goto(w, "release") /\ note' = note
          /\ UNCHANGED <<blocked, sent, answered, receiver, keys, rows, resend, told, forsaken>>
      BY <1>9 DEF WhatsApp!MarkOutcome
    <2>2. event' \in [WhatsApp!Events -> WhatsApp!Statuses]
      BY <2>1, <1>s DEF WhatsApp!Statuses
    <2>. QED
      BY <2>1, <2>2, <1>a, <1>g DEF MessageKept
  <1>10. ASSUME WhatsApp!ReleaseClaim(w) PROVE Goal
    <2>1. /\ keys' \subseteq keys
          /\ WhatsApp!Forsake(w) \/ forsaken' = forsaken
          /\ WhatsApp!Goto(w, "retrying")
          /\ UNCHANGED <<blocked, sent, answered, receiver, event, note, rows, resend, told>>
      BY <1>10 DEF WhatsApp!ReleaseClaim
    <2>. QED
      BY <2>1, <1>g, <1>f DEF MessageKept
  <1>11. ASSUME WhatsApp!MarkRetrying(w) PROVE Goal
    <2>1. event' \in [WhatsApp!Events -> WhatsApp!Statuses]
      BY <1>11, <1>s DEF WhatsApp!MarkRetrying, WhatsApp!Statuses
    <2>2. /\ WhatsApp!Answer(w, FALSE)
          /\ WhatsApp!Forsake(w) \/ forsaken' = forsaken
          /\ UNCHANGED <<blocked, sent, answered, receiver, keys, rows, resend, told>>
      BY <1>11 DEF WhatsApp!MarkRetrying
    <2>. QED
      BY <2>1, <2>2, <1>a, <1>f DEF MessageKept
  <1>12. Goal
    BY <1>2, <1>3, <1>4, <1>5, <1>6, <1>7, <1>8, <1>9, <1>10, <1>11 DEF WhatsApp!WriterStep
  <1>. QED
    BY <1>12, MessageKeptTyped

LEMMA ResendTyped ==
    ASSUME MessageTyped, WhatsApp!ResendStep
    PROVE  MessageTyped' /\ blocked' = blocked
  <1>. USE DEF MessageTyped
  <1>. DEFINE Goal == MessageTyped' /\ blocked' = blocked
              Rest == /\ UNCHANGED <<blocked, sent, answered, receiver, keys, rows, told, forsaken>>
                      /\ event' \in [WhatsApp!Events -> WhatsApp!Statuses]
              Own == /\ resend' \in ResendState
                     /\ resend'.pc = "mark" => resend'.cur \in WhatsApp!Events
  <1>a. ASSUME Rest, Own, WritersKept PROVE Goal
    <2>1. ReceiversOK' /\ ResendOK'
      BY <1>a, MessageConstants DEF ReceiversOK, ResendOK
    <2>. QED
      BY <1>a, <2>1, MessageConstants DEF WritersKept
  <1>1. ASSUME WhatsApp!ResendStart PROVE Goal
    <2>1. resend' = [pc |-> "publish", list |-> {e \in WhatsApp!Events : event[e] = "received"}, cur |-> None]
      BY <1>1 DEF WhatsApp!ResendStart, WhatsApp!ResendIdle
    <2>2. Own
      BY <2>1 DEF ResendState
    <2>3. Rest /\ UNCHANGED <<note, writer>>
      BY <1>1 DEF WhatsApp!ResendStart
    <2>. QED
      BY <1>a, <2>2, <2>3, WritersIdle
  <1>2. ASSUME NEW e \in WhatsApp!Events, WhatsApp!ResendMessage(e) PROVE Goal
    <2>1. Own
      BY <1>2 DEF WhatsApp!ResendMessage, ResendState
    <2>2. Rest /\ WhatsApp!Publish(e) /\ writer' = writer
      BY <1>2 DEF WhatsApp!ResendMessage
    <2>. QED
      BY <1>a, <2>1, <2>2, NotePublished
  <1>3. ASSUME NEW e \in WhatsApp!Events, WhatsApp!ResendFails(e) PROVE Goal
    <2>1. Own
      BY <1>3 DEF WhatsApp!ResendFails, ResendState
    <2>2. Rest /\ UNCHANGED <<note, writer>>
      BY <1>3 DEF WhatsApp!ResendFails
    <2>. QED
      BY <1>a, <2>1, <2>2, WritersIdle
  <1>4. ASSUME WhatsApp!MarkResent PROVE Goal
    <2>1. resend.cur \in WhatsApp!Events
      BY <1>4 DEF WhatsApp!MarkResent, ResendOK
    <2>2. event' \in [WhatsApp!Events -> WhatsApp!Statuses]
      BY <1>4, <2>1, SetEventTyped DEF WhatsApp!MarkResent, WhatsApp!Statuses
    <2>3. Own
      BY <1>4 DEF WhatsApp!MarkResent, ResendState
    <2>4. Rest /\ UNCHANGED <<note, writer>>
      BY <1>4, <2>2 DEF WhatsApp!MarkResent
    <2>. QED
      BY <1>a, <2>3, <2>4, WritersIdle
  <1>5. ASSUME WhatsApp!ResendDone \/ WhatsApp!ResendDies PROVE Goal
    <2>1. resend' = [pc |-> "idle", list |-> {}, cur |-> None]
      BY <1>5 DEF WhatsApp!ResendDone, WhatsApp!ResendDies, WhatsApp!ResendIdle
    <2>2. Own
      BY <2>1 DEF ResendState
    <2>3. Rest /\ UNCHANGED <<note, writer>>
      BY <1>5 DEF WhatsApp!ResendDone, WhatsApp!ResendDies
    <2>. QED
      BY <1>a, <2>2, <2>3, WritersIdle
  <1>. QED
    BY <1>1, <1>2, <1>3, <1>4, <1>5 DEF WhatsApp!ResendStep

LEMMA MessageSilent ==
    ASSUME MessageTyped, sent \subseteq sent', sent' \subseteq Messages, keys' \subseteq Messages,
           UNCHANGED <<answered, receiver, event, note, writer, rows, resend, told, forsaken>>
    PROVE  MessageTyped'
  <1>1. ReceiversOK' /\ ResendOK'
    BY MessageConstants DEF MessageTyped, ReceiversOK, ResendOK
  <1>2. WritersKept
    BY WritersIdle
  <1>. QED
    BY <1>1, <1>2, MessageConstants DEF MessageTyped, WritersKept

LEMMA MessageNextTyped ==
    ASSUME MessageTyped, WhatsApp!Next
    PROVE  MessageTyped' /\ blocked' = blocked
  <1>1. ASSUME NEW m \in Messages, WhatsApp!MessageSent(m) \/ WhatsApp!KeyExpires(m)
        PROVE  MessageTyped' /\ blocked' = blocked
    <2>1. /\ sent' \in {sent, sent \cup {m}} /\ keys' \subseteq keys
          /\ UNCHANGED <<blocked, answered, receiver, event, note, writer, rows, resend,
                         told, forsaken>>
      BY <1>1 DEF WhatsApp!MessageSent, WhatsApp!KeyExpires
    <2>. QED
      BY <2>1, MessageSilent DEF MessageTyped
  <1>2. ASSUME NEW r \in Receivers, WhatsApp!ReceiverStep(r)
        PROVE  MessageTyped' /\ blocked' = blocked
    BY <1>2, ReceiverTyped
  <1>3. ASSUME \/ \E n \in Notes : WhatsApp!DeadLetterNote(n) \/ \E w \in Writers : WhatsApp!DeliverNote(n, w)
               \/ \E w \in Writers : WhatsApp!NoteAnswerLost(w)
        PROVE  MessageTyped' /\ blocked' = blocked
    BY <1>3, NoteTyped
  <1>4. ASSUME NEW w \in Writers, WhatsApp!WriterStep(w) \/ WhatsApp!WriterDies(w)
        PROVE  MessageTyped' /\ blocked' = blocked
    BY <1>4, WriterTyped
  <1>5. CASE WhatsApp!ResendStep
    BY <1>5, ResendTyped
  <1>. QED
    BY <1>1, <1>2, <1>3, <1>4, <1>5 DEF WhatsApp!Next

-----------------------------------------------------------------------------
(* The three together.                                                     *)

SharedInv == Typed /\ Traced /\ LegacyTyped /\ CompletedInv /\ MessageTyped /\ SharedRows

\* A tenant's step makes a lead appear, writes the row of one that Meta has
\* for an owner of it, or does neither.
LEMMA TenantRows ==
    ASSUME Typed, Traced, [Next]_vars
    PROVE  UNCHANGED <<submitted, leads>> \/ Appears \/ Records
  <1>1. CASE leads' = leads
    BY <1>1, Submission DEF LeadSubmitted, Appears
  <1>2. ASSUME submitted' = submitted, NEW e \in Events, Writing(e), leads' = RowsAfterInsert(e)
        PROVE  Records
    <2>1. e.lead \in Leads /\ e.tenant \in Tenants /\ e.tenant \in Owners[e.lead]
      BY DEF Events
    <2>2. e.lead \in submitted
      BY <1>2 DEF Writing, At, Event, Traced, QueueTraced, SweepTraced, Exists
    <2>3. leads' = Legacy!RowsAfter(e.tenant, e.lead)
      BY <1>2, TenantInsert DEF Typed, TypeOK
    <2>. QED
      BY <1>2, <2>1, <2>2, <2>3 DEF Records
  <1>. QED
    BY <1>1, <1>2, RowsStep

LEMMA NextRows ==
    ASSUME SharedInv, [SharedNext]_allVars
    PROVE  UNCHANGED <<submitted, leads>> \/ Appears \/ Records
  <1>1. CASE TenantStep
    BY <1>1, TenantRows DEF TenantStep, SharedInv
  <1>2. CASE LegacyStep
    <2>1. RowStep /\ submitted' = submitted
      BY <1>2, LegacyNextTyped, LegacyShares DEF LegacyStep, SharedInv
    <2>2. ASSUME NEW t \in Tenants, NEW l \in Leads, Routed(t, l), leads' = Legacy!RowsAfter(t, l)
          PROVE  Records
      BY <2>1, <2>2 DEF Records, Routed
    <2>. QED
      BY <2>1, <2>2 DEF RowStep
  <1>3. CASE WhatsAppStep \/ UNCHANGED allVars
    BY <1>3 DEF WhatsAppStep, allVars, vars
  <1>. QED
    BY <1>1, <1>2, <1>3 DEF SharedNext

\* Rows stay, each lead's only one for a tenant whose lead it is.
LEMMA RowsShared ==
    ASSUME Typed, SharedRows, UNCHANGED <<submitted, leads>> \/ Appears \/ Records
    PROVE  /\ submitted \subseteq submitted' /\ submitted' \subseteq Leads
           /\ leads' \in [Leads -> Seq(Tenants)]
           /\ SharedRows'
           /\ \A l \in Leads : Recorded(l) => leads'[l] = leads[l]
  <1>. USE DEF Typed, TypeOK
  <1>1. CASE leads' = leads
    <2>1. submitted' = submitted \/ Appears
      BY <1>1 DEF Records
    <2>. QED
      BY <1>1, <2>1 DEF Appears, SharedRows
  <1>2. CASE Records
    <2>1. PICK t \in Tenants, l \in Leads :
            t \in Owners[l] \cup Routes[l] /\ leads' = Legacy!RowsAfter(t, l)
      BY <1>2 DEF Records
    <2>2. /\ leads' \in [Leads -> Seq(Tenants)]
          /\ \A k \in Leads : Recorded(k) \/ k # l => leads'[k] = leads[k]
          /\ ~Recorded(l) => leads'[l] = <<t>>
      BY <2>1, RowAfter
    <2>3. SharedRows'
      BY <2>1, <2>2 DEF SharedRows, Recorded
    <2>. QED
      BY <1>2, <2>2, <2>3 DEF Records
  <1>. QED
    BY <1>1, <1>2 DEF Appears

\* What the tenants' workers said stays true when others write rows.
LEMMA QuietCompleted ==
    ASSUME Typed, CompletedInv, UNCHANGED <<status, worker>>,
           \A l \in Leads : Recorded(l) => leads'[l] = leads[l]
    PROVE  CompletedInv'
  <1>1. ASSUME NEW e \in Events, leads[e.lead] = <<e.tenant>>
        PROVE  leads'[e.lead] = <<e.tenant>>
    BY <1>1 DEF Events, Recorded
  <1>2. CompletedHasLead'
    BY <1>1, Constants DEF CompletedInv, CompletedHasLead
  <1>3. ASSUME NEW w \in Workers, At(w, "complete")
        PROVE  leads'[Event(w).lead] = <<Event(w).tenant>>
    <2>1. Event(w) \in Events
      BY <1>3 DEF Typed, BusyHasEvent, At, Event
    <2>. QED
      BY <1>1, <1>3, <2>1 DEF CompletedInv, AboutToComplete
  <1>4. AboutToComplete'
    BY <1>3 DEF AboutToComplete, At, Event
  <1>. QED
    BY <1>2, <1>4 DEF CompletedInv

LEMMA SharedStep ==
    ASSUME SharedInv, [SharedNext]_allVars
    PROVE  SharedInv'
  <1>. USE DEF SharedInv
  <1>0. /\ submitted \subseteq submitted' /\ submitted' \subseteq Leads
        /\ leads' \in [Leads -> Seq(Tenants)]
        /\ SharedRows'
        /\ \A l \in Leads : Recorded(l) => leads'[l] = leads[l]
    BY NextRows, RowsShared
  <1>q. ASSUME UNCHANGED tenantVars, aged' = aged, claims' \subseteq Leads, blocked' = blocked
        PROVE  Typed' /\ Traced' /\ CompletedInv'
    <2>1. UNCHANGED <<acked, hook, status, msg, worker, sweep, dropped>>
      BY <1>q DEF tenantVars
    <2>2. aged' \subseteq Leads /\ blocked' \subseteq Tenants
      BY <1>q DEF Typed, TypeOK
    <2>. QED
      BY <1>q, <1>0, <2>1, <2>2, QuietTyped, QuietTraced, QuietCompleted
  <1>l. ASSUME UNCHANGED legacyVars PROVE LegacyTyped'
    BY <1>l, <1>0, OtherTyped DEF legacyVars
  <1>w. ASSUME UNCHANGED whatsappVars PROVE MessageTyped'
    BY <1>w, MessageSilent DEF whatsappVars, MessageTyped
  <1>1. CASE TenantStep
    <2>1. Typed' /\ Traced' /\ CompletedInv'
      BY <1>1, TypedStep, TracedStep, CompletedPreserved DEF TenantStep
    <2>2. LegacyTyped'
      BY <1>1, <1>0, OtherTyped DEF TenantStep, legacyVars
    <2>. QED
      BY <1>0, <1>1, <1>w, <2>1, <2>2 DEF TenantStep
  <1>2. CASE LegacyStep
    <2>1. LegacyTyped' /\ claims' \subseteq Leads /\ UNCHANGED <<aged, blocked>>
      BY <1>2, LegacyNextTyped, LegacyShares DEF LegacyStep
    <2>. QED
      BY <1>0, <1>2, <1>q, <1>w, <2>1 DEF LegacyStep
  <1>3. CASE WhatsAppStep
    <2>1. MessageTyped' /\ blocked' = blocked
      BY <1>3, MessageNextTyped DEF WhatsAppStep
    <2>2. claims' \subseteq Leads /\ aged' = aged /\ UNCHANGED tenantVars /\ UNCHANGED legacyVars
      BY <1>3 DEF WhatsAppStep, Typed, TypeOK
    <2>. QED
      BY <1>0, <1>q, <1>l, <2>1, <2>2
  <1>4. CASE UNCHANGED allVars
    <2>1. /\ UNCHANGED tenantVars /\ UNCHANGED legacyVars /\ UNCHANGED whatsappVars
          /\ claims' \subseteq Leads /\ UNCHANGED <<aged, blocked>>
      BY <1>4 DEF allVars, vars, tenantVars, Typed, TypeOK
    <2>. QED
      BY <1>0, <1>q, <1>l, <1>w, <2>1
  <1>. QED
    BY <1>1, <1>2, <1>3, <1>4 DEF SharedNext

LEMMA MessageInit ==
    ASSUME WhatsApp!Init
    PROVE  MessageTyped
  <1>. USE DEF WhatsApp!Init
  <1>1. receiver \in [Receivers -> ReceiverState] /\ ReceiversOK
    BY DEF WhatsApp!ReceiverIdle, ReceiverState, ReceiversOK
  <1>2. event \in [WhatsApp!Events -> WhatsApp!Statuses]
    BY DEF WhatsApp!Statuses
  <1>3. /\ note \in [Notes -> NoteState] /\ writer \in [Writers -> WriterState]
        /\ \A n \in Notes : note[n].st = "free"
        /\ \A w \in Writers : writer[w].pc = "idle" /\ ~writer[w].heard
    BY RetriesAssumption DEF WhatsApp!NoteFree, WhatsApp!WriterIdle, NoteState, WriterState
  <1>4. WritersOK
    BY <1>3 DEF WritersOK
  <1>5. resend \in ResendState /\ ResendOK
    BY DEF WhatsApp!ResendIdle, ResendState, ResendOK
  <1>6. rows \in [Messages -> Seq(Tenants)]
    <2>1. << >> \in Seq(Tenants)
      OBVIOUS
    <2>. QED
      BY <2>1
  <1>. QED
    BY <1>1, <1>2, <1>3, <1>4, <1>5, <1>6 DEF MessageTyped

LEMMA LegacyInit ==
    ASSUME Legacy!Init
    PROVE  LegacyTyped
  <1>. USE DEF Legacy!Init, Legacy!RawFree, Legacy!CallIdle, Legacy!TaskFree, Legacy!JobIdle,
               Legacy!ScanIdle
  <1>1. /\ raw \in [Raws -> Legacy!RawState]
        /\ \A r \in Raws : raw[r].st = "none"
    BY DEF Legacy!RawState
  <1>2. /\ call \in [Calls -> Legacy!CallState]
        /\ \A c \in Calls : call[c].pc = "idle" /\ call[c].todo = {}
    BY DEF Legacy!CallState
  <1>3. /\ task \in [Tasks -> Legacy!TaskState]
        /\ \A q \in Tasks : task[q].st = "free"
    BY RetriesAssumption DEF Legacy!TaskState
  <1>4. /\ job \in [Jobs -> Legacy!JobState]
        /\ \A j \in Jobs : job[j].pc = "idle" /\ ~job[j].heard
    BY DEF Legacy!JobState
  <1>5. scan \in Legacy!ScanState /\ scan.missing = {} /\ scan.list = {} /\ scan.pc = "idle"
    BY DEF Legacy!ScanState
  <1>6. Legacy!TypeOK
    BY <1>1, <1>2, <1>3, <1>4, <1>5 DEF Legacy!TypeOK
  <1>7. RawsRouted /\ CallsRouted /\ ScanRouted
    BY <1>1, <1>2, <1>5 DEF RawsRouted, CallsRouted, ScanRouted, Stored
  <1>8. JobsOK
    BY <1>3, <1>4 DEF JobsOK, TasksStored, JobsStored, JobsHeard
  <1>. QED
    BY <1>6, <1>7, <1>8 DEF LegacyTyped

LEMMA AlwaysShared == SharedSpec => []SharedInv
  <1>1. SharedInit => SharedInv
    <2>1. Init => Traced
      BY DEF Init, Traced, HooksTraced, QueueTraced, StatusTraced, SweepTraced, HookIdle,
             MsgFree, WorkerIdle, SweepIdle, Live
    <2>2. Init => CompletedInv
      BY DEF Init, CompletedInv, CompletedHasLead, AboutToComplete, At, WorkerIdle
    <2>3. Init => SharedRows
      BY DEF Init, SharedRows
    <2>. QED
      BY <2>1, <2>2, <2>3, TypedInit, LegacyInit, MessageInit DEF SharedInit, SharedInv
  <1>2. SharedInv /\ [SharedNext]_allVars => SharedInv'
    BY SharedStep
  <1>. QED
    BY <1>1, <1>2, PTL DEF SharedSpec

-----------------------------------------------------------------------------
(* The theorems.                                                           *)

\* The types of all three pipelines hold in every reachable state.
THEOREM SharedTypeCorrect == SharedSpec => []SharedTypeOK
  <1>1. MessageTyped => WhatsApp!TypeOK
    BY DEF MessageTyped, WhatsApp!TypeOK, ReceiverState, NoteState, WriterState, ResendState
  <1>2. SharedInv => SharedTypeOK
    BY <1>1 DEF SharedInv, SharedTypeOK, Typed, LegacyTyped
  <1>. QED
    BY <1>2, AlwaysShared, PTL

\* No race of workers, jobs and the two halves of the sweep gives a lead two
\* rows: the unique index is enough for both Meta pipelines at once.
THEOREM SharedOneRow == SharedSpec => []OneRowPerLead
  <1>1. ASSUME SharedInv, NEW l \in Leads
        PROVE  Len(leads[l]) <= 1
    <2>1. CASE leads[l] = << >>
      BY <2>1
    <2>2. ASSUME NEW t \in Owners[l] \cup Routes[l], leads[l] = <<t>>
          PROVE  Len(leads[l]) <= 1
      <3>1. t \in Tenants
        BY OwnersAssumption, RoutesAssumption
      <3>2. Len(<<t>>) = 1
        BY <3>1
      <3>. QED
        BY <2>2, <3>2
    <2>. QED
      BY <1>1, <2>1, <2>2 DEF SharedInv, SharedRows
  <1>2. SharedInv => OneRowPerLead
    BY <1>1 DEF OneRowPerLead
  <1>. QED
    BY <1>2, AlwaysShared, PTL

\* "completed" is still true of a tenant's event when the campaigns' jobs and
\* their half of the sweep write rows of the same leads.
THEOREM SharedCompleted == SharedSpec => []CompletedHasLead
  <1>1. SharedInv => CompletedHasLead
    BY DEF SharedInv, CompletedInv
  <1>. QED
    BY <1>1, AlwaysShared, PTL

\* A step of any pipeline maps to a new lead at Meta, to one record of a lead
\* Meta has for a tenant whose lead it is, or to a stutter.
LEMMA SharedBookStep ==
    ASSUME SharedInv, [SharedNext]_allVars
    PROVE  [SharedBook!Next]_(SharedBook!bookVars)
  <1>. USE DEF SharedInv, Typed, TypeOK
  <1>1. CASE UNCHANGED <<submitted, leads>>
    <2>1. Holder' = Holder
      BY <1>1 DEF Holder, Recorded
    <2>. QED
      BY <1>1, <2>1 DEF SharedBook!bookVars, Holder
  <1>2. CASE Appears
    <2>1. Holder' = Holder
      BY <1>2 DEF Holder, Recorded, Appears
    <2>. QED
      BY <1>2, <2>1 DEF Appears, SharedBook!Next, SharedBook!Appear, Holder
  <1>3. CASE Records
    <2>1. PICK t \in Tenants, l \in Leads :
            /\ l \in submitted /\ t \in Owners[l] \cup Routes[l]
            /\ leads' = Legacy!RowsAfter(t, l)
      BY <1>3 DEF Records
    <2>2. submitted' = submitted
      BY <1>3 DEF Records
    <2>3. CASE Recorded(l)
      <3>1. Holder' = Holder
        BY <2>1, <2>3 DEF Holder, Recorded, Legacy!RowsAfter, Legacy!Recorded
      <3>. QED
        BY <2>2, <3>1 DEF SharedBook!bookVars, Holder
    <2>4. CASE ~Recorded(l)
      <3>1. /\ leads'[l] = <<t>>
            /\ \A k \in Leads \ {l} : leads'[k] = leads[k]
        BY <2>1, <2>4, RowAfter
      <3>2. Holder[l] = None
        BY <2>4, HolderOf DEF Recorded
      <3>3. Holder'[l] = t
        <4>1. Holder'[l] = IF leads'[l] # << >> THEN Head(leads'[l]) ELSE None
          BY DEF Holder, Recorded
        <4>2. <<t>> # << >> /\ Head(<<t>>) = t
          OBVIOUS
        <4>. QED
          BY <3>1, <4>1, <4>2
      <3>4. \A k \in Leads \ {l} : Holder'[k] = Holder[k]
        BY <3>1 DEF Holder, Recorded
      <3>5. Holder' = [Holder EXCEPT ![l] = t]
        BY <3>3, <3>4 DEF Holder
      <3>6. SharedBook!Record(l, t)
        BY <2>1, <2>2, <3>2, <3>5 DEF SharedBook!Record, Holder
      <3>. QED
        BY <3>6 DEF SharedBook!Next
    <2>. QED
      BY <2>3, <2>4
  <1>. QED
    BY <1>1, <1>2, <1>3, NextRows

\* The three pipelines and the sweep together implement LeadBook: whoever is
\* first records a lead, for a tenant whose Page or campaign it is, for good.
THEOREM SharedRefinement == SharedSpec => ImplementsSharedBook
  <1>1. SharedInit => SharedBook!Init
    BY DEF SharedInit, Init, SharedBook!Init, Recorded
  <1>2. SharedInv /\ [SharedNext]_allVars => [SharedBook!Next]_(SharedBook!bookVars)
    BY SharedBookStep
  <1>. QED
    BY <1>1, <1>2, AlwaysShared, PTL DEF SharedSpec, ImplementsSharedBook, SharedBook!Spec

-----------------------------------------------------------------------------
(* No acknowledged message is forgotten.                                   *)

\* A writer that has the claim of its message, or that QStash listens to and
\* that may still get it: whatever it does, its message is not forgotten.
Pursues(w) ==
    \/ writer[w].pc \in WhatsApp!Claiming
    \/ writer[w].heard /\ writer[w].pc \in {"entitlement", "blocked", "claim"}

Waits(n) == note[n].st \in {"queued", "exhausted"}

\* The message of a published event stays in such hands until it is settled;
\* a writer that takes it for a duplicate does not count.
Solid(m) ==
    \/ WhatsApp!Written(m) \/ m \in told \/ m \in forsaken
    \/ \E n \in Notes : Waits(n) /\ note[n].event[2] = m
    \/ \E w \in Writers : Pursues(w) /\ WhatsApp!MessageOf(w) = m

\* A key is left by a writer that is still to release it, or for a reason.
KeysBacked ==
    \A m \in keys : \/ WhatsApp!Written(m) \/ m \in forsaken
                    \/ \E w \in Writers : /\ writer[w].pc \in WhatsApp!Claiming \ {"retrying"}
                                          /\ WhatsApp!MessageOf(w) = m

EndsWritten ==
    \A w \in Writers : writer[w].pc \in {"complete", "lost"} => WhatsApp!Written(WhatsApp!MessageOf(w))

\* A message that was published once, for whichever tenant.
InHand(m) ==
    \/ \E n \in Notes : note[n].st # "free" /\ note[n].event[2] = m
    \/ \E w \in Writers : writer[w].pc # "idle" /\ WhatsApp!MessageOf(w) = m
    \/ \E r \in Receivers : receiver[r].pc = "mark" /\ receiver[r].cur[2] = m
    \/ resend.pc = "mark" /\ resend.cur[2] = m
    \/ \E e \in WhatsApp!Events : e[2] = m /\ event[e] \notin {"none", "received"}

PublishedSolid == \A m \in Messages : InHand(m) => Solid(m)

\* Every tenant's event is stored before the answer, or still to be.
CaptureKept ==
    /\ \A r \in Receivers : receiver[r].pc = "capture" =>
         \A e \in WhatsApp!Events :
            e[2] \in receiver[r].batch => e \in receiver[r].todo \/ event[e] # "none"
    /\ \A e \in WhatsApp!Events : e[2] \in answered => event[e] # "none"

ForgetInv == KeysBacked /\ EndsWritten /\ PublishedSolid /\ CaptureKept

\* What settles a message stays, and so does a stored event.
LEMMA SettledStays ==
    ASSUME MessageTyped, WhatsApp!Next
    PROVE  /\ told \subseteq told' /\ forsaken \subseteq forsaken'
           /\ \A m \in Messages : WhatsApp!Written(m) => rows'[m] # << >>
  <1>. DEFINE Same == rows' = rows
              Goal == /\ told \subseteq told' /\ forsaken \subseteq forsaken'
                      /\ Same \/ \E e \in WhatsApp!Events : rows' = WhatsApp!RowsWith(e)
  <1>1. ASSUME NEW r \in Receivers, WhatsApp!ReceiverStep(r) PROVE Goal
    BY <1>1 DEF WhatsApp!ReceiverStep, WhatsApp!MessageDelivery, WhatsApp!AnswerMeta,
                WhatsApp!MarkPublished, WhatsApp!ReceiverDone, WhatsApp!ReceiverDies,
                WhatsApp!StoreMessage, WhatsApp!PublishMessage
  <1>2. ASSUME NEW w \in Writers, WhatsApp!WriterStep(w) PROVE Goal
    <2>1. CASE WhatsApp!InsertRow(w)
      <3>1. WhatsApp!EventOf(w) \in WhatsApp!Events
        BY <2>1 DEF WhatsApp!InsertRow, WhatsApp!At, WhatsApp!EventOf, MessageTyped, WritersOK
      <3>. QED
        BY <2>1, <3>1 DEF WhatsApp!InsertRow
    <2>2. CASE ~WhatsApp!InsertRow(w)
      BY <1>2, <2>2
      DEF WhatsApp!WriterStep, WhatsApp!WriterDbFails, WhatsApp!AskEntitlement,
          WhatsApp!MarkBlocked, WhatsApp!ClaimMessage, WhatsApp!LookForRow,
          WhatsApp!MarkDuplicate, WhatsApp!ReadEvent, WhatsApp!MarkProcessing,
          WhatsApp!MarkOutcome, WhatsApp!ReleaseClaim, WhatsApp!MarkRetrying, WhatsApp!Forsake
    <2>. QED
      BY <2>1, <2>2
  <1>3. ASSUME WhatsApp!ResendStep PROVE Goal
    BY <1>3 DEF WhatsApp!ResendStep, WhatsApp!ResendStart, WhatsApp!MarkResent,
                WhatsApp!ResendDone, WhatsApp!ResendDies, WhatsApp!ResendMessage,
                WhatsApp!ResendFails
  <1>4. Goal
    BY <1>1, <1>2, <1>3
    DEF WhatsApp!Next, WhatsApp!MessageSent, WhatsApp!KeyExpires, WhatsApp!DeadLetterNote,
        WhatsApp!DeliverNote, WhatsApp!NoteAnswerLost, WhatsApp!WriterDies, WhatsApp!Forsake
  <1>5. ASSUME NEW m \in Messages, WhatsApp!Written(m) PROVE rows'[m] # << >>
    <2>1. CASE Same
      BY <1>5, <2>1 DEF WhatsApp!Written
    <2>2. ASSUME NEW e \in WhatsApp!Events, rows' = WhatsApp!RowsWith(e) PROVE rows'[m] # << >>
      <3>1. CASE WhatsApp!Written(e[2])
        BY <1>5, <2>2, <3>1 DEF WhatsApp!RowsWith, WhatsApp!Written
      <3>2. CASE ~WhatsApp!Written(e[2])
        <4>1. m # e[2]
          BY <1>5, <3>2
        <4>2. rows' = [rows EXCEPT ![e[2]] = <<e[1]>>]
          BY <2>2, <3>2 DEF WhatsApp!RowsWith
        <4>3. rows'[m] = rows[m]
          BY <4>1, <4>2, Zenon DEF MessageTyped
        <4>. QED
          BY <1>5, <4>3 DEF WhatsApp!Written
      <3>. QED
        BY <3>1, <3>2
    <2>. QED
      BY <1>4, <2>1, <2>2
  <1>. QED
    BY <1>4, <1>5

\* An answer frees or fails the message of the writer that is listened to,
\* and touches no other.
LEMMA AnswerEffect ==
    ASSUME MessageTyped, NEW w \in Writers, writer[w].pc # "idle", NEW ends \in BOOLEAN,
           WhatsApp!Answer(w, ends)
    PROVE  /\ \A v \in Writers \ {w} : writer'[v] = writer[v]
           /\ writer'[w].pc = "idle"
           /\ \A n \in Notes : Waits(n) => note'[n] = note[n]
           /\ \A n \in Notes : note'[n].st # "free" => note[n].st # "free" /\ note'[n].event = note[n].event
           /\ ~ends /\ writer[w].heard =>
                 \E n \in Notes : /\ note'[n].st \in {"queued", "exhausted"}
                                  /\ note'[n].event = writer[w].event
  <1>. USE DEF MessageTyped
  <1>1. /\ \A v \in Writers \ {w} : writer'[v] = writer[v]
        /\ writer'[w].pc = "idle"
    BY DEF WhatsApp!Answer, WhatsApp!WriterIdle
  <1>2. CASE ~writer[w].heard
    <2>1. note' = note
      BY <1>2 DEF WhatsApp!Answer
    <2>. QED
      BY <1>1, <1>2, <2>1
  <1>3. CASE writer[w].heard
    <2>. DEFINE n == writer[w].note
    <2>1. n \in Notes /\ note[n].st = "running" /\ note[n].event = writer[w].event
      BY <1>3 DEF WritersOK
    <2>2. CASE ends
      <3>1. note' = [note EXCEPT ![n] = WhatsApp!NoteFree]
        BY <1>3, <2>2 DEF WhatsApp!Answer
      <3>. QED
        BY <1>1, <2>1, <2>2, <3>1 DEF Waits, WhatsApp!NoteFree
    <2>3. CASE ~ends
      <3>1. note' = WhatsApp!FailedTry(n)
        BY <1>3, <2>3 DEF WhatsApp!Answer
      <3>2. /\ \A p \in Notes \ {n} : note'[p] = note[p]
            /\ note'[n].event = note[n].event
            /\ note'[n].st \in {"queued", "exhausted"}
        BY <2>1, <3>1, FailedTryOfNote
      <3>. QED
        BY <1>1, <2>1, <3>2 DEF Waits
    <2>. QED
      BY <2>2, <2>3
  <1>. QED
    BY <1>2, <1>3

\* A step that moves one writer at most, and takes no waiting message.
LEMMA SolidElse ==
    ASSUME MessageTyped, WhatsApp!Next, NEW m \in Messages, Solid(m), NEW w \in Writers,
           \A v \in Writers \ {w} : writer'[v] = writer[v],
           \A n \in Notes : Waits(n) => note'[n] = note[n],
           Pursues(w) /\ WhatsApp!MessageOf(w) = m => Solid(m)'
    PROVE  Solid(m)'
  <1>1. CASE WhatsApp!Written(m) \/ m \in told \/ m \in forsaken
    BY <1>1, SettledStays DEF Solid, WhatsApp!Written
  <1>2. CASE \E n \in Notes : Waits(n) /\ note[n].event[2] = m
    BY <1>2 DEF Solid, Waits
  <1>3. ASSUME NEW v \in Writers, Pursues(v), WhatsApp!MessageOf(v) = m PROVE Solid(m)'
    <2>1. CASE v = w
      BY <1>3, <2>1
    <2>2. CASE v # w
      BY <1>3, <2>2 DEF Solid, Pursues, WhatsApp!MessageOf, WhatsApp!EventOf, WhatsApp!Claiming
    <2>. QED
      BY <2>1, <2>2
  <1>. QED
    BY <1>1, <1>2, <1>3 DEF Solid

LEMMA InsertedMessage ==
    ASSUME rows \in [Messages -> Seq(Tenants)], NEW e \in WhatsApp!Events,
           rows' = WhatsApp!RowsWith(e)
    PROVE  rows'[e[2]] # << >>
  <1>1. CASE WhatsApp!Written(e[2])
    BY <1>1 DEF WhatsApp!RowsWith, WhatsApp!Written
  <1>2. CASE ~WhatsApp!Written(e[2])
    <2>1. rows' = [rows EXCEPT ![e[2]] = <<e[1]>>]
      BY <1>2 DEF WhatsApp!RowsWith
    <2>2. rows'[e[2]] = <<e[1]>>
      BY <2>1, EventParts, Zenon
    <2>. QED
      BY <2>2
  <1>. QED
    BY <1>1, <1>2

LEMMA GoEffect ==
    ASSUME MessageTyped, NEW w \in Writers, NEW pc, WhatsApp!Goto(w, pc)
    PROVE  /\ \A v \in Writers \ {w} : writer'[v] = writer[v]
           /\ writer'[w].pc = pc /\ writer'[w].event = writer[w].event
           /\ writer'[w].heard = writer[w].heard
  BY DEF MessageTyped, WhatsApp!Goto, WriterState

LEMMA WriterSolid ==
    ASSUME MessageTyped, KeysBacked, EndsWritten, WhatsApp!Next,
           NEW w \in Writers, WhatsApp!WriterStep(w) \/ WhatsApp!WriterDies(w),
           NEW m \in Messages, Solid(m)
    PROVE  Solid(m)'
  <1>. USE DEF MessageTyped
  <1>. DEFINE Mine == Pursues(w) /\ WhatsApp!MessageOf(w) = m
              Others == /\ \A v \in Writers \ {w} : writer'[v] = writer[v]
                        /\ \A n \in Notes : Waits(n) => note'[n] = note[n]
  <1>0. writer[w].pc # "idle"
    BY DEF WhatsApp!WriterStep, WhatsApp!WriterDies, WhatsApp!WriterDbFails,
           WhatsApp!AskEntitlement, WhatsApp!MarkBlocked, WhatsApp!ClaimMessage,
           WhatsApp!LookForRow, WhatsApp!MarkDuplicate, WhatsApp!ReadEvent,
           WhatsApp!MarkProcessing, WhatsApp!InsertRow, WhatsApp!MarkOutcome,
           WhatsApp!ReleaseClaim, WhatsApp!MarkRetrying, WhatsApp!At
  <1>a. ASSUME Others, Mine => Solid(m)' PROVE Solid(m)'
    BY <1>a, SolidElse
  \* It keeps the message in its hands.
  <1>g. ASSUME NEW pc, WhatsApp!Goto(w, pc), note' = note,
               Mine => \/ pc \in WhatsApp!Claiming
                       \/ writer[w].heard /\ pc \in {"blocked", "claim"}
                       \/ rows'[m] # << >> \/ m \in forsaken' \/ Solid(m)'
        PROVE  Solid(m)'
    <2>1. Others /\ writer'[w].pc = pc /\ writer'[w].event = writer[w].event
      BY <1>g, GoEffect
    <2>2. writer'[w].heard = writer[w].heard
      BY <1>g, GoEffect
    <2>3. CASE Mine
      <3>1. CASE rows'[m] # << >> \/ m \in forsaken' \/ Solid(m)'
        BY <3>1 DEF Solid, WhatsApp!Written
      <3>2. CASE pc \in WhatsApp!Claiming
        BY <2>1, <2>3, <3>2 DEF Solid, Pursues, WhatsApp!MessageOf, WhatsApp!EventOf, WhatsApp!Claiming
      <3>3. CASE writer[w].heard /\ pc \in {"blocked", "claim"}
        BY <2>1, <2>2, <2>3, <3>3 DEF Solid, Pursues, WhatsApp!MessageOf, WhatsApp!EventOf
      <3>. QED
        BY <1>g, <2>3, <3>1, <3>2, <3>3
    <2>. QED
      BY <1>a, <2>1, <2>3
  \* It ends with another status than 200.
  <1>f. ASSUME WhatsApp!Answer(w, FALSE),
               writer[w].pc \in WhatsApp!Claiming => \/ WhatsApp!MessageOf(w) \in forsaken'
                                                     \/ writer[w].heard
        PROVE  Solid(m)'
    <2>1. /\ Others
          /\ writer[w].heard => \E n \in Notes : /\ note'[n].st \in {"queued", "exhausted"}
                                                 /\ note'[n].event = writer[w].event
      BY <1>0, <1>f, AnswerEffect
    <2>2. CASE Mine /\ writer[w].heard
      BY <2>1, <2>2 DEF Solid, Waits, WhatsApp!MessageOf, WhatsApp!EventOf
    <2>3. CASE Mine /\ ~writer[w].heard
      BY <1>f, <2>3 DEF Solid, Pursues
    <2>. QED
      BY <1>a, <2>1, <2>2, <2>3
  \* It ends with 200.
  <1>t. ASSUME WhatsApp!Answer(w, TRUE), Mine => m \in told' PROVE Solid(m)'
    <2>1. Others
      BY <1>0, <1>t, AnswerEffect
    <2>. QED
      BY <1>a, <1>t, <2>1 DEF Solid
  <1>2. ASSUME WhatsApp!WriterDies(w) \/ WhatsApp!WriterDbFails(w) PROVE Solid(m)'
    BY <1>2, <1>f DEF WhatsApp!WriterDies, WhatsApp!WriterDbFails, WhatsApp!Forsake
  <1>3. ASSUME WhatsApp!AskEntitlement(w) PROVE Solid(m)'
    <2>1. PICK pc \in {"blocked", "claim"} : WhatsApp!Goto(w, pc)
      BY <1>3 DEF WhatsApp!AskEntitlement
    <2>2. writer[w].pc = "entitlement" /\ note' = note
      BY <1>3 DEF WhatsApp!AskEntitlement, WhatsApp!At
    <2>3. Mine => writer[w].heard
      BY <2>2 DEF Pursues, WhatsApp!Claiming
    <2>. QED
      BY <2>1, <2>2, <2>3, <1>g
  <1>4. ASSUME WhatsApp!MarkBlocked(w) PROVE Solid(m)'
    <2>1. WhatsApp!Answer(w, TRUE) /\ told' = told \cup {WhatsApp!MessageOf(w)}
      BY <1>4 DEF WhatsApp!MarkBlocked
    <2>. QED
      BY <2>1, <1>t
  <1>5. ASSUME WhatsApp!ClaimMessage(w) PROVE Solid(m)'
    <2>0. writer[w].pc = "claim" /\ note' = note /\ UNCHANGED <<rows, forsaken>>
      BY <1>5 DEF WhatsApp!ClaimMessage, WhatsApp!At
    <2>1. CASE WhatsApp!Goto(w, "exists")
      BY <2>0, <2>1, <1>g DEF WhatsApp!Claiming
    <2>2. CASE WhatsApp!MessageOf(w) \in keys /\ WhatsApp!Goto(w, "duplicate")
      <3>1. ASSUME Mine PROVE rows'[m] # << >> \/ m \in forsaken' \/ Solid(m)'
        <4>1. \/ WhatsApp!Written(m) \/ m \in forsaken
              \/ \E v \in Writers : /\ writer[v].pc \in WhatsApp!Claiming \ {"retrying"}
                                    /\ WhatsApp!MessageOf(v) = m
          BY <2>2, <3>1 DEF KeysBacked
        <4>2. ASSUME NEW v \in Writers, writer[v].pc \in WhatsApp!Claiming, WhatsApp!MessageOf(v) = m
              PROVE  Solid(m)'
          <5>1. v # w
            BY <2>0, <4>2 DEF WhatsApp!Claiming
          <5>2. writer'[v] = writer[v]
            BY <2>2, <5>1, GoEffect
          <5>. QED
            BY <4>2, <5>2 DEF Solid, Pursues, WhatsApp!MessageOf, WhatsApp!EventOf, WhatsApp!Claiming
        <4>. QED
          BY <2>0, <4>1, <4>2 DEF WhatsApp!Written
      <3>. QED
        BY <2>0, <2>2, <3>1, <1>g
    <2>. QED
      BY <1>5, <2>1, <2>2 DEF WhatsApp!ClaimMessage
  <1>6. ASSUME WhatsApp!LookForRow(w) PROVE Solid(m)'
    <2>1. /\ note' = note /\ rows' = rows
          /\ \/ WhatsApp!Goto(w, "read")
             \/ WhatsApp!Goto(w, "duplicate") /\ WhatsApp!Written(WhatsApp!MessageOf(w))
      BY <1>6 DEF WhatsApp!LookForRow
    <2>. QED
      BY <2>1, <1>g DEF WhatsApp!Claiming, WhatsApp!Written
  <1>7. ASSUME WhatsApp!MarkDuplicate(w) \/ WhatsApp!MarkOutcome(w) PROVE Solid(m)'
    <2>1. /\ writer[w].pc \in {"duplicate", "complete", "lost"}
          /\ \/ WhatsApp!Answer(w, TRUE)
             \/ WhatsApp!Goto(w, "release") /\ note' = note
      BY <1>7 DEF WhatsApp!MarkDuplicate, WhatsApp!MarkOutcome, WhatsApp!At
    <2>2. ~Mine
      BY <2>1 DEF Pursues, WhatsApp!Claiming
    <2>. QED
      BY <2>1, <2>2, <1>g, <1>t
  <1>8. ASSUME WhatsApp!ReadEvent(w) \/ WhatsApp!MarkProcessing(w) \/ WhatsApp!ReleaseClaim(w) PROVE Solid(m)'
    <2>1. /\ note' = note
          /\ \E pc \in {"processing", "insert", "retrying"} : WhatsApp!Goto(w, pc)
      BY <1>8 DEF WhatsApp!ReadEvent, WhatsApp!MarkProcessing, WhatsApp!ReleaseClaim
    <2>. QED
      BY <2>1, <1>g DEF WhatsApp!Claiming
  <1>9. ASSUME WhatsApp!InsertRow(w) PROVE Solid(m)'
    <2>1. /\ note' = note
          /\ \/ WhatsApp!Goto(w, "release")
             \/ /\ rows' = WhatsApp!RowsWith(WhatsApp!EventOf(w))
                /\ \E pc \in {"lost", "complete"} : WhatsApp!Goto(w, pc)
      BY <1>9 DEF WhatsApp!InsertRow
    <2>2. CASE WhatsApp!Goto(w, "release")
      BY <2>1, <2>2, <1>g DEF WhatsApp!Claiming
    <2>3. ASSUME NEW pc, WhatsApp!Goto(w, pc), rows' = WhatsApp!RowsWith(WhatsApp!EventOf(w))
          PROVE  Solid(m)'
      <3>1. Mine => rows'[m] # << >>
        BY <1>0, <2>3, InsertedMessage DEF WritersOK, WhatsApp!EventOf, WhatsApp!MessageOf
      <3>. QED
        BY <2>1, <2>3, <3>1, <1>g
    <2>. QED
      BY <2>1, <2>2, <2>3
  <1>10. ASSUME WhatsApp!MarkRetrying(w) PROVE Solid(m)'
    BY <1>10, <1>f DEF WhatsApp!MarkRetrying, WhatsApp!Forsake
  <1>. QED
    BY <1>2, <1>3, <1>4, <1>5, <1>6, <1>7, <1>8, <1>9, <1>10 DEF WhatsApp!WriterStep

LEMMA PublishEffect ==
    ASSUME MessageTyped, NEW e \in WhatsApp!Events, WhatsApp!Publish(e)
    PROVE  \E n \in Notes : /\ note'[n].st = "queued" /\ note'[n].event = e
                            /\ note[n].st = "free"
                            /\ \A p \in Notes \ {n} : note'[p] = note[p]
  BY DEF MessageTyped, WhatsApp!Publish

\* What is in such hands stays there.
LEMMA SolidStays ==
    ASSUME MessageTyped, KeysBacked, EndsWritten, WhatsApp!Next, NEW m \in Messages, Solid(m)
    PROVE  Solid(m)'
  <1>. USE DEF MessageTyped
  <1>q. ASSUME writer' = writer, \A n \in Notes : Waits(n) => note'[n] = note[n]
        PROVE  Solid(m)'
    <2>1. CASE WhatsApp!Written(m) \/ m \in told \/ m \in forsaken
      BY <2>1, SettledStays DEF Solid, WhatsApp!Written
    <2>2. CASE \E n \in Notes : Waits(n) /\ note[n].event[2] = m
      BY <1>q, <2>2 DEF Solid, Waits
    <2>3. CASE \E w \in Writers : Pursues(w) /\ WhatsApp!MessageOf(w) = m
      BY <1>q, <2>3 DEF Solid, Pursues, WhatsApp!MessageOf, WhatsApp!EventOf, WhatsApp!Claiming
    <2>. QED
      BY <2>1, <2>2, <2>3 DEF Solid
  <1>p. ASSUME writer' = writer,
               note' = note \/ \E e \in WhatsApp!Events : WhatsApp!Publish(e)
        PROVE  Solid(m)'
    <2>1. \A n \in Notes : Waits(n) => note'[n] = note[n]
      BY <1>p, PublishEffect DEF Waits
    <2>. QED
      BY <1>p, <2>1, <1>q
  <1>1. ASSUME NEW k \in Messages, WhatsApp!MessageSent(k) \/ WhatsApp!KeyExpires(k) PROVE Solid(m)'
    BY <1>1, <1>p DEF WhatsApp!MessageSent, WhatsApp!KeyExpires
  <1>2. ASSUME NEW r \in Receivers, WhatsApp!ReceiverStep(r) PROVE Solid(m)'
    <2>1. writer' = writer /\ (note' = note \/ \E e \in WhatsApp!Events : WhatsApp!Publish(e))
      BY <1>2
      DEF WhatsApp!ReceiverStep, WhatsApp!MessageDelivery, WhatsApp!AnswerMeta,
          WhatsApp!MarkPublished, WhatsApp!ReceiverDone, WhatsApp!ReceiverDies,
          WhatsApp!StoreMessage, WhatsApp!PublishMessage
    <2>. QED
      BY <2>1, <1>p
  <1>3. ASSUME WhatsApp!ResendStep PROVE Solid(m)'
    <2>1. writer' = writer /\ (note' = note \/ \E e \in WhatsApp!Events : WhatsApp!Publish(e))
      <3>1. ASSUME NEW e \in WhatsApp!Events, WhatsApp!ResendMessage(e)
            PROVE  writer' = writer /\ WhatsApp!Publish(e)
        BY <3>1 DEF WhatsApp!ResendMessage
      <3>2. ASSUME \/ WhatsApp!ResendStart \/ WhatsApp!MarkResent
                   \/ WhatsApp!ResendDone \/ WhatsApp!ResendDies
                   \/ \E e \in WhatsApp!Events : WhatsApp!ResendFails(e)
            PROVE  writer' = writer /\ note' = note
        BY <3>2, Zenon DEF WhatsApp!ResendStart, WhatsApp!MarkResent, WhatsApp!ResendDone,
                           WhatsApp!ResendDies, WhatsApp!ResendFails
      <3>. QED
        BY <1>3, <3>1, <3>2 DEF WhatsApp!ResendStep
    <2>. QED
      BY <2>1, <1>p
  <1>4. ASSUME NEW n \in Notes, WhatsApp!DeadLetterNote(n) PROVE Solid(m)'
    <2>1. /\ writer' = writer /\ told' = told \cup {note[n].event[2]}
          /\ \A p \in Notes \ {n} : note'[p] = note[p]
      BY <1>4 DEF WhatsApp!DeadLetterNote
    <2>2. CASE note[n].event[2] = m
      BY <2>1, <2>2 DEF Solid
    <2>3. CASE note[n].event[2] # m
      <3>1. CASE \E p \in Notes : Waits(p) /\ note[p].event[2] = m
        BY <2>1, <2>3, <3>1 DEF Solid, Waits
      <3>2. CASE WhatsApp!Written(m) \/ m \in told \/ m \in forsaken
        BY <3>2, SettledStays DEF Solid, WhatsApp!Written
      <3>3. CASE \E w \in Writers : Pursues(w) /\ WhatsApp!MessageOf(w) = m
        BY <2>1, <3>3 DEF Solid, Pursues, WhatsApp!MessageOf, WhatsApp!EventOf, WhatsApp!Claiming
      <3>. QED
        BY <3>1, <3>2, <3>3 DEF Solid
    <2>. QED
      BY <2>2, <2>3
  <1>5. ASSUME NEW n \in Notes, NEW w \in Writers, WhatsApp!DeliverNote(n, w) PROVE Solid(m)'
    <2>1. /\ writer[w].pc = "idle"
          /\ \A v \in Writers \ {w} : writer'[v] = writer[v]
          /\ \A p \in Notes \ {n} : note'[p] = note[p]
          /\ writer'[w].pc = "entitlement" /\ writer'[w].event = note[n].event
      BY <1>5 DEF WhatsApp!DeliverNote
    <2>2. writer'[w].heard
      BY <1>5 DEF WhatsApp!DeliverNote
    <2>3. CASE note[n].event[2] = m
      BY <2>1, <2>2, <2>3 DEF Solid, Pursues, WhatsApp!MessageOf, WhatsApp!EventOf
    <2>4. CASE note[n].event[2] # m
      <3>1. CASE \E p \in Notes : Waits(p) /\ note[p].event[2] = m
        BY <2>1, <2>4, <3>1 DEF Solid, Waits
      <3>2. CASE WhatsApp!Written(m) \/ m \in told \/ m \in forsaken
        BY <3>2, SettledStays DEF Solid, WhatsApp!Written
      <3>3. ASSUME NEW v \in Writers, Pursues(v), WhatsApp!MessageOf(v) = m PROVE Solid(m)'
        <4>1. v # w
          BY <2>1, <3>3 DEF Pursues, WhatsApp!Claiming
        <4>. QED
          BY <2>1, <3>3, <4>1 DEF Solid, Pursues, WhatsApp!MessageOf, WhatsApp!EventOf, WhatsApp!Claiming
      <3>. QED
        BY <3>1, <3>2, <3>3 DEF Solid
    <2>. QED
      BY <2>3, <2>4
  <1>6. ASSUME NEW w \in Writers, WhatsApp!NoteAnswerLost(w) PROVE Solid(m)'
    <2>. DEFINE n == writer[w].note
    <2>1. /\ n \in Notes /\ note[n].st = "running" /\ note[n].event = writer[w].event
          /\ note' = WhatsApp!FailedTry(n)
      BY <1>6 DEF WhatsApp!NoteAnswerLost, WritersOK
    <2>2. /\ \A p \in Notes \ {n} : note'[p] = note[p]
          /\ note'[n].event = writer[w].event
          /\ note'[n].st \in {"queued", "exhausted"}
      BY <2>1, FailedTryOfNote
    <2>3. /\ \A v \in Writers \ {w} : writer'[v] = writer[v]
          /\ \A p \in Notes : Waits(p) => note'[p] = note[p]
      BY <1>6, <2>1, <2>2 DEF WhatsApp!NoteAnswerLost, Waits
    <2>4. WhatsApp!MessageOf(w) = m => Solid(m)'
      BY <2>1, <2>2 DEF Solid, Waits, WhatsApp!MessageOf, WhatsApp!EventOf
    <2>. QED
      BY <2>3, <2>4, SolidElse
  <1>7. ASSUME NEW w \in Writers, WhatsApp!WriterStep(w) \/ WhatsApp!WriterDies(w) PROVE Solid(m)'
    BY <1>7, WriterSolid
  <1>. QED
    BY <1>1, <1>2, <1>3, <1>4, <1>5, <1>6, <1>7 DEF WhatsApp!Next

\* The writers move by their own steps and QStash's.
LEMMA WritersRest ==
    ASSUME WhatsApp!Next,
           \A w \in Writers : /\ ~WhatsApp!WriterStep(w) /\ ~WhatsApp!WriterDies(w)
                              /\ ~WhatsApp!NoteAnswerLost(w)
                              /\ \A n \in Notes : ~WhatsApp!DeliverNote(n, w)
    PROVE  writer' = writer
  <1>1. ASSUME NEW r \in Receivers, WhatsApp!ReceiverStep(r) PROVE writer' = writer
    BY <1>1
    DEF WhatsApp!ReceiverStep, WhatsApp!MessageDelivery, WhatsApp!AnswerMeta,
        WhatsApp!MarkPublished, WhatsApp!ReceiverDone, WhatsApp!ReceiverDies,
        WhatsApp!StoreMessage, WhatsApp!PublishMessage
  <1>2. ASSUME WhatsApp!ResendStep PROVE writer' = writer
    BY <1>2, Zenon
    DEF WhatsApp!ResendStep, WhatsApp!ResendStart, WhatsApp!MarkResent, WhatsApp!ResendDone,
        WhatsApp!ResendDies, WhatsApp!ResendMessage, WhatsApp!ResendFails
  <1>. QED
    BY <1>1, <1>2
    DEF WhatsApp!Next, WhatsApp!MessageSent, WhatsApp!KeyExpires, WhatsApp!DeadLetterNote

LEMMA EndsStay ==
    ASSUME MessageTyped, EndsWritten, WhatsApp!Next
    PROVE  EndsWritten'
  <1>. USE DEF MessageTyped
  <1>. DEFINE Goal == \A w \in Writers : writer'[w].pc \in {"complete", "lost"} =>
                        \/ writer[w].pc \in {"complete", "lost"} /\ writer'[w].event = writer[w].event
                        \/ rows'[writer'[w].event[2]] # << >>
  <1>1. ASSUME writer' = writer PROVE Goal
    BY <1>1
  <1>2. ASSUME NEW w \in Writers, \A v \in Writers \ {w} : writer'[v] = writer[v],
               \/ writer'[w].pc \notin {"complete", "lost"}
               \/ rows'[writer'[w].event[2]] # << >>
               \/ writer'[w].pc = writer[w].pc /\ writer'[w].event = writer[w].event
        PROVE  Goal
    BY <1>2
  <1>3. ASSUME NEW w \in Writers, WhatsApp!WriterStep(w) \/ WhatsApp!WriterDies(w) PROVE Goal
    <2>0. writer[w].pc # "idle"
      BY <1>3
      DEF WhatsApp!WriterStep, WhatsApp!WriterDies, WhatsApp!WriterDbFails,
          WhatsApp!AskEntitlement, WhatsApp!MarkBlocked, WhatsApp!ClaimMessage,
          WhatsApp!LookForRow, WhatsApp!MarkDuplicate, WhatsApp!ReadEvent,
          WhatsApp!MarkProcessing, WhatsApp!InsertRow, WhatsApp!MarkOutcome,
          WhatsApp!ReleaseClaim, WhatsApp!MarkRetrying, WhatsApp!At
    <2>1. \/ \E ends \in BOOLEAN : WhatsApp!Answer(w, ends)
          \/ \E pc \in {"blocked", "claim", "exists", "duplicate", "read", "processing", "insert",
                        "release", "retrying"} : WhatsApp!Goto(w, pc)
          \/ rows' = WhatsApp!RowsWith(WhatsApp!EventOf(w)) /\ \E pc : WhatsApp!Goto(w, pc)
      BY <1>3
      DEF WhatsApp!WriterStep, WhatsApp!WriterDies, WhatsApp!WriterDbFails,
          WhatsApp!AskEntitlement, WhatsApp!MarkBlocked, WhatsApp!ClaimMessage,
          WhatsApp!LookForRow, WhatsApp!MarkDuplicate, WhatsApp!ReadEvent,
          WhatsApp!MarkProcessing, WhatsApp!InsertRow, WhatsApp!MarkOutcome,
          WhatsApp!ReleaseClaim, WhatsApp!MarkRetrying
    <2>2. ASSUME NEW ends \in BOOLEAN, WhatsApp!Answer(w, ends) PROVE Goal
      BY <1>2, <2>0, <2>2, AnswerEffect
    <2>3. ASSUME NEW pc \in {"blocked", "claim", "exists", "duplicate", "read", "processing", "insert",
                             "release", "retrying"}, WhatsApp!Goto(w, pc)
          PROVE  Goal
      BY <1>2, <2>3, GoEffect
    <2>4. ASSUME NEW pc, WhatsApp!Goto(w, pc), rows' = WhatsApp!RowsWith(WhatsApp!EventOf(w))
          PROVE  Goal
      <3>1. rows'[writer[w].event[2]] # << >>
        BY <2>0, <2>4, InsertedMessage DEF WritersOK, WhatsApp!EventOf
      <3>. QED
        BY <1>2, <2>4, <3>1, GoEffect
    <2>. QED
      BY <2>1, <2>2, <2>3, <2>4
  <1>4. ASSUME NEW n \in Notes, NEW w \in Writers, WhatsApp!DeliverNote(n, w) PROVE Goal
    BY <1>2, <1>4 DEF WhatsApp!DeliverNote
  <1>5. ASSUME NEW w \in Writers, WhatsApp!NoteAnswerLost(w) PROVE Goal
    <2>1. /\ \A v \in Writers \ {w} : writer'[v] = writer[v]
          /\ writer'[w].pc = writer[w].pc /\ writer'[w].event = writer[w].event
      BY <1>5 DEF WhatsApp!NoteAnswerLost, WriterState
    <2>. QED
      BY <1>2, <2>1
  <1>6. Goal
    BY <1>1, <1>3, <1>4, <1>5, WritersRest DEF WhatsApp!Next
  <1>7. ASSUME NEW w \in Writers, writer'[w].pc \in {"complete", "lost"}
        PROVE  rows'[writer'[w].event[2]] # << >>
    <2>1. CASE writer[w].pc \in {"complete", "lost"} /\ writer'[w].event = writer[w].event
      <3>1. writer[w].event[2] \in Messages /\ WhatsApp!Written(writer[w].event[2])
        BY <2>1, EventParts DEF EndsWritten, WritersOK, WhatsApp!MessageOf, WhatsApp!EventOf
      <3>. QED
        BY <2>1, <3>1, SettledStays
    <2>. QED
      BY <1>6, <1>7, <2>1
  <1>. QED
    BY <1>7 DEF EndsWritten, WhatsApp!MessageOf, WhatsApp!EventOf, WhatsApp!Written

LEMMA KeysRest ==
    ASSUME WhatsApp!Next, \A w \in Writers : ~WhatsApp!WriterStep(w)
    PROVE  keys' \subseteq keys
  <1>1. ASSUME NEW r \in Receivers, WhatsApp!ReceiverStep(r) PROVE keys' = keys
    BY <1>1
    DEF WhatsApp!ReceiverStep, WhatsApp!MessageDelivery, WhatsApp!AnswerMeta,
        WhatsApp!MarkPublished, WhatsApp!ReceiverDone, WhatsApp!ReceiverDies,
        WhatsApp!StoreMessage, WhatsApp!PublishMessage
  <1>2. ASSUME WhatsApp!ResendStep PROVE keys' = keys
    BY <1>2, Zenon
    DEF WhatsApp!ResendStep, WhatsApp!ResendStart, WhatsApp!MarkResent, WhatsApp!ResendDone,
        WhatsApp!ResendDies, WhatsApp!ResendMessage, WhatsApp!ResendFails
  <1>. QED
    BY <1>1, <1>2
    DEF WhatsApp!Next, WhatsApp!MessageSent, WhatsApp!KeyExpires, WhatsApp!DeadLetterNote,
        WhatsApp!DeliverNote, WhatsApp!NoteAnswerLost, WhatsApp!WriterDies

Holds(w) == writer[w].pc \in WhatsApp!Claiming \ {"retrying"}

LEMMA KeysStay ==
    ASSUME MessageTyped, KeysBacked, WhatsApp!Next
    PROVE  KeysBacked'
  <1>. USE DEF MessageTyped
  <1>. DEFINE HoldsAfter(w) == writer'[w].pc \in WhatsApp!Claiming \ {"retrying"}
              Let(m) == \/ rows'[m] # << >> \/ m \in forsaken'
                        \/ \E w \in Writers : HoldsAfter(w) /\ writer'[w].event[2] = m
              Goal == \A m \in keys' : Let(m)
              Step(w) ==
                /\ \A v \in Writers \ {w} : writer'[v] = writer[v]
                /\ \A m \in keys' : m \in keys \/ (HoldsAfter(w) /\ writer'[w].event[2] = m)
                /\ Holds(w) => \/ HoldsAfter(w) /\ writer'[w].event = writer[w].event
                               \/ writer[w].event[2] \notin keys'
                               \/ rows'[writer[w].event[2]] # << >>
                               \/ writer[w].event[2] \in forsaken'
  <1>0. \A m \in keys : \/ rows'[m] # << >> \/ m \in forsaken'
                        \/ \E w \in Writers : Holds(w) /\ writer[w].event[2] = m
    BY SettledStays DEF KeysBacked, Holds, WhatsApp!MessageOf, WhatsApp!EventOf
  <1>1. ASSUME keys' \subseteq keys,
               \A w \in Writers : Holds(w) => HoldsAfter(w) /\ writer'[w].event = writer[w].event
        PROVE  Goal
    BY <1>0, <1>1
  <1>2. ASSUME NEW w \in Writers, Step(w)
        PROVE  Goal
    <2>1. ASSUME NEW m \in keys' PROVE Let(m)
      <3>1. CASE m \notin keys
        BY <1>2, <3>1
      <3>2. ASSUME m \in keys, NEW v \in Writers, Holds(v), writer[v].event[2] = m PROVE Let(m)
        <4>1. CASE v = w
          BY <1>2, <2>1, <3>2, <4>1
        <4>2. CASE v # w
          <5>1. writer'[v] = writer[v]
            BY <1>2, <4>2
          <5>. QED
            BY <3>2, <5>1 DEF Holds
        <4>. QED
          BY <4>1, <4>2
      <3>. QED
        BY <1>0, <3>1, <3>2
    <2>. QED
      BY <2>1
  <1>. HIDE DEF Goal, Step
  <1>3. ASSUME NEW w \in Writers, WhatsApp!WriterStep(w) \/ WhatsApp!WriterDies(w) PROVE Goal
    <2>. DEFINE Others == \A v \in Writers \ {w} : writer'[v] = writer[v]
    <2>0. writer[w].pc # "idle"
      BY <1>3
      DEF WhatsApp!WriterStep, WhatsApp!WriterDies, WhatsApp!WriterDbFails,
          WhatsApp!AskEntitlement, WhatsApp!MarkBlocked, WhatsApp!ClaimMessage,
          WhatsApp!LookForRow, WhatsApp!MarkDuplicate, WhatsApp!ReadEvent,
          WhatsApp!MarkProcessing, WhatsApp!InsertRow, WhatsApp!MarkOutcome,
          WhatsApp!ReleaseClaim, WhatsApp!MarkRetrying, WhatsApp!At
    <2>a. ASSUME NEW ends \in BOOLEAN, WhatsApp!Answer(w, ends), keys' = keys,
                 Holds(w) => writer[w].event[2] \in forsaken'
          PROVE  Goal
      <3>1. Step(w)
        BY <2>a, <2>0, AnswerEffect DEF Step
      <3>. QED
        BY <3>1, <1>2
    <2>g. ASSUME NEW pc, WhatsApp!Goto(w, pc), keys' \subseteq keys,
                 \/ ~Holds(w)
                 \/ pc \in WhatsApp!Claiming \ {"retrying"}
                 \/ writer[w].event[2] \notin keys'
                 \/ rows'[writer[w].event[2]] # << >>
                 \/ writer[w].event[2] \in forsaken'
          PROVE  Goal
      <3>1. /\ \A v \in Writers \ {w} : writer'[v] = writer[v]
            /\ writer'[w].pc = pc /\ writer'[w].event = writer[w].event
        BY <2>g, GoEffect
      <3>2. Step(w)
        BY <2>g, <3>1 DEF Step
      <3>. QED
        BY <3>2, <1>2
    <2>1. ASSUME WhatsApp!WriterDies(w) \/ WhatsApp!WriterDbFails(w) PROVE Goal
      BY <2>1, <2>a
      DEF WhatsApp!WriterDies, WhatsApp!WriterDbFails, WhatsApp!Forsake, WhatsApp!MessageOf,
          WhatsApp!EventOf, Holds
    <2>2. ASSUME WhatsApp!AskEntitlement(w) PROVE Goal
      <3>1. ~Holds(w) /\ keys' = keys /\ \E pc : WhatsApp!Goto(w, pc)
        BY <2>2 DEF WhatsApp!AskEntitlement, WhatsApp!At, Holds, WhatsApp!Claiming
      <3>. QED
        BY <3>1, <2>g
    <2>3. ASSUME WhatsApp!MarkBlocked(w) \/ WhatsApp!MarkDuplicate(w) \/ WhatsApp!MarkRetrying(w) PROVE Goal
      <3>1. ~Holds(w) /\ keys' = keys /\ \E ends \in BOOLEAN : WhatsApp!Answer(w, ends)
        BY <2>3 DEF WhatsApp!MarkBlocked, WhatsApp!MarkDuplicate, WhatsApp!MarkRetrying,
                    WhatsApp!At, Holds, WhatsApp!Claiming
      <3>. QED
        BY <3>1, <2>a
    <2>4. ASSUME WhatsApp!MarkOutcome(w) PROVE Goal
      <3>1. ~Holds(w) /\ keys' = keys
        BY <2>4 DEF WhatsApp!MarkOutcome, Holds, WhatsApp!Claiming
      <3>2. WhatsApp!Answer(w, TRUE) \/ WhatsApp!Goto(w, "release")
        BY <2>4 DEF WhatsApp!MarkOutcome
      <3>. QED
        BY <3>1, <3>2, <2>a, <2>g
    <2>5. ASSUME WhatsApp!ClaimMessage(w) PROVE Goal
      <3>1. ~Holds(w) /\ keys' \subseteq keys \cup {writer[w].event[2]}
        BY <2>5 DEF WhatsApp!ClaimMessage, WhatsApp!At, Holds, WhatsApp!Claiming,
                    WhatsApp!MessageOf, WhatsApp!EventOf
      <3>2. CASE WhatsApp!Goto(w, "exists")
        <4>1. Others /\ HoldsAfter(w) /\ writer'[w].event = writer[w].event
          BY <3>2, GoEffect DEF WhatsApp!Claiming
        <4>2. Step(w)
          BY <3>1, <4>1 DEF Step
        <4>. QED
          BY <4>2, <1>2
      <3>3. CASE WhatsApp!Goto(w, "duplicate") /\ keys' = keys
        BY <3>1, <3>3, <2>g
      <3>. QED
        BY <2>5, <3>2, <3>3 DEF WhatsApp!ClaimMessage
    <2>6. ASSUME WhatsApp!LookForRow(w) PROVE Goal
      <3>1. /\ keys' = keys /\ rows' = rows
            /\ \/ WhatsApp!Goto(w, "read")
               \/ WhatsApp!Goto(w, "duplicate") /\ rows[writer[w].event[2]] # << >>
        BY <2>6 DEF WhatsApp!LookForRow, WhatsApp!Written, WhatsApp!MessageOf, WhatsApp!EventOf
      <3>. QED
        BY <3>1, <2>g DEF WhatsApp!Claiming
    <2>7. ASSUME WhatsApp!ReadEvent(w) \/ WhatsApp!MarkProcessing(w) PROVE Goal
      <3>1. keys' = keys /\ \E pc \in {"processing", "insert"} : WhatsApp!Goto(w, pc)
        BY <2>7 DEF WhatsApp!ReadEvent, WhatsApp!MarkProcessing
      <3>. QED
        BY <3>1, <2>g DEF WhatsApp!Claiming
    <2>8. ASSUME WhatsApp!InsertRow(w) PROVE Goal
      <3>1. /\ keys' = keys
            /\ \/ WhatsApp!Goto(w, "release")
               \/ /\ rows' = WhatsApp!RowsWith(WhatsApp!EventOf(w))
                  /\ \E pc : WhatsApp!Goto(w, pc)
        BY <2>8 DEF WhatsApp!InsertRow
      <3>2. rows' = WhatsApp!RowsWith(WhatsApp!EventOf(w)) => rows'[writer[w].event[2]] # << >>
        BY <2>0, InsertedMessage DEF WritersOK, WhatsApp!EventOf
      <3>. QED
        BY <3>1, <3>2, <2>g DEF WhatsApp!Claiming
    <2>9. ASSUME WhatsApp!ReleaseClaim(w) PROVE Goal
      <3>1. /\ WhatsApp!Goto(w, "retrying") /\ keys' \subseteq keys
            /\ \/ writer[w].event[2] \notin keys'
               \/ writer[w].event[2] \in forsaken'
        BY <2>9 DEF WhatsApp!ReleaseClaim, WhatsApp!Forsake, WhatsApp!MessageOf, WhatsApp!EventOf
      <3>. QED
        BY <3>1, <2>g
    <2>. QED
      BY <1>3, <2>1, <2>2, <2>3, <2>4, <2>5, <2>6, <2>7, <2>8, <2>9 DEF WhatsApp!WriterStep
  <1>4. ASSUME NEW n \in Notes, NEW w \in Writers, WhatsApp!DeliverNote(n, w) PROVE Goal
    <2>1. ~Holds(w) /\ keys' = keys /\ \A v \in Writers \ {w} : writer'[v] = writer[v]
      BY <1>4 DEF WhatsApp!DeliverNote, Holds, WhatsApp!Claiming
    <2>2. Step(w)
      BY <2>1 DEF Step
    <2>. QED
      BY <2>2, <1>2
  <1>5. ASSUME NEW w \in Writers, WhatsApp!NoteAnswerLost(w) PROVE Goal
    <2>1. /\ keys' = keys
          /\ \A v \in Writers : writer'[v].pc = writer[v].pc /\ writer'[v].event = writer[v].event
      BY <1>5 DEF WhatsApp!NoteAnswerLost, WriterState
    <2>. QED
      BY <2>1, <1>1 DEF Holds, Goal
  <1>6. ASSUME writer' = writer, keys' \subseteq keys PROVE Goal
    BY <1>6, <1>1 DEF Holds, Goal
  <1>7. \/ \E w \in Writers : \/ WhatsApp!WriterStep(w) \/ WhatsApp!WriterDies(w)
                              \/ WhatsApp!NoteAnswerLost(w)
                              \/ \E n \in Notes : WhatsApp!DeliverNote(n, w)
        \/ writer' = writer /\ keys' \subseteq keys
    BY WritersRest, KeysRest
  <1>8. Goal
    BY <1>3, <1>4, <1>5, <1>6, <1>7
  <1>. QED
    BY <1>8 DEF Goal, KeysBacked, WhatsApp!Written, WhatsApp!Claiming, WhatsApp!MessageOf, WhatsApp!EventOf

\* What a step takes in hand was in hand or is published by it.
InHandAfter(m) ==
    \/ \E n \in Notes : note'[n].st # "free" /\ note'[n].event[2] = m
    \/ \E w \in Writers : writer'[w].pc # "idle" /\ writer'[w].event[2] = m
    \/ \E r \in Receivers : receiver'[r].pc = "mark" /\ receiver'[r].cur[2] = m
    \/ resend'.pc = "mark" /\ resend'.cur[2] = m
    \/ \E e \in WhatsApp!Events : e[2] = m /\ event'[e] \notin {"none", "received"}

WaitsAfter(m) == \E n \in Notes : note'[n].st = "queued" /\ note'[n].event[2] = m

NotesBefore == \A n \in Notes : note'[n].st # "free" => note[n].st # "free" /\ note'[n].event = note[n].event
WritersBefore == \A w \in Writers : writer'[w].pc # "idle" => writer[w].pc # "idle" /\ writer'[w].event = writer[w].event
EventsBefore ==
    \A e \in WhatsApp!Events : \/ event'[e] \in {event[e], "none", "received"}
                               \/ InHand(e[2])

LEMMA WriterHand ==
    ASSUME MessageTyped, NEW w \in Writers, WhatsApp!WriterStep(w) \/ WhatsApp!WriterDies(w)
    PROVE  NotesBefore /\ WritersBefore /\ EventsBefore /\ UNCHANGED <<receiver, resend>>
  <1>. USE DEF MessageTyped
  <1>0. writer[w].pc # "idle"
    BY DEF WhatsApp!WriterStep, WhatsApp!WriterDies, WhatsApp!WriterDbFails,
           WhatsApp!AskEntitlement, WhatsApp!MarkBlocked, WhatsApp!ClaimMessage,
           WhatsApp!LookForRow, WhatsApp!MarkDuplicate, WhatsApp!ReadEvent,
           WhatsApp!MarkProcessing, WhatsApp!InsertRow, WhatsApp!MarkOutcome,
           WhatsApp!ReleaseClaim, WhatsApp!MarkRetrying, WhatsApp!At
  <1>1. /\ \/ \E ends \in BOOLEAN : WhatsApp!Answer(w, ends)
           \/ note' = note /\ \E pc : WhatsApp!Goto(w, pc)
        /\ UNCHANGED <<receiver, resend>>
    BY DEF WhatsApp!WriterStep, WhatsApp!WriterDies, WhatsApp!WriterDbFails,
           WhatsApp!AskEntitlement, WhatsApp!MarkBlocked, WhatsApp!ClaimMessage,
           WhatsApp!LookForRow, WhatsApp!MarkDuplicate, WhatsApp!ReadEvent,
           WhatsApp!MarkProcessing, WhatsApp!InsertRow, WhatsApp!MarkOutcome,
           WhatsApp!ReleaseClaim, WhatsApp!MarkRetrying
  <1>2. event' = event \/ \E st : WhatsApp!SetEvent(writer[w].event, st)
    BY DEF WhatsApp!WriterStep, WhatsApp!WriterDies, WhatsApp!WriterDbFails,
           WhatsApp!AskEntitlement, WhatsApp!MarkBlocked, WhatsApp!ClaimMessage,
           WhatsApp!LookForRow, WhatsApp!MarkDuplicate, WhatsApp!ReadEvent,
           WhatsApp!MarkProcessing, WhatsApp!InsertRow, WhatsApp!MarkOutcome,
           WhatsApp!ReleaseClaim, WhatsApp!MarkRetrying, WhatsApp!EventOf
  <1>3. InHand(writer[w].event[2])
    BY <1>0 DEF InHand, WhatsApp!MessageOf, WhatsApp!EventOf
  <1>4. EventsBefore
    BY <1>2, <1>3 DEF EventsBefore, WhatsApp!SetEvent
  <1>5. NotesBefore /\ WritersBefore
    <2>1. ASSUME NEW ends \in BOOLEAN, WhatsApp!Answer(w, ends) PROVE NotesBefore /\ WritersBefore
      BY <1>0, <2>1, AnswerEffect DEF NotesBefore, WritersBefore
    <2>2. ASSUME note' = note, NEW pc, WhatsApp!Goto(w, pc) PROVE NotesBefore /\ WritersBefore
      BY <1>0, <2>2, GoEffect DEF NotesBefore, WritersBefore
    <2>. QED
      BY <1>1, <2>1, <2>2
  <1>. QED
    BY <1>1, <1>4, <1>5

LEMMA NextHand ==
    ASSUME MessageTyped, WhatsApp!Next, NEW m \in Messages, InHandAfter(m)
    PROVE  InHand(m) \/ WaitsAfter(m)
  <1>. USE DEF MessageTyped
  <1>. DEFINE Goal == InHand(m) \/ WaitsAfter(m)
              Marks == /\ \A r \in Receivers : receiver'[r].pc = "mark" =>
                              receiver'[r] = receiver[r] \/ (receiver'[r].cur[2] = m => WaitsAfter(m))
                       /\ resend'.pc = "mark" =>
                              resend' = resend \/ (resend'.cur[2] = m => WaitsAfter(m))
  <1>a. ASSUME NotesBefore \/ \E e \in WhatsApp!Events : WhatsApp!Publish(e),
               WritersBefore, EventsBefore, Marks
        PROVE  Goal
    <2>1. ASSUME NEW n \in Notes, note'[n].st # "free", note'[n].event[2] = m PROVE Goal
      <3>1. CASE NotesBefore
        BY <2>1, <3>1 DEF NotesBefore, InHand
      <3>2. ASSUME NEW e \in WhatsApp!Events, WhatsApp!Publish(e) PROVE Goal
        <4>1. PICK p \in Notes : /\ note'[p].st = "queued" /\ note'[p].event = e
                                 /\ \A q \in Notes \ {p} : note'[q] = note[q]
          BY <3>2, PublishEffect
        <4>2. CASE n = p
          BY <2>1, <4>1, <4>2 DEF WaitsAfter
        <4>3. CASE n # p
          BY <2>1, <4>1, <4>3 DEF InHand
        <4>. QED
          BY <4>2, <4>3
      <3>. QED
        BY <1>a, <3>1, <3>2
    <2>2. ASSUME NEW w \in Writers, writer'[w].pc # "idle", writer'[w].event[2] = m PROVE Goal
      BY <1>a, <2>2 DEF WritersBefore, InHand, WhatsApp!MessageOf, WhatsApp!EventOf
    <2>3. ASSUME NEW r \in Receivers, receiver'[r].pc = "mark", receiver'[r].cur[2] = m PROVE Goal
      BY <1>a, <2>3 DEF InHand
    <2>4. ASSUME resend'.pc = "mark", resend'.cur[2] = m PROVE Goal
      BY <1>a, <2>4 DEF InHand
    <2>5. ASSUME NEW e \in WhatsApp!Events, e[2] = m, event'[e] \notin {"none", "received"} PROVE Goal
      <3>1. CASE InHand(e[2])
        BY <2>5, <3>1
      <3>2. CASE event'[e] = event[e]
        BY <2>5, <3>2 DEF InHand
      <3>. QED
        BY <1>a, <2>5, <3>1, <3>2 DEF EventsBefore
    <2>. QED
      BY <2>1, <2>2, <2>3, <2>4, <2>5 DEF InHandAfter
  <1>n. ASSUME note' = note PROVE NotesBefore
    BY <1>n DEF NotesBefore
  <1>w. ASSUME writer' = writer PROVE WritersBefore
    BY <1>w DEF WritersBefore
  <1>e. ASSUME event' = event PROVE EventsBefore
    BY <1>e DEF EventsBefore
  <1>p. ASSUME NEW e \in WhatsApp!Events, WhatsApp!Publish(e), e[2] = m PROVE WaitsAfter(m)
    BY <1>p, PublishEffect DEF WaitsAfter
  <1>. HIDE DEF Goal
  <1>1. ASSUME NEW k \in Messages, WhatsApp!MessageSent(k) \/ WhatsApp!KeyExpires(k) PROVE Goal
    <2>1. UNCHANGED <<note, writer, event, receiver, resend>>
      BY <1>1 DEF WhatsApp!MessageSent, WhatsApp!KeyExpires
    <2>. QED
      BY <2>1, <1>a, <1>n, <1>w, <1>e
  <1>2. ASSUME NEW r \in Receivers, WhatsApp!ReceiverStep(r) PROVE Goal
    <2>0. UNCHANGED <<writer, resend>> /\ \A s \in Receivers \ {r} : receiver'[s] = receiver[s]
      BY <1>2
      DEF WhatsApp!ReceiverStep, WhatsApp!MessageDelivery, WhatsApp!AnswerMeta,
          WhatsApp!MarkPublished, WhatsApp!ReceiverDone, WhatsApp!ReceiverDies,
          WhatsApp!StoreMessage, WhatsApp!PublishMessage
    <2>1. ASSUME NEW e \in WhatsApp!Events, WhatsApp!PublishMessage(r, e) PROVE Goal
      <3>1. CASE WhatsApp!Publish(e) /\ receiver' = [receiver EXCEPT ![r].pc = "mark", ![r].cur = e]
        <4>1. receiver'[r].cur = e
          BY <3>1 DEF ReceiverState
        <4>2. Marks
          BY <2>0, <3>1, <4>1, <1>p
        <4>3. EventsBefore
          BY <2>1, <1>e DEF WhatsApp!PublishMessage
        <4>. QED
          BY <2>0, <3>1, <4>2, <4>3, <1>a, <1>w
      <3>2. CASE note' = note /\ receiver' = [receiver EXCEPT ![r].queue = @ \ {e}]
        <4>1. receiver'[r].pc # "mark"
          BY <2>1, <3>2 DEF ReceiverState, WhatsApp!PublishMessage
        <4>2. EventsBefore
          BY <2>1, <1>e DEF WhatsApp!PublishMessage
        <4>. QED
          BY <2>0, <3>2, <4>1, <4>2, <1>a, <1>n, <1>w
      <3>. QED
        BY <2>1, <3>1, <3>2 DEF WhatsApp!PublishMessage
    <2>2. ASSUME NEW e \in WhatsApp!Events, WhatsApp!StoreMessage(r, e) PROVE Goal
      <3>1. note' = note /\ receiver'[r].pc # "mark"
        BY <2>2 DEF WhatsApp!StoreMessage, ReceiverState
      <3>2. EventsBefore
        BY <2>2 DEF WhatsApp!StoreMessage, EventsBefore
      <3>. QED
        BY <2>0, <3>1, <3>2, <1>a, <1>n, <1>w
    <2>3. ASSUME WhatsApp!MarkPublished(r) PROVE Goal
      <3>1. note' = note /\ receiver'[r].pc # "mark"
        BY <2>3 DEF WhatsApp!MarkPublished, ReceiverState
      <3>2. InHand(receiver[r].cur[2])
        BY <2>3 DEF WhatsApp!MarkPublished, InHand
      <3>3. event' = event \/ WhatsApp!SetEvent(receiver[r].cur, "enqueued")
        BY <2>3 DEF WhatsApp!MarkPublished
      <3>4. EventsBefore
        BY <3>2, <3>3 DEF EventsBefore, WhatsApp!SetEvent
      <3>. QED
        BY <2>0, <3>1, <3>4, <1>a, <1>n, <1>w
    <2>4. ASSUME \/ WhatsApp!MessageDelivery(r) \/ WhatsApp!AnswerMeta(r)
                 \/ WhatsApp!ReceiverDone(r) \/ WhatsApp!ReceiverDies(r)
          PROVE  Goal
      <3>1. UNCHANGED <<note, event>>
        BY <2>4 DEF WhatsApp!MessageDelivery, WhatsApp!AnswerMeta, WhatsApp!ReceiverDone,
                    WhatsApp!ReceiverDies
      <3>2. receiver'[r].pc # "mark"
        <4>1. CASE WhatsApp!MessageDelivery(r)
          <5>1. \E batch \in SUBSET sent \ {{}} :
                  receiver'[r] = [pc |-> "capture", batch |-> batch,
                                  todo |-> {e \in WhatsApp!Events : e[2] \in batch},
                                  queue |-> {}, cur |-> None]
            BY <4>1 DEF WhatsApp!MessageDelivery, WhatsApp!ReceiverIdle, ReceiverState
          <5>. QED
            BY <5>1
        <4>2. CASE WhatsApp!AnswerMeta(r)
          BY <4>2 DEF WhatsApp!AnswerMeta, ReceiverState
        <4>3. CASE WhatsApp!ReceiverDone(r) \/ WhatsApp!ReceiverDies(r)
          BY <4>3 DEF WhatsApp!ReceiverDone, WhatsApp!ReceiverDies, WhatsApp!ReceiverIdle,
                      ReceiverState
        <4>. QED
          BY <2>4, <4>1, <4>2, <4>3
      <3>. QED
        BY <2>0, <3>1, <3>2, <1>a, <1>n, <1>w, <1>e
    <2>. QED
      BY <1>2, <2>1, <2>2, <2>3, <2>4 DEF WhatsApp!ReceiverStep
  <1>3. ASSUME WhatsApp!ResendStep PROVE Goal
    <2>0. UNCHANGED <<writer, receiver>>
      BY <1>3, Zenon
      DEF WhatsApp!ResendStep, WhatsApp!ResendStart, WhatsApp!MarkResent, WhatsApp!ResendDone,
          WhatsApp!ResendDies, WhatsApp!ResendMessage, WhatsApp!ResendFails
    <2>1. ASSUME NEW e \in WhatsApp!Events, WhatsApp!ResendMessage(e) PROVE Goal
      <3>1. WhatsApp!Publish(e) /\ event' = event /\ resend'.cur = e
        BY <2>1 DEF WhatsApp!ResendMessage, ResendState
      <3>2. Marks
        BY <2>0, <3>1, <1>p
      <3>. QED
        BY <2>0, <3>1, <3>2, <1>a, <1>w, <1>e
    <2>2. ASSUME WhatsApp!MarkResent PROVE Goal
      <3>1. note' = note /\ resend'.pc # "mark"
        BY <2>2 DEF WhatsApp!MarkResent, ResendState
      <3>2. InHand(resend.cur[2])
        BY <2>2 DEF WhatsApp!MarkResent, InHand
      <3>3. event' = event \/ WhatsApp!SetEvent(resend.cur, "enqueued")
        BY <2>2 DEF WhatsApp!MarkResent
      <3>4. EventsBefore
        BY <3>2, <3>3 DEF EventsBefore, WhatsApp!SetEvent
      <3>. QED
        BY <2>0, <3>1, <3>4, <1>a, <1>n, <1>w
    <2>3. ASSUME \/ WhatsApp!ResendStart \/ WhatsApp!ResendDone \/ WhatsApp!ResendDies
                 \/ \E e \in WhatsApp!Events : WhatsApp!ResendFails(e)
          PROVE  Goal
      <3>1. UNCHANGED <<note, event>>
        BY <2>3, Zenon DEF WhatsApp!ResendStart, WhatsApp!ResendDone, WhatsApp!ResendDies, WhatsApp!ResendFails
      <3>2. CASE \E e \in WhatsApp!Events : WhatsApp!ResendFails(e)
        <4>1. resend'.pc # "mark"
          BY <3>2 DEF WhatsApp!ResendFails, ResendState
        <4>. QED
          BY <2>0, <3>1, <4>1, <1>a, <1>n, <1>w, <1>e
      <3>3. CASE WhatsApp!ResendStart \/ WhatsApp!ResendDone \/ WhatsApp!ResendDies
        <4>1. resend'.pc # "mark"
          <5>1. CASE WhatsApp!ResendStart
            <6>1. resend' = [pc |-> "publish",
                             list |-> {e \in WhatsApp!Events : event[e] = "received"},
                             cur |-> None]
              BY <5>1 DEF WhatsApp!ResendStart, WhatsApp!ResendIdle
            <6>. QED
              BY <6>1
          <5>2. CASE WhatsApp!ResendDone \/ WhatsApp!ResendDies
            BY <5>2 DEF WhatsApp!ResendDone, WhatsApp!ResendDies, WhatsApp!ResendIdle
          <5>. QED
            BY <3>3, <5>1, <5>2
        <4>. QED
          BY <2>0, <3>1, <4>1, <1>a, <1>n, <1>w, <1>e
      <3>. QED
        BY <2>3, <3>2, <3>3
    <2>. QED
      BY <1>3, <2>1, <2>2, <2>3 DEF WhatsApp!ResendStep
  <1>4. ASSUME NEW n \in Notes, WhatsApp!DeadLetterNote(n) PROVE Goal
    <2>1. /\ note[n].st = "exhausted" /\ UNCHANGED <<writer, receiver, resend>>
          /\ note' = [note EXCEPT ![n] = WhatsApp!NoteFree]
          /\ WhatsApp!SetEvent(note[n].event, "failed")
      BY <1>4 DEF WhatsApp!DeadLetterNote
    <2>2. NotesBefore
      BY <2>1 DEF NotesBefore, WhatsApp!NoteFree
    <2>3. InHand(note[n].event[2])
      BY <2>1 DEF InHand
    <2>4. EventsBefore
      BY <2>1, <2>3 DEF EventsBefore, WhatsApp!SetEvent
    <2>. QED
      BY <2>1, <2>2, <2>4, <1>a, <1>w
  <1>5. ASSUME NEW n \in Notes, NEW w \in Writers, WhatsApp!DeliverNote(n, w) PROVE Goal
    <2>1. /\ note[n].st = "queued" /\ UNCHANGED <<event, receiver, resend>>
          /\ note' = [note EXCEPT ![n].st = "running"]
          /\ \A v \in Writers \ {w} : writer'[v] = writer[v]
          /\ writer'[w].event = note[n].event
      BY <1>5 DEF WhatsApp!DeliverNote
    <2>2. NotesBefore
      BY <2>1 DEF NotesBefore, NoteState
    <2>3. CASE note[n].event[2] = m
      BY <2>1, <2>3 DEF Goal, InHand
    <2>4. CASE note[n].event[2] # m
      <3>1. ASSUME NEW v \in Writers, writer'[v].pc # "idle", writer'[v].event[2] = m
            PROVE  Goal
        BY <2>1, <2>4, <3>1 DEF Goal, InHand, WhatsApp!MessageOf, WhatsApp!EventOf
      <3>. QED
        BY <2>1, <2>2, <3>1 DEF Goal, InHandAfter, InHand, NotesBefore
    <2>. QED
      BY <2>3, <2>4
  <1>6. ASSUME NEW w \in Writers, WhatsApp!NoteAnswerLost(w) PROVE Goal
    <2>1. /\ writer[w].note \in Notes /\ note[writer[w].note].st = "running"
          /\ note' = WhatsApp!FailedTry(writer[w].note)
          /\ UNCHANGED <<event, receiver, resend>>
      BY <1>6 DEF WhatsApp!NoteAnswerLost, WritersOK
    <2>2. NotesBefore
      BY <2>1, FailedTryOfNote DEF NotesBefore
    <2>3. WritersBefore
      BY <1>6 DEF WhatsApp!NoteAnswerLost, WritersBefore, WriterState
    <2>. QED
      BY <2>1, <2>2, <2>3, <1>a, <1>e
  <1>7. ASSUME NEW w \in Writers, WhatsApp!WriterStep(w) \/ WhatsApp!WriterDies(w) PROVE Goal
    <2>1. NotesBefore /\ WritersBefore /\ EventsBefore /\ UNCHANGED <<receiver, resend>>
      BY <1>7, WriterHand
    <2>. QED
      BY <2>1, <1>a
  <1>8. Goal
    BY <1>1, <1>2, <1>3, <1>4, <1>5, <1>6, <1>7 DEF WhatsApp!Next
  <1>. QED
    BY <1>8 DEF Goal

LEMMA PublishedStays ==
    ASSUME MessageTyped, ForgetInv, WhatsApp!Next
    PROVE  PublishedSolid'
  <1>1. ASSUME NEW m \in Messages, InHand(m)'
        PROVE  Solid(m)'
    <2>1. InHandAfter(m)
      BY <1>1, MessageConstants DEF InHand, InHandAfter, WhatsApp!MessageOf, WhatsApp!EventOf
    <2>2. CASE InHand(m)
      BY <2>2, SolidStays DEF ForgetInv, PublishedSolid
    <2>3. CASE WaitsAfter(m)
      BY <2>3 DEF WaitsAfter, Solid, Waits
    <2>. QED
      BY <2>1, <2>2, <2>3, NextHand
  <1>. QED
    BY <1>1 DEF PublishedSolid

\* No step takes a stored event away, and only the webhook's call answers.
EventsStay == \A e \in WhatsApp!Events : event[e] # "none" => event'[e] # "none"

LEMMA StoredStay ==
    ASSUME MessageTyped, WhatsApp!Next
    PROVE  EventsStay
  <1>. USE DEF MessageTyped
  <1>1. ASSUME NEW e \in WhatsApp!Events, NEW st \in WhatsApp!Statuses \ {"none"},
               WhatsApp!SetEvent(e, st)
        PROVE  EventsStay
    BY <1>1 DEF WhatsApp!SetEvent, EventsStay
  <1>2. ASSUME event' = event PROVE EventsStay
    BY <1>2 DEF EventsStay
  <1>3. ASSUME NEW r \in Receivers, WhatsApp!ReceiverStep(r) PROVE EventsStay
    <2>1. ASSUME NEW e \in WhatsApp!Events, WhatsApp!StoreMessage(r, e) PROVE EventsStay
      BY <2>1 DEF WhatsApp!StoreMessage, EventsStay
    <2>2. ASSUME WhatsApp!MarkPublished(r) PROVE EventsStay
      <3>1. receiver[r].cur \in WhatsApp!Events
        BY <2>2 DEF WhatsApp!MarkPublished, ReceiversOK
      <3>2. event' = event \/ WhatsApp!SetEvent(receiver[r].cur, "enqueued")
        BY <2>2 DEF WhatsApp!MarkPublished
      <3>. QED
        BY <3>1, <3>2, <1>1, <1>2 DEF WhatsApp!Statuses
    <2>3. ASSUME \/ WhatsApp!MessageDelivery(r) \/ WhatsApp!AnswerMeta(r)
                 \/ WhatsApp!ReceiverDone(r) \/ WhatsApp!ReceiverDies(r)
                 \/ \E e \in WhatsApp!Events : WhatsApp!PublishMessage(r, e)
          PROVE  EventsStay
      <3>1. event' = event
        BY <2>3 DEF WhatsApp!MessageDelivery, WhatsApp!AnswerMeta, WhatsApp!ReceiverDone,
                    WhatsApp!ReceiverDies, WhatsApp!PublishMessage
      <3>. QED
        BY <3>1, <1>2
    <2>. QED
      BY <1>3, <2>1, <2>2, <2>3 DEF WhatsApp!ReceiverStep
  <1>4. ASSUME NEW w \in Writers, WhatsApp!WriterStep(w) \/ WhatsApp!WriterDies(w)
        PROVE  EventsStay
    <2>1. event' = event \/ writer[w].pc # "idle"
      BY <1>4
      DEF WhatsApp!WriterStep, WhatsApp!WriterDies, WhatsApp!WriterDbFails,
          WhatsApp!AskEntitlement, WhatsApp!MarkBlocked, WhatsApp!ClaimMessage,
          WhatsApp!LookForRow, WhatsApp!MarkDuplicate, WhatsApp!ReadEvent,
          WhatsApp!MarkProcessing, WhatsApp!InsertRow, WhatsApp!MarkOutcome,
          WhatsApp!ReleaseClaim, WhatsApp!MarkRetrying, WhatsApp!At
    <2>2. event' = event \/ \E st \in WhatsApp!Statuses \ {"none"} : WhatsApp!SetEvent(writer[w].event, st)
      BY <1>4
      DEF WhatsApp!WriterStep, WhatsApp!WriterDies, WhatsApp!WriterDbFails,
          WhatsApp!AskEntitlement, WhatsApp!MarkBlocked, WhatsApp!ClaimMessage,
          WhatsApp!LookForRow, WhatsApp!MarkDuplicate, WhatsApp!ReadEvent,
          WhatsApp!MarkProcessing, WhatsApp!InsertRow, WhatsApp!MarkOutcome,
          WhatsApp!ReleaseClaim, WhatsApp!MarkRetrying, WhatsApp!EventOf, WhatsApp!Statuses
    <2>. QED
      BY <2>1, <2>2, <1>1, <1>2 DEF WritersOK
  <1>5. ASSUME WhatsApp!ResendStep PROVE EventsStay
    <2>1. ASSUME WhatsApp!MarkResent PROVE EventsStay
      <3>1. resend.cur \in WhatsApp!Events
        BY <2>1 DEF WhatsApp!MarkResent, ResendOK
      <3>2. event' = event \/ WhatsApp!SetEvent(resend.cur, "enqueued")
        BY <2>1 DEF WhatsApp!MarkResent
      <3>. QED
        BY <3>1, <3>2, <1>1, <1>2 DEF WhatsApp!Statuses
    <2>2. ASSUME \/ WhatsApp!ResendStart \/ WhatsApp!ResendDone \/ WhatsApp!ResendDies
                 \/ \E e \in WhatsApp!Events : WhatsApp!ResendMessage(e) \/ WhatsApp!ResendFails(e)
          PROVE  EventsStay
      <3>1. event' = event
        BY <2>2, Zenon
        DEF WhatsApp!ResendStart, WhatsApp!ResendDone, WhatsApp!ResendDies,
            WhatsApp!ResendMessage, WhatsApp!ResendFails
      <3>. QED
        BY <3>1, <1>2
    <2>. QED
      BY <1>5, <2>1, <2>2 DEF WhatsApp!ResendStep
  <1>6. ASSUME NEW n \in Notes, WhatsApp!DeadLetterNote(n) PROVE EventsStay
    <2>1. note[n].event \in WhatsApp!Events /\ WhatsApp!SetEvent(note[n].event, "failed")
      BY <1>6 DEF WhatsApp!DeadLetterNote, WritersOK
    <2>. QED
      BY <2>1, <1>1 DEF WhatsApp!Statuses
  <1>7. ASSUME \/ \E k \in Messages : WhatsApp!MessageSent(k) \/ WhatsApp!KeyExpires(k)
               \/ \E n \in Notes, w \in Writers : WhatsApp!DeliverNote(n, w)
               \/ \E w \in Writers : WhatsApp!NoteAnswerLost(w)
        PROVE  EventsStay
    <2>1. event' = event
      BY <1>7 DEF WhatsApp!MessageSent, WhatsApp!KeyExpires, WhatsApp!DeliverNote, WhatsApp!NoteAnswerLost
    <2>. QED
      BY <2>1, <1>2
  <1>. QED
    BY <1>3, <1>4, <1>5, <1>6, <1>7 DEF WhatsApp!Next

LEMMA ReceiverCapture ==
    ASSUME MessageTyped, CaptureKept, NEW r \in Receivers, WhatsApp!ReceiverStep(r), EventsStay
    PROVE  CaptureKept'
  <1>. USE DEF MessageTyped
  <1>. DEFINE CapturedBy(s) == receiver'[s].pc = "capture" =>
                                 \A e \in WhatsApp!Events :
                                    e[2] \in receiver'[s].batch => e \in receiver'[s].todo \/ event'[e] # "none"
              Answers == \A e \in WhatsApp!Events : e[2] \in answered' => event'[e] # "none"
  <1>1. ASSUME NEW s \in Receivers, s # r PROVE CapturedBy(s)
    <2>1. receiver'[s] = receiver[s]
      BY <1>1
      DEF WhatsApp!ReceiverStep, WhatsApp!MessageDelivery, WhatsApp!AnswerMeta,
          WhatsApp!MarkPublished, WhatsApp!ReceiverDone, WhatsApp!ReceiverDies,
          WhatsApp!StoreMessage, WhatsApp!PublishMessage
    <2>. QED
      BY <2>1 DEF CaptureKept, EventsStay
  <1>2. CapturedBy(r)
    <2>1. CASE WhatsApp!MessageDelivery(r)
      <3>1. \E batch \in SUBSET sent \ {{}} :
              receiver'[r] = [pc |-> "capture", batch |-> batch,
                              todo |-> {e \in WhatsApp!Events : e[2] \in batch},
                              queue |-> {}, cur |-> None]
        BY <2>1 DEF WhatsApp!MessageDelivery, WhatsApp!ReceiverIdle, ReceiverState
      <3>. QED
        BY <3>1
    <2>2. ASSUME NEW e \in WhatsApp!Events, WhatsApp!StoreMessage(r, e) PROVE CapturedBy(r)
      <3>1. /\ receiver[r].pc = "capture"
            /\ receiver'[r].todo = receiver[r].todo \ {e}
            /\ receiver'[r].batch = receiver[r].batch
            /\ event'[e] # "none"
        BY <2>2 DEF WhatsApp!StoreMessage, ReceiverState
      <3>. QED
        BY <3>1 DEF CaptureKept, EventsStay
    <2>3. CASE receiver'[r].pc # "capture"
      BY <2>3
    <2>4. ASSUME \/ WhatsApp!AnswerMeta(r) \/ WhatsApp!MarkPublished(r) \/ WhatsApp!ReceiverDone(r)
                 \/ WhatsApp!ReceiverDies(r) \/ \E e \in WhatsApp!Events : WhatsApp!PublishMessage(r, e)
          PROVE  receiver'[r].pc # "capture"
      BY <2>4 DEF WhatsApp!AnswerMeta, WhatsApp!MarkPublished, WhatsApp!ReceiverDone,
                  WhatsApp!ReceiverDies, WhatsApp!PublishMessage, WhatsApp!ReceiverIdle, ReceiverState
    <2>. QED
      BY <2>1, <2>2, <2>3, <2>4 DEF WhatsApp!ReceiverStep
  <1>3. Answers
    <2>1. CASE answered' = answered
      BY <2>1 DEF CaptureKept, EventsStay
    <2>2. CASE WhatsApp!AnswerMeta(r)
      <3>1. /\ receiver[r].pc = "capture" /\ receiver[r].todo = {}
            /\ answered' = answered \cup receiver[r].batch
        BY <2>2 DEF WhatsApp!AnswerMeta
      <3>. QED
        BY <3>1 DEF CaptureKept, EventsStay
    <2>3. answered' = answered \/ WhatsApp!AnswerMeta(r)
      BY DEF WhatsApp!ReceiverStep, WhatsApp!MessageDelivery,
             WhatsApp!MarkPublished, WhatsApp!ReceiverDone, WhatsApp!ReceiverDies,
             WhatsApp!StoreMessage, WhatsApp!PublishMessage
    <2>. QED
      BY <2>1, <2>2, <2>3
  <1>4. \A s \in Receivers : CapturedBy(s)
    BY <1>1, <1>2
  <1>. QED
    BY <1>3, <1>4, MessageConstants DEF CaptureKept

LEMMA CaptureStays ==
    ASSUME MessageTyped, CaptureKept, WhatsApp!Next
    PROVE  CaptureKept'
  <1>1. EventsStay
    BY StoredStay
  <1>2. ASSUME NEW r \in Receivers, WhatsApp!ReceiverStep(r) PROVE CaptureKept'
    BY <1>1, <1>2, ReceiverCapture
  <1>3. ASSUME UNCHANGED <<receiver, answered>> PROVE CaptureKept'
    BY <1>1, <1>3, MessageConstants DEF CaptureKept, EventsStay
  <1>4. CASE WhatsApp!ResendStep
    <2>1. UNCHANGED <<receiver, answered>>
      BY <1>4, Zenon
      DEF WhatsApp!ResendStep, WhatsApp!ResendStart, WhatsApp!MarkResent, WhatsApp!ResendDone,
          WhatsApp!ResendDies, WhatsApp!ResendMessage, WhatsApp!ResendFails
    <2>. QED
      BY <1>3, <2>1
  <1>5. ASSUME NEW w \in Writers, WhatsApp!WriterStep(w) \/ WhatsApp!WriterDies(w)
        PROVE  UNCHANGED <<receiver, answered>>
    BY <1>5
    DEF WhatsApp!WriterStep, WhatsApp!WriterDies, WhatsApp!WriterDbFails,
        WhatsApp!AskEntitlement, WhatsApp!MarkBlocked, WhatsApp!ClaimMessage,
        WhatsApp!LookForRow, WhatsApp!MarkDuplicate, WhatsApp!ReadEvent,
        WhatsApp!MarkProcessing, WhatsApp!InsertRow, WhatsApp!MarkOutcome,
        WhatsApp!ReleaseClaim, WhatsApp!MarkRetrying
  <1>6. ASSUME \/ \E k \in Messages : WhatsApp!MessageSent(k) \/ WhatsApp!KeyExpires(k)
               \/ \E n \in Notes : WhatsApp!DeadLetterNote(n) \/ \E w \in Writers : WhatsApp!DeliverNote(n, w)
               \/ \E w \in Writers : WhatsApp!NoteAnswerLost(w)
        PROVE  UNCHANGED <<receiver, answered>>
    BY <1>6 DEF WhatsApp!MessageSent, WhatsApp!KeyExpires, WhatsApp!DeadLetterNote,
                WhatsApp!DeliverNote, WhatsApp!NoteAnswerLost
  <1>. QED
    BY <1>2, <1>3, <1>4, <1>5, <1>6 DEF WhatsApp!Next

LEMMA QuietForget ==
    ASSUME ForgetInv, UNCHANGED whatsappVars
    PROVE  ForgetInv'
  <1>. USE DEF whatsappVars
  <1>1. \A m \in Messages : Solid(m)' = Solid(m) /\ InHand(m)' = InHand(m)
    BY MessageConstants DEF Solid, InHand, Waits, Pursues, WhatsApp!Written, WhatsApp!MessageOf,
          WhatsApp!EventOf, WhatsApp!Claiming
  <1>2. PublishedSolid'
    BY <1>1 DEF ForgetInv, PublishedSolid
  <1>3. KeysBacked' /\ EndsWritten' /\ CaptureKept'
    BY MessageConstants DEF ForgetInv, KeysBacked, EndsWritten, CaptureKept, WhatsApp!Written,
          WhatsApp!MessageOf, WhatsApp!EventOf, WhatsApp!Claiming
  <1>. QED
    BY <1>2, <1>3 DEF ForgetInv

LEMMA AlwaysKept == SharedSpec => []ForgetInv
  <1>1. SharedInit => ForgetInv
    <2>1. ASSUME WhatsApp!Init PROVE ForgetInv
      <3>. USE <2>1 DEF WhatsApp!Init, WhatsApp!ReceiverIdle, WhatsApp!NoteFree, WhatsApp!WriterIdle,
                        WhatsApp!ResendIdle
      <3>1. KeysBacked /\ EndsWritten
        BY DEF KeysBacked, EndsWritten
      <3>2. PublishedSolid
        BY DEF PublishedSolid, InHand
      <3>3. CaptureKept
        BY DEF CaptureKept
      <3>. QED
        BY <3>1, <3>2, <3>3 DEF ForgetInv
    <2>. QED
      BY <2>1 DEF SharedInit
  <1>2. SharedInv /\ ForgetInv /\ [SharedNext]_allVars => ForgetInv'
    <2>1. ASSUME SharedInv, ForgetInv, WhatsApp!Next PROVE ForgetInv'
      <3>1. MessageTyped
        BY <2>1 DEF SharedInv
      <3>2. KeysBacked' /\ EndsWritten'
        BY <2>1, <3>1, KeysStay, EndsStay DEF ForgetInv
      <3>3. PublishedSolid' /\ CaptureKept'
        BY <2>1, <3>1, PublishedStays, CaptureStays DEF ForgetInv
      <3>. QED
        BY <3>2, <3>3 DEF ForgetInv
    <2>2. ASSUME ForgetInv, TenantStep \/ LegacyStep \/ UNCHANGED allVars PROVE ForgetInv'
      <3>1. UNCHANGED whatsappVars
        BY <2>2 DEF TenantStep, LegacyStep, allVars
      <3>. QED
        BY <2>2, <3>1, QuietForget
    <2>. QED
      BY <2>1, <2>2 DEF SharedNext, WhatsAppStep
  <1>. QED
    BY <1>1, <1>2, AlwaysShared, PTL DEF SharedSpec

\* A WhatsApp message that was answered 200 is a lead, on its way, reported or
\* in the hands of a writer that failed with its claim: under any faults, and
\* with any number of calls, workers and tenants of the number.
THEOREM NobodyForgotten == SharedSpec => []NothingForgotten
  <1>1. ASSUME MessageTyped, ForgetInv, NEW m \in answered, Selected[m] # {}
        PROVE  WhatsApp!Written(m) \/ WhatsApp!Unfinished(m) \/ m \in told \/ m \in forsaken
    <2>1. m \in Messages
      BY <1>1 DEF MessageTyped
    <2>2. PICK t \in Selected[m] : TRUE
      BY <1>1
    <2>3. <<t, m>> \in WhatsApp!Events /\ <<t, m>>[2] = m
      BY <2>1, <2>2, SelectedAssumption DEF WhatsApp!Events
    <2>4. event[<<t, m>>] # "none"
      BY <1>1, <2>3 DEF ForgetInv, CaptureKept
    <2>5. CASE event[<<t, m>>] = "received"
      BY <2>3, <2>5 DEF WhatsApp!Unfinished
    <2>6. CASE event[<<t, m>>] # "received"
      <3>1. Solid(m)
        BY <1>1, <2>1, <2>3, <2>4, <2>6 DEF ForgetInv, PublishedSolid, InHand
      <3>2. \A w \in Writers : Pursues(w) => writer[w].pc # "idle"
        BY DEF Pursues, WhatsApp!Claiming
      <3>. QED
        BY <3>1, <3>2 DEF Solid, Waits, WhatsApp!Unfinished
    <2>. QED
      BY <2>5, <2>6
  <1>2. SharedInv /\ ForgetInv => NothingForgotten
    BY <1>1 DEF SharedInv, NothingForgotten, WhatsApp!NothingForgotten
  <1>. QED
    BY <1>2, AlwaysShared, AlwaysKept, PTL

-----------------------------------------------------------------------------
(***************************************************************************)
(* No lead that a Meta pipeline stored is discarded, as long as no worker  *)
(* of the tenants is killed or cut off and no store fails under it; the    *)
(* campaigns' pipeline may meet any fault. Each pipeline takes the other's *)
(* claim for a duplicate, so what accounts for a lead, and what stands     *)
(* behind a claim, is looked for in both.                                  *)
(***************************************************************************)

\* Jobs that have a lead in hand, and tasks on their way to one.
Holding(l) == \E j \in Jobs : job[j].pc \in Legacy!Claiming /\ raw[job[j].raw].lead = l
Tasked(l) == \E q \in Tasks : task[q].st # "free" /\ raw[task[q].raw].lead = l

\* The leads whose claim the campaigns' pipeline answers for, and those it
\* accounts for.
Held == {l \in Leads : l \in abandoned \/ Holding(l)}
Elsewhere == {l \in Leads : l \in abandoned \/ Holding(l) \/ l \in reported \/ Tasked(l)}

\* A job that is listened to works on the row of its task.
JobsOwnTasks == \A j \in Jobs : job[j].heard => task[job[j].task].raw = job[j].raw

RawsAccounted ==
    /\ \A r \in Raws : raw[r].st = "none" => raw[r].lead = None
    /\ \A r \in Raws : raw[r].st = "enqueued" => Accounted(Elsewhere, raw[r].lead)
    /\ \A c \in Calls : call[c].pc = "mark" => Accounted(Elsewhere, raw[call[c].cur].lead)
    /\ scan.pc = "mark" => Accounted(Elsewhere, raw[scan.cur].lead)

DiscardInv ==
    /\ WorkInv(Held)
    /\ MessagesAccounted(Elsewhere) /\ MarksAccounted(Elsewhere) /\ StatusAccounted(Elsewhere)
    /\ JobsOwnTasks /\ RawsAccounted

LEMMA HeldIsElsewhere == WorkInv(Held) => WorkInv(Elsewhere)
  <1>1. Held \subseteq Elsewhere
    BY DEF Held, Elsewhere
  <1>. QED
    BY <1>1 DEF WorkInv, ClaimsBacked

\* A step of the tenant pipeline changes nothing elsewhere.
LEMMA TenantDiscards ==
    ASSUME Steady, Typed, LegacyTyped, DiscardInv, [Next]_vars,
           UNCHANGED <<raw, call, task, job, reported, abandoned>>,
           scan' = scan \/ scan' = Legacy!ScanIdle
    PROVE  DiscardInv'
  <1>1. PICK X : X = Elsewhere
    OBVIOUS
  <1>2. PICK Y : Y = Held
    OBVIOUS
  <1>3. Elsewhere' = X /\ Held' = Y
    BY <1>1, <1>2 DEF Elsewhere, Held, Holding, Tasked
  <1>4. WorkInv(Y) /\ WorkInv(X)
    BY <1>1, <1>2, HeldIsElsewhere DEF DiscardInv
  <1>5. WorkInv(Y)'
    BY <1>4, WorkStep
  <1>6. AccountedInv(X)
    BY <1>1, <1>4 DEF DiscardInv, AccountedInv
  <1>7. MessagesAccounted(X)'
    BY <1>4, <1>6, MessagesStep DEF AccountedInv
  <1>8. MarksAccounted(X)'
    BY <1>4, <1>6, <1>7, MarksStep DEF AccountedInv
  <1>9. StatusAccounted(X)'
    BY <1>6, StatusStep
  <1>10. ASSUME NEW l \in Leads, Accounted(X, l) PROVE Accounted(X, l)'
    BY <1>4, <1>10, AccountedStays
  <1>11. ASSUME NEW r \in Raws, Stored(r), Accounted(X, raw[r].lead)
         PROVE  Accounted(X, raw[r].lead)'
    <2>1. PICK l \in Leads : l = raw[r].lead
      BY <1>11, StoredLead
    <2>2. raw' = raw
      OBVIOUS
    <2>. QED
      BY <1>11, <2>1, <2>2, <1>10
  <1>12. RawsAccounted'
    <2>1. \A r \in Raws : raw'[r].st = "none" => raw'[r].lead = None
      BY DEF DiscardInv, RawsAccounted
    <2>2. ASSUME NEW r \in Raws, raw'[r].st = "enqueued" PROVE Accounted(Elsewhere, raw[r].lead)'
      BY <1>1, <1>3, <1>11, <2>2 DEF DiscardInv, RawsAccounted, Stored
    <2>3. ASSUME NEW c \in Calls, call'[c].pc = "mark"
          PROVE  Accounted(Elsewhere, raw[call[c].cur].lead)'
      <3>1. PICK r \in Raws : r = call[c].cur /\ Stored(r) /\ Accounted(X, raw[r].lead)
        BY <1>1, <2>3 DEF DiscardInv, RawsAccounted, LegacyTyped, CallsRouted, Stored
      <3>2. call'[c].cur = r /\ Accounted(X, raw[r].lead)'
        BY <1>11, <3>1
      <3>. QED
        BY <1>3, <3>2
    <2>4. ASSUME scan'.pc = "mark" PROVE Accounted(Elsewhere, raw[scan.cur].lead)'
      <3>0. scan' = scan
        BY <2>4 DEF Legacy!ScanIdle
      <3>1. PICK r \in Raws : r = scan.cur /\ Stored(r) /\ Accounted(X, raw[r].lead)
        BY <1>1, <2>4, <3>0 DEF DiscardInv, RawsAccounted, LegacyTyped, ScanRouted, Stored
      <3>2. scan'.cur = r /\ Accounted(X, raw[r].lead)'
        BY <1>11, <3>0, <3>1
      <3>. QED
        BY <1>3, <3>2
    <2>. QED
      BY <2>1, <2>2, <2>3, <2>4 DEF RawsAccounted
  <1>13. JobsOwnTasks'
    BY DEF DiscardInv, JobsOwnTasks
  <1>. QED
    BY <1>3, <1>5, <1>7, <1>8, <1>9, <1>12, <1>13 DEF DiscardInv

\* What a step of a job can do: move on with its task, or answer it. It leaves
\* a lead in hand recorded, abandoned, or to its task with the claim released;
\* and it ends a task with its lead recorded, reported or claimed by another.
Proceeds(j, pc) ==
    /\ Legacy!Goto(j, pc) /\ UNCHANGED <<task, reported, abandoned>>
    /\ job[j].pc \in Legacy!Claiming => pc \in Legacy!Claiming
    /\ \/ claims' \subseteq claims
       \/ claims' = claims \cup {Legacy!LeadOf(j)} /\ pc = "exists"

Finishes(j, ends) ==
    /\ Legacy!Answer(j, ends)
    /\ claims' \subseteq claims
    /\ reported \subseteq reported' /\ abandoned \subseteq abandoned'
    /\ job[j].pc \in Legacy!Claiming =>
         \/ Legacy!LeadOf(j) \in abandoned' \/ leads'[Legacy!LeadOf(j)] # << >>
         \/ ~ends /\ job[j].heard /\ Legacy!LeadOf(j) \notin claims'
    /\ ends => \/ Legacy!LeadOf(j) \in reported' \/ leads'[Legacy!LeadOf(j)] # << >>
               \/ job[j].pc = "claim" /\ Legacy!LeadOf(j) \in claims

LEMMA JobEffects ==
    ASSUME Typed, LegacyTyped, NEW j \in Jobs, Legacy!JobStep(j) \/ Legacy!JobDies(j)
    PROVE  /\ job[j].pc # "idle" /\ Stored(job[j].raw)
           /\ UNCHANGED <<raw, call, scan>>
           /\ \/ \E pc \in {"blocked", "claim", "exists", "config", "fetch", "insert", "release"} :
                    Proceeds(j, pc)
              \/ \E ends \in BOOLEAN : Finishes(j, ends)
  <1>. USE DEF Legacy!shared, Legacy!Claiming, Legacy!At
  <1>. DEFINE Goal == /\ UNCHANGED <<raw, call, scan>>
                      /\ \/ \E pc \in {"blocked", "claim", "exists", "config", "fetch", "insert",
                                       "release"} : Proceeds(j, pc)
                         \/ \E ends \in BOOLEAN : Finishes(j, ends)
              l == Legacy!LeadOf(j)
  <1>0. job[j].pc # "idle"
    BY DEF Legacy!JobStep, Legacy!JobDies, Legacy!JobReadFails, Legacy!AskEntitlement,
           Legacy!LogBlocked, Legacy!ClaimLead, Legacy!LookForLead, Legacy!ReadConfig,
           Legacy!FetchLead, Legacy!InsertRow, Legacy!ReleaseAndThrow
  <1>1. Stored(job[j].raw)
    BY <1>0 DEF LegacyTyped, JobsOK, JobsStored
  <1>2. l \in Leads /\ Legacy!TenantOf(j) \in Tenants /\ leads \in [Leads -> Seq(Tenants)]
    BY <1>1, StoredLead DEF Legacy!LeadOf, Legacy!TenantOf, Typed, TypeOK
  <1>3. ASSUME NEW forGood \in BOOLEAN, Legacy!Abandon(j, forGood)
        PROVE  /\ abandoned \subseteq abandoned'
               /\ forGood /\ job[j].pc \in Legacy!Claiming => l \in abandoned'
    BY <1>3 DEF Legacy!Abandon
  <1>4. leads' = Legacy!RowsAfter(Legacy!TenantOf(j), l) => leads'[l] # << >>
    <2>1. ASSUME leads' = Legacy!RowsAfter(Legacy!TenantOf(j), l) PROVE leads'[l] # << >>
      <3>2. CASE Recorded(l)
        BY <1>2, <2>1, <3>2, RowAfter DEF Recorded
      <3>3. CASE ~Recorded(l)
        <4>1. leads'[l] = <<Legacy!TenantOf(j)>>
          BY <1>2, <2>1, <3>3, RowAfter
        <4>. QED
          BY <4>1
      <3>. QED
        BY <3>2, <3>3
    <2>. QED
      BY <2>1
  <1>. HIDE DEF l
  <1>5. ASSUME Legacy!JobDies(j) \/ Legacy!JobReadFails(j) PROVE Goal
    <2>1. Legacy!Abandon(j, TRUE)
      BY <1>5 DEF Legacy!JobDies, Legacy!JobReadFails
    <2>2. Finishes(j, FALSE)
      BY <1>5, <1>3, <2>1 DEF Legacy!JobDies, Legacy!JobReadFails, Finishes, l
    <2>. QED
      BY <1>5, <2>2 DEF Legacy!JobDies, Legacy!JobReadFails
  <1>6. ASSUME Legacy!AskEntitlement(j) \/ Legacy!ReadConfig(j) \/ Legacy!FetchLead(j) PROVE Goal
    <2>1. CASE Legacy!AskEntitlement(j)
      BY <2>1 DEF Legacy!AskEntitlement, Proceeds
    <2>2. CASE Legacy!ReadConfig(j)
      BY <2>2 DEF Legacy!ReadConfig, Proceeds
    <2>3. CASE Legacy!FetchLead(j)
      BY <2>3 DEF Legacy!FetchLead, Proceeds
    <2>. QED
      BY <1>6, <2>1, <2>2, <2>3
  <1>7. ASSUME Legacy!LogBlocked(j) PROVE Goal
    <2>1. Finishes(j, TRUE)
      BY <1>7 DEF Legacy!LogBlocked, Finishes
    <2>. QED
      BY <1>7, <2>1 DEF Legacy!LogBlocked
  <1>8. ASSUME Legacy!ClaimLead(j) PROVE Goal
    <2>1. Proceeds(j, "exists") \/ Finishes(j, TRUE) \/ Finishes(j, FALSE)
      BY <1>8 DEF Legacy!ClaimLead, Proceeds, Finishes
    <2>. QED
      BY <1>8, <2>1 DEF Legacy!ClaimLead
  <1>9. ASSUME Legacy!LookForLead(j) PROVE Goal
    <2>1. Proceeds(j, "config") \/ Finishes(j, TRUE)
      BY <1>9 DEF Legacy!LookForLead, Legacy!Recorded, Proceeds, Finishes
    <2>. QED
      BY <1>9, <2>1 DEF Legacy!LookForLead
  <1>10. ASSUME Legacy!InsertRow(j) PROVE Goal
    <2>1. Proceeds(j, "release") \/ Finishes(j, TRUE)
      BY <1>4, <1>10 DEF Legacy!InsertRow, Proceeds, Finishes, l
    <2>. QED
      BY <1>10, <2>1 DEF Legacy!InsertRow
  <1>11. ASSUME Legacy!ReleaseAndThrow(j) PROVE Goal
    <2>1. /\ Legacy!Answer(j, FALSE) /\ claims' \subseteq claims /\ reported' = reported
          /\ \/ claims' = claims \ {l} /\ Legacy!Abandon(j, ~job[j].heard)
             \/ Legacy!Abandon(j, TRUE)
      BY <1>11 DEF Legacy!ReleaseAndThrow, l
    <2>h. job[j].heard \in BOOLEAN
      BY DEF LegacyTyped, Legacy!TypeOK, Legacy!JobState
    <2>2. abandoned \subseteq abandoned'
      BY <2>1, <2>h, <1>3
    <2>3. job[j].pc = "release"
      BY <1>11 DEF Legacy!ReleaseAndThrow
    <2>4. l \in abandoned' \/ (job[j].heard /\ l \notin claims')
      <3>1. CASE Legacy!Abandon(j, TRUE)
        BY <2>3, <3>1, <1>3
      <3>2. CASE claims' = claims \ {l} /\ Legacy!Abandon(j, ~job[j].heard)
        BY <2>3, <2>h, <3>2, <1>3
      <3>. QED
        BY <2>1, <3>1, <3>2
    <2>5. Finishes(j, FALSE)
      BY <2>1, <2>2, <2>4 DEF Finishes, l
    <2>. QED
      BY <1>11, <2>5 DEF Legacy!ReleaseAndThrow
  <1>. HIDE DEF Goal
  <1>12. Goal
    BY <1>5, <1>6, <1>7, <1>8, <1>9, <1>10, <1>11 DEF Legacy!JobStep
  <1>. QED
    BY <1>0, <1>1, <1>12 DEF Goal

\* What an answer does to the tasks.
LEMMA AnswerEffects ==
    ASSUME LegacyTyped, JobsOwnTasks, NEW j \in Jobs, NEW ends \in BOOLEAN, Legacy!Answer(j, ends)
    PROVE  /\ job' = [job EXCEPT ![j] = Legacy!JobIdle]
           /\ \A q \in Tasks : \/ task'[q] = task[q]
                               \/ /\ job[j].heard /\ q = job[j].task /\ task[q].raw = job[j].raw
                                  /\ ends => task'[q].st = "free"
                                  /\ ~ends => task'[q].st # "free" /\ task'[q].raw = task[q].raw
           /\ job[j].heard /\ ~ends => /\ job[j].task \in Tasks
                                       /\ task'[job[j].task].st # "free"
                                       /\ task'[job[j].task].raw = job[j].raw
  <1>1. job' = [job EXCEPT ![j] = Legacy!JobIdle]
    BY DEF Legacy!Answer
  <1>2. CASE ~job[j].heard
    BY <1>1, <1>2 DEF Legacy!Answer
  <1>3. CASE job[j].heard
    <2>1. /\ job[j].task \in Tasks /\ task[job[j].task].raw = job[j].raw
          /\ task \in [Tasks -> Legacy!TaskState]
      BY <1>3 DEF LegacyTyped, JobsOK, JobsHeard, JobsOwnTasks, Legacy!TypeOK
    <2>2. CASE ends
      BY <1>1, <1>3, <2>1, <2>2 DEF Legacy!Answer, Legacy!TaskFree
    <2>3. CASE ~ends
      <3>1. task' = Legacy!FailedTry(job[j].task)
        BY <1>3, <2>3 DEF Legacy!Answer
      <3>. QED
        BY <1>1, <1>3, <2>1, <2>3, <3>1, FailedTryTyped
    <2>. QED
      BY <2>2, <2>3
  <1>. QED
    BY <1>2, <1>3

\* The webhook calls and the scan publish, and leave the jobs alone.
LEMMA PublishersEffects ==
    ASSUME LegacyTyped, Legacy!ScanStep \/ \E c \in Calls : Legacy!CallStep(c)
    PROVE  /\ UNCHANGED <<job, reported, abandoned, claims>>
           /\ task' = task \/ \E r : Legacy!Publish(r)
  <1>. USE DEF Legacy!shared
  <1>1. ASSUME NEW c \in Calls, Legacy!CallStep(c)
        PROVE  /\ UNCHANGED <<job, reported, abandoned, claims>>
               /\ task' = task \/ \E r : Legacy!Publish(r)
    BY <1>1 DEF Legacy!CallStep, Legacy!CampaignDelivery, Legacy!PublishRaw,
                Legacy!MarkRawEnqueued, Legacy!MarkRawFailed, Legacy!CallDone, Legacy!CallDies,
                Legacy!SaveRaw
  <1>2. ASSUME Legacy!ScanStep
        PROVE  /\ UNCHANGED <<job, reported, abandoned, claims>>
               /\ task' = task \/ \E r : Legacy!Publish(r)
    BY <1>2 DEF Legacy!ScanStep, Legacy!ScanStart, Legacy!ScanFormFails, Legacy!ListUnenqueued,
                Legacy!MarkRepublished, Legacy!MarkRepublishFailed, Legacy!ScanOver,
                Legacy!ScanDies, Legacy!ScanCampaign, Legacy!RecoverLead, Legacy!RepublishRaw
  <1>. QED
    BY <1>1, <1>2

\* A published row takes a task nobody used.
LEMMA PublishTakes ==
    ASSUME LegacyTyped, NEW r, Legacy!Publish(r)
    PROVE  \E q \in Tasks : /\ task[q].st = "free"
                            /\ task'[q].st # "free" /\ task'[q].raw = r
                            /\ \A p \in Tasks \ {q} : task'[p] = task[p]
  BY DEF Legacy!Publish, LegacyTyped, Legacy!TypeOK

\* Rows keep their lead, and only what was published is marked so.
LEMMA RawEffects ==
    ASSUME LegacyTyped, Legacy!Next, NEW r \in Raws
    PROVE  /\ Stored(r) => raw'[r].st # "none" /\ raw'[r].lead = raw[r].lead
           /\ raw'[r].st = "none" => raw'[r] = raw[r]
           /\ raw'[r].st = "enqueued" => \/ raw[r].st = "enqueued"
                                         \/ \E c \in Calls : call[c].pc = "mark" /\ call[c].cur = r
                                         \/ scan.pc = "mark" /\ scan.cur = r
  <1>. DEFINE Goal == /\ Stored(r) => raw'[r].st # "none" /\ raw'[r].lead = raw[r].lead
                      /\ raw'[r].st = "none" => raw'[r] = raw[r]
                      /\ raw'[r].st = "enqueued" =>
                           \/ raw[r].st = "enqueued"
                           \/ \E c \in Calls : call[c].pc = "mark" /\ call[c].cur = r
                           \/ scan.pc = "mark" /\ scan.cur = r
  <1>0. raw \in [Raws -> Legacy!RawState]
    BY DEF LegacyTyped, Legacy!TypeOK
  <1>u. ASSUME raw' = raw PROVE Goal
    BY <1>u DEF Stored
  <1>s. ASSUME NEW x, NEW st \in {"enqueued", "enqueue_failed"}, Legacy!SetRaw(x, st), Stored(x),
               st = "enqueued" => \/ \E c \in Calls : call[c].pc = "mark" /\ call[c].cur = x
                                  \/ scan.pc = "mark" /\ scan.cur = x
        PROVE  Goal
    <2>1. /\ raw'[r].lead = raw[r].lead
          /\ raw'[r].st = IF r = x THEN st ELSE raw[r].st
          /\ r # x => raw'[r] = raw[r]
      BY <1>0, <1>s DEF Legacy!SetRaw, Legacy!RawState, Stored
    <2>. QED
      BY <1>s, <2>1 DEF Stored
  <1>1. ASSUME NEW c \in Calls, Legacy!CallStep(c) PROVE Goal
    <2>1. ASSUME NEW l \in Leads, Legacy!SaveRaw(c, l) PROVE Goal
      <3>1. PICK x \in Raws :
              /\ raw[x].st = "none"
              /\ raw' = [raw EXCEPT ![x] = [st |-> "received", tenant |-> call[c].tenant, lead |-> l]]
        BY <2>1 DEF Legacy!SaveRaw, Legacy!FreeRaws
      <3>. QED
        BY <1>0, <3>1 DEF Stored
    <2>2. CASE Legacy!MarkRawEnqueued(c) \/ Legacy!MarkRawFailed(c)
      <3>1. Stored(call[c].cur)
        BY <2>2 DEF Legacy!MarkRawEnqueued, Legacy!MarkRawFailed, LegacyTyped, CallsRouted
      <3>2. \/ raw' = raw
            \/ Legacy!SetRaw(call[c].cur, "enqueued") /\ call[c].pc = "mark"
            \/ Legacy!SetRaw(call[c].cur, "enqueue_failed")
        BY <2>2 DEF Legacy!MarkRawEnqueued, Legacy!MarkRawFailed
      <3>. HIDE DEF Goal
      <3>. QED
        BY <1>u, <1>s, <3>1, <3>2
    <2>3. CASE Legacy!CampaignDelivery(c) \/ Legacy!PublishRaw(c) \/ Legacy!CallDone(c)
               \/ Legacy!CallDies(c)
      BY <1>u, <2>3 DEF Legacy!CampaignDelivery, Legacy!PublishRaw, Legacy!CallDone, Legacy!CallDies
    <2>. QED
      BY <1>1, <2>1, <2>2, <2>3 DEF Legacy!CallStep
  <1>2. ASSUME Legacy!ScanStep PROVE Goal
    <2>1. CASE Legacy!MarkRepublished \/ Legacy!MarkRepublishFailed
      <3>1. Stored(scan.cur)
        BY <2>1 DEF Legacy!MarkRepublished, Legacy!MarkRepublishFailed, LegacyTyped, ScanRouted
      <3>2. \/ raw' = raw
            \/ Legacy!SetRaw(scan.cur, "enqueued") /\ scan.pc = "mark"
            \/ Legacy!SetRaw(scan.cur, "enqueue_failed")
        BY <2>1 DEF Legacy!MarkRepublished, Legacy!MarkRepublishFailed
      <3>. HIDE DEF Goal
      <3>. QED
        BY <1>u, <1>s, <3>1, <3>2
    <2>2. CASE ~(Legacy!MarkRepublished \/ Legacy!MarkRepublishFailed)
      <3>1. raw' = raw
        BY <1>2, <2>2 DEF Legacy!ScanStep, Legacy!ScanStart, Legacy!ScanFormFails,
              Legacy!ListUnenqueued, Legacy!ScanOver, Legacy!ScanDies, Legacy!ScanCampaign,
              Legacy!RecoverLead, Legacy!RepublishRaw
      <3>. QED
        BY <1>u, <3>1
    <2>. QED
      BY <2>1, <2>2
  <1>3. ASSUME NEW j \in Jobs, Legacy!JobStep(j) \/ Legacy!JobDies(j) \/ Legacy!TaskAnswerLost(j)
        PROVE  Goal
    <2>1. raw' = raw
      BY <1>3 DEF Legacy!JobStep, Legacy!JobDies, Legacy!TaskAnswerLost, Legacy!JobReadFails,
           Legacy!AskEntitlement, Legacy!LogBlocked, Legacy!ClaimLead, Legacy!LookForLead,
           Legacy!ReadConfig, Legacy!FetchLead, Legacy!InsertRow, Legacy!ReleaseAndThrow
    <2>. QED
      BY <1>u, <2>1
  <1>4. ASSUME NEW q \in Tasks,
               Legacy!DeadLetterTask(q) \/ \E j \in Jobs : Legacy!DeliverTask(q, j)
        PROVE  Goal
    <2>1. raw' = raw
      BY <1>4 DEF Legacy!DeadLetterTask, Legacy!DeliverTask
    <2>. QED
      BY <1>u, <2>1
  <1>. HIDE DEF Goal
  <1>5. Goal
    BY <1>1, <1>2, <1>3, <1>4 DEF Legacy!Next
  <1>. QED
    BY <1>5 DEF Goal

\* A lead in hand stays there, ends recorded or abandoned, or goes back to its
\* task with the claim released.
LEMMA HoldingStays ==
    ASSUME Typed, LegacyTyped, JobsOwnTasks, Legacy!Next, NEW l \in Leads, Holding(l)
    PROVE  \/ l \in abandoned' \/ Holding(l)' \/ leads'[l] # << >>
           \/ Tasked(l)' /\ l \notin claims'
  <1>1. PICK i \in Jobs : job[i].pc \in Legacy!Claiming /\ raw[job[i].raw].lead = l
    BY DEF Holding
  <1>2. Stored(job[i].raw) /\ job[i].pc # "idle"
    BY <1>1 DEF Legacy!Claiming, LegacyTyped, JobsOK, JobsStored
  <1>3. raw'[job[i].raw].lead = l
    BY <1>1, <1>2, RawEffects DEF Stored
  <1>4. job \in [Jobs -> Legacy!JobState]
    BY DEF LegacyTyped, Legacy!TypeOK
  <1>k. ASSUME job'[i].pc \in Legacy!Claiming, job'[i].raw = job[i].raw PROVE Holding(l)'
    BY <1>3, <1>k DEF Holding, Legacy!Claiming
  <1>5. ASSUME NEW j \in Jobs, Legacy!JobStep(j) \/ Legacy!JobDies(j)
        PROVE  \/ l \in abandoned' \/ Holding(l)' \/ leads'[l] # << >>
               \/ Tasked(l)' /\ l \notin claims'
    <2>1. CASE i # j
      <3>1. job'[i] = job[i]
        <4>1. (\E pc : Legacy!Goto(j, pc)) \/ (\E ends \in BOOLEAN : Legacy!Answer(j, ends))
          BY <1>5, JobEffects DEF Proceeds, Finishes
        <4>. QED
          BY <1>4, <2>1, <4>1 DEF Legacy!Goto, Legacy!Answer
      <3>. QED
        BY <1>1, <1>k, <3>1
    <2>2. CASE i = j
      <3>0. Legacy!LeadOf(j) = l /\ raw' = raw
        BY <1>1, <1>5, <2>2, JobEffects DEF Legacy!LeadOf
      <3>1. ASSUME NEW pc, Proceeds(j, pc) PROVE Holding(l)'
        <4>1. job'[i].pc = pc /\ job'[i].raw = job[i].raw /\ pc \in Legacy!Claiming
          BY <1>1, <1>4, <2>2, <3>1 DEF Proceeds, Legacy!Goto, Legacy!JobState
        <4>. QED
          BY <4>1, <1>k
      <3>2. ASSUME NEW ends \in BOOLEAN, Finishes(j, ends)
            PROVE  \/ l \in abandoned' \/ leads'[l] # << >>
                   \/ Tasked(l)' /\ l \notin claims'
        <4>1. ASSUME ~ends, job[j].heard PROVE Tasked(l)'
          <5>1. /\ job[j].task \in Tasks /\ task'[job[j].task].st # "free"
                /\ task'[job[j].task].raw = job[j].raw
            BY <3>2, <4>1, AnswerEffects DEF Finishes
          <5>. QED
            BY <1>3, <2>2, <5>1 DEF Tasked
        <4>. QED
          BY <1>1, <2>2, <3>0, <3>2, <4>1 DEF Finishes
      <3>. QED
        BY <1>5, <3>1, <3>2, JobEffects
    <2>. QED
      BY <2>1, <2>2
  <1>6. ASSUME NEW j \in Jobs, Legacy!TaskAnswerLost(j) PROVE Holding(l)'
    <2>1. job'[i].pc = job[i].pc /\ job'[i].raw = job[i].raw
      BY <1>4, <1>6 DEF Legacy!TaskAnswerLost, Legacy!JobState
    <2>. QED
      BY <1>1, <1>k, <2>1
  <1>7. ASSUME NEW q \in Tasks, NEW j \in Jobs, Legacy!DeliverTask(q, j) PROVE Holding(l)'
    <2>1. job'[i] = job[i]
      BY <1>2, <1>4, <1>7 DEF Legacy!DeliverTask
    <2>. QED
      BY <1>1, <1>k, <2>1
  <1>8. ASSUME NEW q \in Tasks, Legacy!DeadLetterTask(q) PROVE Holding(l)'
    BY <1>1, <1>8, <1>k DEF Legacy!DeadLetterTask
  <1>9. ASSUME Legacy!ScanStep \/ \E c \in Calls : Legacy!CallStep(c) PROVE Holding(l)'
    <2>1. job' = job
      BY <1>9, PublishersEffects
    <2>. QED
      BY <1>1, <1>k, <2>1
  <1>. QED
    BY <1>5, <1>6, <1>7, <1>8, <1>9 DEF Legacy!Next

\* What the campaigns' pipeline reported or left behind it never takes back.
LEMMA ObserversGrow ==
    ASSUME Typed, LegacyTyped, Legacy!Next
    PROVE  reported \subseteq reported' /\ abandoned \subseteq abandoned'
  <1>1. ASSUME NEW j \in Jobs, Legacy!JobStep(j) \/ Legacy!JobDies(j)
        PROVE  reported \subseteq reported' /\ abandoned \subseteq abandoned'
    BY <1>1, JobEffects DEF Proceeds, Finishes
  <1>2. ASSUME Legacy!ScanStep \/ \E c \in Calls : Legacy!CallStep(c)
        PROVE  UNCHANGED <<reported, abandoned>>
    BY <1>2, PublishersEffects
  <1>3. ASSUME NEW j \in Jobs, Legacy!TaskAnswerLost(j) PROVE UNCHANGED <<reported, abandoned>>
    BY <1>3 DEF Legacy!TaskAnswerLost
  <1>4. ASSUME NEW q \in Tasks,
               Legacy!DeadLetterTask(q) \/ \E j \in Jobs : Legacy!DeliverTask(q, j)
        PROVE  reported \subseteq reported' /\ abandoned \subseteq abandoned'
    BY <1>4 DEF Legacy!DeadLetterTask, Legacy!DeliverTask
  <1>. QED
    BY <1>1, <1>2, <1>3, <1>4 DEF Legacy!Next

\* The lead of a task stays with it until it is recorded or reported, or a job
\* meets the claim of somebody else on it.
LEMMA TaskedStays ==
    ASSUME Typed, LegacyTyped, JobsOwnTasks, Legacy!Next, NEW l \in Leads, Tasked(l)
    PROVE  \/ l \in reported' \/ Tasked(l)' \/ leads'[l] # << >>
           \/ l \in claims /\ (Holding(l) => Holding(l)')
  <1>. DEFINE Goal == \/ l \in reported' \/ Tasked(l)' \/ leads'[l] # << >>
                      \/ l \in claims /\ (Holding(l) => Holding(l)')
  <1>0. task \in [Tasks -> Legacy!TaskState] /\ job \in [Jobs -> Legacy!JobState]
    BY DEF LegacyTyped, Legacy!TypeOK
  <1>1. PICK q \in Tasks : task[q].st # "free" /\ raw[task[q].raw].lead = l
    BY DEF Tasked
  <1>2. Stored(task[q].raw)
    BY <1>1 DEF LegacyTyped, JobsOK, TasksStored
  <1>3. raw'[task[q].raw].lead = l
    BY <1>1, <1>2, RawEffects DEF Stored
  <1>k. ASSUME task'[q].st # "free", task'[q].raw = task[q].raw PROVE Goal
    BY <1>3, <1>k DEF Tasked
  <1>4. ASSUME NEW j \in Jobs, Legacy!JobStep(j) \/ Legacy!JobDies(j) PROVE Goal
    <2>1. ASSUME NEW pc, Proceeds(j, pc) PROVE Goal
      BY <1>1, <1>k, <2>1 DEF Proceeds
    <2>2. ASSUME NEW ends \in BOOLEAN, Finishes(j, ends) PROVE Goal
      <3>1. \/ task'[q] = task[q]
            \/ /\ task[q].raw = job[j].raw
               /\ ends \/ (task'[q].st # "free" /\ task'[q].raw = task[q].raw)
        BY <2>2, AnswerEffects DEF Finishes
      <3>2. ASSUME ends, task[q].raw = job[j].raw PROVE Goal
        <4>1. Legacy!LeadOf(j) = l
          BY <1>1, <3>2 DEF Legacy!LeadOf
        <4>2. ASSUME job[j].pc = "claim", Holding(l) PROVE Holding(l)'
          <5>1. PICK i \in Jobs : job[i].pc \in Legacy!Claiming /\ raw[job[i].raw].lead = l
            BY <4>2 DEF Holding
          <5>2. job'[i] = job[i] /\ raw' = raw
            BY <1>0, <1>4, <2>2, <4>2, <5>1, JobEffects DEF Finishes, Legacy!Answer, Legacy!Claiming
          <5>. QED
            BY <5>1, <5>2 DEF Holding, Legacy!Claiming
        <4>. QED
          BY <2>2, <3>2, <4>1, <4>2 DEF Finishes
      <3>. HIDE DEF Goal
      <3>. QED
        BY <1>1, <1>k, <3>1, <3>2
    <2>. HIDE DEF Goal
    <2>. QED
      BY <1>4, <2>1, <2>2, JobEffects
  <1>5. ASSUME NEW j \in Jobs, Legacy!TaskAnswerLost(j) PROVE Goal
    <2>1. job[j].task \in Tasks /\ task' = Legacy!FailedTry(job[j].task)
      BY <1>5 DEF Legacy!TaskAnswerLost, LegacyTyped, JobsOK, JobsHeard
    <2>. QED
      BY <1>0, <1>1, <1>k, <2>1, FailedTryTyped
  <1>6. ASSUME NEW p \in Tasks, NEW j \in Jobs, Legacy!DeliverTask(p, j) PROVE Goal
    <2>1. task'[q].st # "free" /\ task'[q].raw = task[q].raw
      BY <1>0, <1>1, <1>6 DEF Legacy!DeliverTask, Legacy!TaskState
    <2>. QED
      BY <1>k, <2>1
  <1>7. ASSUME NEW p \in Tasks, Legacy!DeadLetterTask(p) PROVE Goal
    <2>1. CASE p = q
      BY <1>1, <1>7, <2>1 DEF Legacy!DeadLetterTask
    <2>2. CASE p # q
      BY <1>0, <1>1, <1>7, <1>k, <2>2 DEF Legacy!DeadLetterTask
    <2>. QED
      BY <2>1, <2>2
  <1>8. ASSUME Legacy!ScanStep \/ \E c \in Calls : Legacy!CallStep(c) PROVE Goal
    <2>1. task'[q] = task[q]
      BY <1>1, <1>8, PublishersEffects, PublishTakes
    <2>. QED
      BY <1>1, <1>k, <2>1
  <1>. HIDE DEF Goal
  <1>9. Goal
    BY <1>4, <1>5, <1>6, <1>7, <1>8 DEF Legacy!Next
  <1>. QED
    BY <1>9 DEF Goal

\* A tenant's worker that has a claim has its message.
LEMMA ClaimingCarries ==
    ASSUME Typed, AllHeard, NEW l, Claiming(l)
    PROVE  \E m \in Msgs : Carrying(m) /\ msg[m].event.lead = l
  <1>1. PICK w \in Workers : worker[w].pc \in ClaimingPCs /\ worker[w].event.lead = l
    BY DEF Claiming
  <1>2. worker[w].pc # "idle" /\ worker[w].pc # "duplicate" /\ worker[w].heard
    BY <1>1 DEF ClaimingPCs, AllHeard
  <1>3. /\ worker[w].msg \in Msgs /\ msg[worker[w].msg].st = "running"
        /\ msg[worker[w].msg].event = worker[w].event
    BY <1>2 DEF Typed, HeardIsRunning
  <1>4. \A v \in Workers : worker[v].pc = "duplicate" => worker[v].msg # worker[w].msg
    BY <1>2 DEF Typed, OneListener, AllHeard
  <1>. QED
    BY <1>1, <1>3, <1>4 DEF Carrying

\* Nothing but a publish brings a call or the scan to its mark.
LEMMA MarkOrigin ==
    ASSUME LegacyTyped, Legacy!Next, NEW c \in Calls, call'[c].pc = "mark"
    PROVE  /\ call'[c].cur = call[c].cur
           /\ call[c].pc = "mark" \/ (call[c].pc = "publish" /\ Legacy!Publish(call[c].cur))
  <1>0. call \in [Calls -> Legacy!CallState]
    BY DEF LegacyTyped, Legacy!TypeOK
  <1>1. CASE call'[c] = call[c]
    BY <1>1
  <1>2. CASE call'[c] # call[c]
    <2>1. \E d \in Calls : Legacy!CallStep(d)
      <3>1. ASSUME Legacy!ScanStep PROVE call' = call
        BY <3>1 DEF Legacy!ScanStep, Legacy!ScanStart, Legacy!ScanFormFails,
           Legacy!ListUnenqueued, Legacy!MarkRepublished, Legacy!MarkRepublishFailed,
           Legacy!ScanOver, Legacy!ScanDies, Legacy!ScanCampaign, Legacy!RecoverLead,
           Legacy!RepublishRaw
      <3>2. ASSUME NEW j \in Jobs, Legacy!JobStep(j) PROVE call' = call
        BY <3>2 DEF Legacy!JobStep, Legacy!JobReadFails, Legacy!AskEntitlement,
           Legacy!LogBlocked, Legacy!ClaimLead, Legacy!LookForLead, Legacy!ReadConfig,
           Legacy!FetchLead, Legacy!InsertRow, Legacy!ReleaseAndThrow
      <3>. QED
        BY <1>2, <3>1, <3>2 DEF Legacy!Next, Legacy!DeadLetterTask, Legacy!DeliverTask,
           Legacy!TaskAnswerLost, Legacy!JobDies
    <2>2. PICK d \in Calls : Legacy!CallStep(d)
      BY <2>1
    <2>. DEFINE Kin == \A b \in Calls \ {d} : call'[b] = call[b]
    <2>3. ASSUME ~Legacy!PublishRaw(d) PROVE Kin /\ call'[d].pc # "mark"
      <3>. USE DEF Legacy!CallIdle, Legacy!CallState
      <3>1. CASE Legacy!CampaignDelivery(d)
        BY <1>0, <3>1 DEF Legacy!CampaignDelivery
      <3>2. CASE \E l \in Leads : Legacy!SaveRaw(d, l)
        BY <1>0, <3>2 DEF Legacy!SaveRaw
      <3>3. CASE Legacy!MarkRawEnqueued(d) \/ Legacy!MarkRawFailed(d)
        BY <1>0, <3>3 DEF Legacy!MarkRawEnqueued, Legacy!MarkRawFailed
      <3>4. CASE Legacy!CallDone(d) \/ Legacy!CallDies(d)
        BY <1>0, <3>4 DEF Legacy!CallDone, Legacy!CallDies
      <3>. QED
        BY <2>2, <2>3, <3>1, <3>2, <3>3, <3>4 DEF Legacy!CallStep
    <2>5. Legacy!PublishRaw(d) => Kin
      BY <1>0 DEF Legacy!PublishRaw
    <2>6. Legacy!PublishRaw(c)
      BY <1>2, <2>3, <2>5
    <2>4. Legacy!Publish(call[c].cur) /\ call' = [call EXCEPT ![c].pc = "mark"]
      BY <1>0, <2>6 DEF Legacy!PublishRaw, Legacy!CallState
    <2>. QED
      BY <1>0, <2>6, <2>4 DEF Legacy!PublishRaw, Legacy!CallState
  <1>. QED
    BY <1>1, <1>2

LEMMA ScanMarkOrigin ==
    ASSUME LegacyTyped, Legacy!Next, scan'.pc = "mark"
    PROVE  \/ scan.pc = "mark" /\ scan'.cur = scan.cur
           \/ scan'.cur \in scan.list /\ Legacy!Publish(scan'.cur)
  <1>0. scan \in Legacy!ScanState
    BY DEF LegacyTyped, Legacy!TypeOK
  <1>1. CASE Legacy!ScanStep
    <2>1. CASE \E r \in Raws : Legacy!RepublishRaw(r)
      <3>1. PICK r \in Raws : Legacy!RepublishRaw(r)
        BY <2>1
      <3>2. r \in scan.list /\ Legacy!Publish(r) /\ scan' = [scan EXCEPT !.pc = "mark", !.cur = r]
        BY <1>0, <3>1 DEF Legacy!RepublishRaw, Legacy!ScanState
      <3>. QED
        BY <1>0, <3>2 DEF Legacy!ScanState
    <2>2. CASE ~\E r \in Raws : Legacy!RepublishRaw(r)
      <3>. USE DEF Legacy!ScanState, Legacy!ScanIdle
      <3>1. CASE Legacy!ScanStart
        <4>1. PICK active : scan' = [Legacy!ScanIdle EXCEPT !.pc = "scan", !.todo = active]
          BY <3>1 DEF Legacy!ScanStart
        <4>. QED
          BY <4>1
      <3>6. CASE Legacy!ScanOver \/ Legacy!ScanDies
        BY <3>6 DEF Legacy!ScanOver, Legacy!ScanDies
      <3>2. CASE Legacy!ScanFormFails \/ Legacy!ListUnenqueued
        BY <1>0, <3>2 DEF Legacy!ScanFormFails, Legacy!ListUnenqueued
      <3>3. CASE Legacy!MarkRepublished \/ Legacy!MarkRepublishFailed
        BY <1>0, <3>3 DEF Legacy!MarkRepublished, Legacy!MarkRepublishFailed
      <3>4. CASE \E t \in Tenants : Legacy!ScanCampaign(t)
        BY <1>0, <3>4 DEF Legacy!ScanCampaign
      <3>5. CASE \E t \in Tenants : \E l \in Leads : Legacy!RecoverLead(t, l)
        BY <1>0, <3>5 DEF Legacy!RecoverLead
      <3>. QED
        BY <1>1, <2>2, <3>1, <3>2, <3>3, <3>4, <3>5, <3>6 DEF Legacy!ScanStep
    <2>. QED
      BY <2>1, <2>2
  <1>2. CASE ~Legacy!ScanStep
    <2>1. ASSUME NEW c \in Calls, Legacy!CallStep(c) PROVE scan' = scan
      BY <2>1 DEF Legacy!CallStep, Legacy!CampaignDelivery, Legacy!PublishRaw,
                  Legacy!MarkRawEnqueued, Legacy!MarkRawFailed, Legacy!CallDone, Legacy!CallDies,
                  Legacy!SaveRaw
    <2>2. ASSUME NEW j \in Jobs, Legacy!JobStep(j) \/ Legacy!JobDies(j) PROVE scan' = scan
      BY <2>2 DEF Legacy!JobStep, Legacy!JobDies, Legacy!JobReadFails, Legacy!AskEntitlement,
          Legacy!LogBlocked, Legacy!ClaimLead, Legacy!LookForLead, Legacy!ReadConfig,
          Legacy!FetchLead, Legacy!InsertRow, Legacy!ReleaseAndThrow
    <2>. QED
      BY <1>2, <2>1, <2>2 DEF Legacy!Next, Legacy!DeadLetterTask, Legacy!DeliverTask,
         Legacy!TaskAnswerLost
  <1>. QED
    BY <1>1, <1>2

\* A job that is listened to goes on working on the row of its task.
LEMMA OwnTasksStay ==
    ASSUME Typed, LegacyTyped, JobsOwnTasks, Legacy!Next
    PROVE  JobsOwnTasks'
  <1>0. /\ task \in [Tasks -> Legacy!TaskState] /\ job \in [Jobs -> Legacy!JobState]
        /\ \A i \in Jobs : job[i].heard => /\ job[i].task \in Tasks
                                           /\ task[job[i].task].st = "running"
                                           /\ task[job[i].task].raw = job[i].raw
        /\ \A i, j \in Jobs : job[i].heard /\ job[j].heard /\ i # j => job[i].task # job[j].task
    BY DEF LegacyTyped, Legacy!TypeOK, JobsOK, JobsHeard, JobsOwnTasks
  <1>k. ASSUME \A i \in Jobs : job'[i].heard =>
                 /\ job[i].heard /\ job'[i].task = job[i].task /\ job'[i].raw = job[i].raw
                 /\ task'[job[i].task].raw = task[job[i].task].raw
        PROVE  JobsOwnTasks'
    BY <1>0, <1>k DEF JobsOwnTasks
  <1>1. ASSUME NEW j \in Jobs, Legacy!JobStep(j) \/ Legacy!JobDies(j) PROVE JobsOwnTasks'
    <2>1. ASSUME NEW pc, Proceeds(j, pc) PROVE JobsOwnTasks'
      BY <1>0, <1>k, <2>1 DEF Proceeds, Legacy!Goto, Legacy!JobState
    <2>2. ASSUME NEW ends \in BOOLEAN, Finishes(j, ends) PROVE JobsOwnTasks'
      <3>1. /\ job' = [job EXCEPT ![j] = Legacy!JobIdle]
            /\ \A q \in Tasks : task'[q] = task[q] \/ (job[j].heard /\ q = job[j].task)
        BY <2>2, AnswerEffects DEF Finishes
      <3>2. ASSUME NEW i \in Jobs, job'[i].heard PROVE i # j /\ job'[i] = job[i]
        BY <1>0, <3>1, <3>2 DEF Legacy!JobIdle
      <3>. QED
        BY <1>0, <1>k, <3>1, <3>2
    <2>. QED
      BY <1>1, <2>1, <2>2, JobEffects
  <1>2. ASSUME NEW j \in Jobs, Legacy!TaskAnswerLost(j) PROVE JobsOwnTasks'
    <2>1. /\ job[j].heard /\ job' = [job EXCEPT ![j].heard = FALSE]
          /\ task' = Legacy!FailedTry(job[j].task)
      BY <1>2 DEF Legacy!TaskAnswerLost
    <2>2. \A q \in Tasks \ {job[j].task} : task'[q] = task[q]
      BY <1>0, <2>1, FailedTryTyped
    <2>3. \A i \in Jobs : job'[i].heard => i # j /\ job'[i] = job[i]
      BY <1>0, <2>1 DEF Legacy!JobState
    <2>. QED
      BY <1>0, <1>k, <2>1, <2>2, <2>3
  <1>3. ASSUME NEW p \in Tasks, NEW j \in Jobs, Legacy!DeliverTask(p, j) PROVE JobsOwnTasks'
    <2>1. /\ job'[j].raw = task[p].raw /\ job'[j].task = p
          /\ \A i \in Jobs \ {j} : job'[i] = job[i]
          /\ \A q \in Tasks : task'[q].raw = task[q].raw
      BY <1>0, <1>3 DEF Legacy!DeliverTask, Legacy!TaskState
    <2>. QED
      BY <1>0, <2>1 DEF JobsOwnTasks
  <1>4. ASSUME NEW p \in Tasks, Legacy!DeadLetterTask(p) PROVE JobsOwnTasks'
    <2>1. task[p].st = "exhausted" /\ job' = job /\ \A q \in Tasks \ {p} : task'[q] = task[q]
      BY <1>0, <1>4 DEF Legacy!DeadLetterTask
    <2>. QED
      BY <1>0, <1>k, <2>1
  <1>5. ASSUME Legacy!ScanStep \/ \E c \in Calls : Legacy!CallStep(c) PROVE JobsOwnTasks'
    <2>1. job' = job /\ \A q \in Tasks : task[q].st # "free" => task'[q] = task[q]
      BY <1>5, PublishersEffects, PublishTakes
    <2>. QED
      BY <1>0, <1>k, <2>1
  <1>. QED
    BY <1>1, <1>2, <1>3, <1>4, <1>5 DEF Legacy!Next

\* What is accounted for stays so when the campaigns' pipeline works.
LEMMA LegacyAccounts ==
    ASSUME Typed, LegacyTyped, JobsOwnTasks, WorkInv(Held), Legacy!Next, UNCHANGED tenantVars,
           \A k \in Leads : Recorded(k) => leads'[k] = leads[k],
           NEW l \in Leads, Accounted(Elsewhere, l)
    PROVE  Accounted(Elsewhere, l)'
  <1>0. UNCHANGED <<msg, worker, dropped>>
    BY DEF tenantVars
  <1>r. ASSUME leads'[l] # << >> PROVE Accounted(Elsewhere, l)'
    BY <1>r DEF Accounted, Recorded
  <1>e. ASSUME \/ l \in abandoned' \/ Holding(l)' \/ l \in reported' \/ Tasked(l)'
        PROVE  Accounted(Elsewhere, l)'
    <2>1. l \in Elsewhere'
      BY <1>e DEF Elsewhere
    <2>. QED
      BY <2>1 DEF Accounted
  <1>1. CASE Recorded(l)
    BY <1>1, <1>r DEF Recorded
  <1>2. CASE \E e \in dropped : e.lead = l
    BY <1>0, <1>2 DEF Accounted
  <1>3. CASE \E m \in Msgs : Carrying(m) /\ msg[m].event.lead = l
    BY <1>0, <1>3 DEF Accounted, Carrying
  <1>4. CASE l \in abandoned \/ l \in reported
    BY <1>4, <1>e, ObserversGrow
  <1>5. CASE Holding(l)
    BY <1>5, <1>e, <1>r, HoldingStays
  <1>6. CASE Tasked(l)
    <2>1. ASSUME l \in claims, Holding(l) => Holding(l)' PROVE Accounted(Elsewhere, l)'
      <3>1. CASE Claiming(l)
        BY <1>3, <3>1, ClaimingCarries DEF WorkInv
      <3>2. CASE Recorded(l)
        BY <1>1, <3>2
      <3>3. CASE l \in Held
        BY <1>4, <1>e, <2>1, <3>3 DEF Held
      <3>. QED
        BY <2>1, <3>1, <3>2, <3>3 DEF WorkInv, ClaimsBacked
    <2>. QED
      BY <1>6, <1>e, <1>r, <2>1, TaskedStays
  <1>. QED
    BY <1>1, <1>2, <1>3, <1>4, <1>5, <1>6 DEF Accounted, Elsewhere

\* What the claims of a job's step are: those before it, and its own.
LEMMA ClaimsOfJobs ==
    ASSUME Typed, LegacyTyped, Legacy!Next, NEW l \in Leads, l \in claims', l \notin claims
    PROVE  Holding(l)'
  <1>1. PICK j \in Jobs : Legacy!JobStep(j) \/ Legacy!JobDies(j)
    BY PublishersEffects
    DEF Legacy!Next, Legacy!DeadLetterTask, Legacy!DeliverTask, Legacy!TaskAnswerLost, Legacy!shared
  <1>2. PICK pc : Proceeds(j, pc) /\ claims' = claims \cup {Legacy!LeadOf(j)} /\ pc = "exists"
    BY <1>1, JobEffects DEF Proceeds, Finishes
  <1>3. raw' = raw
    BY <1>1, JobEffects
  <1>4. job'[j].pc = "exists" /\ job'[j].raw = job[j].raw
    BY <1>2 DEF Proceeds, Legacy!Goto, LegacyTyped, Legacy!TypeOK, Legacy!JobState
  <1>5. raw[job[j].raw].lead = l
    BY <1>2 DEF Legacy!LeadOf
  <1>. QED
    BY <1>3, <1>4, <1>5 DEF Holding, Legacy!Claiming

LEMMA LegacyWork ==
    ASSUME Typed, LegacyTyped, JobsOwnTasks, WorkInv(Held), Legacy!Next, UNCHANGED tenantVars,
           \A k \in Leads : Recorded(k) => leads'[k] = leads[k], claims' \subseteq Leads
    PROVE  WorkInv(Held)'
  <1>0. worker' = worker
    BY DEF tenantVars
  <1>1. AllHeard'
    BY <1>0 DEF WorkInv, AllHeard
  <1>2. InsertedIsRecorded'
    <2>1. ASSUME NEW w \in Workers, worker[w].pc \in {"complete", "lost"}
          PROVE  leads'[worker[w].event.lead] # << >>
      <3>1. worker[w].event.lead \in Leads
        BY <2>1 DEF Typed, BusyHasEvent, Events
      <3>. QED
        BY <2>1, <3>1 DEF WorkInv, InsertedIsRecorded, Recorded
    <2>. QED
      BY <1>0, <2>1 DEF InsertedIsRecorded, Recorded
  <1>3. ASSUME NEW l \in Leads, l \in claims' PROVE l \in Held' \/ Recorded(l)' \/ Claiming(l)'
    <2>h. ASSUME l \in abandoned' \/ Holding(l)' PROVE l \in Held'
      BY <2>h DEF Held
    <2>1. CASE l \notin claims
      BY <1>3, <2>1, <2>h, ClaimsOfJobs
    <2>2. CASE l \in abandoned
      BY <2>2, <2>h, ObserversGrow
    <2>3. CASE Holding(l)
      BY <1>3, <2>3, <2>h, HoldingStays DEF Recorded
    <2>4. CASE Recorded(l)
      BY <2>4 DEF Recorded
    <2>5. CASE Claiming(l)
      BY <1>0, <2>5 DEF Claiming
    <2>. QED
      BY <2>1, <2>2, <2>3, <2>4, <2>5 DEF WorkInv, ClaimsBacked, Held
  <1>4. ClaimsBacked(Held)'
    BY <1>3 DEF ClaimsBacked
  <1>. QED
    BY <1>1, <1>2, <1>4 DEF WorkInv

LEMMA LegacyRaws ==
    ASSUME Typed, LegacyTyped, JobsOwnTasks, RawsAccounted, Legacy!Next,
           \A l \in Leads : Accounted(Elsewhere, l) => Accounted(Elsewhere, l)'
    PROVE  RawsAccounted'
  <1>1. ASSUME NEW r \in Raws, raw'[r].st = "none" PROVE raw'[r].lead = None
    BY <1>1, RawEffects DEF RawsAccounted
  <1>k. ASSUME NEW r, Stored(r), Accounted(Elsewhere, raw[r].lead)
        PROVE  Accounted(Elsewhere, raw[r].lead)'
    <2>1. PICK l \in Leads : l = raw[r].lead
      BY <1>k, StoredLead
    <2>2. Accounted(Elsewhere, l)'
      BY <1>k, <2>1
    <2>3. r \in Raws /\ raw'[r].lead = l
      BY <1>k, <2>1, RawEffects DEF Stored
    <2>. QED
      BY <2>2, <2>3
  <1>p. ASSUME NEW r, Stored(r), Legacy!Publish(r) PROVE Accounted(Elsewhere, raw[r].lead)'
    <2>1. PICK l \in Leads : l = raw[r].lead
      BY <1>p, StoredLead
    <2>2. r \in Raws /\ raw'[r].lead = l
      BY <1>p, <2>1, RawEffects DEF Stored
    <2>3. Tasked(l)'
      BY <1>p, <2>2, PublishTakes DEF Tasked
    <2>4. l \in Elsewhere'
      BY <2>3 DEF Elsewhere
    <2>5. Accounted(Elsewhere, l)'
      BY <2>4 DEF Accounted
    <2>. QED
      BY <2>2, <2>5
  <1>2. ASSUME NEW r \in Raws, raw'[r].st = "enqueued" PROVE Accounted(Elsewhere, raw[r].lead)'
    <2>1. Stored(r) /\ Accounted(Elsewhere, raw[r].lead)
      BY <1>2, RawEffects DEF RawsAccounted, LegacyTyped, CallsRouted, ScanRouted, Stored
    <2>. QED
      BY <1>k, <2>1
  <1>3. ASSUME NEW c \in Calls, call'[c].pc = "mark"
        PROVE  Accounted(Elsewhere, raw[call[c].cur].lead)'
    <2>1. PICK r : r = call[c].cur /\ call'[c].cur = r
      BY <1>3, MarkOrigin
    <2>2. Stored(r)
      BY <1>3, <2>1, MarkOrigin DEF LegacyTyped, CallsRouted
    <2>3. Accounted(Elsewhere, raw[r].lead) \/ Legacy!Publish(r)
      BY <1>3, <2>1, MarkOrigin DEF RawsAccounted
    <2>4. Accounted(Elsewhere, raw[r].lead)'
      BY <1>k, <1>p, <2>2, <2>3
    <2>. QED
      BY <2>1, <2>4
  <1>4. ASSUME scan'.pc = "mark" PROVE Accounted(Elsewhere, raw[scan.cur].lead)'
    <2>1. PICK r : r = scan'.cur
      OBVIOUS
    <2>2. \/ scan.pc = "mark" /\ r = scan.cur
          \/ r \in scan.list /\ Legacy!Publish(r)
      BY <1>4, <2>1, ScanMarkOrigin
    <2>3. Stored(r)
      BY <2>2 DEF LegacyTyped, ScanRouted
    <2>4. Accounted(Elsewhere, raw[r].lead)'
      BY <1>k, <1>p, <2>2, <2>3 DEF RawsAccounted
    <2>. QED
      BY <2>1, <2>4
  <1>. QED
    BY <1>1, <1>2, <1>3, <1>4 DEF RawsAccounted

LEMMA LegacyDiscards ==
    ASSUME Typed, LegacyTyped, DiscardInv, Legacy!Next, UNCHANGED tenantVars,
           \A k \in Leads : Recorded(k) => leads'[k] = leads[k], claims' \subseteq Leads
    PROVE  DiscardInv'
  <1>0. UNCHANGED <<hook, status, msg, worker, sweep, dropped>>
    BY DEF tenantVars
  <1>1. WorkInv(Held) /\ JobsOwnTasks /\ RawsAccounted
    BY DEF DiscardInv
  <1>2. \A l \in Leads : Accounted(Elsewhere, l) => Accounted(Elsewhere, l)'
    BY <1>1, LegacyAccounts
  <1>3. WorkInv(Held)' /\ JobsOwnTasks' /\ RawsAccounted'
    BY <1>1, <1>2, LegacyWork, OwnTasksStay, LegacyRaws
  <1>4. MessagesAccounted(Elsewhere)'
    <2>1. ASSUME NEW m \in Msgs, msg[m].st # "free" PROVE Accounted(Elsewhere, msg[m].event.lead)'
      <3>1. PICK l \in Leads : l = msg[m].event.lead
        BY <2>1 DEF Typed, BusyHasEvent, Live, Events
      <3>2. Accounted(Elsewhere, l)'
        BY <1>2, <2>1, <3>1 DEF DiscardInv, MessagesAccounted
      <3>. QED
        BY <1>0, <3>1, <3>2
    <2>. QED
      BY <1>0, <2>1 DEF MessagesAccounted
  <1>5. MarksAccounted(Elsewhere)'
    <2>1. ASSUME NEW h \in Hooks, hook[h].pc = "mark"
          PROVE  Accounted(Elsewhere, hook[h].cur.lead)'
      <3>1. PICK l \in Leads : l = hook[h].cur.lead
        BY <2>1 DEF Typed, BusyHasEvent, Events
      <3>2. Accounted(Elsewhere, l)'
        BY <1>2, <2>1, <3>1 DEF DiscardInv, MarksAccounted
      <3>. QED
        BY <1>0, <3>1, <3>2
    <2>2. ASSUME sweep.pc = "mark" PROVE Accounted(Elsewhere, sweep.cur.lead)'
      <3>1. PICK l \in Leads : l = sweep.cur.lead
        BY <2>2 DEF Typed, BusyHasEvent, Events
      <3>2. Accounted(Elsewhere, l)'
        BY <1>2, <2>2, <3>1 DEF DiscardInv, MarksAccounted
      <3>. QED
        BY <1>0, <3>1, <3>2
    <2>. QED
      BY <1>0, <2>1, <2>2 DEF MarksAccounted
  <1>6. StatusAccounted(Elsewhere)'
    <2>1. ASSUME NEW e \in Events, status[e] \notin {"none", "received"}
          PROVE  Accounted(Elsewhere, e.lead)'
      BY <1>2, <2>1 DEF DiscardInv, StatusAccounted, Events
    <2>. QED
      BY <1>0, <2>1, Constants DEF StatusAccounted
  <1>. QED
    BY <1>3, <1>4, <1>5, <1>6 DEF DiscardInv

\* WhatsApp changes nothing that a lead of Meta depends on.
LEMMA QuietDiscards ==
    ASSUME DiscardInv, UNCHANGED tenantVars, UNCHANGED legacyVars, UNCHANGED <<claims, leads>>
    PROVE  DiscardInv'
  <1>1. UNCHANGED <<hook, status, msg, worker, sweep, dropped>>
    BY DEF tenantVars
  <1>2. UNCHANGED <<raw, call, task, job, scan, reported, abandoned>>
    BY DEF legacyVars
  <1>3. PICK X : X = Elsewhere
    OBVIOUS
  <1>4. PICK Y : Y = Held
    OBVIOUS
  <1>5. Elsewhere' = X /\ Held' = Y
    BY <1>2, <1>3, <1>4 DEF Elsewhere, Held, Holding, Tasked
  <1>6. \A l : Accounted(X, l)' <=> Accounted(X, l)
    BY <1>1 DEF Accounted, Carrying, Recorded
  <1>7. WorkInv(Y)'
    BY <1>1, <1>4 DEF DiscardInv, WorkInv, AllHeard, InsertedIsRecorded, ClaimsBacked, Claiming,
                      Recorded
  <1>8. MessagesAccounted(X)'
    BY <1>1, <1>3, <1>6 DEF DiscardInv, MessagesAccounted
  <1>9. MarksAccounted(X)'
    BY <1>1, <1>3, <1>6 DEF DiscardInv, MarksAccounted
  <1>10. StatusAccounted(X)'
    BY <1>1, <1>3, <1>6, Constants DEF DiscardInv, StatusAccounted
  <1>11. JobsOwnTasks'
    BY <1>2 DEF DiscardInv, JobsOwnTasks
  <1>12. RawsAccounted'
    BY <1>2, <1>3, <1>5, <1>6 DEF DiscardInv, RawsAccounted
  <1>. QED
    BY <1>5, <1>7, <1>8, <1>9, <1>10, <1>11, <1>12 DEF DiscardInv

LEMMA DiscardStep ==
    ASSUME Steady, SharedInv, DiscardInv, [SharedNext]_allVars
    PROVE  DiscardInv'
  <1>1. CASE TenantStep
    <2>1. /\ [Next]_vars /\ UNCHANGED <<raw, call, task, job, reported, abandoned>>
          /\ scan' = scan \/ scan' = Legacy!ScanIdle
      BY <1>1 DEF TenantStep, legacyVars
    <2>. QED
      BY <2>1, TenantDiscards DEF SharedInv
  <1>2. CASE LegacyStep
    <2>1. \A k \in Leads : Recorded(k) => leads'[k] = leads[k]
      BY NextRows, RowsShared DEF SharedInv
    <2>2. claims' \subseteq Leads
      BY <1>2, LegacyNextTyped DEF LegacyStep, SharedInv
    <2>. QED
      BY <1>2, <2>1, <2>2, LegacyDiscards DEF LegacyStep, SharedInv, tenantVars
  <1>3. CASE WhatsAppStep
    BY <1>3, QuietDiscards DEF WhatsAppStep
  <1>4. CASE UNCHANGED allVars
    <2>1. UNCHANGED tenantVars /\ UNCHANGED legacyVars /\ UNCHANGED <<claims, leads>>
      BY <1>4 DEF allVars, vars, tenantVars
    <2>. QED
      BY <2>1, QuietDiscards
  <1>. QED
    BY <1>1, <1>2, <1>3, <1>4 DEF SharedNext

LEMMA DiscardInit ==
    ASSUME SharedInit
    PROVE  DiscardInv
  <1>. USE DEF SharedInit, Init, Legacy!Init
  <1>1. WorkInv(Held)
    BY DEF WorkInv, AllHeard, InsertedIsRecorded, ClaimsBacked, WorkerIdle
  <1>2. MessagesAccounted(Elsewhere) /\ MarksAccounted(Elsewhere) /\ StatusAccounted(Elsewhere)
    BY DEF MessagesAccounted, MarksAccounted, StatusAccounted, MsgFree, HookIdle, SweepIdle
  <1>3. JobsOwnTasks
    BY DEF JobsOwnTasks, Legacy!JobIdle
  <1>4. RawsAccounted
    BY DEF RawsAccounted, Legacy!RawFree, Legacy!CallIdle, Legacy!ScanIdle
  <1>. QED
    BY <1>1, <1>2, <1>3, <1>4 DEF DiscardInv

\* Where the inductive invariant and the property meet: what is stored is
\* still to be published, or accounted for by one pipeline or the other.
LEMMA StoredAccounted ==
    ASSUME SharedInv, DiscardInv, NEW l \in Leads, Captured(l)
    PROVE  Recorded(l) \/ OnItsWay(l) \/ Reported(l) \/ l \in abandoned
  <1>1. CASE Accounted(Elsewhere, l)
    <2>1. CASE \E e \in dropped : e.lead = l
      BY <2>1 DEF Reported, EventsOf, SharedInv, Typed, TypeOK
    <2>2. CASE \E m \in Msgs : Carrying(m) /\ msg[m].event.lead = l
      BY <2>2 DEF Carrying, OnItsWay, Live
    <2>3. CASE l \in Elsewhere
      BY <2>3 DEF Elsewhere, Holding, Tasked, OnItsWay, Reported, Legacy!LeadOf
    <2>. QED
      BY <1>1, <2>1, <2>2, <2>3 DEF Accounted
  <1>2. ASSUME NEW e \in EventsOf(l), status[e] # "none"
        PROVE  Accounted(Elsewhere, l) \/ OnItsWay(l)
    <2>1. e \in Events /\ e.lead = l
      BY <1>2 DEF EventsOf
    <2>. QED
      BY <1>2, <2>1 DEF DiscardInv, StatusAccounted, OnItsWay
  <1>3. ASSUME NEW r \in Raws, raw[r].st # "none", raw[r].lead = l
        PROVE  Accounted(Elsewhere, l) \/ OnItsWay(l)
    <2>1. raw[r].st \in {"received", "enqueued", "enqueue_failed"}
      BY <1>3 DEF SharedInv, LegacyTyped, Legacy!TypeOK, Legacy!RawState
    <2>. QED
      BY <1>3, <2>1 DEF DiscardInv, RawsAccounted, OnItsWay
  <1>. QED
    BY <1>1, <1>2, <1>3 DEF Captured

\* No lead that either Meta pipeline stored is discarded in silence by a race
\* of the two, whatever fails in the campaigns' pipeline, and whatever Graph,
\* the Pages, the queue, the entitlements and the expiry of claims do to the
\* tenants' one, as long as its workers are not killed or cut off and its
\* stores answer them: a duplicate is always a duplicate of something.
THEOREM NothingDiscardedBetween ==
    ASSUME Steady PROVE SharedSpec => []NothingDiscarded
  <1>1. SharedInit => DiscardInv
    BY DiscardInit
  <1>2. SharedInv /\ DiscardInv /\ [SharedNext]_allVars => DiscardInv'
    BY DiscardStep
  <1>3. SharedInv /\ DiscardInv => NothingDiscarded
    BY StoredAccounted DEF NothingDiscarded
  <1>. QED
    BY <1>1, <1>2, <1>3, AlwaysShared, PTL DEF SharedSpec
=============================================================================
