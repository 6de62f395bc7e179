------------------------ MODULE LeadIngestionProofs ------------------------
(***************************************************************************)
(* Proofs about LeadIngestion for any number of leads, tenants, webhook    *)
(* invocations, workers, messages and retries, and under every fault.      *)
(***************************************************************************)
EXTENDS LeadIngestion, TLAPS

\* No definition of a set of states depends on the state.
LEMMA Constants ==
    /\ Events' = Events
    /\ Statuses' = Statuses
    /\ HookState' = HookState
    /\ MsgState' = MsgState
    /\ WorkerState' = WorkerState
    /\ SweepState' = SweepState
  BY DEF Events, Statuses, HookState, MsgState, WorkerState, WorkerPCs, SweepState

\* What an INSERT does to the rows, in the terms the proofs use.
LEMMA InsertTyped ==
    ASSUME leads \in [Leads -> Seq(Tenants)], NEW e \in Events
    PROVE  RowsAfterInsert(e) \in [Leads -> Seq(Tenants)]
  BY DEF RowsAfterInsert, RowsAfterBlindInsert, Recorded, Events

\* A failed attempt keeps the message's event and leaves it queued or exhausted.
LEMMA FailedAttemptTyped ==
    ASSUME msg \in [Msgs -> MsgState], NEW m \in Msgs
    PROVE  /\ FailedAttempt(m) \in [Msgs -> MsgState]
           /\ \A n \in Msgs \ {m} : FailedAttempt(m)[n] = msg[n]
           /\ FailedAttempt(m)[m].event = msg[m].event
           /\ FailedAttempt(m)[m].st \in {"queued", "exhausted"}
  <1>. msg[m] \in MsgState
    OBVIOUS
  <1>1. CASE msg[m].tries < Retries
    <2>1. msg[m].tries + 1 \in 0..Retries
      BY <1>1, RetriesAssumption DEF MsgState
    <2>. QED
      BY <1>1, <2>1 DEF FailedAttempt, MsgState
  <1>2. CASE ~(msg[m].tries < Retries)
    BY <1>2 DEF FailedAttempt, MsgState
  <1>. QED
    BY <1>1, <1>2

(***************************************************************************)
(* Beyond the types: what is at work has something to work on. A busy      *)
(* worker and a live message have an event; a worker QStash listens to is  *)
(* alone with a running message of its event.                              *)
(***************************************************************************)
BusyHasEvent ==
    /\ \A w \in Workers : worker[w].pc # "idle" => worker[w].event \in Events
    /\ \A m \in Msgs : Live(m) => msg[m].event \in Events
    /\ \A h \in Hooks : hook[h].pc = "mark" => hook[h].cur \in Events
    /\ sweep.pc = "mark" => sweep.cur \in Events

HeardIsRunning ==
    \A w \in Workers : worker[w].heard =>
        /\ worker[w].pc # "idle"
        /\ worker[w].msg \in Msgs
        /\ msg[worker[w].msg].st = "running"
        /\ msg[worker[w].msg].event = worker[w].event

OneListener ==
    \A v, w \in Workers :
        worker[v].heard /\ worker[w].heard /\ v # w => worker[v].msg # worker[w].msg

Typed == TypeOK /\ BusyHasEvent /\ HeardIsRunning /\ OneListener

LEMMA ReturnTyped ==
    ASSUME Typed, NEW w \in Workers, NEW ends \in BOOLEAN, Return(w, ends),
           hook' = hook, sweep' = sweep
    PROVE  /\ worker' \in [Workers -> WorkerState]
           /\ msg' \in [Msgs -> MsgState]
           /\ (BusyHasEvent /\ HeardIsRunning /\ OneListener)'
  <1>. USE DEF Typed, TypeOK
  <1>1. worker' \in [Workers -> WorkerState]
    BY DEF Return, WorkerIdle, WorkerState, WorkerPCs
  <1>0. /\ worker'[w] = WorkerIdle
        /\ \A v \in Workers \ {w} : worker'[v] = worker[v]
    BY DEF Return
  <1>2. CASE ~worker[w].heard
    <2>1. msg' = msg
      BY <1>2 DEF Return
    <2>2. BusyHasEvent'
      <3>1. \A v \in Workers : worker'[v].pc # "idle" => v # w /\ worker'[v] = worker[v]
        BY <1>0 DEF WorkerIdle
      <3>. QED
        BY <2>1, <3>1, Constants DEF BusyHasEvent, Live
    <2>0. \A v \in Workers : worker'[v].heard => v # w /\ worker'[v] = worker[v]
      BY <1>0 DEF WorkerIdle
    <2>3. HeardIsRunning'
      BY <2>0, <2>1 DEF HeardIsRunning
    <2>4. OneListener'
      BY <2>0 DEF OneListener
    <2>. QED
      BY <1>1, <2>1, <2>2, <2>3, <2>4
  <1>3. CASE worker[w].heard
    <2>. DEFINE m == worker[w].msg
    <2>1. m \in Msgs /\ msg[m].st = "running" /\ Live(m)
      BY <1>3 DEF HeardIsRunning, Live
    <2>2. /\ msg' \in [Msgs -> MsgState]
          /\ \A n \in Msgs \ {m} : msg'[n] = msg[n]
          /\ msg'[m].st # "free" => msg'[m].event = msg[m].event
      <3>1. CASE ends
        BY <1>3, <2>1, <3>1, RetriesAssumption DEF Return, MsgFree, MsgState
      <3>2. CASE ~ends
        BY <1>3, <2>1, <3>2, FailedAttemptTyped DEF Return
      <3>. QED
        BY <3>1, <3>2
    <2>3. \A v \in Workers : worker'[v].heard =>
             v # w /\ worker[v].heard /\ worker[v].msg # m /\ worker'[v] = worker[v]
      BY <1>3, <1>0 DEF OneListener, WorkerIdle
    <2>4. BusyHasEvent'
      <3>1. \A n \in Msgs : msg'[n].st # "free" => Live(n) /\ msg'[n].event = msg[n].event
        BY <2>1, <2>2 DEF Live
      <3>2. \A v \in Workers : worker'[v].pc # "idle" => worker'[v].event = worker[v].event
                                                        /\ worker[v].pc # "idle"
        BY <1>0 DEF WorkerIdle
      <3>. QED
        BY <3>1, <3>2 DEF BusyHasEvent, Live, Events
    <2>5. HeardIsRunning'
      BY <1>1, <2>2, <2>3 DEF HeardIsRunning
    <2>6. OneListener'
      BY <2>3 DEF OneListener
    <2>. QED
      BY <1>1, <2>2, <2>4, <2>5, <2>6
  <1>. QED
    BY <1>2, <1>3

LEMMA GotoTyped ==
    ASSUME Typed, NEW w \in Workers, NEW pc \in WorkerPCs, pc # "idle",
           worker[w].pc # "idle", Goto(w, pc),
           msg' = msg, hook' = hook, sweep' = sweep
    PROVE  /\ worker' \in [Workers -> WorkerState]
           /\ msg' \in [Msgs -> MsgState]
           /\ (BusyHasEvent /\ HeardIsRunning /\ OneListener)'
  <1>. USE DEF Typed, TypeOK
  <1>1. worker' \in [Workers -> WorkerState]
    BY DEF Goto, WorkerState
  <1>2. \A v \in Workers : /\ worker'[v].event = worker[v].event
                           /\ worker'[v].msg = worker[v].msg
                           /\ worker'[v].heard = worker[v].heard
                           /\ worker'[v].pc # "idle" => worker[v].pc # "idle"
                           /\ worker[v].pc # "idle" => worker'[v].pc # "idle"
    BY DEF Goto, WorkerState
  <1>3. BusyHasEvent'
    BY <1>2 DEF BusyHasEvent, Live, Events
  <1>4. HeardIsRunning'
    BY <1>2 DEF HeardIsRunning
  <1>5. OneListener'
    BY <1>2 DEF OneListener
  <1>. QED
    BY <1>1, <1>3, <1>4, <1>5

LEMMA PublishTyped ==
    ASSUME Typed, NEW e \in Events, Publish(e), worker' = worker
    PROVE  /\ msg' \in [Msgs -> MsgState]
           /\ \A m \in Msgs : Live(m)' => msg'[m].event \in Events
           /\ HeardIsRunning' /\ OneListener'
  <1>. USE DEF Typed, TypeOK
  <1>1. PICK m \in Msgs :
          /\ ~Live(m)
          /\ msg' = [msg EXCEPT ![m] = [st |-> "queued", event |-> e, tries |-> 0]]
    BY DEF Publish
  <1>2. msg' \in [Msgs -> MsgState]
    BY <1>1, RetriesAssumption DEF MsgState
  <1>3. /\ \A n \in Msgs \ {m} : msg'[n] = msg[n]
        /\ msg'[m].event = e
    BY <1>1
  <1>4. \A n \in Msgs : Live(n)' => msg'[n].event \in Events
    BY <1>3 DEF BusyHasEvent, Live
  <1>5. \A w \in Workers : worker[w].heard => worker[w].msg # m
    BY <1>1 DEF HeardIsRunning, Live
  <1>6. HeardIsRunning'
    BY <1>3, <1>5 DEF HeardIsRunning
  <1>7. OneListener'
    BY DEF OneListener
  <1>. QED
    BY <1>2, <1>4, <1>6, <1>7

\* The part of Typed that a step of the webhook or the sweep can disturb.
LEMMA WorkersUntouched ==
    ASSUME Typed, worker' = worker, msg' = msg
    PROVE  /\ worker' \in [Workers -> WorkerState]
           /\ msg' \in [Msgs -> MsgState]
           /\ \A w \in Workers : worker'[w].pc # "idle" => worker'[w].event \in Events
           /\ \A m \in Msgs : Live(m)' => msg'[m].event \in Events
           /\ HeardIsRunning' /\ OneListener'
  BY DEF Typed, TypeOK, BusyHasEvent, HeardIsRunning, OneListener, Live

LEMMA MarkTyped ==
    ASSUME status \in [Events -> Statuses], NEW e \in Events, NEW s \in Statuses,
           Mark(e, s)
    PROVE  status' \in [Events -> Statuses]
  BY DEF Mark

-----------------------------------------------------------------------------
(* Typed is inductive.                                                     *)

THEOREM TypedInit == Init => Typed
  <1>. SUFFICES ASSUME Init PROVE Typed
    OBVIOUS
  <1>1. TypeOK
    BY RetriesAssumption
    DEF Init, TypeOK, HookIdle, HookState, MsgFree, MsgState, WorkerIdle, WorkerState,
        WorkerPCs, SweepIdle, SweepState, Statuses
  <1>2. BusyHasEvent /\ HeardIsRunning /\ OneListener
    BY DEF Init, BusyHasEvent, HeardIsRunning, OneListener, Live, HookIdle, MsgFree,
           WorkerIdle, SweepIdle
  <1>. QED
    BY <1>1, <1>2 DEF Typed

\* A step of the environment touches only what no other part of Typed mentions.
LEMMA QuietTyped ==
    ASSUME Typed, submitted' \subseteq Leads, aged' \subseteq Leads,
           claims' \subseteq Leads, leads' \in [Leads -> Seq(Tenants)],
           blocked' \subseteq Tenants,
           UNCHANGED <<acked, hook, status, msg, worker, sweep, dropped>>
    PROVE  Typed'
  <1>1. TypeOK'
    BY Constants DEF Typed, TypeOK
  <1>2. BusyHasEvent'
    BY Constants DEF Typed, BusyHasEvent, Live
  <1>3. HeardIsRunning' /\ OneListener'
    BY DEF Typed, HeardIsRunning, OneListener
  <1>. QED
    BY <1>1, <1>2, <1>3 DEF Typed

LEMMA HookTyped ==
    ASSUME Typed, NEW h \in Hooks, HookStep(h)
    PROVE  Typed'
  <1>. USE DEF Typed, TypeOK
  <1>. DEFINE HookOK == /\ hook' \in [Hooks -> HookState]
                        /\ \A i \in Hooks : hook'[i].pc = "mark" => hook'[i].cur \in Events
                        /\ status' \in [Events -> Statuses]
                        /\ acked' \subseteq Leads
              MsgOK == /\ msg' \in [Msgs -> MsgState]
                       /\ \A m \in Msgs : Live(m)' => msg'[m].event \in Events
                       /\ HeardIsRunning' /\ OneListener'
              Rest == UNCHANGED <<submitted, aged, worker, claims, leads, blocked,
                                  sweep, dropped>>
  <1>0. SUFFICES HookOK /\ MsgOK /\ Rest
    <2>1. TypeOK'
      BY Constants
    <2>2. BusyHasEvent'
      BY Constants DEF BusyHasEvent
    <2>. QED
      BY <2>1, <2>2
  <1>1. CASE WebhookDelivery(h)
    <2>1. PICK batch \in SUBSET submitted \ {{}} :
            hook' = [hook EXCEPT ![h] =
                      [HookIdle EXCEPT !.pc = "capture", !.batch = batch,
                                       !.todo = {e \in Events : e.lead \in batch}]]
      BY <1>1 DEF WebhookDelivery
    <2>2. [HookIdle EXCEPT !.pc = "capture", !.batch = batch,
                           !.todo = {e \in Events : e.lead \in batch}] \in HookState
      BY DEF HookIdle, HookState
    <2>3. HookOK
      BY <1>1, <2>1, <2>2 DEF WebhookDelivery, HookIdle, BusyHasEvent
    <2>. QED
      BY <1>1, <2>3, WorkersUntouched DEF WebhookDelivery
  <1>2. CASE Ack(h)
    BY <1>2, WorkersUntouched DEF Ack, HookState, BusyHasEvent
  <1>3. CASE HookMarkEnqueued(h)
    <2>1. hook[h].cur \in Events
      BY <1>3 DEF HookMarkEnqueued, BusyHasEvent
    <2>2. status' \in [Events -> Statuses]
      BY <1>3, <2>1 DEF HookMarkEnqueued, Mark, Statuses
    <2>3. hook' = [hook EXCEPT ![h] = [hook[h] EXCEPT !.pc = "enqueue", !.cur = None,
                                                      !.queue = @ \ {hook[h].cur}]]
      BY <1>3 DEF HookMarkEnqueued
    <2>4. hook' \in [Hooks -> HookState]
      BY <2>3 DEF HookState
    <2>5. \A i \in Hooks : hook'[i].pc = "mark" => hook'[i].cur \in Events
      BY <2>3 DEF HookState, BusyHasEvent
    <2>. QED
      BY <1>3, <2>2, <2>4, <2>5, WorkersUntouched DEF HookMarkEnqueued
  <1>4. CASE HookDone(h)
    BY <1>4, WorkersUntouched DEF HookDone, HookIdle, HookState, BusyHasEvent
  <1>5. CASE HookCrash(h)
    BY <1>5, WorkersUntouched DEF HookCrash, HookIdle, HookState, BusyHasEvent
  <1>6. ASSUME NEW e \in Events, CaptureEvent(h, e)
        PROVE  HookOK /\ MsgOK /\ Rest
    <2>1. status' \in [Events -> Statuses]
      BY <1>6 DEF CaptureEvent, Statuses
    <2>2. PICK queue \in SUBSET Events :
            hook' = [hook EXCEPT ![h] = [hook[h] EXCEPT !.todo = @ \ {e}, !.queue = queue]]
      BY <1>6 DEF CaptureEvent, HookState
    <2>3. hook' \in [Hooks -> HookState]
      BY <2>2 DEF HookState
    <2>4. \A i \in Hooks : hook'[i].pc = "mark" => hook'[i].cur \in Events
      BY <2>2 DEF HookState, BusyHasEvent
    <2>. QED
      BY <1>6, <2>1, <2>3, <2>4, WorkersUntouched DEF CaptureEvent
  <1>7. ASSUME NEW e \in Events, HookPublish(h, e)
        PROVE  HookOK /\ MsgOK /\ Rest
    <2>1. MsgOK
      BY <1>7, PublishTyped DEF HookPublish
    <2>2. hook' = [hook EXCEPT ![h] = [hook[h] EXCEPT !.pc = "mark", !.cur = e]]
      BY <1>7 DEF HookPublish
    <2>3. hook' \in [Hooks -> HookState]
      BY <2>2 DEF HookState
    <2>4. \A i \in Hooks : hook'[i].pc = "mark" => hook'[i].cur \in Events
      BY <2>2 DEF HookState, BusyHasEvent
    <2>. QED
      BY <1>7, <2>1, <2>3, <2>4 DEF HookPublish
  <1>8. ASSUME NEW e \in Events, HookPublishFails(h, e)
        PROVE  HookOK /\ MsgOK /\ Rest
    BY <1>8, WorkersUntouched DEF HookPublishFails, HookState, BusyHasEvent
  <1>. QED
    BY <1>1, <1>2, <1>3, <1>4, <1>5, <1>6, <1>7, <1>8 DEF HookStep

LEMMA QueueTyped ==
    ASSUME Typed, NEW w \in Workers,
           ResponseLost(w) \/ WorkerCrash(w) \/ \E m \in Msgs : Deliver(m, w)
    PROVE  Typed'
  <1>. USE DEF Typed, TypeOK
  <1>. DEFINE WorkOK == /\ worker' \in [Workers -> WorkerState]
                        /\ msg' \in [Msgs -> MsgState]
                        /\ (BusyHasEvent /\ HeardIsRunning /\ OneListener)'
              RestOK == /\ status' \in [Events -> Statuses]
                        /\ dropped' \subseteq Events
                        /\ UNCHANGED <<submitted, aged, acked, hook, claims, leads,
                                       blocked, sweep>>
  <1>0. SUFFICES WorkOK /\ RestOK
    BY Constants
  <1>1. ASSUME NEW m \in Msgs, Deliver(m, w)
        PROVE  WorkOK /\ RestOK
    <2>1. /\ msg' = [msg EXCEPT ![m] = [msg[m] EXCEPT !.st = "running"]]
          /\ worker' = [worker EXCEPT ![w] = [pc |-> "entitlement", msg |-> m,
                                              event |-> msg[m].event, heard |-> TRUE]]
          /\ msg[m].st = "queued" /\ msg[m].event \in Events
          /\ UNCHANGED <<hook, sweep>>
      BY <1>1 DEF Deliver, BusyHasEvent, Live
    <2>2. msg' \in [Msgs -> MsgState] /\ worker' \in [Workers -> WorkerState]
      BY <2>1 DEF MsgState, WorkerState, WorkerPCs
    <2>3. /\ \A n \in Msgs : msg'[n].event = msg[n].event
          /\ \A n \in Msgs \ {m} : msg'[n] = msg[n]
          /\ msg'[m].st = "running"
          /\ \A v \in Workers \ {w} : worker'[v] = worker[v]
          /\ worker'[w].msg = m /\ worker'[w].event = msg[m].event
          /\ worker'[w].pc # "idle"
      BY <2>1 DEF MsgState
    <2>4. \A v \in Workers : worker[v].heard => worker[v].msg # m
      BY <2>1 DEF HeardIsRunning
    <2>5. BusyHasEvent'
      BY <2>1, <2>3, Constants DEF BusyHasEvent, Live
    <2>6. HeardIsRunning'
      BY <2>3, <2>4 DEF HeardIsRunning
    <2>7. OneListener'
      BY <2>3, <2>4 DEF OneListener
    <2>. QED
      BY <1>1, <2>2, <2>5, <2>6, <2>7 DEF Deliver
  <1>2. CASE ResponseLost(w)
    <2>. DEFINE n == worker[w].msg
    <2>1. /\ n \in Msgs /\ msg' = FailedAttempt(n) /\ Live(n) /\ worker[w].heard
          /\ worker' = [worker EXCEPT ![w].heard = FALSE]
          /\ UNCHANGED <<hook, sweep>>
      BY <1>2 DEF ResponseLost, HeardIsRunning, Live
    <2>2. worker' \in [Workers -> WorkerState]
      BY <2>1 DEF WorkerState
    <2>3. /\ \A v \in Workers : /\ worker'[v].pc = worker[v].pc
                                /\ worker'[v].event = worker[v].event
                                /\ worker'[v].msg = worker[v].msg
                                /\ worker'[v].heard => worker[v].heard /\ v # w
      BY <2>1 DEF WorkerState
    <2>4. /\ msg' \in [Msgs -> MsgState]
          /\ \A o \in Msgs \ {n} : msg'[o] = msg[o]
          /\ msg'[n].event = msg[n].event
      BY <2>1, FailedAttemptTyped
    <2>5. \A o \in Msgs : msg'[o].st # "free" => Live(o) /\ msg'[o].event = msg[o].event
      BY <2>1, <2>4 DEF Live
    <2>6. \A v \in Workers : worker'[v].heard => worker[v].msg # n
      BY <2>1, <2>3 DEF OneListener
    <2>7. BusyHasEvent'
      BY <2>1, <2>3, <2>5, Constants DEF BusyHasEvent, Live
    <2>8. HeardIsRunning'
      BY <2>3, <2>4, <2>6 DEF HeardIsRunning
    <2>9. OneListener'
      BY <2>3 DEF OneListener
    <2>. QED
      BY <1>2, <2>2, <2>4, <2>7, <2>8, <2>9 DEF ResponseLost
  <1>3. CASE WorkerCrash(w)
    <2>1. Return(w, FALSE) /\ hook' = hook /\ sweep' = sweep
      BY <1>3 DEF WorkerCrash, Throw
    <2>. QED
      BY <1>3, <2>1, ReturnTyped DEF WorkerCrash
  <1>. QED
    BY <1>1, <1>2, <1>3

LEMMA DeadLetterTyped ==
    ASSUME Typed, NEW m \in Msgs, DeadLetter(m)
    PROVE  Typed'
  <1>. USE DEF Typed, TypeOK
  <1>1. /\ msg[m].st = "exhausted" /\ msg[m].event \in Events
        /\ msg' = [msg EXCEPT ![m] = MsgFree]
        /\ UNCHANGED <<submitted, aged, acked, hook, worker, claims, leads, blocked, sweep>>
    BY DEF DeadLetter, BusyHasEvent, Live
  <1>2. msg' \in [Msgs -> MsgState]
    BY <1>1, RetriesAssumption DEF MsgFree, MsgState
  <1>3. BusyHasEvent'
    BY <1>1, Constants DEF BusyHasEvent, Live, MsgFree
  <1>4. HeardIsRunning' /\ OneListener'
    BY <1>1 DEF HeardIsRunning, OneListener
  <1>5. status' \in [Events -> Statuses] /\ dropped' \subseteq Events
    BY <1>1 DEF DeadLetter, Mark, Statuses
  <1>. QED
    BY <1>1, <1>2, <1>3, <1>4, <1>5, Constants

LEMMA WorkerTyped ==
    ASSUME Typed, NEW w \in Workers, WorkerStep(w)
    PROVE  Typed'
  <1>. USE DEF Typed, TypeOK
  <1>. DEFINE WorkOK == /\ worker' \in [Workers -> WorkerState]
                        /\ msg' \in [Msgs -> MsgState]
                        /\ (BusyHasEvent /\ HeardIsRunning /\ OneListener)'
              RestOK == /\ status' \in [Events -> Statuses]
                        /\ claims' \subseteq Leads
                        /\ leads' \in [Leads -> Seq(Tenants)]
                        /\ dropped' \subseteq Events
                        /\ UNCHANGED <<submitted, aged, acked, hook, blocked, sweep>>
  <1>0. SUFFICES WorkOK /\ RestOK
    BY Constants
  <1>a. worker[w].pc # "idle"
    BY DEF WorkerStep, WorkerDbFails, CheckEntitlement, MarkBlocked, Claim, CheckExists,
           MarkDuplicate, ResolvePage, MarkProcessing, FetchDetails, InsertLead,
           MarkOutcome, ReleaseClaim, MarkRetrying, At
  <1>b. Event(w) \in Events /\ Event(w).lead \in Leads
    BY <1>a DEF BusyHasEvent, Event, Events
  <1>c. ASSUME NEW ends \in BOOLEAN, Return(w, ends), UNCHANGED <<hook, sweep>>
        PROVE  WorkOK
    BY <1>c, ReturnTyped
  <1>d. ASSUME NEW pc \in WorkerPCs \ {"idle"}, Goto(w, pc), UNCHANGED <<msg, hook, sweep>>
        PROVE  WorkOK
    BY <1>a, <1>d, GotoTyped
  <1>e. ASSUME NEW s \in Statuses, Mark(Event(w), s)
        PROVE  status' \in [Events -> Statuses]
    BY <1>b, <1>e, MarkTyped
  <1>1. CASE WorkerDbFails(w)
    <2>1. status' \in [Events -> Statuses]
      BY <1>1, <1>e DEF WorkerDbFails, Statuses
    <2>. QED
      BY <1>1, <1>c, <2>1 DEF WorkerDbFails, Throw
  <1>2. CASE CheckEntitlement(w)
    BY <1>2, <1>d DEF CheckEntitlement, WorkerPCs
  <1>3. CASE MarkBlocked(w)
    BY <1>3, <1>b, <1>c, <1>e DEF MarkBlocked, Statuses
  <1>4. CASE Claim(w)
    <2>1. WorkOK
      BY <1>4, <1>d DEF Claim, WorkerPCs
    <2>. QED
      BY <1>4, <1>b, <2>1 DEF Claim
  <1>5. CASE CheckExists(w)
    BY <1>5, <1>d DEF CheckExists, WorkerPCs
  <1>6. CASE MarkDuplicate(w)
    BY <1>6, <1>c, <1>e DEF MarkDuplicate, Statuses
  <1>7. CASE ResolvePage(w)
    BY <1>7, <1>d DEF ResolvePage, WorkerPCs
  <1>8. CASE MarkProcessing(w)
    BY <1>8, <1>d, <1>e DEF MarkProcessing, WorkerPCs, Statuses
  <1>9. CASE FetchDetails(w)
    BY <1>9, <1>d DEF FetchDetails, WorkerPCs
  <1>10. CASE InsertLead(w)
    <2>1. WorkOK
      BY <1>10, <1>d DEF InsertLead, WorkerPCs
    <2>2. leads' \in [Leads -> Seq(Tenants)]
      BY <1>10, <1>b, InsertTyped DEF InsertLead
    <2>. QED
      BY <1>10, <2>1, <2>2 DEF InsertLead
  <1>11. CASE MarkOutcome(w)
    BY <1>11, <1>c, <1>d, <1>e DEF MarkOutcome, WorkerPCs, Statuses
  <1>12. CASE ReleaseClaim(w)
    BY <1>12, <1>d DEF ReleaseClaim, WorkerPCs
  <1>13. CASE MarkRetrying(w)
    BY <1>13, <1>c, <1>e DEF MarkRetrying, Throw, Statuses
  <1>. QED
    BY <1>1, <1>2, <1>3, <1>4, <1>5, <1>6, <1>7, <1>8, <1>9, <1>10, <1>11, <1>12, <1>13
    DEF WorkerStep

LEMMA SweepTyped ==
    ASSUME Typed, SweepStep
    PROVE  Typed'
  <1>. USE DEF Typed, TypeOK
  <1>. DEFINE SweepOK == /\ sweep' \in SweepState
                         /\ sweep'.pc = "mark" => sweep'.cur \in Events
                         /\ status' \in [Events -> Statuses]
                         /\ leads' \in [Leads -> Seq(Tenants)]
              MsgOK == /\ msg' \in [Msgs -> MsgState]
                       /\ \A m \in Msgs : Live(m)' => msg'[m].event \in Events
                       /\ HeardIsRunning' /\ OneListener'
              Rest == UNCHANGED <<submitted, aged, acked, hook, worker, claims,
                                  blocked, dropped>>
  <1>0. SUFFICES SweepOK /\ MsgOK /\ Rest
    <2>1. TypeOK'
      BY Constants
    <2>2. BusyHasEvent'
      BY Constants DEF BusyHasEvent
    <2>. QED
      BY <2>1, <2>2
  <1>1. CASE SweepStart
    BY <1>1, WorkersUntouched DEF SweepStart, SweepIdle, SweepState, UnenqueuedEvents
  <1>2. CASE SweepMarkEnqueued
    <2>1. sweep.cur \in Events
      BY <1>2 DEF SweepMarkEnqueued, BusyHasEvent
    <2>2. status' \in [Events -> Statuses]
      BY <1>2, <2>1 DEF SweepMarkEnqueued, Mark, Statuses
    <2>3. sweep' \in SweepState /\ sweep'.pc = "republish"
      BY <1>2 DEF SweepMarkEnqueued, SweepState
    <2>. QED
      BY <1>2, <2>2, <2>3, WorkersUntouched DEF SweepMarkEnqueued
  <1>3. CASE SweepListTenants
    <2>1. PICK eligible \in SUBSET Tenants :
            sweep' = [sweep EXCEPT !.pc = "scan", !.todo = eligible]
      BY <1>3 DEF SweepListTenants
    <2>2. sweep' \in SweepState /\ sweep'.pc = "scan"
      BY <2>1 DEF SweepState
    <2>. QED
      BY <1>3, <2>2, WorkersUntouched DEF SweepListTenants
  <1>4. CASE SweepScanFails
    BY <1>4, WorkersUntouched DEF SweepScanFails, SweepState, BusyHasEvent
  <1>5. CASE SweepDone
    BY <1>5, WorkersUntouched DEF SweepDone, SweepIdle, SweepState
  <1>6. CASE SweepCrash
    BY <1>6, WorkersUntouched DEF SweepCrash, SweepIdle, SweepState
  <1>7. ASSUME NEW e \in Events, SweepPublish(e)
        PROVE  SweepOK /\ MsgOK /\ Rest
    BY <1>7, PublishTyped DEF SweepPublish, SweepState
  <1>8. ASSUME NEW e \in Events, SweepPublishFails(e)
        PROVE  SweepOK /\ MsgOK /\ Rest
    BY <1>8, WorkersUntouched DEF SweepPublishFails, SweepState, BusyHasEvent
  <1>9. ASSUME NEW e \in Events, SweepRecover(e)
        PROVE  SweepOK /\ MsgOK /\ Rest
    BY <1>9, InsertTyped, WorkersUntouched DEF SweepRecover, SweepState, BusyHasEvent
  <1>10. ASSUME NEW t \in Tenants, SweepScanTenant(t)
         PROVE  SweepOK /\ MsgOK /\ Rest
    BY <1>10, WorkersUntouched DEF SweepScanTenant, SweepState, BusyHasEvent, MissingLeads
  <1>. QED
    BY <1>1, <1>2, <1>3, <1>4, <1>5, <1>6, <1>7, <1>8, <1>9, <1>10 DEF SweepStep

LEMMA TypedStep == Typed /\ [Next]_vars => Typed'
  <1>. SUFFICES ASSUME Typed, [Next]_vars PROVE Typed'
    OBVIOUS
  <1>1. CASE UNCHANGED vars
    <2>1. TypeOK'
      BY <1>1, Constants DEF Typed, TypeOK, vars
    <2>2. (BusyHasEvent /\ HeardIsRunning /\ OneListener)'
      BY <1>1, Constants DEF Typed, vars, BusyHasEvent, HeardIsRunning, OneListener, Live
    <2>. QED
      BY <2>1, <2>2 DEF Typed
  <1>2. ASSUME NEW l \in Leads, LeadSubmitted(l) \/ LeadAges(l) \/ ClaimExpires(l)
        PROVE  Typed'
    <2>1. /\ submitted' \subseteq Leads /\ aged' \subseteq Leads /\ claims' \subseteq Leads
          /\ UNCHANGED <<acked, hook, status, msg, worker, leads, blocked, sweep, dropped>>
      BY <1>2 DEF LeadSubmitted, LeadAges, ClaimExpires, Typed, TypeOK
    <2>. QED
      BY <2>1, QuietTyped DEF Typed, TypeOK
  <1>3. ASSUME NEW t \in Tenants, EntitlementChanges(t)
        PROVE  Typed'
    <2>1. /\ blocked' \subseteq Tenants
          /\ UNCHANGED <<submitted, aged, acked, hook, status, msg, worker, claims, leads,
                         sweep, dropped>>
      BY <1>3 DEF EntitlementChanges, Typed, TypeOK
    <2>. QED
      BY <2>1, QuietTyped DEF Typed, TypeOK
  <1>4. ASSUME NEW h \in Hooks, HookStep(h)
        PROVE  Typed'
    BY <1>4, HookTyped
  <1>5. ASSUME NEW m \in Msgs, DeadLetter(m)
        PROVE  Typed'
    BY <1>5, DeadLetterTyped
  <1>6. ASSUME NEW m \in Msgs, NEW w \in Workers, Deliver(m, w)
        PROVE  Typed'
    BY <1>6, QueueTyped
  <1>7. ASSUME NEW w \in Workers, ResponseLost(w) \/ WorkerCrash(w)
        PROVE  Typed'
    BY <1>7, QueueTyped
  <1>8. ASSUME NEW w \in Workers, WorkerStep(w)
        PROVE  Typed'
    BY <1>8, WorkerTyped
  <1>9. CASE SweepStep
    BY <1>9, SweepTyped
  <1>. QED
    BY <1>1, <1>2, <1>3, <1>4, <1>5, <1>6, <1>7, <1>8, <1>9 DEF Next

\* The types hold in every reachable state: no retry count beyond Retries, no
\* invocation or message with a phantom event, whatever fails.
THEOREM TypeCorrect == Spec => []TypeOK
  <1>1. Spec => []Typed
    BY TypedInit, TypedStep, PTL DEF Spec
  <1>. QED
    BY <1>1, PTL DEF Typed

-----------------------------------------------------------------------------
(* The safety of the pipeline under every fault, on top of the types.      *)

\* Typed may be assumed in every state.
LEMMA AlwaysTyped == Spec => []Typed
  BY TypedInit, TypedStep, PTL DEF Spec

-----------------------------------------------------------------------------
(* The rows of crm.leads.                                                  *)

\* A lead has no row, or one of an owner.
SingleRows ==
    \A l \in Leads : leads[l] = << >> \/ \E t \in Owners[l] : leads[l] = <<t>>

\* Who may be about to write a row for e.
Writing(e) == e \in sweep.missing \/ \E w \in Workers : At(w, "insert") /\ Event(w) = e

\* Only two statements write rows, the worker's insert and the sweep's.
LEMMA RowsStep ==
    ASSUME Typed, [Next]_vars
    PROVE  \/ leads' = leads
           \/ submitted' = submitted /\ \E e \in Events : Writing(e) /\ leads' = RowsAfterInsert(e)
  <1>. DEFINE Goal == \/ leads' = leads
                      \/ /\ submitted' = submitted
                         /\ \E e \in Events : Writing(e) /\ leads' = RowsAfterInsert(e)
  <1>1. ASSUME NEW w \in Workers, WorkerStep(w) PROVE Goal
    <2>1. CASE InsertLead(w)
      <3>1. Event(w) \in Events
        BY <2>1 DEF InsertLead, At, Typed, BusyHasEvent, Event
      <3>. QED
        BY <2>1, <3>1 DEF InsertLead, Writing
    <2>2. CASE ~InsertLead(w)
      BY <1>1, <2>2
      DEF WorkerStep, WorkerDbFails, CheckEntitlement, MarkBlocked, Claim, CheckExists,
          MarkDuplicate, ResolvePage, MarkProcessing, FetchDetails, MarkOutcome,
          ReleaseClaim, MarkRetrying
    <2>. QED
      BY <2>1, <2>2
  <1>2. CASE SweepStep
    BY <1>2
    DEF SweepStep, SweepStart, SweepPublish, SweepPublishFails, SweepMarkEnqueued,
        SweepListTenants, SweepScanTenant, SweepRecover, SweepScanFails, SweepDone,
        SweepCrash, Writing
  <1>3. ASSUME NEW h \in Hooks, HookStep(h) PROVE leads' = leads
    BY <1>3
    DEF HookStep, WebhookDelivery, CaptureEvent, Ack, HookPublish, HookPublishFails,
        HookMarkEnqueued, HookDone, HookCrash
  <1>. QED
    BY <1>1, <1>2, <1>3
    DEF Next, vars, LeadSubmitted, LeadAges, ClaimExpires, EntitlementChanges, DeadLetter,
        Deliver, ResponseLost, WorkerCrash

\* An INSERT keeps every row there is and leaves one for its lead.
LEMMA InsertedRow ==
    ASSUME leads \in [Leads -> Seq(Tenants)], NEW e \in Events,
           leads' = RowsAfterInsert(e)
    PROVE  /\ SingleRows => SingleRows'
           /\ \A l \in Leads : Recorded(l) => leads'[l] = leads[l]
           /\ \A l \in Leads \ {e.lead} : leads'[l] = leads[l]
           /\ ~Recorded(e.lead) => leads'[e.lead] = <<e.tenant>>
  <1>0. e.lead \in Leads /\ e.tenant \in Owners[e.lead]
    BY DEF Events
  <1>1. CASE Recorded(e.lead)
    BY <1>1 DEF RowsAfterInsert, SingleRows
  <1>2. CASE ~Recorded(e.lead)
    <2>1. leads' = [leads EXCEPT ![e.lead] = Append(@, e.tenant)] /\ leads[e.lead] = << >>
      BY <1>2 DEF RowsAfterInsert, RowsAfterBlindInsert, Recorded
    <2>2. leads'[e.lead] = <<e.tenant>>
      BY <1>0, <2>1
    <2>3. \A l \in Leads \ {e.lead} : leads'[l] = leads[l]
      BY <2>1
    <2>. QED
      BY <1>0, <1>2, <2>2, <2>3 DEF SingleRows, Recorded
  <1>. QED
    BY <1>1, <1>2

LEMMA SingleRowsStep ==
    ASSUME Typed, SingleRows, [Next]_vars
    PROVE  SingleRows'
  <1>1. leads \in [Leads -> Seq(Tenants)]
    BY DEF Typed, TypeOK
  <1>2. CASE leads' = leads
    BY <1>2 DEF SingleRows
  <1>3. ASSUME NEW e \in Events, leads' = RowsAfterInsert(e) PROVE SingleRows'
    BY <1>1, <1>3, InsertedRow
  <1>. QED
    BY <1>2, <1>3, RowsStep

LEMMA AlwaysSingle == Spec => []SingleRows
  <1>1. Init => SingleRows
    BY DEF Init, SingleRows
  <1>2. Typed /\ SingleRows /\ [Next]_vars => SingleRows'
    BY SingleRowsStep
  <1>. QED
    BY <1>1, <1>2, AlwaysTyped, PTL DEF Spec

\* No race of workers, sweep and retried inserts gives a lead two rows.
THEOREM OneRow == Spec => []OneRowPerLead
  <1>1. ASSUME SingleRows, Typed, NEW l \in Leads
        PROVE  Len(leads[l]) <= 1
    <2>1. CASE leads[l] = << >>
      BY <2>1
    <2>2. ASSUME NEW t \in Owners[l], leads[l] = <<t>>
          PROVE  Len(leads[l]) <= 1
      <3>1. t \in Tenants
        BY OwnersAssumption
      <3>2. Len(<<t>>) = 1
        BY <3>1
      <3>. QED
        BY <2>2, <3>2
    <2>. QED
      BY <1>1, <2>1, <2>2 DEF SingleRows
  <1>2. SingleRows /\ Typed => OneRowPerLead
    BY <1>1 DEF OneRowPerLead
  <1>. QED
    BY <1>2, AlwaysSingle, AlwaysTyped, PTL

-----------------------------------------------------------------------------
(* What "completed" says.                                                  *)

\* A worker about to report "completed" has written its own row.
AboutToComplete ==
    \A w \in Workers :
        At(w, "complete") => leads[Event(w).lead] = <<Event(w).tenant>>

CompletedInv == CompletedHasLead /\ AboutToComplete

\* An event becomes completed only by MarkOutcome of the worker that inserted,
\* and a worker gets there only by its own insert.
LEMMA CompletedStep ==
    ASSUME Typed, [Next]_vars
    PROVE  /\ \A e \in Events :
                status'[e] = "completed" =>
                    \/ status[e] = "completed"
                    \/ \E w \in Workers : At(w, "complete") /\ Event(w) = e
           /\ \A w \in Workers :
                At(w, "complete")' =>
                    \/ At(w, "complete") /\ Event(w)' = Event(w)
                    \/ /\ Event(w)' = Event(w) /\ Event(w) \in Events
                       /\ ~Recorded(Event(w).lead)
                       /\ leads' = RowsAfterInsert(Event(w))
  <1>. USE DEF Typed, TypeOK, At, Event
  <1>. DEFINE Marks == \A e \in Events :
                  status'[e] = "completed" =>
                      \/ status[e] = "completed"
                      \/ \E w \in Workers : worker[w].pc = "complete" /\ worker[w].event = e
              Keeps == \A w \in Workers :
                  worker'[w].pc = "complete" => worker[w].pc = "complete" /\ worker'[w].event = worker[w].event
              Inserts == \A w \in Workers :
                  worker'[w].pc = "complete" =>
                      \/ worker[w].pc = "complete" /\ worker'[w].event = worker[w].event
                      \/ /\ worker'[w].event = worker[w].event /\ worker[w].event \in Events
                         /\ ~Recorded(worker[w].event.lead)
                         /\ leads' = RowsAfterInsert(worker[w].event)
  <1>0. SUFFICES Marks /\ Inserts
    OBVIOUS
  <1>1. ASSUME NEW e \in Events, NEW s \in Statuses \ {"completed"}, Mark(e, s)
        PROVE  Marks
    BY <1>1 DEF Mark
  <1>2. ASSUME NEW w \in Workers, NEW ends \in BOOLEAN, Return(w, ends)
        PROVE  Keeps
    BY <1>2 DEF Return, WorkerIdle
  <1>3. ASSUME NEW w \in Workers, NEW pc \in WorkerPCs \ {"complete"}, Goto(w, pc)
        PROVE  Keeps
    BY <1>3 DEF Goto, WorkerState
  <1>4. ASSUME NEW w \in Workers, WorkerStep(w)
        PROVE  Marks /\ Inserts
    <2>0. worker[w].pc # "idle" => worker[w].event \in Events
      BY DEF BusyHasEvent
    <2>1. CASE InsertLead(w)
      <3>1. Marks
        BY <2>1 DEF InsertLead
      <3>2. CASE Recorded(Event(w).lead) \/ ~Goto(w, "complete")
        <4>1. Goto(w, "lost") \/ Goto(w, "release")
          BY <2>1, <3>2 DEF InsertLead
        <4>. QED
          BY <1>3, <3>1, <4>1 DEF WorkerPCs
      <3>3. CASE ~Recorded(Event(w).lead) /\ Goto(w, "complete")
        <4>0. worker'[w].pc = "complete"
          BY <3>3 DEF Goto, WorkerState
        <4>1. leads' = RowsAfterInsert(Event(w))
          BY <2>1, <3>3, <4>0 DEF InsertLead, Goto, WorkerState
        <4>2. \A v \in Workers : /\ worker'[v].event = worker[v].event
                                 /\ v # w => worker'[v] = worker[v]
          BY <3>3 DEF Goto, WorkerState
        <4>3. worker[w].event \in Events
          BY <2>0, <2>1 DEF InsertLead
        <4>. QED
          BY <3>1, <3>3, <4>1, <4>2, <4>3
      <3>. QED
        BY <3>2, <3>3
    <2>2. CASE MarkOutcome(w)
      <3>1. Marks
        BY <2>0, <2>2 DEF MarkOutcome, Mark
      <3>2. Keeps
        BY <1>2, <1>3, <2>2 DEF MarkOutcome, WorkerPCs
      <3>. QED
        BY <3>1, <3>2
    <2>3. CASE WorkerDbFails(w)
      <3>1. Marks
        BY <2>0, <2>3 DEF WorkerDbFails, Mark
      <3>. QED
        BY <1>2, <2>3, <3>1 DEF WorkerDbFails, Throw
    <2>4. CASE CheckEntitlement(w)
      BY <1>3, <2>4 DEF CheckEntitlement, WorkerPCs
    <2>5. CASE MarkBlocked(w) \/ MarkDuplicate(w)
      BY <1>1, <1>2, <2>0, <2>5 DEF MarkBlocked, MarkDuplicate, Statuses
    <2>6. CASE Claim(w)
      BY <1>3, <2>6 DEF Claim, WorkerPCs
    <2>7. CASE CheckExists(w) \/ ResolvePage(w) \/ FetchDetails(w) \/ ReleaseClaim(w)
      BY <1>3, <2>7 DEF CheckExists, ResolvePage, FetchDetails, ReleaseClaim, WorkerPCs
    <2>8. CASE MarkProcessing(w)
      BY <1>1, <1>3, <2>0, <2>8 DEF MarkProcessing, WorkerPCs, Statuses
    <2>9. CASE MarkRetrying(w)
      BY <1>1, <1>2, <2>0, <2>9 DEF MarkRetrying, Throw, Statuses
    <2>. QED
      BY <1>4, <2>1, <2>2, <2>3, <2>4, <2>5, <2>6, <2>7, <2>8, <2>9 DEF WorkerStep
  <1>5. ASSUME NEW h \in Hooks, HookStep(h)
        PROVE  Marks /\ Keeps
    <2>1. CASE HookMarkEnqueued(h)
      BY <1>1, <2>1 DEF HookMarkEnqueued, BusyHasEvent, Statuses
    <2>2. ASSUME NEW e \in Events, CaptureEvent(h, e) PROVE Marks /\ Keeps
      BY <2>2 DEF CaptureEvent
    <2>. QED
      BY <1>5, <2>1, <2>2
      DEF HookStep, WebhookDelivery, Ack, HookPublish, HookPublishFails, HookDone, HookCrash
  <1>6. CASE SweepStep
    <2>1. CASE SweepMarkEnqueued
      BY <1>1, <2>1 DEF SweepMarkEnqueued, BusyHasEvent, Statuses
    <2>. QED
      BY <1>6, <2>1
      DEF SweepStep, SweepStart, SweepPublish, SweepPublishFails, SweepListTenants,
          SweepScanTenant, SweepRecover, SweepScanFails, SweepDone, SweepCrash
  <1>7. ASSUME NEW m \in Msgs, DeadLetter(m)
        PROVE  Marks /\ Keeps
    BY <1>1, <1>7 DEF DeadLetter, BusyHasEvent, Live, Statuses
  <1>8. ASSUME NEW m \in Msgs, NEW w \in Workers, Deliver(m, w)
        PROVE  Marks /\ Keeps
    BY <1>8 DEF Deliver
  <1>9. ASSUME NEW w \in Workers, ResponseLost(w) \/ WorkerCrash(w)
        PROVE  Marks /\ Keeps
    <2>1. CASE ResponseLost(w)
      <3>1. \A v \in Workers : worker'[v].pc = worker[v].pc /\ worker'[v].event = worker[v].event
        BY <2>1 DEF ResponseLost, WorkerState
      <3>. QED
        BY <2>1, <3>1 DEF ResponseLost
    <2>2. CASE WorkerCrash(w)
      BY <1>2, <2>2 DEF WorkerCrash, Throw
    <2>. QED
      BY <1>9, <2>1, <2>2
  <1>. QED
    BY <1>4, <1>5, <1>6, <1>7, <1>8, <1>9
    DEF Next, vars, LeadSubmitted, LeadAges, ClaimExpires, EntitlementChanges

LEMMA CompletedPreserved ==
    ASSUME Typed, CompletedInv, [Next]_vars
    PROVE  CompletedInv'
  <1>1. \A l \in Leads : leads[l] # << >> => leads'[l] = leads[l]
    BY RowsStep, InsertedRow DEF Typed, TypeOK, Recorded
  <1>2. ASSUME NEW e \in Events, status'[e] = "completed"
        PROVE  leads'[e.lead] = <<e.tenant>>
    <2>1. leads[e.lead] = <<e.tenant>>
      BY <1>2, CompletedStep DEF CompletedInv, CompletedHasLead, AboutToComplete
    <2>2. leads[e.lead] # << >> /\ e.lead \in Leads
      BY <2>1 DEF Events
    <2>. QED
      BY <1>1, <2>1, <2>2
  <1>3. ASSUME NEW w \in Workers, At(w, "complete")'
        PROVE  leads'[Event(w).lead] = <<Event(w).tenant>> /\ Event(w)' = Event(w)
    <2>1. CASE At(w, "complete") /\ Event(w)' = Event(w)
      <3>1. leads[Event(w).lead] = <<Event(w).tenant>>
        BY <2>1 DEF CompletedInv, AboutToComplete
      <3>2. leads[Event(w).lead] # << >> /\ Event(w).lead \in Leads
        BY <2>1, <3>1 DEF Typed, BusyHasEvent, At, Event, Events
      <3>. QED
        BY <1>1, <2>1, <3>1, <3>2
    <2>2. CASE /\ Event(w)' = Event(w) /\ Event(w) \in Events
               /\ ~Recorded(Event(w).lead) /\ leads' = RowsAfterInsert(Event(w))
      BY <2>2, InsertedRow DEF Typed, TypeOK
    <2>. QED
      BY <1>3, <2>1, <2>2, CompletedStep
  <1>. QED
    BY <1>2, <1>3, Constants DEF CompletedInv, CompletedHasLead, AboutToComplete

\* "completed" is true: the tenant of a completed event holds the lead.
THEOREM CompletedIsTrue == Spec => []CompletedHasLead
  <1>1. Init => CompletedInv
    BY DEF Init, CompletedInv, CompletedHasLead, AboutToComplete, At, WorkerIdle
  <1>2. Typed /\ CompletedInv /\ [Next]_vars => CompletedInv'
    BY CompletedPreserved
  <1>3. CompletedInv => CompletedHasLead
    BY DEF CompletedInv
  <1>. QED
    BY <1>1, <1>2, <1>3, AlwaysTyped, PTL DEF Spec

-----------------------------------------------------------------------------
(* What an acknowledgement says.                                           *)

\* A webhook call has stored what it has gone through.
CaptureProgress ==
    \A h \in Hooks : hook[h].pc = "capture" =>
        \A e \in Events :
            e.lead \in hook[h].batch /\ e \notin hook[h].todo => status[e] # "none"

DurableInv == AckedIsDurable /\ CaptureProgress

\* No statement forgets an event: the only ones that write a status write
\* another one than "none".
LEMMA StatusStays ==
    ASSUME Typed, [Next]_vars, NEW e \in Events, status[e] # "none"
    PROVE  status'[e] # "none"
  <1>. USE DEF Typed, TypeOK
  <1>1. ASSUME NEW f, NEW s \in Statuses \ {"none"}, Mark(f, s)
        PROVE  status'[e] # "none"
    BY <1>1 DEF Mark
  <1>2. ASSUME NEW w \in Workers, WorkerStep(w)
        PROVE  status'[e] # "none"
    BY <1>1, <1>2
    DEF WorkerStep, WorkerDbFails, CheckEntitlement, MarkBlocked, Claim, CheckExists,
        MarkDuplicate, ResolvePage, MarkProcessing, FetchDetails, InsertLead, MarkOutcome,
        ReleaseClaim, MarkRetrying, Statuses
  <1>3. ASSUME NEW h \in Hooks, HookStep(h)
        PROVE  status'[e] # "none"
    <2>1. CASE HookMarkEnqueued(h)
      BY <1>1, <2>1 DEF HookMarkEnqueued, Statuses
    <2>2. ASSUME NEW f \in Events, CaptureEvent(h, f) PROVE status'[e] # "none"
      BY <2>2 DEF CaptureEvent
    <2>. QED
      BY <1>3, <2>1, <2>2
      DEF HookStep, WebhookDelivery, Ack, HookPublish, HookPublishFails, HookDone, HookCrash
  <1>4. CASE SweepStep
    <2>1. CASE SweepMarkEnqueued
      BY <1>1, <2>1 DEF SweepMarkEnqueued, Statuses
    <2>. QED
      BY <1>4, <2>1
      DEF SweepStep, SweepStart, SweepPublish, SweepPublishFails, SweepListTenants,
          SweepScanTenant, SweepRecover, SweepScanFails, SweepDone, SweepCrash
  <1>5. ASSUME NEW m \in Msgs, DeadLetter(m)
        PROVE  status'[e] # "none"
    BY <1>1, <1>5 DEF DeadLetter, Statuses
  <1>. QED
    BY <1>2, <1>3, <1>4, <1>5
    DEF Next, vars, LeadSubmitted, LeadAges, ClaimExpires, EntitlementChanges, Deliver,
        ResponseLost, WorkerCrash

LEMMA DurablePreserved ==
    ASSUME Typed, DurableInv, [Next]_vars
    PROVE  DurableInv'
  <1>. USE DEF Typed, TypeOK, DurableInv
  <1>1. CASE UNCHANGED <<acked, hook>>
    BY <1>1, StatusStays, Constants DEF AckedIsDurable, CaptureProgress
  <1>2. ASSUME NEW h \in Hooks, HookStep(h)
        PROVE  DurableInv'
    <2>. DEFINE Captured(i) == \A e \in Events :
                    e.lead \in hook'[i].batch /\ e \notin hook'[i].todo => status'[e] # "none"
    <2>1. ASSUME \A e \in Events : e.lead \in acked' => e.lead \in acked \/ status'[e] # "none",
                 \A i \in Hooks \ {h} : hook'[i] = hook[i],
                 hook'[h].pc = "capture" => Captured(h)
          PROVE  DurableInv'
      <3>1. AckedIsDurable'
        BY <2>1, StatusStays, Constants DEF AckedIsDurable
      <3>2. ASSUME NEW i \in Hooks, hook'[i].pc = "capture"
            PROVE  Captured(i)
        BY <2>1, <3>2, StatusStays DEF CaptureProgress
      <3>3. CaptureProgress'
        BY <3>2, Constants DEF CaptureProgress
      <3>. QED
        BY <3>1, <3>3
    <2>2. CASE WebhookDelivery(h)
      <3>1. PICK batch \in SUBSET submitted \ {{}} :
              hook' = [hook EXCEPT ![h] =
                        [HookIdle EXCEPT !.pc = "capture", !.batch = batch,
                                         !.todo = {e \in Events : e.lead \in batch}]]
        BY <2>2 DEF WebhookDelivery
      <3>2. hook'[h].batch = batch /\ hook'[h].todo = {e \in Events : e.lead \in batch}
        BY <3>1 DEF HookIdle
      <3>3. acked' = acked /\ \A i \in Hooks \ {h} : hook'[i] = hook[i]
        BY <2>2, <3>1 DEF WebhookDelivery
      <3>. QED
        BY <2>1, <3>2, <3>3
    <2>3. CASE Ack(h)
      <3>1. hook[h].pc = "capture" /\ hook[h].todo = {} /\ acked' = acked \cup hook[h].batch
        BY <2>3 DEF Ack, AllCaptured
      <3>2. \A e \in Events : e.lead \in hook[h].batch => status'[e] # "none"
        BY <3>1, StatusStays DEF CaptureProgress
      <3>3. hook'[h].pc = "enqueue" /\ \A i \in Hooks \ {h} : hook'[i] = hook[i]
        BY <2>3 DEF Ack, HookState
      <3>. QED
        BY <2>1, <3>1, <3>2, <3>3
    <2>4. CASE HookMarkEnqueued(h)
      <3>1. hook' = [hook EXCEPT ![h] = [hook[h] EXCEPT !.pc = "enqueue", !.cur = None,
                                                        !.queue = @ \ {hook[h].cur}]]
        BY <2>4 DEF HookMarkEnqueued
      <3>2. hook'[h].pc = "enqueue" /\ \A i \in Hooks \ {h} : hook'[i] = hook[i]
        BY <3>1 DEF HookState
      <3>. QED
        BY <2>1, <2>4, <3>2 DEF HookMarkEnqueued
    <2>5. CASE HookDone(h) \/ HookCrash(h)
      BY <2>1, <2>5 DEF HookDone, HookCrash, HookIdle
    <2>6. ASSUME NEW e \in Events, CaptureEvent(h, e)
          PROVE  DurableInv'
      <3>1. PICK queue \in SUBSET Events :
              hook' = [hook EXCEPT ![h] = [hook[h] EXCEPT !.todo = @ \ {e}, !.queue = queue]]
        BY <2>6 DEF CaptureEvent, HookState
      <3>2. /\ hook'[h].batch = hook[h].batch /\ hook'[h].todo = hook[h].todo \ {e}
            /\ \A i \in Hooks \ {h} : hook'[i] = hook[i]
        BY <3>1 DEF HookState
      <3>3. status'[e] # "none" /\ acked' = acked /\ hook[h].pc = "capture"
        BY <2>6 DEF CaptureEvent
      <3>4. Captured(h)
        BY <3>2, <3>3, StatusStays DEF CaptureProgress
      <3>. QED
        BY <2>1, <3>2, <3>3, <3>4
    <2>7. ASSUME NEW e \in Events, HookPublish(h, e) \/ HookPublishFails(h, e)
          PROVE  DurableInv'
      <3>1. /\ hook'[h].pc # "capture" /\ acked' = acked
            /\ \A i \in Hooks \ {h} : hook'[i] = hook[i]
        BY <2>7 DEF HookPublish, HookPublishFails, HookState
      <3>. QED
        BY <2>1, <3>1
    <2>. QED
      BY <1>2, <2>2, <2>3, <2>4, <2>5, <2>6, <2>7 DEF HookStep
  <1>3. ASSUME NEW w \in Workers, WorkerStep(w) PROVE UNCHANGED <<acked, hook>>
    BY <1>3
    DEF WorkerStep, WorkerDbFails, CheckEntitlement, MarkBlocked, Claim, CheckExists,
        MarkDuplicate, ResolvePage, MarkProcessing, FetchDetails, InsertLead, MarkOutcome,
        ReleaseClaim, MarkRetrying
  <1>4. CASE SweepStep
    BY <1>1, <1>4
    DEF SweepStep, SweepStart, SweepPublish, SweepPublishFails, SweepMarkEnqueued,
        SweepListTenants, SweepScanTenant, SweepRecover, SweepScanFails, SweepDone,
        SweepCrash
  <1>. QED
    BY <1>1, <1>2, <1>3, <1>4
    DEF Next, vars, LeadSubmitted, LeadAges, ClaimExpires, EntitlementChanges, Deliver,
        DeadLetter, ResponseLost, WorkerCrash

\* A 200 to Meta is only given when every event of the call is stored, and a
\* stored event is never forgotten.
THEOREM AckedStaysDurable == Spec => []AckedIsDurable
  <1>1. Init => DurableInv
    BY DEF Init, DurableInv, AckedIsDurable, CaptureProgress, HookIdle
  <1>2. Typed /\ DurableInv /\ [Next]_vars => DurableInv'
    BY DurablePreserved
  <1>3. DurableInv => AckedIsDurable
    BY DEF DurableInv
  <1>. QED
    BY <1>1, <1>2, <1>3, AlwaysTyped, PTL DEF Spec

-----------------------------------------------------------------------------
(***************************************************************************)
(* Nothing is discarded silently, as long as no worker is killed or cut    *)
(* off and no store fails. Everything captured is accounted for: its lead  *)
(* has a row, somebody was told that it was dropped, or a message carries  *)
(* it whose worker is not about to take it for a duplicate. X is what      *)
(* somebody else accounts for: nobody here, the campaigns' pipeline later. *)
(***************************************************************************)
Steady == Faults \cap {"crash", "response", "redis", "db"} = {}

\* QStash listens to every worker, and who inserted has the row.
AllHeard == \A w \in Workers : worker[w].pc # "idle" => worker[w].heard
InsertedIsRecorded ==
    \A w \in Workers : worker[w].pc \in {"complete", "lost"} => Recorded(worker[w].event.lead)

\* A claim is backed by the lead's row or by a worker that will insert it or
\* release the claim.
ClaimingPCs == {"exists", "page", "processing", "fetch", "insert", "release"}
Claiming(l) == \E w \in Workers : worker[w].pc \in ClaimingPCs /\ worker[w].event.lead = l
ClaimsBacked(X) == \A l \in claims : l \in X \/ Recorded(l) \/ Claiming(l)

Carrying(m) ==
    /\ msg[m].st # "free"
    /\ \A w \in Workers : worker[w].pc = "duplicate" => worker[w].msg # m
Accounted(X, l) ==
    \/ l \in X
    \/ Recorded(l)
    \/ \E e \in dropped : e.lead = l
    \/ \E m \in Msgs : Carrying(m) /\ msg[m].event.lead = l

WorkInv(X) == AllHeard /\ InsertedIsRecorded /\ ClaimsBacked(X)
MessagesAccounted(X) == \A m \in Msgs : msg[m].st # "free" => Accounted(X, msg[m].event.lead)
MarksAccounted(X) ==
    /\ \A h \in Hooks : hook[h].pc = "mark" => Accounted(X, hook[h].cur.lead)
    /\ sweep.pc = "mark" => Accounted(X, sweep.cur.lead)
StatusAccounted(X) ==
    \A e \in Events : status[e] \notin {"none", "received"} => Accounted(X, e.lead)
AccountedInv(X) == WorkInv(X) /\ MessagesAccounted(X) /\ MarksAccounted(X) /\ StatusAccounted(X)

\* What a step of a worker can do: move on with its message, or answer it.
Moves(w, pc) ==
    /\ Goto(w, pc) /\ msg' = msg /\ dropped' = dropped
    /\ pc \in WorkerPCs \ {"idle"}
    /\ pc = "duplicate" => \/ Recorded(worker[w].event.lead)
                           \/ worker[w].pc = "claim" /\ worker[w].event.lead \in claims
    /\ pc \in {"complete", "lost"} => leads' = RowsAfterInsert(worker[w].event)
    /\ worker[w].pc \in ClaimingPCs =>
         \/ pc \in ClaimingPCs \/ worker[w].event.lead \notin claims'
         \/ Recorded(worker[w].event.lead) \/ leads' = RowsAfterInsert(worker[w].event)
    /\ \/ claims' \subseteq claims
       \/ claims' = claims \cup {worker[w].event.lead} /\ pc = "exists"

Responds(w) ==
    /\ claims' = claims
    /\ \/ Return(w, FALSE) /\ dropped' = dropped /\ worker[w].pc = "retrying"
       \/ /\ Return(w, TRUE)
          /\ \/ worker[w].pc = "blocked" /\ worker[w].heard
                  /\ dropped' = dropped \cup {worker[w].event}
             \/ worker[w].pc \in {"duplicate", "complete", "lost"} /\ dropped' = dropped

LEMMA WorkerEffects ==
    ASSUME Steady, Typed, AllHeard, NEW w \in Workers, WorkerStep(w)
    PROVE  /\ worker[w].pc # "idle" /\ worker[w].event \in Events
           /\ hook' = hook /\ sweep' = sweep
           /\ status' = status \/ \E s \in Statuses : Mark(worker[w].event, s)
           /\ Responds(w) \/ \E pc \in WorkerPCs : Moves(w, pc)
  <1>. USE DEF At, Event
  <1>1. "db" \notin Faults /\ "redis" \notin Faults
    BY DEF Steady
  <1>2. worker[w].pc # "idle"
    BY DEF WorkerStep, WorkerDbFails, CheckEntitlement, MarkBlocked, Claim, CheckExists,
           MarkDuplicate, ResolvePage, MarkProcessing, FetchDetails, InsertLead,
           MarkOutcome, ReleaseClaim, MarkRetrying
  <1>3. worker[w].event \in Events
    BY <1>2 DEF Typed, BusyHasEvent
  <1>. DEFINE Goal == /\ hook' = hook /\ sweep' = sweep
                      /\ status' = status \/ \E s \in Statuses : Mark(worker[w].event, s)
                      /\ Responds(w) \/ \E pc \in WorkerPCs : Moves(w, pc)
  <1>4. ASSUME CheckEntitlement(w) PROVE Goal
    <2>1. Moves(w, "blocked") \/ Moves(w, "claim")
      BY <1>4 DEF CheckEntitlement, Moves, WorkerPCs, ClaimingPCs
    <2>. QED
      BY <1>4, <2>1 DEF CheckEntitlement, WorkerPCs
  <1>5. ASSUME MarkBlocked(w) PROVE Goal
    <2>1. worker[w].heard
      BY <1>2 DEF AllHeard
    <2>2. Responds(w)
      BY <1>5, <2>1 DEF MarkBlocked, Responds
    <2>. QED
      BY <1>5, <2>2 DEF MarkBlocked, Statuses
  <1>6. ASSUME Claim(w) PROVE Goal
    <2>1. Moves(w, "exists") \/ Moves(w, "duplicate")
      BY <1>1, <1>6 DEF Claim, Moves, WorkerPCs, ClaimingPCs
    <2>. QED
      BY <1>6, <2>1 DEF Claim, WorkerPCs
  <1>7. ASSUME CheckExists(w) PROVE Goal
    <2>1. Moves(w, "duplicate") \/ Moves(w, "page")
      BY <1>7 DEF CheckExists, Moves, WorkerPCs, ClaimingPCs
    <2>. QED
      BY <1>7, <2>1 DEF CheckExists, WorkerPCs
  <1>8. ASSUME MarkDuplicate(w) PROVE Goal
    BY <1>8 DEF MarkDuplicate, Responds, Statuses
  <1>9. ASSUME ResolvePage(w) PROVE Goal
    <2>1. Moves(w, "processing") \/ Moves(w, "release")
      BY <1>9 DEF ResolvePage, Moves, WorkerPCs, ClaimingPCs
    <2>. QED
      BY <1>9, <2>1 DEF ResolvePage, WorkerPCs
  <1>10. ASSUME MarkProcessing(w) PROVE Goal
    <2>1. Moves(w, "fetch")
      BY <1>10 DEF MarkProcessing, Moves, WorkerPCs, ClaimingPCs
    <2>. QED
      BY <1>10, <2>1 DEF MarkProcessing, WorkerPCs, Statuses
  <1>11. ASSUME FetchDetails(w) PROVE Goal
    <2>1. Moves(w, "insert") \/ Moves(w, "release")
      BY <1>11 DEF FetchDetails, Moves, WorkerPCs, ClaimingPCs
    <2>. QED
      BY <1>11, <2>1 DEF FetchDetails, WorkerPCs
  <1>12. ASSUME InsertLead(w) PROVE Goal
    <2>1. Moves(w, "lost") \/ Moves(w, "complete")
      BY <1>1, <1>12 DEF InsertLead, Moves, WorkerPCs, ClaimingPCs
    <2>. QED
      BY <1>12, <2>1 DEF InsertLead, WorkerPCs
  <1>13. ASSUME MarkOutcome(w) PROVE Goal
    BY <1>1, <1>13 DEF MarkOutcome, Responds, Statuses
  <1>14. ASSUME ReleaseClaim(w) PROVE Goal
    <2>1. Moves(w, "retrying")
      BY <1>1, <1>14 DEF ReleaseClaim, Moves, WorkerPCs, ClaimingPCs
    <2>. QED
      BY <1>14, <2>1 DEF ReleaseClaim, WorkerPCs
  <1>15. ASSUME MarkRetrying(w) PROVE Goal
    BY <1>1, <1>15 DEF MarkRetrying, Throw, Responds, Statuses
  <1>16. ~WorkerDbFails(w)
    BY <1>1 DEF WorkerDbFails
  <1>. HIDE DEF Goal
  <1>17. Goal
    BY <1>4, <1>5, <1>6, <1>7, <1>8, <1>9, <1>10, <1>11, <1>12, <1>13, <1>14, <1>15, <1>16, Zenon
    DEF WorkerStep
  <1>. QED
    BY <1>2, <1>3, <1>17 DEF Goal

\* What the answer does to the messages: nothing to those of others, and what
\* it does not end stays.
LEMMA ResponseEffects ==
    ASSUME Typed, AllHeard, NEW w \in Workers, worker[w].pc # "idle",
           NEW ends \in BOOLEAN, Return(w, ends)
    PROVE  /\ worker' = [worker EXCEPT ![w] = WorkerIdle]
           /\ worker[w].msg \in Msgs
           /\ \A m \in Msgs \ {worker[w].msg} : msg'[m] = msg[m]
           /\ msg[worker[w].msg].event = worker[w].event
           /\ IF ends THEN msg'[worker[w].msg].st = "free"
              ELSE /\ msg'[worker[w].msg].st # "free"
                   /\ msg'[worker[w].msg].event = worker[w].event
  <1>1. worker[w].heard /\ msg \in [Msgs -> MsgState]
    BY DEF AllHeard, Typed, TypeOK
  <1>2. worker[w].msg \in Msgs /\ msg[worker[w].msg].event = worker[w].event
    BY <1>1 DEF Typed, HeardIsRunning
  <1>3. CASE ends
    BY <1>1, <1>2, <1>3 DEF Return, MsgFree
  <1>4. CASE ~ends
    <2>1. msg' = FailedAttempt(worker[w].msg)
      BY <1>1, <1>4 DEF Return
    <2>. QED
      BY <1>1, <1>2, <1>4, <2>1, FailedAttemptTyped DEF Return
  <1>. QED
    BY <1>3, <1>4

LEMMA RecordedStays ==
    ASSUME Typed, [Next]_vars, NEW l \in Leads, Recorded(l) PROVE Recorded(l)'
  BY RowsStep, InsertedRow DEF Typed, TypeOK, Recorded

\* A message that is not taken for a duplicate goes on carrying its lead.
LEMMA StillCarrying ==
    ASSUME NEW X, NEW l, NEW m \in Msgs, Carrying(m), msg[m].event.lead = l, msg'[m].st # "free",
           msg'[m].event = msg[m].event,
           \A w \in Workers : worker'[w].pc = "duplicate" /\ worker'[w].msg = m
                                => worker[w].pc = "duplicate" /\ worker[w].msg = m
    PROVE  Accounted(X, l)'
  <1>1. Carrying(m)' /\ msg'[m].event.lead = msg[m].event.lead
    BY DEF Carrying
  <1>. QED
    BY <1>1 DEF Accounted

\* The worker about to end a message as a duplicate leaves the one whose claim
\* it met.
LEMMA WorkerKeepsMessage ==
    ASSUME NEW X, Steady, Typed, WorkInv(X), NEW w \in Workers, WorkerStep(w),
           NEW l, NEW m \in Msgs, Carrying(m), msg[m].event.lead = l, ~Recorded(l)
    PROVE  Accounted(X, l)'
  <1>0. /\ worker[w].pc # "idle" /\ worker[w].event \in Events
        /\ Responds(w) \/ \E pc \in WorkerPCs : Moves(w, pc)
    BY WorkerEffects DEF WorkInv
  <1>1. worker \in [Workers -> WorkerState] /\ msg \in [Msgs -> MsgState]
    BY DEF Typed, TypeOK
  <1>2. \A v \in Workers : worker[v].pc # "idle" =>
          /\ worker[v].msg \in Msgs /\ msg[worker[v].msg].st = "running"
          /\ msg[worker[v].msg].event = worker[v].event
          /\ \A u \in Workers \ {v} : worker[u].pc # "idle" => worker[u].msg # worker[v].msg
    BY DEF WorkInv, AllHeard, Typed, HeardIsRunning, OneListener
  <1>3. ASSUME NEW pc \in WorkerPCs, Moves(w, pc) PROVE Accounted(X, l)'
    <2>1. /\ msg' = msg
          /\ \A v \in Workers : /\ worker'[v].msg = worker[v].msg
                                /\ worker'[v].pc = IF v = w THEN pc ELSE worker[v].pc
      BY <1>1, <1>3 DEF Moves, Goto, WorkerState
    <2>2. CASE pc # "duplicate" \/ worker[w].msg # m
      <3>1. msg'[m].st # "free" /\ msg'[m].event = msg[m].event
        BY <2>1 DEF Carrying
      <3>2. \A v \in Workers : worker'[v].pc = "duplicate" /\ worker'[v].msg = m
                                 => worker[v].pc = "duplicate" /\ worker[v].msg = m
        BY <2>1, <2>2
      <3>. QED
        BY <3>1, <3>2, StillCarrying
    <2>3. CASE pc = "duplicate" /\ worker[w].msg = m
      <3>1. worker[w].event = msg[m].event
        BY <1>0, <1>2, <2>3
      <3>2. msg[m].event.lead \in claims /\ worker[w].pc = "claim"
        BY <1>3, <2>3, <3>1 DEF Moves
      <3>. SUFFICES ASSUME l \notin X PROVE Accounted(X, l)'
        BY DEF Accounted
      <3>3. PICK v \in Workers : worker[v].pc \in ClaimingPCs
                                 /\ worker[v].event.lead = msg[m].event.lead
        BY <3>2 DEF WorkInv, ClaimsBacked, Claiming
      <3>4. worker[v].pc # "idle" /\ worker[v].pc # "duplicate" /\ v # w
        BY <3>2, <3>3 DEF ClaimingPCs
      <3>5. PICK n \in Msgs : /\ n = worker[v].msg /\ msg[n].st = "running"
                              /\ msg[n].event.lead = l
        BY <1>2, <3>3, <3>4
      <3>6. \A u \in Workers : worker'[u].pc = "duplicate" => worker'[u].msg # n
        BY <1>0, <1>2, <2>1, <2>3, <3>4, <3>5
      <3>7. Carrying(n)' /\ msg'[n].event.lead = l
        BY <2>1, <3>5, <3>6 DEF Carrying
      <3>. QED
        BY <2>1, <3>5, <3>7 DEF Accounted
    <2>. QED
      BY <2>2, <2>3
  <1>4. ASSUME Responds(w) PROVE Accounted(X, l)'
    <2>1. PICK ends \in BOOLEAN : /\ Return(w, ends)
                                  /\ ends => worker[w].pc # "retrying"
                                  /\ ~ends => worker[w].pc = "retrying"
      BY <1>4 DEF Responds
    <2>2. /\ \A v \in Workers \ {w} : worker'[v] = worker[v]
          /\ worker'[w].pc = "idle"
          /\ \A n \in Msgs \ {worker[w].msg} : msg'[n] = msg[n]
          /\ ~ends => /\ msg'[worker[w].msg].st # "free"
                      /\ msg'[worker[w].msg].event = worker[w].event
      BY <1>0, <1>1, <2>1, ResponseEffects DEF WorkInv, WorkerIdle
    <2>3. CASE worker[w].msg # m \/ ~ends
      <3>1. msg'[m].st # "free" /\ msg'[m].event = msg[m].event
        BY <1>0, <1>2, <2>2, <2>3 DEF Carrying
      <3>2. \A v \in Workers : worker'[v].pc = "duplicate" /\ worker'[v].msg = m
                                 => worker[v].pc = "duplicate" /\ worker[v].msg = m
        BY <2>2
      <3>. QED
        BY <3>1, <3>2, StillCarrying
    <2>4. CASE worker[w].msg = m /\ ends
      <3>1. worker[w].event = msg[m].event /\ worker[w].pc # "duplicate"
        BY <1>0, <1>2, <2>4 DEF Carrying
      <3>2. worker[w].pc \notin {"complete", "lost"}
        BY <3>1 DEF WorkInv, InsertedIsRecorded
      <3>3. dropped' = dropped \cup {worker[w].event}
        BY <1>4, <2>1, <2>4, <3>1, <3>2 DEF Responds
      <3>. QED
        BY <3>1, <3>3 DEF Accounted
    <2>. QED
      BY <2>3, <2>4
  <1>. QED
    BY <1>0, <1>3, <1>4

LEMMA LiveMessageKept ==
    ASSUME NEW X, Steady, Typed, WorkInv(X), [Next]_vars,
           NEW l, NEW m \in Msgs, Carrying(m), msg[m].event.lead = l, ~Recorded(l)
    PROVE  Accounted(X, l)'
  <1>0. worker \in [Workers -> WorkerState] /\ msg \in [Msgs -> MsgState]
    BY DEF Typed, TypeOK
  <1>u. ASSUME msg' = msg, worker' = worker PROVE Accounted(X, l)'
    BY <1>u, StillCarrying DEF Carrying
  <1>p. ASSUME NEW e \in Events, Publish(e), worker' = worker
        PROVE  Accounted(X, l)'
    <2>1. PICK n \in Msgs :
            /\ ~Live(n)
            /\ msg' = [msg EXCEPT ![n] = [st |-> "queued", event |-> e, tries |-> 0]]
      BY <1>p DEF Publish
    <2>2. msg'[m] = msg[m]
      BY <1>0, <2>1 DEF Live, Carrying
    <2>. QED
      BY <1>p, <2>2, StillCarrying DEF Carrying
  <1>1. CASE UNCHANGED vars
    BY <1>1, <1>u DEF vars
  <1>2. ASSUME NEW k \in Leads, LeadSubmitted(k) \/ LeadAges(k) \/ ClaimExpires(k)
        PROVE  Accounted(X, l)'
    BY <1>2, <1>u DEF LeadSubmitted, LeadAges, ClaimExpires
  <1>3. ASSUME NEW t \in Tenants, EntitlementChanges(t) PROVE Accounted(X, l)'
    BY <1>3, <1>u DEF EntitlementChanges
  <1>4. ASSUME NEW h \in Hooks, HookStep(h) PROVE Accounted(X, l)'
    <2>1. \/ msg' = msg /\ worker' = worker
          \/ \E e \in Events : Publish(e) /\ worker' = worker
      BY <1>4 DEF HookStep, WebhookDelivery, CaptureEvent, Ack, HookPublish, HookPublishFails,
                  HookMarkEnqueued, HookDone, HookCrash
    <2>. QED
      BY <1>u, <1>p, <2>1
  <1>5. ASSUME NEW n \in Msgs, DeadLetter(n) PROVE Accounted(X, l)'
    <2>1. dropped' = dropped \cup {msg[n].event} /\ worker' = worker
          /\ msg' = [msg EXCEPT ![n] = MsgFree]
      BY <1>5 DEF DeadLetter
    <2>2. CASE n = m
      BY <2>1, <2>2 DEF Accounted
    <2>3. CASE n # m
      <3>1. msg'[m] = msg[m]
        BY <2>1, <2>3
      <3>. QED
        BY <2>1, <3>1, StillCarrying DEF Carrying
    <2>. QED
      BY <2>2, <2>3
  <1>6. ASSUME NEW n \in Msgs, NEW w \in Workers, Deliver(n, w)
        PROVE  Accounted(X, l)'
    <2>1. /\ msg' = [msg EXCEPT ![n].st = "running"]
          /\ \A v \in Workers \ {w} : worker'[v] = worker[v]
          /\ worker'[w].pc = "entitlement"
      BY <1>0, <1>6 DEF Deliver
    <2>2. msg'[m].st # "free" /\ msg'[m].event = msg[m].event
      BY <1>0, <2>1 DEF MsgState, Carrying
    <2>3. \A v \in Workers : worker'[v].pc = "duplicate" => worker'[v] = worker[v]
      BY <2>1
    <2>. QED
      BY <2>2, <2>3, StillCarrying
  <1>7. ASSUME NEW w \in Workers, ResponseLost(w) \/ WorkerCrash(w) PROVE FALSE
    BY <1>7 DEF ResponseLost, WorkerCrash, Steady
  <1>8. CASE SweepStep
    <2>1. \/ msg' = msg /\ worker' = worker
          \/ \E e \in Events : Publish(e) /\ worker' = worker
      BY <1>8 DEF SweepStep, SweepStart, SweepPublish, SweepPublishFails, SweepMarkEnqueued,
                  SweepListTenants, SweepScanTenant, SweepRecover, SweepScanFails, SweepDone,
                  SweepCrash
    <2>. QED
      BY <1>u, <1>p, <2>1
  <1>. QED
    BY <1>1, <1>2, <1>3, <1>4, <1>5, <1>6, <1>7, <1>8, WorkerKeepsMessage DEF Next

\* What is accounted for stays so.
LEMMA AccountedStays ==
    ASSUME NEW X, Steady, Typed, WorkInv(X), [Next]_vars, NEW l \in Leads, Accounted(X, l)
    PROVE  Accounted(X, l)'
  <1>1. CASE Recorded(l)
    BY <1>1, RecordedStays DEF Accounted
  <1>2. CASE \E e \in dropped : e.lead = l
    <2>1. dropped \subseteq dropped'
      <3>1. ASSUME NEW h \in Hooks, HookStep(h) PROVE dropped' = dropped
        BY <3>1 DEF HookStep, WebhookDelivery, CaptureEvent, Ack, HookPublish, HookPublishFails,
                    HookMarkEnqueued, HookDone, HookCrash
      <3>2. ASSUME SweepStep PROVE dropped' = dropped
        BY <3>2 DEF SweepStep, SweepStart, SweepPublish, SweepPublishFails, SweepMarkEnqueued,
                    SweepListTenants, SweepScanTenant, SweepRecover, SweepScanFails, SweepDone,
                    SweepCrash
      <3>3. ASSUME NEW w \in Workers, WorkerStep(w) PROVE dropped \subseteq dropped'
        BY <3>3, WorkerEffects DEF WorkInv, Responds, Moves
      <3>. QED
        BY <3>1, <3>2, <3>3
        DEF Next, vars, LeadSubmitted, LeadAges, ClaimExpires, EntitlementChanges, DeadLetter,
            Deliver, ResponseLost, WorkerCrash
    <2>. QED
      BY <1>2, <2>1 DEF Accounted
  <1>3. ASSUME ~Recorded(l), NEW m \in Msgs, Carrying(m), msg[m].event.lead = l
        PROVE  Accounted(X, l)'
    BY <1>3, LiveMessageKept
  <1>4. CASE l \in X
    BY <1>4 DEF Accounted
  <1>. QED
    BY <1>1, <1>2, <1>3, <1>4 DEF Accounted

\* Workers stay heard, inserters recorded and claims backed.
LEMMA WorkStep ==
    ASSUME NEW X, Steady, Typed, WorkInv(X), [Next]_vars PROVE WorkInv(X)'
  <1>0. worker \in [Workers -> WorkerState] /\ msg \in [Msgs -> MsgState] /\ claims \subseteq Leads
    BY DEF Typed, TypeOK
  <1>1. \A l \in Leads : Recorded(l) => Recorded(l)'
    BY RecordedStays
  <1>2. \A w \in Workers : worker[w].pc # "idle" => worker[w].event.lead \in Leads
    BY DEF Typed, BusyHasEvent, Events
  <1>u. ASSUME worker' = worker, claims' \subseteq claims PROVE WorkInv(X)'
    <2>1. AllHeard'
      BY <1>u DEF WorkInv, AllHeard
    <2>2. InsertedIsRecorded'
      BY <1>1, <1>2, <1>u DEF WorkInv, InsertedIsRecorded
    <2>3. ClaimsBacked(X)'
      <3>1. \A l : Claiming(l) => Claiming(l)'
        BY <1>u DEF Claiming
      <3>. QED
        BY <1>0, <1>1, <1>u, <3>1 DEF WorkInv, ClaimsBacked
    <2>. QED
      BY <2>1, <2>2, <2>3 DEF WorkInv
  <1>3. ASSUME NEW w \in Workers, WorkerStep(w) PROVE WorkInv(X)'
    <2>0. /\ worker[w].pc # "idle" /\ worker[w].event \in Events
          /\ Responds(w) \/ \E pc \in WorkerPCs : Moves(w, pc)
      BY <1>3, WorkerEffects DEF WorkInv
    <2>1. ASSUME NEW pc \in WorkerPCs, Moves(w, pc) PROVE WorkInv(X)'
      <3>1. \A v \in Workers : /\ worker'[v].event = worker[v].event
                               /\ worker'[v].heard = worker[v].heard
                               /\ worker'[v].pc = IF v = w THEN pc ELSE worker[v].pc
        BY <1>0, <2>1 DEF Moves, Goto, WorkerState
      <3>2. AllHeard'
        BY <2>0, <3>1 DEF WorkInv, AllHeard
      <3>3. leads' = RowsAfterInsert(worker[w].event) => Recorded(worker[w].event.lead)'
        <4>1. PICK e \in Events : e = worker[w].event
          BY <2>0
        <4>2. e.lead \in Leads /\ leads \in [Leads -> Seq(Tenants)]
          BY DEF Events, Typed, TypeOK
        <4>3. ASSUME leads' = RowsAfterInsert(e) PROVE leads'[e.lead] # << >>
          <5>1. CASE Recorded(e.lead)
            BY <1>1, <4>2, <5>1 DEF Recorded
          <5>2. CASE ~Recorded(e.lead)
            <6>1. leads'[e.lead] = <<e.tenant>>
              BY <4>2, <4>3, <5>2, InsertedRow
            <6>. QED
              BY <6>1
          <5>. QED
            BY <5>1, <5>2
        <4>. QED
          BY <3>1, <4>1, <4>3 DEF Recorded
      <3>4. InsertedIsRecorded'
        <4>1. ASSUME NEW v \in Workers, worker'[v].pc \in {"complete", "lost"}
              PROVE  leads'[worker[v].event.lead] # << >>
          <5>1. CASE v = w
            BY <2>1, <3>1, <3>3, <4>1, <5>1 DEF Moves, Recorded
          <5>2. CASE v # w
            BY <1>1, <1>2, <3>1, <4>1, <5>2 DEF WorkInv, InsertedIsRecorded, Recorded
          <5>. QED
            BY <5>1, <5>2
        <4>. QED
          BY <3>1, <4>1 DEF InsertedIsRecorded, Recorded
      <3>5. ASSUME NEW l \in Leads, l \in claims', l \notin X PROVE Recorded(l)' \/ Claiming(l)'
        <4>1. CASE l \notin claims
          <5>1. l = worker[w].event.lead /\ pc = "exists"
            BY <2>1, <3>5, <4>1 DEF Moves
          <5>. QED
            BY <3>1, <5>1 DEF Claiming, ClaimingPCs
        <4>2. CASE l \in claims
          <5>1. CASE Recorded(l)
            BY <1>1, <5>1
          <5>2. ASSUME NEW v \in Workers, worker[v].pc \in ClaimingPCs, worker[v].event.lead = l,
                       ~Recorded(l)
                PROVE  Recorded(l)' \/ Claiming(l)'
            <6>1. CASE v # w
              BY <3>1, <5>2, <6>1 DEF Claiming
            <6>2. CASE v = w
              <7>1. \/ pc \in ClaimingPCs
                    \/ leads' = RowsAfterInsert(worker[w].event)
                BY <2>1, <3>5, <5>2, <6>2 DEF Moves
              <7>2. CASE pc \in ClaimingPCs
                BY <3>1, <5>2, <6>2, <7>2 DEF Claiming
              <7>3. CASE leads' = RowsAfterInsert(worker[w].event)
                BY <3>1, <3>3, <5>2, <6>2, <7>3 DEF Recorded
              <7>. QED
                BY <7>1, <7>2, <7>3
            <6>. QED
              BY <6>1, <6>2
          <5>. QED
            BY <3>5, <4>2, <5>1, <5>2 DEF WorkInv, ClaimsBacked, Claiming
        <4>. QED
          BY <4>1, <4>2
      <3>6. claims' \subseteq Leads
        BY <1>0, <1>2, <2>0, <2>1 DEF Moves
      <3>. QED
        BY <3>2, <3>4, <3>5, <3>6 DEF WorkInv, ClaimsBacked
    <2>2. ASSUME Responds(w) PROVE WorkInv(X)'
      <3>1. PICK ends \in BOOLEAN : Return(w, ends)
        BY <2>2 DEF Responds
      <3>2. /\ worker'[w].pc = "idle" /\ claims' = claims
            /\ \A v \in Workers \ {w} : worker'[v] = worker[v]
        BY <1>0, <2>0, <2>2, <3>1, ResponseEffects DEF WorkInv, WorkerIdle, Responds
      <3>3. AllHeard'
        BY <3>2 DEF WorkInv, AllHeard
      <3>4. InsertedIsRecorded'
        BY <1>1, <1>2, <3>2 DEF WorkInv, InsertedIsRecorded
      <3>5. \A l : Claiming(l) => Claiming(l)'
        <4>1. worker[w].pc \notin ClaimingPCs
          BY <2>2 DEF Responds, ClaimingPCs
        <4>. QED
          BY <3>2, <4>1 DEF Claiming
      <3>6. ClaimsBacked(X)'
        BY <1>0, <1>1, <3>2, <3>5 DEF WorkInv, ClaimsBacked
      <3>. QED
        BY <3>3, <3>4, <3>6 DEF WorkInv
    <2>. QED
      BY <2>0, <2>1, <2>2
  <1>4. ASSUME NEW m \in Msgs, NEW w \in Workers, Deliver(m, w) PROVE WorkInv(X)'
    <2>1. /\ worker[w].pc = "idle" /\ worker'[w].pc = "entitlement" /\ worker'[w].heard
          /\ \A v \in Workers \ {w} : worker'[v] = worker[v]
          /\ claims' = claims
      BY <1>0, <1>4 DEF Deliver
    <2>2. AllHeard'
      BY <2>1 DEF WorkInv, AllHeard
    <2>3. InsertedIsRecorded'
      BY <1>1, <1>2, <2>1 DEF WorkInv, InsertedIsRecorded
    <2>4. \A l : Claiming(l) => Claiming(l)'
      BY <2>1 DEF Claiming, ClaimingPCs
    <2>5. ClaimsBacked(X)'
      BY <1>0, <1>1, <2>1, <2>4 DEF WorkInv, ClaimsBacked
    <2>. QED
      BY <2>2, <2>3, <2>5 DEF WorkInv
  <1>5. ASSUME NEW w \in Workers, ResponseLost(w) \/ WorkerCrash(w) PROVE FALSE
    BY <1>5 DEF ResponseLost, WorkerCrash, Steady
  <1>6. ASSUME NEW h \in Hooks, HookStep(h) PROVE WorkInv(X)'
    BY <1>6, <1>u DEF HookStep, WebhookDelivery, CaptureEvent, Ack, HookPublish, HookPublishFails,
                      HookMarkEnqueued, HookDone, HookCrash
  <1>7. ASSUME SweepStep PROVE WorkInv(X)'
    BY <1>7, <1>u DEF SweepStep, SweepStart, SweepPublish, SweepPublishFails, SweepMarkEnqueued,
                      SweepListTenants, SweepScanTenant, SweepRecover, SweepScanFails, SweepDone,
                      SweepCrash
  <1>8. ASSUME NEW l \in Leads, LeadSubmitted(l) \/ LeadAges(l) \/ ClaimExpires(l) PROVE WorkInv(X)'
    BY <1>8, <1>u DEF LeadSubmitted, LeadAges, ClaimExpires
  <1>9. ASSUME NEW t \in Tenants, EntitlementChanges(t) PROVE WorkInv(X)'
    BY <1>9, <1>u DEF EntitlementChanges
  <1>10. ASSUME NEW m \in Msgs, DeadLetter(m) PROVE WorkInv(X)'
    BY <1>10, <1>u DEF DeadLetter
  <1>11. CASE UNCHANGED vars
    BY <1>11, <1>u DEF vars
  <1>. QED
    BY <1>3, <1>4, <1>5, <1>6, <1>7, <1>8, <1>9, <1>10, <1>11, Zenon DEF Next

\* A live message was live before, or was published just now, when nobody
\* works on it.
LEMMA MessageOrigin ==
    ASSUME NEW X, Steady, Typed, WorkInv(X), [Next]_vars, NEW m \in Msgs, msg'[m].st # "free"
    PROVE  \/ msg[m].st # "free" /\ msg'[m].event = msg[m].event
           \/ Carrying(m)'
  <1>0. worker \in [Workers -> WorkerState] /\ msg \in [Msgs -> MsgState]
    BY DEF Typed, TypeOK
  <1>. DEFINE Goal == \/ msg[m].st # "free" /\ msg'[m].event = msg[m].event
                      \/ Carrying(m)'
  <1>u. ASSUME msg' = msg PROVE Goal
    BY <1>u
  <1>p. ASSUME NEW e \in Events, Publish(e), worker' = worker PROVE Goal
    <2>1. PICK n \in Msgs :
            /\ ~Live(n)
            /\ msg' = [msg EXCEPT ![n] = [st |-> "queued", event |-> e, tries |-> 0]]
      BY <1>p DEF Publish
    <2>2. CASE n # m
      BY <2>1, <2>2
    <2>3. CASE n = m
      <3>1. \A w \in Workers : worker[w].pc = "duplicate" => worker[w].msg # m
        BY <2>1, <2>3 DEF WorkInv, AllHeard, Typed, HeardIsRunning, Live
      <3>2. Carrying(m)'
        BY <1>p, <3>1 DEF Carrying
      <3>. QED
        BY <3>2
    <2>. QED
      BY <2>2, <2>3
  <1>1. ASSUME NEW w \in Workers, WorkerStep(w) PROVE Goal
    <2>1. /\ worker[w].pc # "idle"
          /\ Responds(w) \/ \E pc \in WorkerPCs : Moves(w, pc)
      BY <1>1, WorkerEffects DEF WorkInv
    <2>2. ASSUME Responds(w) PROVE Goal
      <3>1. PICK ends \in BOOLEAN : Return(w, ends)
        BY <2>2 DEF Responds
      <3>2. /\ worker[w].msg \in Msgs /\ msg[worker[w].msg].event = worker[w].event
            /\ \A n \in Msgs \ {worker[w].msg} : msg'[n] = msg[n]
            /\ IF ends THEN msg'[worker[w].msg].st = "free"
               ELSE msg'[worker[w].msg].event = worker[w].event
        BY <2>1, <3>1, ResponseEffects DEF WorkInv
      <3>3. msg[worker[w].msg].st # "free"
        BY <2>1 DEF WorkInv, AllHeard, Typed, HeardIsRunning
      <3>. QED
        BY <3>2, <3>3
    <2>3. ASSUME NEW pc \in WorkerPCs, Moves(w, pc) PROVE Goal
      BY <2>3, <1>u DEF Moves
    <2>. QED
      BY <2>1, <2>2, <2>3
  <1>2. ASSUME NEW n \in Msgs, NEW w \in Workers, Deliver(n, w) PROVE Goal
    <2>1. msg' = [msg EXCEPT ![n].st = "running"] /\ msg[n].st = "queued"
      BY <1>2 DEF Deliver
    <2>. QED
      BY <1>0, <2>1 DEF MsgState
  <1>3. ASSUME NEW w \in Workers, ResponseLost(w) \/ WorkerCrash(w) PROVE FALSE
    BY <1>3 DEF ResponseLost, WorkerCrash, Steady
  <1>4. ASSUME NEW n \in Msgs, DeadLetter(n) PROVE Goal
    <2>1. msg' = [msg EXCEPT ![n] = MsgFree]
      BY <1>4 DEF DeadLetter
    <2>2. n # m
      BY <1>0, <2>1 DEF MsgFree
    <2>. QED
      BY <2>1, <2>2
  <1>5. ASSUME NEW h \in Hooks, HookStep(h) PROVE Goal
    <2>1. \/ msg' = msg
          \/ \E e \in Events : Publish(e) /\ worker' = worker
      BY <1>5 DEF HookStep, WebhookDelivery, CaptureEvent, Ack, HookPublish, HookPublishFails,
                  HookMarkEnqueued, HookDone, HookCrash
    <2>. QED
      BY <1>u, <1>p, <2>1
  <1>6. ASSUME SweepStep PROVE Goal
    <2>1. \/ msg' = msg
          \/ \E e \in Events : Publish(e) /\ worker' = worker
      BY <1>6 DEF SweepStep, SweepStart, SweepPublish, SweepPublishFails, SweepMarkEnqueued,
                  SweepListTenants, SweepScanTenant, SweepRecover, SweepScanFails, SweepDone,
                  SweepCrash
    <2>. QED
      BY <1>u, <1>p, <2>1
  <1>7. ASSUME NEW l \in Leads, LeadSubmitted(l) \/ LeadAges(l) \/ ClaimExpires(l) PROVE Goal
    BY <1>7, <1>u DEF LeadSubmitted, LeadAges, ClaimExpires
  <1>8. ASSUME NEW t \in Tenants, EntitlementChanges(t) PROVE Goal
    BY <1>8, <1>u DEF EntitlementChanges
  <1>9. ASSUME UNCHANGED vars PROVE Goal
    BY <1>9, <1>u DEF vars
  <1>. HIDE DEF Goal
  <1>10. Goal
    BY <1>1, <1>2, <1>3, <1>4, <1>5, <1>6, <1>7, <1>8, <1>9, Zenon DEF Next
  <1>. QED
    BY <1>10 DEF Goal

LEMMA MessagesStep ==
    ASSUME NEW X, Steady, Typed, WorkInv(X), MessagesAccounted(X), [Next]_vars PROVE MessagesAccounted(X)'
  <1>1. ASSUME NEW m \in Msgs, NEW l, msg'[m].st # "free", msg'[m].event.lead = l
        PROVE  Accounted(X, l)'
    <2>1. CASE msg[m].st # "free" /\ msg'[m].event = msg[m].event
      <3>1. Accounted(X, l) /\ l \in Leads
        BY <1>1, <2>1 DEF MessagesAccounted, Typed, BusyHasEvent, Live, Events
      <3>. QED
        BY <3>1, AccountedStays
    <2>2. CASE Carrying(m)'
      BY <1>1, <2>2 DEF Accounted
    <2>. QED
      BY <1>1, <2>1, <2>2, MessageOrigin
  <1>2. \A m \in Msgs : msg'[m].st # "free" => \E l : l = msg'[m].event.lead /\ Accounted(X, l)'
    BY <1>1
  <1>. QED
    BY <1>2 DEF MessagesAccounted

\* What has been published is accounted for, by its message.
LEMMA Published ==
    ASSUME NEW X, Typed, NEW e \in Events, Publish(e), MessagesAccounted(X)'
    PROVE  Accounted(X, e.lead)'
  <1>1. PICK m \in Msgs :
          msg' = [msg EXCEPT ![m] = [st |-> "queued", event |-> e, tries |-> 0]]
    BY DEF Publish
  <1>2. msg'[m].st # "free" /\ msg'[m].event = e
    BY <1>1 DEF Typed, TypeOK
  <1>. QED
    BY <1>2 DEF MessagesAccounted

LEMMA MarksStep ==
    ASSUME NEW X, Steady, Typed, WorkInv(X), MarksAccounted(X), MessagesAccounted(X)', [Next]_vars
    PROVE  MarksAccounted(X)'
  <1>0. /\ hook \in [Hooks -> HookState] /\ sweep \in SweepState
        /\ \A h \in Hooks : hook[h].pc = "mark" => hook[h].cur \in Events
        /\ sweep.pc = "mark" => sweep.cur \in Events
    BY DEF Typed, TypeOK, BusyHasEvent
  <1>. DEFINE Hooked(h) == hook'[h].pc = "mark" =>
                \/ hook[h].pc = "mark" /\ hook'[h].cur = hook[h].cur
                \/ \E e \in Events : hook'[h].cur = e /\ Publish(e)
              Swept == sweep'.pc = "mark" =>
                \/ sweep.pc = "mark" /\ sweep'.cur = sweep.cur
                \/ \E e \in Events : sweep'.cur = e /\ Publish(e)
              Goal == Swept /\ \A h \in Hooks : Hooked(h)
  <1>u. ASSUME hook' = hook, sweep' = sweep PROVE Goal
    BY <1>u
  <1>1. ASSUME NEW g \in Hooks, HookStep(g) PROVE Goal
    <2>1. sweep' = sweep
      BY <1>1 DEF HookStep, WebhookDelivery, CaptureEvent, Ack, HookPublish, HookPublishFails,
                  HookMarkEnqueued, HookDone, HookCrash
    <2>2. \A h \in Hooks \ {g} : hook'[h] = hook[h]
      BY <1>0, <1>1 DEF HookStep, WebhookDelivery, CaptureEvent, Ack, HookPublish, HookPublishFails,
                  HookMarkEnqueued, HookDone, HookCrash
    <2>3. Hooked(g)
      <3>0. ASSUME WebhookDelivery(g) PROVE Hooked(g)
        <4>1. PICK batch \in SUBSET submitted :
                hook' = [hook EXCEPT ![g] = [HookIdle EXCEPT !.pc = "capture", !.batch = batch,
                                               !.todo = {e \in Events : e.lead \in batch}]]
          BY <3>0 DEF WebhookDelivery
        <4>2. hook'[g] = [HookIdle EXCEPT !.pc = "capture", !.batch = batch,
                                          !.todo = {e \in Events : e.lead \in batch}]
          BY <1>0, <4>1
        <4>3. hook'[g].pc = "capture"
          BY <4>2 DEF HookIdle
        <4>. QED
          BY <4>3
      <3>1. ASSUME HookDone(g) \/ HookCrash(g) PROVE Hooked(g)
        <4>1. hook'[g].pc = "idle"
          BY <1>0, <3>1 DEF HookDone, HookCrash, HookIdle
        <4>. QED
          BY <4>1
      <3>2. ASSUME Ack(g) \/ HookMarkEnqueued(g) PROVE Hooked(g)
        <4>1. hook'[g].pc = "enqueue"
          BY <1>0, <3>2 DEF Ack, HookMarkEnqueued, HookState
        <4>. QED
          BY <4>1
      <3>3. ASSUME NEW e \in Events, CaptureEvent(g, e) \/ HookPublishFails(g, e) PROVE Hooked(g)
        BY <1>0, <3>3 DEF CaptureEvent, HookPublishFails, HookState
      <3>4. ASSUME NEW e \in Events, HookPublish(g, e) PROVE Hooked(g)
        <4>1. hook'[g].cur = e /\ Publish(e)
          BY <1>0, <3>4 DEF HookPublish, HookState
        <4>. QED
          BY <4>1
      <3>. HIDE DEF Hooked
      <3>. QED
        BY <1>1, <3>0, <3>1, <3>2, <3>3, <3>4, Zenon DEF HookStep
    <2>. QED
      BY <2>1, <2>2, <2>3
  <1>2. ASSUME SweepStep PROVE Goal
    <2>1. hook' = hook
      BY <1>2 DEF SweepStep, SweepStart, SweepPublish, SweepPublishFails, SweepMarkEnqueued,
                  SweepListTenants, SweepScanTenant, SweepRecover, SweepScanFails, SweepDone,
                  SweepCrash
    <2>2. Swept
      <3>0. ASSUME SweepStart \/ SweepDone \/ SweepCrash PROVE Swept
        <4>1. ASSUME SweepStart PROVE sweep'.pc = "republish"
          BY <4>1 DEF SweepStart, SweepIdle
        <4>2. ASSUME SweepDone \/ SweepCrash PROVE sweep' = SweepIdle
          BY <4>2 DEF SweepDone, SweepCrash
        <4>. QED
          BY <3>0, <4>1, <4>2 DEF SweepIdle
      <3>1. ASSUME SweepMarkEnqueued \/ SweepListTenants \/ SweepScanFails PROVE Swept
        <4>1. ASSUME SweepMarkEnqueued PROVE sweep'.pc = "republish"
          BY <1>0, <4>1 DEF SweepMarkEnqueued, SweepState
        <4>2. ASSUME SweepListTenants PROVE sweep'.pc = "scan"
          BY <1>0, <4>2 DEF SweepListTenants, SweepState
        <4>3. ASSUME SweepScanFails PROVE sweep'.pc = sweep.pc /\ sweep'.cur = sweep.cur
          BY <1>0, <4>3 DEF SweepScanFails, SweepState
        <4>. QED
          BY <3>1, <4>1, <4>2, <4>3
      <3>2. ASSUME NEW e \in Events, SweepPublishFails(e) \/ SweepRecover(e) PROVE Swept
        BY <1>0, <3>2 DEF SweepPublishFails, SweepRecover, SweepState
      <3>3. ASSUME NEW t \in Tenants, SweepScanTenant(t) PROVE Swept
        BY <1>0, <3>3 DEF SweepScanTenant, SweepState
      <3>4. ASSUME NEW e \in Events, SweepPublish(e) PROVE Swept
        <4>1. sweep'.cur = e /\ Publish(e)
          BY <1>0, <3>4 DEF SweepPublish, SweepState
        <4>. QED
          BY <4>1
      <3>. HIDE DEF Swept
      <3>. QED
        BY <1>2, <3>0, <3>1, <3>2, <3>3, <3>4, Zenon DEF SweepStep
    <2>. QED
      BY <2>1, <2>2
  <1>3. ASSUME NEW w \in Workers, WorkerStep(w) PROVE Goal
    BY <1>3, <1>u, WorkerEffects DEF WorkInv
  <1>. HIDE DEF Goal
  <1>4. Goal
    BY <1>u, <1>1, <1>2, <1>3
    DEF Next, vars, LeadSubmitted, LeadAges, ClaimExpires, EntitlementChanges, DeadLetter, Deliver,
        ResponseLost, WorkerCrash
  <1>5. ASSUME NEW h \in Hooks, hook'[h].pc = "mark"
        PROVE  \E e \in Events : hook'[h].cur = e /\ Accounted(X, e.lead)'
    <2>1. CASE hook[h].pc = "mark" /\ hook'[h].cur = hook[h].cur
      <3>1. PICK e \in Events : e = hook[h].cur
        BY <1>0, <2>1
      <3>2. Accounted(X, e.lead) /\ e.lead \in Leads
        BY <2>1, <3>1 DEF MarksAccounted, Events
      <3>. QED
        BY <2>1, <3>1, <3>2, AccountedStays
    <2>2. ASSUME NEW e \in Events, hook'[h].cur = e, Publish(e) PROVE Accounted(X, e.lead)'
      BY <2>2, Published
    <2>. QED
      BY <1>4, <1>5, <2>1, <2>2 DEF Goal
  <1>6. ASSUME sweep'.pc = "mark"
        PROVE  \E e \in Events : sweep'.cur = e /\ Accounted(X, e.lead)'
    <2>1. CASE sweep.pc = "mark" /\ sweep'.cur = sweep.cur
      <3>1. PICK e \in Events : e = sweep.cur
        BY <1>0, <2>1
      <3>2. Accounted(X, e.lead) /\ e.lead \in Leads
        BY <2>1, <3>1 DEF MarksAccounted, Events
      <3>. QED
        BY <2>1, <3>1, <3>2, AccountedStays
    <2>2. ASSUME NEW e \in Events, sweep'.cur = e, Publish(e) PROVE Accounted(X, e.lead)'
      BY <2>2, Published
    <2>. QED
      BY <1>4, <1>6, <2>1, <2>2 DEF Goal
  <1>. QED
    BY <1>5, <1>6 DEF MarksAccounted

\* Only what is accounted for gets a status beyond "received".
LEMMA StatusOrigin ==
    ASSUME NEW X, Steady, Typed, WorkInv(X), MessagesAccounted(X), MarksAccounted(X), [Next]_vars,
           NEW e \in Events, status'[e] \notin {"none", "received"}
    PROVE  status[e] \notin {"none", "received"} \/ Accounted(X, e.lead)
  <1>0. status \in [Events -> Statuses]
    BY DEF Typed, TypeOK
  <1>. DEFINE Goal == status[e] \notin {"none", "received"} \/ Accounted(X, e.lead)
  <1>u. ASSUME status' = status PROVE Goal
    BY <1>u
  <1>m. ASSUME NEW f, NEW s, Mark(f, s), Accounted(X, f.lead) PROVE Goal
    BY <1>0, <1>m DEF Mark
  <1>1. ASSUME NEW w \in Workers, WorkerStep(w) PROVE Goal
    <2>1. /\ worker[w].pc # "idle"
          /\ status' = status \/ \E s \in Statuses : Mark(worker[w].event, s)
      BY <1>1, WorkerEffects DEF WorkInv
    <2>2. Accounted(X, worker[w].event.lead)
      BY <2>1 DEF WorkInv, AllHeard, Typed, HeardIsRunning, MessagesAccounted
    <2>. QED
      BY <1>u, <1>m, <2>1, <2>2
  <1>2. ASSUME NEW h \in Hooks, HookStep(h) PROVE Goal
    <2>1. CASE HookMarkEnqueued(h)
      <3>1. Accounted(X, hook[h].cur.lead)
        BY <2>1 DEF HookMarkEnqueued, MarksAccounted
      <3>. QED
        BY <1>u, <1>m, <2>1, <3>1 DEF HookMarkEnqueued
    <2>2. ASSUME NEW f \in Events, CaptureEvent(h, f) PROVE Goal
      BY <1>0, <2>2 DEF CaptureEvent
    <2>3. CASE ~HookMarkEnqueued(h) /\ ~\E f \in Events : CaptureEvent(h, f)
      BY <1>2, <1>u, <2>3 DEF HookStep, WebhookDelivery, Ack, HookPublish, HookPublishFails,
                              HookDone, HookCrash
    <2>. QED
      BY <2>1, <2>2, <2>3
  <1>3. ASSUME SweepStep PROVE Goal
    <2>1. CASE SweepMarkEnqueued
      <3>1. Accounted(X, sweep.cur.lead)
        BY <2>1 DEF SweepMarkEnqueued, MarksAccounted
      <3>. QED
        BY <1>u, <1>m, <2>1, <3>1 DEF SweepMarkEnqueued
    <2>2. CASE ~SweepMarkEnqueued
      BY <1>3, <1>u, <2>2 DEF SweepStep, SweepStart, SweepPublish, SweepPublishFails,
                  SweepListTenants, SweepScanTenant, SweepRecover, SweepScanFails, SweepDone,
                  SweepCrash
    <2>. QED
      BY <2>1, <2>2
  <1>4. ASSUME NEW m \in Msgs, DeadLetter(m) PROVE Goal
    <2>1. Accounted(X, msg[m].event.lead)
      BY <1>4 DEF DeadLetter, MessagesAccounted
    <2>. QED
      BY <1>4, <1>m, <2>1 DEF DeadLetter
  <1>. HIDE DEF Goal
  <1>5. Goal
    BY <1>u, <1>1, <1>2, <1>3, <1>4
    DEF Next, vars, LeadSubmitted, LeadAges, ClaimExpires, EntitlementChanges, Deliver,
        ResponseLost, WorkerCrash
  <1>. QED
    BY <1>5 DEF Goal

LEMMA StatusStep ==
    ASSUME NEW X, Steady, Typed, AccountedInv(X), [Next]_vars PROVE StatusAccounted(X)'
  <1>1. ASSUME NEW e \in Events, status'[e] \notin {"none", "received"}
        PROVE  Accounted(X, e.lead)'
    <2>1. Accounted(X, e.lead) /\ e.lead \in Leads
      BY <1>1, StatusOrigin DEF AccountedInv, StatusAccounted, Events
    <2>. QED
      BY <2>1, AccountedStays DEF AccountedInv
  <1>. QED
    BY <1>1, Constants DEF StatusAccounted

\* Graph errors, missing Pages, expiring claims, failing queues, expired
\* entitlements and races of any number of messages discard no captured lead
\* silently, when no worker is killed or cut off and no store fails under it.
THEOREM NothingSilent ==
    ASSUME Steady PROVE Spec => []NoSilentDiscard
  <1>1. Init => AccountedInv({})
    BY DEF Init, AccountedInv, WorkInv, AllHeard, InsertedIsRecorded, ClaimsBacked,
           MessagesAccounted, MarksAccounted, StatusAccounted, WorkerIdle, MsgFree, HookIdle,
           SweepIdle
  <1>2. Typed /\ AccountedInv({}) /\ [Next]_vars => AccountedInv({})'
    BY WorkStep, MessagesStep, MarksStep, StatusStep DEF AccountedInv
  <1>3. Typed /\ AccountedInv({}) => NoSilentDiscard
    <2>1. ASSUME Typed, AccountedInv({}), NEW l \in Leads, Discarded(l) PROVE FALSE
      <3>1. PICK e \in Events : e.lead = l /\ status[e] # "none" /\ status[e] # "received"
        BY <2>1 DEF Discarded, EventsOf
      <3>2. Accounted({}, l)
        BY <2>1, <3>1 DEF AccountedInv, StatusAccounted
      <3>3. ~\E f \in dropped : f.lead = l
        BY <2>1 DEF Discarded, EventsOf, Typed, TypeOK
      <3>4. ~\E m \in Msgs : msg[m].st # "free" /\ msg[m].event.lead = l
        BY <2>1 DEF Discarded, Live
      <3>. QED
        BY <2>1, <3>2, <3>3, <3>4 DEF Discarded, Accounted, Carrying
    <2>. QED
      BY <2>1 DEF NoSilentDiscard
  <1>. QED
    BY <1>1, <1>2, <1>3, AlwaysTyped, PTL DEF Spec
=============================================================================
