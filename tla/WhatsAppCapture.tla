-------------------------- MODULE WhatsAppCapture --------------------------
(***************************************************************************)
(* WhatsApp messages becoming leads: a call of Meta's webhook (Receivers)  *)
(* stores one whatsapp_message_events row per tenant that selected the     *)
(* number, answers, and publishes one QStash message (Notes) per row it    *)
(* stored (metaWhatsappEventService.ts); a worker (Writers) runs           *)
(* processWhatsAppMessageEvent.ts; the sweep republishes rows still        *)
(* "received". A WhatsApp message exists only in that call: nothing can be *)
(* asked of Meta again, and the Redis key and the lead's row are named     *)
(* whatsapp:<message id>, so they meet no Meta lead.                       *)
(***************************************************************************)
EXTENDS Naturals, Sequences, FiniteSets

CONSTANTS
    Messages,   \* WhatsApp message ids
    Tenants,    \* companies
    Selected,   \* Selected[n]: the tenants that selected the number n came in on
    Receivers,  \* concurrent webhook invocations
    Writers,    \* concurrent worker invocations
    Notes,      \* QStash messages that can be live at the same time
    Retries,    \* QStash retries after the first attempt (5 in the code)
    Faults,     \* which failures the environment may inject
    None        \* "no message", "no event"

VARIABLES
    blocked,   \* tenants whose entitlement has expired: shared, see LeadIngestion
    sent,      \* messages that reached Meta
    answered,  \* messages of a webhook call that was answered 200
    receiver,  \* the webhook invocations
    event,     \* whatsapp_message_events.status per (tenant, message)
    note,      \* the QStash messages
    writer,    \* the worker invocations
    keys,      \* Redis keys leadid:whatsapp:<id>
    rows,      \* crm.leads: per message, the tenants of its rows
    resend,    \* the sweep's part for WhatsApp
    told,      \* observer: messages reported as blocked or dead-lettered
    forsaken   \* observer: messages a writer stopped short of, see Forsake

ownVars == <<sent, answered, receiver, event, note, writer, keys, rows, resend, told, forsaken>>

Events == {e \in Tenants \X Messages : e[1] \in Selected[e[2]]}

Statuses == {"none", "received", "enqueued", "processing", "completed",
             "duplicate", "blocked", "retrying", "failed"}

ReceiverIdle == [pc |-> "idle", batch |-> {}, todo |-> {}, queue |-> {}, cur |-> None]
NoteFree == [st |-> "free", event |-> None, tries |-> 0]
WriterIdle == [pc |-> "idle", note |-> None, event |-> None, heard |-> FALSE]
ResendIdle == [pc |-> "idle", list |-> {}, cur |-> None]

TypeOK ==
    /\ sent \subseteq Messages /\ answered \subseteq sent
    /\ receiver \in [Receivers -> [pc : {"idle", "capture", "enqueue", "mark"},
                                   batch : SUBSET Messages, todo : SUBSET Events,
                                   queue : SUBSET Events, cur : Events \cup {None}]]
    /\ event \in [Events -> Statuses]
    /\ note \in [Notes -> [st : {"free", "queued", "running", "exhausted"},
                           event : Events \cup {None}, tries : 0..Retries]]
    /\ writer \in [Writers -> [pc : {"idle", "entitlement", "blocked", "claim", "exists",
                                     "duplicate", "read", "processing", "insert",
                                     "complete", "lost", "release", "retrying"},
                               note : Notes \cup {None}, event : Events \cup {None},
                               heard : BOOLEAN]]
    /\ keys \subseteq Messages
    /\ rows \in [Messages -> Seq(Tenants)]
    /\ resend \in [pc : {"idle", "publish", "mark"}, list : SUBSET Events,
                   cur : Events \cup {None}]
    /\ told \subseteq Messages /\ forsaken \subseteq Messages

Init ==
    /\ sent = {} /\ answered = {}
    /\ receiver = [r \in Receivers |-> ReceiverIdle]
    /\ event = [e \in Events |-> "none"]
    /\ note = [n \in Notes |-> NoteFree]
    /\ writer = [w \in Writers |-> WriterIdle]
    /\ keys = {}
    /\ rows = [m \in Messages |-> << >>]
    /\ resend = ResendIdle
    /\ told = {} /\ forsaken = {}

-----------------------------------------------------------------------------

Written(m) == rows[m] # << >>
SetEvent(e, st) == event' = [event EXCEPT ![e] = st]

\* insertWhatsappLead: a row under the unique index of crm.leads.
RowsWith(e) == IF Written(e[2]) THEN rows ELSE [rows EXCEPT ![e[2]] = <<e[1]>>]

Publish(e) ==
    \E n \in Notes :
        /\ note[n].st = "free"
        /\ note' = [note EXCEPT ![n] = [st |-> "queued", event |-> e, tries |-> 0]]

FailedTry(n) ==
    IF note[n].tries < Retries
    THEN [note EXCEPT ![n].st = "queued", ![n].tries = @ + 1]
    ELSE [note EXCEPT ![n].st = "exhausted"]

\* The writer answers: 200 ends the message, anything else is a failed try.
Answer(w, ends) ==
    /\ writer' = [writer EXCEPT ![w] = WriterIdle]
    /\ note' = IF ~writer[w].heard THEN note
               ELSE IF ends THEN [note EXCEPT ![writer[w].note] = NoteFree]
               ELSE FailedTry(writer[w].note)

Goto(w, pc) == writer' = [writer EXCEPT ![w].pc = pc]
At(w, pc) == writer[w].pc = pc
EventOf(w) == writer[w].event
MessageOf(w) == EventOf(w)[2]

\* A writer that had the claim ends without a row: nobody will release its
\* key, or nobody waits for its answer.
Forsake(w) == forsaken' = forsaken \cup {MessageOf(w)}

-----------------------------------------------------------------------------
(* The environment and the webhook invocation.                             *)

MessageSent(m) ==
    /\ m \notin sent
    /\ sent' = sent \cup {m}
    /\ UNCHANGED <<blocked, answered, receiver, event, note, writer, keys, rows,
                   resend, told, forsaken>>

KeyExpires(m) ==
    /\ m \in keys
    /\ keys' = keys \ {m}
    /\ UNCHANGED <<blocked, sent, answered, receiver, event, note, writer, rows,
                   resend, told, forsaken>>

MessageDelivery(r) ==
    /\ receiver[r].pc = "idle"
    /\ \E batch \in SUBSET sent \ {{}} :
         receiver' = [receiver EXCEPT ![r] =
                        [ReceiverIdle EXCEPT !.pc = "capture", !.batch = batch,
                                             !.todo = {e \in Events : e[2] \in batch}]]
    /\ UNCHANGED <<blocked, sent, answered, event, note, writer, keys, rows, resend,
                   told, forsaken>>

\* recordWhatsappMessageEvent: a row stored by an earlier call is skipped,
\* published or not.
StoreMessage(r, e) ==
    /\ receiver[r].pc = "capture"
    /\ e \in receiver[r].todo
    /\ event' = IF event[e] = "none" THEN [event EXCEPT ![e] = "received"] ELSE event
    /\ receiver' = [receiver EXCEPT ![r].todo = @ \ {e},
                                    ![r].queue = IF event[e] = "none" THEN @ \cup {e} ELSE @]
    /\ UNCHANGED <<blocked, sent, answered, note, writer, keys, rows, resend, told,
                   forsaken>>

AnswerMeta(r) ==
    /\ receiver[r].pc = "capture"
    /\ receiver[r].todo = {}
    /\ answered' = answered \cup receiver[r].batch
    /\ receiver' = [receiver EXCEPT ![r].pc = "enqueue"]
    /\ UNCHANGED <<blocked, sent, event, note, writer, keys, rows, resend, told,
                   forsaken>>

PublishMessage(r, e) ==
    /\ receiver[r].pc = "enqueue"
    /\ e \in receiver[r].queue
    /\ \/ Publish(e) /\ receiver' = [receiver EXCEPT ![r].pc = "mark", ![r].cur = e]
       \/ /\ "queue" \in Faults
          /\ receiver' = [receiver EXCEPT ![r].queue = @ \ {e}]
          /\ UNCHANGED note
    /\ UNCHANGED <<blocked, sent, answered, event, writer, keys, rows, resend, told,
                   forsaken>>

\* markWhatsappMessageEventEnqueued, whatever the status is by now.
MarkPublished(r) ==
    /\ receiver[r].pc = "mark"
    /\ \/ SetEvent(receiver[r].cur, "enqueued")
       \/ "db" \in Faults /\ UNCHANGED event
    /\ receiver' = [receiver EXCEPT ![r].pc = "enqueue", ![r].cur = None,
                                    ![r].queue = @ \ {receiver[r].cur}]
    /\ UNCHANGED <<blocked, sent, answered, note, writer, keys, rows, resend, told,
                   forsaken>>

ReceiverDone(r) ==
    /\ receiver[r].pc = "enqueue"
    /\ receiver[r].queue = {}
    /\ receiver' = [receiver EXCEPT ![r] = ReceiverIdle]
    /\ UNCHANGED <<blocked, sent, answered, event, note, writer, keys, rows, resend,
                   told, forsaken>>

\* A store that throws answers 500; a killed invocation answers nothing.
ReceiverDies(r) ==
    /\ receiver[r].pc # "idle"
    /\ \/ "crash" \in Faults
       \/ "db" \in Faults /\ receiver[r].pc = "capture"
    /\ receiver' = [receiver EXCEPT ![r] = ReceiverIdle]
    /\ UNCHANGED <<blocked, sent, answered, event, note, writer, keys, rows, resend,
                   told, forsaken>>

-----------------------------------------------------------------------------
(* QStash.                                                                 *)

DeliverNote(n, w) ==
    /\ note[n].st = "queued"
    /\ writer[w].pc = "idle"
    /\ note' = [note EXCEPT ![n].st = "running"]
    /\ writer' = [writer EXCEPT ![w] = [pc |-> "entitlement", note |-> n,
                                        event |-> note[n].event, heard |-> TRUE]]
    /\ UNCHANGED <<blocked, sent, answered, receiver, event, keys, rows, resend, told,
                   forsaken>>

NoteAnswerLost(w) ==
    /\ "response" \in Faults
    /\ writer[w].heard
    /\ writer' = [writer EXCEPT ![w].heard = FALSE]
    /\ note' = FailedTry(writer[w].note)
    /\ UNCHANGED <<blocked, sent, answered, receiver, event, keys, rows, resend, told,
                   forsaken>>

Claiming == {"exists", "read", "processing", "insert", "release", "retrying"}

WriterDies(w) ==
    /\ "crash" \in Faults
    /\ writer[w].pc # "idle"
    /\ Answer(w, FALSE)
    /\ IF writer[w].pc \in Claiming THEN Forsake(w) ELSE UNCHANGED forsaken
    /\ UNCHANGED <<blocked, sent, answered, receiver, event, keys, rows, resend, told>>

\* handleDeadLetter: markWhatsappMessageEventFailed. (Where it throws, QStash
\* repeats the callback: the message stays exhausted until one succeeds.)
DeadLetterNote(n) ==
    /\ note[n].st = "exhausted"
    /\ SetEvent(note[n].event, "failed")
    /\ told' = told \cup {note[n].event[2]}
    /\ note' = [note EXCEPT ![n] = NoteFree]
    /\ UNCHANGED <<blocked, sent, answered, receiver, writer, keys, rows, resend,
                   forsaken>>

-----------------------------------------------------------------------------
(* The worker: processWhatsAppMessageEvent, one action per awaited call.   *)

\* A call outside the try block throws, its UPDATE applied or not, and with
\* the claim, if the writer has it, left behind.
WriterDbFails(w) ==
    /\ "db" \in Faults
    /\ \/ /\ writer[w].pc \in {"entitlement", "blocked", "exists", "duplicate", "read", "processing"}
          /\ UNCHANGED event
       \/ /\ writer[w].pc \in {"blocked", "duplicate", "processing"}
          /\ SetEvent(EventOf(w), writer[w].pc)
    /\ Answer(w, FALSE)
    /\ IF writer[w].pc \in Claiming THEN Forsake(w) ELSE UNCHANGED forsaken
    /\ UNCHANGED <<blocked, sent, answered, receiver, keys, rows, resend, told>>

AskEntitlement(w) ==
    /\ At(w, "entitlement")
    /\ Goto(w, IF EventOf(w)[1] \in blocked THEN "blocked" ELSE "claim")
    /\ UNCHANGED <<blocked, sent, answered, receiver, event, note, keys, rows, resend,
                   told, forsaken>>

MarkBlocked(w) ==
    /\ At(w, "blocked")
    /\ SetEvent(EventOf(w), "blocked")
    /\ told' = told \cup {MessageOf(w)}
    /\ Answer(w, TRUE)
    /\ UNCHANGED <<blocked, sent, answered, receiver, keys, rows, resend, forsaken>>

ClaimMessage(w) ==
    /\ At(w, "claim")
    /\ LET m == MessageOf(w) IN
         \/ /\ m \notin keys
            /\ keys' = keys \cup {m}
            /\ Goto(w, "exists")
         \/ m \in keys /\ Goto(w, "duplicate") /\ UNCHANGED keys
         \/ /\ "redis" \in Faults
            /\ keys' \in {keys, keys \cup {m}}
            /\ Goto(w, "exists")
    /\ UNCHANGED <<blocked, sent, answered, receiver, event, note, rows, resend, told,
                   forsaken>>

LookForRow(w) ==
    /\ At(w, "exists")
    /\ Goto(w, IF Written(MessageOf(w)) THEN "duplicate" ELSE "read")
    /\ UNCHANGED <<blocked, sent, answered, receiver, event, note, keys, rows, resend,
                   told, forsaken>>

MarkDuplicate(w) ==
    /\ At(w, "duplicate")
    /\ SetEvent(EventOf(w), "duplicate")
    /\ Answer(w, TRUE)
    /\ UNCHANGED <<blocked, sent, answered, receiver, keys, rows, resend, told,
                   forsaken>>

\* getWhatsappMessageEventById: the row is there, is the tenant's and has a
\* sender, as StoreMessage stored it and no code deletes it.
ReadEvent(w) ==
    /\ At(w, "read")
    /\ Goto(w, "processing")
    /\ UNCHANGED <<blocked, sent, answered, receiver, event, note, keys, rows, resend,
                   told, forsaken>>

MarkProcessing(w) ==
    /\ At(w, "processing")
    /\ SetEvent(EventOf(w), "processing")
    /\ Goto(w, "insert")
    /\ UNCHANGED <<blocked, sent, answered, receiver, note, keys, rows, resend, told,
                   forsaken>>

\* The route of the ad and insertWhatsappLead.
InsertRow(w) ==
    /\ At(w, "insert")
    /\ \/ /\ rows' = RowsWith(EventOf(w))
          /\ Goto(w, IF Written(MessageOf(w)) THEN "lost" ELSE "complete")
       \/ /\ "db" \in Faults
          /\ rows' \in {rows, RowsWith(EventOf(w))}
          /\ Goto(w, "release")
    /\ UNCHANGED <<blocked, sent, answered, receiver, event, note, keys, resend, told,
                   forsaken>>

MarkOutcome(w) ==
    /\ writer[w].pc \in {"complete", "lost"}
    /\ LET outcome == IF At(w, "complete") THEN "completed" ELSE "duplicate" IN
         \/ SetEvent(EventOf(w), outcome) /\ Answer(w, TRUE)
         \/ /\ "db" \in Faults
            /\ SetEvent(EventOf(w), outcome) \/ UNCHANGED event
            /\ Goto(w, "release")
            /\ UNCHANGED note
    /\ UNCHANGED <<blocked, sent, answered, receiver, keys, rows, resend, told,
                   forsaken>>

\* Broken variant: the failed insert keeps the claim.
KeepClaim(w) ==
    /\ At(w, "release")
    /\ Goto(w, "retrying")
    /\ UNCHANGED <<blocked, sent, answered, receiver, event, note, keys, rows, resend,
                   told, forsaken>>

\* releaseLeadIdClaim, whoever holds the key; an error is swallowed and leaves
\* it behind.
ReleaseClaim(w) ==
    /\ At(w, "release")
    /\ \/ keys' = keys \ {MessageOf(w)} /\ UNCHANGED forsaken
       \/ "redis" \in Faults /\ UNCHANGED keys /\ Forsake(w)
    /\ Goto(w, "retrying")
    /\ UNCHANGED <<blocked, sent, answered, receiver, event, note, rows, resend, told>>

MarkRetrying(w) ==
    /\ At(w, "retrying")
    /\ \/ SetEvent(EventOf(w), "retrying")
       \/ "db" \in Faults /\ UNCHANGED event
    /\ Answer(w, FALSE)
    /\ IF writer[w].heard THEN UNCHANGED forsaken ELSE Forsake(w)
    /\ UNCHANGED <<blocked, sent, answered, receiver, keys, rows, resend, told>>

WriterStep(w) ==
    \/ WriterDbFails(w) \/ AskEntitlement(w) \/ MarkBlocked(w) \/ ClaimMessage(w)
    \/ LookForRow(w) \/ MarkDuplicate(w) \/ ReadEvent(w) \/ MarkProcessing(w)
    \/ InsertRow(w) \/ MarkOutcome(w) \/ ReleaseClaim(w) \/ MarkRetrying(w)

-----------------------------------------------------------------------------
(* The sweep's part: getUnenqueuedWhatsappMessageEvents, one by one.       *)

ResendStart ==
    /\ resend.pc = "idle"
    /\ resend' = [ResendIdle EXCEPT !.pc = "publish",
                                    !.list = {e \in Events : event[e] = "received"}]
    /\ UNCHANGED <<blocked, sent, answered, receiver, event, note, writer, keys, rows,
                   told, forsaken>>

ResendMessage(e) ==
    /\ resend.pc = "publish"
    /\ e \in resend.list
    /\ Publish(e)
    /\ resend' = [resend EXCEPT !.pc = "mark", !.cur = e]
    /\ UNCHANGED <<blocked, sent, answered, receiver, event, writer, keys, rows, told,
                   forsaken>>

ResendFails(e) ==
    /\ "queue" \in Faults
    /\ resend.pc = "publish"
    /\ e \in resend.list
    /\ resend' = [resend EXCEPT !.list = @ \ {e}]
    /\ UNCHANGED <<blocked, sent, answered, receiver, event, note, writer, keys, rows,
                   told, forsaken>>

MarkResent ==
    /\ resend.pc = "mark"
    /\ \/ SetEvent(resend.cur, "enqueued")
       \/ "db" \in Faults /\ UNCHANGED event
    /\ resend' = [resend EXCEPT !.pc = "publish", !.list = @ \ {resend.cur}, !.cur = None]
    /\ UNCHANGED <<blocked, sent, answered, receiver, note, writer, keys, rows, told,
                   forsaken>>

ResendDone ==
    /\ resend.pc = "publish"
    /\ resend.list = {}
    /\ resend' = ResendIdle
    /\ UNCHANGED <<blocked, sent, answered, receiver, event, note, writer, keys, rows,
                   told, forsaken>>

ResendDies ==
    /\ "crash" \in Faults
    /\ resend.pc # "idle"
    /\ resend' = ResendIdle
    /\ UNCHANGED <<blocked, sent, answered, receiver, event, note, writer, keys, rows,
                   told, forsaken>>

-----------------------------------------------------------------------------

ReceiverStep(r) ==
    \/ MessageDelivery(r) \/ AnswerMeta(r) \/ MarkPublished(r) \/ ReceiverDone(r)
    \/ ReceiverDies(r)
    \/ \E e \in Events : StoreMessage(r, e) \/ PublishMessage(r, e)

ResendStep ==
    \/ ResendStart \/ MarkResent \/ ResendDone \/ ResendDies
    \/ \E e \in Events : ResendMessage(e) \/ ResendFails(e)

Next ==
    \/ \E m \in Messages : MessageSent(m) \/ KeyExpires(m)
    \/ \E r \in Receivers : ReceiverStep(r)
    \/ \E n \in Notes : DeadLetterNote(n) \/ \E w \in Writers : DeliverNote(n, w)
    \/ \E w \in Writers : NoteAnswerLost(w) \/ WriterDies(w) \/ WriterStep(w)
    \/ ResendStep

-----------------------------------------------------------------------------
(* Properties.                                                             *)

Unfinished(m) ==
    \/ \E e \in Events : e[2] = m /\ event[e] = "received"
    \/ \E n \in Notes : note[n].st # "free" /\ note[n].event[2] = m
    \/ \E w \in Writers : writer[w].pc # "idle" /\ MessageOf(w) = m

\* A message answered 200 to Meta, which is the only copy there is, becomes a
\* lead, is still on its way or was reported, unless a writer that had its
\* claim was killed, cut off or failed outside the try block.
NothingForgotten ==
    \A m \in answered :
        Selected[m] # {} => Written(m) \/ Unfinished(m) \/ m \in told \/ m \in forsaken
=============================================================================
