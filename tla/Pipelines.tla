----------------------------- MODULE Pipelines -----------------------------
(***************************************************************************)
(* The three pipelines over one leads table: LeadIngestion and             *)
(* LegacyIngestion claim the same Redis keys, write the same rows and know *)
(* nothing of each other; WhatsAppCapture has keys and rows of its own. A  *)
(* lead that both Meta pipelines are told of is written by whoever is      *)
(* first, and each takes the other's claim for a duplicate. One sweep      *)
(* serves them all: the campaigns first, then the tenants.                 *)
(***************************************************************************)
EXTENDS LeadIngestion

CONSTANTS
    Routes, Raws, Calls, Tasks, Jobs,                 \* see LegacyIngestion
    Messages, Selected, Receivers, Writers, Notes,    \* see WhatsAppCapture
    LegacyFaults, MessageFaults                       \* their Faults

ASSUME RoutesAssumption == Routes \in [Leads -> SUBSET Tenants]
ASSUME SelectedAssumption == Selected \in [Messages -> SUBSET Tenants]

VARIABLES raw, call, task, job, scan, reported, abandoned, deadRows
VARIABLES sent, answered, receiver, event, note, writer, keys, rows,
          resend, told, forsaken

Legacy == INSTANCE LegacyIngestion WITH Faults <- LegacyFaults
WhatsApp == INSTANCE WhatsAppCapture WITH Faults <- MessageFaults

tenantVars == <<acked, hook, status, msg, worker, sweep, dropped>>
legacyVars == <<raw, call, task, job, scan, reported, abandoned, deadRows>>
whatsappVars == <<sent, answered, receiver, event, note, writer, keys, rows,
                  resend, told, forsaken>>
allVars == <<vars, legacyVars, whatsappVars>>

SharedTypeOK == TypeOK /\ Legacy!TypeOK /\ WhatsApp!TypeOK

SharedInit == Init /\ Legacy!Init /\ WhatsApp!Init

\* The tenant half of the sweep starts when the campaign half is over, and
\* nothing else of the tenant pipeline asks for the other one.
TenantStep ==
    /\ Next
    /\ IF sweep.pc = "idle" /\ sweep'.pc # "idle"
       THEN /\ scan.pc = "over"
            /\ scan' = Legacy!ScanIdle
            /\ UNCHANGED <<raw, call, task, job, reported, abandoned, deadRows>>
       ELSE UNCHANGED legacyVars
    /\ UNCHANGED whatsappVars

\* One sweep at a time: the campaign half starts when no tenant half runs.
LegacyStep ==
    /\ Legacy!Next
    /\ scan.pc = "idle" /\ scan'.pc # "idle" => sweep.pc = "idle"
    /\ UNCHANGED <<tenantVars, whatsappVars>>

WhatsAppStep ==
    /\ WhatsApp!Next
    /\ UNCHANGED <<submitted, aged, claims, leads, tenantVars, legacyVars>>

SharedNext == TenantStep \/ LegacyStep \/ WhatsAppStep

SharedSpec == SharedInit /\ [][SharedNext]_allVars

-----------------------------------------------------------------------------
(* Properties.                                                             *)

Captured(l) ==
    \/ \E e \in EventsOf(l) : status[e] # "none"
    \/ \E r \in Raws : raw[r].st # "none" /\ raw[r].lead = l

\* The last is a job that QStash may have stopped to listen to: its message can
\* be over while it still has the lead in hand.
OnItsWay(l) ==
    \/ \E e \in EventsOf(l) : status[e] = "received"
    \/ \E m \in Msgs : Live(m) /\ msg[m].event.lead = l
    \/ \E r \in Raws : raw[r].lead = l /\ raw[r].st \in {"received", "enqueue_failed"}
    \/ \E q \in Tasks : task[q].st # "free" /\ raw[task[q].raw].lead = l
    \/ \E j \in Jobs : job[j].pc \in Legacy!Claiming /\ Legacy!LeadOf(j) = l

Reported(l) == l \in reported \/ \E e \in EventsOf(l) : e \in dropped

\* A lead that either pipeline stored becomes a row, is on its way through
\* one of them, or was reported by one of them: a pipeline that gives up for
\* a duplicate because the other has the claim may rely on it, whatever Graph
\* errors, missing Pages and webhooks, failing publishes, expiring claims
\* and entitlements do to the other one afterwards.
NothingDiscarded ==
    \A l \in Leads : Captured(l) => Recorded(l) \/ OnItsWay(l) \/ Reported(l) \/ l \in abandoned

\* Both pipelines and the sweep together keep the promise of LeadBook: a lead
\* is recorded once, for a tenant whose Page or campaign it is, for good.
SharedBook == INSTANCE LeadBook WITH
    Unrecorded <- None,
    Owners <- [l \in Leads |-> Owners[l] \cup Routes[l]],
    known <- submitted,
    book <- [l \in Leads |-> IF Recorded(l) THEN Head(leads[l]) ELSE None]

ImplementsSharedBook == SharedBook!Spec

\* A message answered 200 to Meta, which has the only copy of it, becomes a
\* lead, is still on its way or was reported, unless a writer that had its
\* claim was killed, cut off or failed outside the try block.
NothingForgotten == WhatsApp!NothingForgotten
=============================================================================
