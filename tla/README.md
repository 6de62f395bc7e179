# Verification of MetaCRM's core

TLA+ models of the parts of this repository in which something can go wrong that
a unit test hardly reaches, TLC runs that check them on small instances, and
TLAPS proofs of what matters most for every value of the constants.

The program is a multi-tenant CRM for Meta lead ads: Vercel functions
(`src/api/`) over a Neon Postgres (one HTTP call per statement, no transaction
around a handler), Upstash Redis for short-lived keys, Upstash QStash for
queued work, Meta's Graph API and Razorpay. Every concurrency question
of the code comes from that shape: an invocation is a sequence of awaited
statements, any two invocations interleave between them, and any invocation can
be killed between two of them.

Paths below are relative to `src/`, the repository's root; application code is
in its own `src/src/`.

## 1. Inventory

| Component | State | Operations | Talks to | What is hard | What makes it correct | Module |
|---|---|---|---|---|---|---|
| Tenant lead ingestion (`api/webhooks/meta`, `metaLeadEventService`, `processMetaLeadEvent`) | `meta_lead_events`, `leads`, Redis key `leadid:<id>`, QStash messages | capture, acknowledge, publish, deliver, process, retry, dead-letter | Graph, QStash, sweep, entitlement | two tenants on one Page, retries after lost answers, claims of dead workers, updates arriving out of order | a lead gets one row, of one of its owners, and in the end has it; a 200 to Meta loses nothing | LeadIngestion |
| Legacy campaign ingestion (`ingestWebhook.ts`, `processLead.ts`) | `raw_meta_events`, `leads`, the same Redis keys | store, publish, process, retry, dead-letter | Graph, QStash, sweep | shares keys and rows with the tenant pipeline: each takes the other's claim for a duplicate | one row whoever comes first; nothing lost between the two | LegacyIngestion, Pipelines |
| WhatsApp capture (`metaWhatsappEventService.ts`, `processWhatsAppMessageEvent.ts`) | `whatsapp_message_events`, `leads`, Redis key | capture, acknowledge, publish, process, resend | QStash, sweep | Meta's call is the only copy of a message | an acknowledged message becomes a lead or is reported | WhatsAppCapture, Pipelines |
| Reconciliation sweep (`reconcile.ts`) | none of its own | republish, recover, resend, renew tokens, downgrade | all pipelines, connection, capacity | works from lists read earlier, goes on after failures | what everything else drops is picked up | with each of them |
| Billing (`application/billing.ts`, `repositories/billing.ts`, `domain/trial.ts`) | `billing_orders`, the plan columns of `companies` | order, confirm by browser or webhook, grant, refund | Razorpay, administrators | two confirmations racing for one order, two orders racing for one account, dates computed before the statement that uses them | money buys exactly what it was paid for, once, for as long as it was paid for | Billing |
| Platform administration (`platformAdmin.ts`) | the same columns | extend, activate, cancel, refund | Billing | decides on what it read statements ago | a refund is recorded once; paid plans survive | Billing |
| Capacity (`billing.ts`, `capacityDowngrade.ts`) | `campaigns`, `agency_clients` | check and create, pause and suspend | plan, claims, sync | check, then insert; snapshots | overrun is bounded and repaired | Capacity |
| Agency relations (`agency.ts`, `agencyOnboarding.ts`, two repositories) | `agency_clients`, `organization_invitations`, `companies`, `users` | create, invite, answer, suspend, restore, remove, onboard by link | capacity | check, then write; several agencies; links opened twice, revoked or expired while they are opened | one agency per client; no company without an owner; a link works once | AgencyRelations |
| Sessions and accounts (`auth.ts`, `api/auth`, `api/admin/users`, `api/admin/roles`) | `sessions`, `users`, `roles` | login, refresh, reuse detection, logout, password change, disable, enable, re-role | every handler | rotation raced by itself and by revocation; the last administrator counted by two requests | one live session per login; an old password opens nothing; somebody can manage users | Access |
| Meta connection (`metaOAuth.ts`, `application/metaSync`, `repositories/metaIntegration.ts`) | `meta_connections`, `meta_pages` | grant, disconnect, synchronise, select a Page, flag, renew | Graph, sweep, workers | marks by id that arrive late, lists of tokens read earlier, two statements to replace a row | one connection at a time, none that comes back; flags with a reason; tokens renewed in time | MetaConnection |
| Registration and onboarding wizard | the wizard's step | advance | Meta connection | little: one row, one actor | steps are not skipped | - |
| Field resolution, lead approach, lead quality, pricing, permissions | none | pure functions | their callers | boundaries | agree with their definition | - |
| Rate limiting and OAuth nonces (`redis.ts`) | Redis counters | count, consume | handlers | two calls, no transaction | a nonce is used once | - |
| Campaign, form, pipeline, lead, dashboard APIs | single rows | reads and single updates | - | little | - | - |
| HTTP clients, cryptography, audit logs, pages, scripts | - | I/O | - | - | - | - |

## 2. Plan

Written: **LeadIngestion** (implementing **LeadBook**); **LegacyIngestion** and
**WhatsAppCapture**, composed with it in **Pipelines** (implementing LeadBook again, for both Meta
pipelines together); **Billing** with **Entitlement** (implementing **PaymentLedger**); **Capacity**;
**AgencyRelations** (implementing **ClaimBook**); **Access**; **MetaConnection** (implementing
**ConnectionBook**).

Left:

1. Algorithms: downgrade selection, pricing, field resolution and lead quality against reference
   definitions.
2. Two sweeps at once (section 8).

## 3. What is written

### LeadIngestion (with LeadBook, MCLeadIngestion)

| In the model | In the code |
|---|---|
| `hook` and `WebhookDelivery`, `CaptureEvent`, `Ack`, `HookPublish`, `HookMarkEnqueued` | one call of `api/webhooks/meta/handler.ts`: one `meta_lead_events` row per tenant owning the Page, 200 to Meta, then one publish and one UPDATE per event |
| `status` | `meta_lead_events.status`, key (tenant, leadgen id) |
| `msg`, `Deliver`, `ResponseLost`, `DeadLetter` | QStash: at most `Retries` more attempts after a failed one, then the failure callback (`api/internal/handler.ts`) |
| `worker`, one action per awaited call | `processMetaLeadEvent.ts`; `heard` tells a worker that QStash still listens to from one it has given up on |
| `claims`, `ClaimExpires` | Redis `leadid:<id>` with its time to live |
| `leads` | rows of `leads` per Meta lead id; an insert is `onConflictDoNothing` |
| `sweep` | the tenant halves of `runReconciliation`, on lists read earlier |
| `Faults` | which failures a run allows: killed invocations, Redis, Postgres, Graph, missing Pages, lost responses, failing publishes, changing entitlement, leads older than the lookback |

`LeadBook` promises no more than: a lead known to Meta is recorded at most once, for
an owner, for good, and (FairSpec) in the end. The refinement maps `book[l]`
to the tenant of the lead's first row.

### Pipelines (LegacyIngestion, WhatsAppCapture, LeadIngestion; MCPipelines)

| In LegacyIngestion | In the code |
|---|---|
| `call` and `CampaignDelivery`, `SaveRaw`, `PublishRaw`, `MarkRaw*`, `CallDone` | `ingestWebhookPayload`: one new `raw_meta_events` row per lead of the payload, published before the answer; a redelivery writes another row |
| `raw` | `raw_meta_events`: its status, campaign's tenant and lead |
| `task`, `DeliverTask`, `TaskAnswerLost`, `DeadLetterTask` | QStash and the failure callback |
| `job`, one action per awaited call | `processLead.ts` |
| `scan` | the campaign half of `runReconciliation`: every campaign's forms, then the rows that were not published |
| `deadRows` | the status `dead_lettered` that `markLeadDeadLettered` puts on the lead's row, whichever pipeline wrote it |

| In WhatsAppCapture | In the code |
|---|---|
| `receiver` and its actions | a call of Meta's webhook: `recordWhatsappMessageEvent` per selecting tenant, 200, then publish and UPDATE |
| `event` | `whatsapp_message_events.status` |
| `note`, `writer` | QStash and `processWhatsAppMessageEvent.ts`, one action per awaited call |
| `keys`, `rows` | Redis `leadid:whatsapp:<id>` and the rows of `leads` with that id |
| `resend` | the sweep's part for events still `received` |

`Pipelines` puts the three side by side. LeadIngestion and LegacyIngestion share the leads at Meta,
the keys, the rows and the entitlements; WhatsAppCapture shares the entitlements only. One sweep
serves all: its tenant half (`sweep`) starts when the campaign half (`scan`) is over. Four observers record what
excuses a lead that ends without a row: `reported` and `told` (a log row, a dead letter or a blocked
status says so), `abandoned` and `forsaken` (a worker that held the claim was killed, cut off, or failed
outside its `try` block, so that its retry is taken for a duplicate). A dead-letter callback
that throws (`api/internal/handler.ts:351-381`) leaves its message exhausted, as if it had not come yet: QStash repeats a
failure callback that is not answered 200, and the same mark made twice is one.

### Billing (with Entitlement, PaymentLedger, MCBilling)

One paying account. `company` holds the columns that payments and
administrators write; `order` is `billing_orders`; `conf` are invocations of
`/api/billing/verify` and of Razorpay's webhook, which read the order, apply it in the one
conditional statement of `markBillingOrderPaidAndApply`, stamp it and answer;
`admin` are the administrators' invocations, which decide on a read and write later. Time is
`now`, a cycle is a number of months, a date is a number or `None`. Whether an
account may work is `Blocked` in `Entitlement`, translated from
`domain/trial.ts`. `Capture` is the environment: only captured money makes a
signature or a webhook possible. `PaymentLedger` promises one grant per captured
order, of exactly the slots bought, added to those that run or instead of those that lapsed,
and that no grant takes a date back. To it no date is the date 0: the first base payment of an active account that had no
end ("subscribed forever", `domain/trial.ts:77-81`) gives it one, as the code does, and the ledger does not count that as taking a date back.

### Capacity (with MCCapacity)

One agency and the companies it may claim. `rows` are `campaigns`, oldest
first; `link` is `agency_clients.status`; `request` are invocations that create a
campaign: pool root, plan, claimed clients, count, insert, one action each;
`sweep` is the last loop of `runReconciliation` with `reconcileCapacityDowngrade`
inlined. What payments, owners and agencies do meanwhile is `PlanChanges`,
`LinkChanges` and `SetStatus`, at most `Changes` of them; Meta's synchronisation
creates campaigns past any limit (`SyncCampaign`). `Limit` is the trial-aware
limit of `domain/trial.ts`: an expired account keeps what it has.

### AgencyRelations (with ClaimBook, MCAgencyRelations)

| In the model | In the code |
|---|---|
| `company`, `accounts` | `companies` with its owner's row in `users`: `none`, created without an owner yet, `owned`; the addresses under the unique index of `users` |
| `link` | `agency_clients.status`, one row for ever per agency and client; `Conflict` is the partial unique index over the claimed statuses |
| `invitation` | `organization_invitations`: an onboarding link, its stored status, whether it has expired and what it made |
| `proc` | invocations of `agency.ts` and `agencyOnboarding.ts`: one action per statement, each may die after any |
| `consent` | observer: what a client agreed to and has not been released from |

`HasRoom` is `assertClientLimitNotReached`, a count made before the write it is for. The
sweep's suspension is one of the invocations. `ClaimBook` promises that a client passes from one agency
to another only by being released.

### Access (with MCAccess)

`user` and `manages` are rows of `users` and `roles`; `session` are rows of `sessions`; `proc` are
invocations of login, refresh, logout and password change (`auth.ts`, `api/auth/handler.ts`) and of
the changes of users and roles (`api/admin`), one action per statement. What a refresh or a login opens is
`late` when another invocation retired its session, or ended its user's, after its first
read: a late session is what the code's reads cannot see, and the properties name
exactly that race. `users.status` is plain text that a patch stores as it comes: `other` stands for every
text but the two of the schema's comment, and `Checked` is the condition (handler.ts:318) on which a patch is counted.
`old` marks what was opened with a password changed since, `shut` what a
disabled user's token could still do, `stale` and `raced` a patch decided on a count another
patch overtook, `skipped` a patch that took the last manager's status away and was not counted at all, `abandoned` a password change that died before its purge.

### MetaConnection (with ConnectionBook, MCMetaConnection)

`conn` are the rows of one tenant's `meta_connections`, a grant a new row; `left` and `long`
describe the active token, counted in sweeps until it expires; `dated` says whether its expiry is on file
(`token_expires_at` is null when Meta's answer left `expires_in` out), without which no sweep lists it; `selected` is
`meta_pages.is_selected`; `proc` are grants, disconnections, synchronisations, selections and
lead workers whose call Meta rejects, statement by statement, and the token sweep with
the list it read (`todo`). The observers say what excuses a state: `excused`, connections a
rejection may be held against (their own token was rejected, or they were granted while a call with an older one
was under way); `quit` and `quiet`, the tenant disconnected with nothing
else amiss; `dropped`, a grant died between retiring and inserting; `chosen` and `unchosen`, a selection
was made, or died half-way. `ConnectionBook` promises one connection at a time, a new one per grant, and that
what is over stays over.

Operators headed "Broken variant" are plausible mistakes; each makes one of the checked
properties fail and is used by nothing else.

## 4. Runs

| Run | Instance | Checks |
|---|---|---|
| ingestion_clean | 1 lead, 1 tenant, 1 webhook invocation, 2 workers, 2 messages, 1 retry; Graph, Page, age, entitlement and queue faults | TypeOK; NoSilentDiscard: no lead without row, message, pending event or report; ImplementsBook |
| ingestion_live | 1 lead, 1 tenant, 1 worker, 1 message, 1 retry; crashes, failing Redis, Postgres, publishes, lost responses | AckedIsDurable, ImplementsFairBook (a lead is recorded in the end), ReceivedIsPublished |
| ingestion_db | a small instance of the same | an expected violation, section 6 |
| ingestion_pipelines | 1 lead of one tenant's Page and another's campaign, 1 WhatsApp message, 1 of each kind of invocation but 2 jobs and 2 writers, 1 retry; for the campaign and WhatsApp pipelines crashes, failing stores, publishes and Graph, lost answers, missing webhooks; for the tenant's Graph and entitlement faults | SharedTypeOK; OneRowPerLead and CompletedHasLead with both pipelines at work; NothingDiscarded: what either stored has a row, is on its way, was reported or abandoned; NothingForgotten: the same of an acknowledged WhatsApp message; ImplementsSharedBook |
| billing_pay | 2 orders, 2 confirming invocations, 1 administrator who cancels, monthly and yearly cycles, bundles, clock to 2 | TypeOK, PaidSlotsAreHonoured, PaidPlanIsUsable, ImplementsLedger |
| billing_live | 1 order, 2 confirming invocations, 2 administrators who extend, activate and refund | AnsweredIsConfirmed, RefundIsFinal, CapturedIsGranted |
| capacity_race | 1 agency, 1 client (claimed or not), 2 requests, 3 campaigns, a paid, a trial and an expired plan, the sweep | RaceOverrunIsBounded: requests exceed a limit by less than their number |
| capacity_sweep | 1 agency, 1 client, 2 campaigns, 2 changes, plans that allow two campaigns or one, a client or none | TypeOK; QuietSweepSettles: an undisturbed sweep leaves nothing over a limit; WithinInTheEnd: after the last change the limits hold for good |
| relations_race | 2 agencies, with room for no client and for one, 1 registered company and 2 still to be created, 1 address, 1 link, 2 invocations | TypeOK; LinkMakesOneClient: a link makes one company at most, and none unless it was accepted; ClaimedIsOwned: no claimed company without an owner; LimitOverrunIsBounded: by fewer clients than there are racing invocations; ImplementsClaimBook |
| relations_consent | the same with 1 company to be created | an expected violation, section 6 |
| access_race | 2 users, 2 roles, 3 sessions, 2 invocations | TypeOK; OneLivePerLogin: sessions of one login that are not late number one; OldPasswordIsOut; DisabledOpensNothing; NoLockout: a company keeps somebody who manages users unless two patches overtook each other, or one wrote a status that the guard does not ask about |
| connection_race | 1 tenant, 3 connections, 2 Pages, 2 invocations and the sweep, tokens of 3 sweeps renewed in the last 2, with and without an expiry on file, 1 failed sweep | TypeOK; FlagIsJustified; DisconnectIsQuiet; NeverSilentlyLost; TokenInTime; SelectionKept; ImplementsConnectionBook |

**Bounds.** A lead id, its claim and its row are independent of every other
lead's, so one lead is enough for every property of one lead; what races for it
is two of each kind (workers, messages, tenants), the least at which one acts on
what the other has changed; one retry tells the last attempt from an earlier one. In
ingestion_pipelines the two that race are the two pipelines, so one invocation of each kind does,
and two WhatsApp writers; with one raw row, a second call of the campaign's webhook
for the same lead is not in the run.
Two orders are the least that can extend the same date or the same slots, two confirmations the
least that race for one of them; the clock's two months let a monthly
cycle lapse while a yearly one runs. Two requests race for a limit of one; three campaigns leave
room for the overrun, so that an off-by-one would show. Two agencies are the least that can take a
client from each other, one link opened by two invocations the least that can make two
companies. Three sessions are a login, its successor and one more login or a second successor. Three
connections are one retired, one active and one to come. The proofs cover every instance of
the proved properties, whatever these bounds.

**Constraints.** Three runs are cut with a state constraint, which leaves out
products of things that do not meet:

- ingestion_pipelines: the Meta pipelines and WhatsApp, which share only `blocked`, are
  looked at apart; capturing and working do not overlap, as the work begins with the
  message that capturing published; the tenant half of the sweep is left to the runs of LeadIngestion; only the
  campaign owner's entitlement lapses, and while nothing is claimed; a worker that was cut off runs
  without the sweep, and a resend without a receiver; a run ends at an abandoned or forsaken claim, which excuses everything after it.
- access_race: once sessions are open, one user, an owner, is at work, with one
  patch at a time, of the status `active` or `disabled`: patches meet sessions through the update of the status alone, for which
  one that is not active is as good as another, and the sessions of two users do not meet. Without sessions every patch is in the run.
- connection_race: once a Page is selected, the first connection, its expiry on file, without the sweep: selecting meets
  connections through the flag alone. The last connection has its expiry on file; the first two come both ways.

What a constraint leaves out is covered by the proofs for the properties section 7 names.

**Bounded by guards:** `Retries` (5 in the code), `MaxTime`, `MaxCampaigns`, `Changes`, `MaxFaults`. `Msgs`,
`Tasks` and `Notes` bound the messages alive at once, a finished one's slot is used again; `Raws`,
`Sessions`, `Conns`, `Fresh` and `Invitations` bound the rows ever written.

**Deadlock** is checked in every run but those of Billing, whose clock and orders
run out: there everything that happens may really be over.

**Symmetry** is used in runs without liveness properties only, over values that
the specification treats alike.

## 5. Fairness

- *LeadIngestion.* Weak: QStash delivers what is queued and calls the dead-letter
  endpoint; an invocation that has started makes progress or is killed (each is an action, so a
  killed one is progress too); the schedule starts sweeps (`scripts/setup-schedules.ts`, every
  15 minutes). Strong: the publish of an event, the scan of a tenant and the
  recovery of a lead succeed if sweeps try them again and again. Nothing is
  assumed of Meta calling again.
- *Billing.* Weak: a confirming invocation ends or dies. Strong: Razorpay repeats a
  webhook until it is answered, and the statement for a given order succeeds if
  tried again and again. Nothing is assumed of the browser.
- *Capacity.* Weak: the sweep runs. Strong: a step for a given company does not
  fail in every sweep. Nothing is assumed of requests and owners.
- *Pipelines, AgencyRelations, Access, MetaConnection.* None: safety only. That tokens are renewed
  in time is safety too, as time passes only when the sweep has run or failed.

## 6. Where code and comments disagree

Shown by a run:

- `ingestion_db`: the worker claims the lead (`processMetaLeadEvent.ts:68`) before the
  `try` block (151) that releases the claim, and reads the database between. If one of
  these reads throws, the retry is taken for a duplicate and answered 200; the message ends without
  a lead, although the comments say that no event is silently discarded. Only
  the sweep's lookback can repair it, and does in `ingestion_live`. The legacy and the WhatsApp
  worker have the same reads in the same place; for WhatsApp nothing repairs
  it (`processWhatsAppMessageEvent.ts:185` says "rather than being silently marked a
  duplicate"). There these ends are what `abandoned` and `forsaken` record.
- `relations_consent`: client data is for a "CONSENTED (active or suspended) relationship"
  (`agency.ts:879`), but `setClientRelationshipStatus` (948) lets the agency itself
  move a client that it only invited to either, and the capacity sweep suspends invited clients.

Read in the code while modelling it; behaviours of the models, excused by name (the observers of
section 3) where a property would otherwise contradict them:

- The sweep inserts leads for accounts whose entitlement has expired (`reconcile.ts:298`), which
  `billing.ts:125` says never happens; it does not ask.
- The publisher's UPDATE to `enqueued` (`metaLeadEvents.ts:142`) has no condition and can arrive after the
  worker's last one, so `enqueued` does not mean what line 155 says.
- A dead letter of the legacy pipeline marks whatever row has the lead's id, one of the
  tenant pipeline included.
- `revokeInvitation` overwrites ACCEPTED with REVOKED (`organizationInvitations.ts:106`), where the
  comment above it speaks of a no-op and `organizationInvitationStatus.ts` of terminal statuses.
- An expired onboarding link keeps the stored status PENDING, and so blocks a new one for its
  address, though the message of `agencyOnboarding.ts:107` says to wait until it expires.
- A refresh token's "single use" (`auth.ts:403`) does not hold for two overlapping refreshes; both
  successors live (OneLivePerLogin excuses the late one).
- "A password change should invalidate every other outstanding session" (`api/auth/handler.ts:408`) does
  not reach a refresh or login under way, nor anything when the invocation dies before the purge.
- The guard of the last administrator (`api/admin/users/handler.ts:314`) is there because losing him "would
  permanently lock the company out". Two overlapping patches pass it together (`raced`). And it is asked only if the patch
  re-roles or writes `disabled` (318), though any status is stored (296, 399) and only `active` logs in: one
  patch that gives the last administrator another status locks the company out with no race at all
  (`skipped`). In the model that behaviour has three states (Init, StartPatch, UpdateUser); without its excuse NoLockout is violated by it.
- A token is to be renewed "before its token would actually expire" (`metaTokenRefreshService.ts:40`). Where Meta leaves
  `expires_in` out, grant and renewal store no expiry (`metaOAuth.ts:237`, `metaTokenRefreshService.ts:74`), and the sweep
  leaves such a connection out (`metaIntegration.ts:251`): "there is nothing to act on for it" (241). Its long-lived token
  is never renewed and expires; a connection that was renewed regularly falls out of the sweep with one such answer.
  TokenInTime speaks of tokens whose expiry is on file (`dated`); without that condition the run violates it.
- The schema says of sessions that disabling a user revokes them (`schema.ts`, table `sessions`); the users handler
  never does, only a refresh's own read of the status keeps the user out.
- "A tenant who chose to disconnect keeps seeing Not Connected" (`metaIntegration.ts:96`): an older row in
  need of a new grant is shown after a disconnection, and a mark under way overwrites `revoked`.
- `flagConnectionIfAuthError` flags the connection that is active by then, one granted since
  the rejected call included.
- `api/campaigns/handler.ts:134`, "Hard block ... before a row is ever inserted", holds for requests
  one at a time only; RaceOverrunIsBounded is what holds of racing ones.

Left as behaviours with no property against them, because nothing in the
code says which outcome is meant: two administrators' trial extensions of
which one is lost; a cancellation that ends a plan renewed since it was read; a sweep's pause that overwrites an archiving done after it listed.

## 7. Proofs

All theorems hold for any number of leads, tenants, orders, users, invocations and so on, under every
fault (NothingSilent and NothingDiscardedBetween exclude some, by their hypothesis), and use only
the named assumptions on constants in the modules (types of the parameters, finiteness where something
is counted, and that `None` is none of the values it stands beside).

**LeadIngestionProofs.** `TypeCorrect`. TypeOK alone is not inductive: a worker's step
reads its event and its message. `Typed` adds BusyHasEvent (what is at
work has an event), HeardIsRunning (a worker that QStash listens to has a running message of its
own event) and OneListener (no two workers are heard for one message). `OneRow`, from SingleRows: every insert goes through the
unique index. `CompletedIsTrue`, from CompletedHasLead and
AboutToComplete (a worker that is about to mark `completed` saw its own insert succeed): a row is never taken back. `AckedStaysDurable`, from
CaptureProgress: until the answer, what a webhook call has still to capture is in its
`todo`, and no later write sets a status back to `none`.

`NothingSilent` is NoSilentDiscard under `Steady`: no worker is killed or cut off from the queue and no store
fails under it (the run ingestion_db shows that it is false without). Its invariant AccountedInv says of every lead with an
event that is past `received`, with a message, or about to be marked as published, that it is
*accounted for*: it has a row, was reported, or has a live message that no worker is about to end as a
duplicate. To survive a step this needs WorkInv: the queue listens to every busy worker (AllHeard), who saw
an insert succeed sees the row (InsertedIsRecorded), and behind every claim is a row or a worker
that will insert one or release the claim (ClaimsBacked).

**LeadIngestionRefinement.** `Refinement`: every step is a step of LeadBook or leaves it
alone. It needs `Traced`: everything at work, in a queue, in a status or in a sweep's list is about
a lead that Meta has and a tenant that owns it.

**PipelinesProofs.** The three pipelines share leads, keys, rows and entitlements, so what LeadIngestion's
proofs say of its own steps is joined by frame lemmas: its invariants survive what the others do to
the shared state. `SharedTypeCorrect` and `SharedCompleted` follow; `SharedOneRow` and
`SharedRefinement` rest on SharedRows (a row is the only one of its lead, for an owner or a routed tenant)
and on the fact that every step leaves the rows alone or adds the first one of a known lead.
`NobodyForgotten` needs ForgetInv: every tenant's event is stored before the answer (CaptureKept); a key is held
by a writer that is still to release it, or its message is settled or forsaken (KeysBacked); a
writer about to report an outcome has the row (EndsWritten); and a message that was published once is settled,
waits in the queue, or is pursued by a writer that will not take it for a duplicate (PublishedSolid).
The last is what makes a duplicate safe to drop: there is always somebody else who has not.

`NothingDiscardedBetween` is NothingDiscarded under `Steady`, which is about the tenants' pipeline only: the campaigns'
jobs may crash, be cut off, and meet failing stores. AccountedInv of LeadIngestionProofs has for this a parameter, the
leads that somebody else answers for: none in `NothingSilent`; here those a job holds or
abandoned (Held, which may stand behind a claim), and those reported or with a live task besides (Elsewhere, which may
stand behind an outcome). DiscardInv is AccountedInv with these two sets, with every row that was published, or is about to be marked
so, accounted for (RawsAccounted), and JobsOwnTasks: a job that is listened to works on its task's row.
The proof is one lemma for a step of either pipeline: the tenants' cannot change the two sets, and the campaigns' moves a lead
between them and out of them only to a row (TaskedStays, HoldingStays, LegacyAccounts). A job counts whether its task is live or not: with two jobs, one that QStash gave up on may be the
only one that has the lead while its retry ends as a duplicate, which is why the run has two.

**BillingProofs.** One inductive invariant, `Sound`: TypeOK; OrderInv (what is paid was captured, and its grant's end is
recorded); ConfInv (an invocation past its read carries an order it may apply);
AnsweredIsConfirmed; AdminInv; and PlanInv, which ties the dates of the account to the cycles
granted since the last administrator's write. From it `TypeCorrect`,
`PaidUsable`, `AnsweredConfirmed`, `RefundFinal` and `Refinement`, the last with one
lemma for the granting step and one for all others. `SlotsHonoured` needs SlotsInv besides: the end of the bought capacity is
no earlier than that of any purchase (CapacityCovers). Without it a lapse of the
account's date could leave a purchase running that nothing counts. The property counts slots one by one (pairs of an order and
a number), so that no sum is needed; that they are finitely many is part of the invariant, not an assumption on Orders.

**AgencyRelationsProofs.** `TypeCorrect`, with what an invocation past its first statement carries. `Refinement`:
the partial unique index gives at most one claiming agency per client, so that the holder is well defined, and a write
of a claim over another agency's is refused. `ClaimedOwned`, from WritersKnowOwned: whoever is about to write a claim writes about a company
whose owner's row is there, and it stays. `OneClientPerLink`, from LinkInv: an accepted link
is spent, every invocation that opened one holds it, and no two opened the same. `LimitOverrun`, from
TokensBounded: the claims an agency has and those under way (the latter found room when they started) are together less than
the limit and the invocations; it needs FromLink, which tells the companies made for a link for as long as they are worked on.

**CapacityProofs.** `TypeCorrect`. `RaceOverrun`, from RaceInv, the same count for campaigns: those of a pool and
those about to be inserted together stay below limit and requests, unless plans or claims changed meanwhile.
`QuietSweep`, from QuietInv: as long as nothing changes under a sweep, its snapshots are current
(SnapshotsCurrent), and every pool it is done with is within its limits, the one in hand once what is listed is written
(CampaignsDone, ClientsDone); KeptCard counts what its selection keeps.

**AccessProofs.** `TypeCorrect`, with Knows (what an invocation carries) and FreeOK (free sessions are blank).
`NobodyLockedOut`, from LockInv: unless `raced` or `skipped`, an active owner exists, a checked patch not overtaken
holds the role its user has, and one about to remove an owner leaves another; a patch that is not checked may come at any time, and
either leaves a manager or sets `skipped`. `DisabledOpenNothing`, from
ShutInv, and `OldPasswordEnds`, from OldInv: what was opened with an old password has a
password change still to purge it, is late, or its user's purge died. `OneSessionPerLogin`, from
OneInv: sessions that are live and not late are unique per login, an invocation about
to insert that is not late has retired its predecessor and is alone with its login.

**MetaConnectionProofs.** One inductive invariant of typed state, Single (one active connection), QuietInv,
SelectionInv, ListInv (the sweep works on one connection, and lists none but while it exchanges), TimeInv (a long-lived
token with its expiry on file has left what the window is, less the failures so far, and more than that once the sweep ran, unless it is still to
get to it) and FlagInv (who is about to flag a connection has a reason). From it
`TypeCorrect`, `Refinement`, `DisconnectQuiet`, `NotLost`, `OnePageSelected`, `TokensInTime`, `FlagsJustified`.

**Only model-checked.** Liveness (ImplementsFairBook, ReceivedIsPublished,
CapturedIsGranted, WithinInTheEnd): fairness is out of the prover's reach. ImplementsFairBook
is the fair half of LeadBook; its safety half is proved.
Every other property of the passing runs is a theorem.

## 8. Not modelled

Never: HTTP clients, cryptography, pages, scripts, reports and audit logs (I/O, library calls or reads nothing depends on);
the second checkout in `.worktrees/main`; pricing, field mapping and lead quality, pure functions that are planned. The
onboarding wizard and the CRUD handlers write single rows in single statements. Inside the modelled components:

- one sweep at a time, although the QStash schedule and the daily cron of `vercel.json` could overlap (planned);
- payloads, field mapping, names and texts; amounts of money; signatures and nonces, which stand for
  what their sender may do; permissions and branches, checked before a handler's first write;
- *Pipelines:* the discovery and subscription of WhatsApp numbers, the verification handshake of a campaign's webhook,
  the ad a message came from, and the counting of failures on lead rows;
- *Access:* times to live of tokens (`rememberMe`), creation and deletion of roles, branches;
- *MetaConnection:* ad accounts, forms and Pages other than their selection, `lastError`;
- *Billing, platform administration:* company suspension, packages, notifications.
