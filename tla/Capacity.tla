------------------------------ MODULE Capacity ------------------------------
(***************************************************************************)
(* Plan limits of one agency and of the companies it may claim:            *)
(*   - requests that create a campaign check the limit of the pool they    *)
(*     count in, read by read, and then insert (application/billing.ts,    *)
(*     api/campaigns/handler.ts);                                          *)
(*   - Meta's synchronisation creates campaigns without asking;            *)
(*   - the sweep pauses campaigns and suspends clients beyond what the     *)
(*     plan allows, from lists it read earlier (reconcileCapacityDowngrade *)
(*     and the last loop of application/reconcile.ts).                     *)
(* A claimed client counts in its agency's pool, any other company in its  *)
(* own. How claims come about is another component's business: here they   *)
(* change.                                                                 *)
(***************************************************************************)
EXTENDS Naturals, Sequences, FiniteSets, SequencesExt

CONSTANTS
    Agency,        \* a company of type "agency"
    Clients,       \* companies of type "individual"
    Requests,      \* concurrent invocations that create a campaign
    Plans,         \* plans a company can be on
    MaxCampaigns,  \* bound on the campaigns created
    Changes        \* bound on what owners, plans and claims do meanwhile

Companies == {Agency} \cup Clients
Entitlements == {"trialing", "blocked", "subscribed"}

ASSUME AgencyAssumption == Agency \notin Clients
ASSUME PlansAssumption ==
    Plans \subseteq [entitlement : Entitlements, campaigns : Nat, clients : Nat]
ASSUME BoundsAssumption == MaxCampaigns \in Nat /\ Changes \in Nat
ASSUME FiniteAssumption == IsFiniteSet(Clients) /\ IsFiniteSet(Requests)

VARIABLES
    plan,      \* per company: entitlement, and the paid limits, extra slots included
    rows,      \* crm.campaigns, oldest first
    link,      \* agency_clients.status per client
    linked,    \* the clients with an agency_clients row, oldest first
    request,   \* the creating invocations
    sweep,     \* the reconciliation sweep
    left,      \* how many more changes there are
    calm,      \* observer: did a whole sweep run, and nothing else since
    loosened   \* observer: pools that grew or shrank other than by requests

vars == <<plan, rows, link, linked, request, sweep, left, calm, loosened>>

CampaignStatuses == {"running", "paused", "archived"}  \* running: "draft" or "active"
Claimed == {"invited", "active", "suspended"}          \* "pending" is never written
RequestIdle == [pc |-> "idle", owner |-> Agency, root |-> Agency,
                plan |-> [entitlement |-> "blocked", campaigns |-> 0, clients |-> 0],
                claimed |-> {}]
SweepIdle == [pc |-> "idle", todo |-> {}, root |-> Agency,
              plan |-> [entitlement |-> "blocked", campaigns |-> 0, clients |-> 0],
              claimed |-> {}, pause |-> {}, suspend |-> {}]

Init ==
    /\ plan \in [Companies -> Plans]
    /\ rows = << >>
    /\ link \in [Clients -> {"none", "active"}]
    /\ linked \in SetToSeqs({c \in Clients : link[c] = "active"})
    /\ request = [r \in Requests |-> RequestIdle]
    /\ sweep = SweepIdle
    /\ left = Changes
    /\ calm = "no"
    /\ loosened = {}

-----------------------------------------------------------------------------
(* Limits.                                                                 *)

TrialLimit == 1

\* An expired account keeps what it has and gets nothing new.
Limit(p, paid, used) ==
    CASE p.entitlement = "trialing" -> TrialLimit
      [] p.entitlement = "blocked" -> used
      [] OTHER -> paid

ClaimedClients == {c \in Clients : link[c] \in Claimed}
PoolRoot(company) == IF company \in ClaimedClients THEN Agency ELSE company
Pool(root, claimed) == IF root = Agency THEN {Agency} \cup claimed ELSE {root}
CampaignsOf(pool) == {i \in DOMAIN rows : rows[i].owner \in pool}

\* Of the active ones, oldest first, all but the first `limit`
\* (selectExcessForDowngrade). A campaign is its place in `rows`, a client its
\* place in `linked`: the lower, the older.
Excess(active, limit) == {k \in active : Cardinality({j \in active : j < k}) >= limit}

Running(pool) == {i \in CampaignsOf(pool) : rows[i].st = "running"}
Current == {k \in DOMAIN linked : link[linked[k]] \in {"invited", "active"}}

\* Broken variant: the agency's own campaigns are not counted.
ExcessCampaignsOfClients(root, p, claimed) ==
    LET pool == IF root = Agency THEN claimed ELSE {root}
    IN Excess(Running(pool), Limit(p, p.campaigns, Cardinality(CampaignsOf(pool))))

ExcessCampaigns(root, p, claimed) ==
    LET pool == Pool(root, claimed)
    IN Excess(Running(pool), Limit(p, p.campaigns, Cardinality(CampaignsOf(pool))))

\* Broken variant: one too many is kept.
ExcessClientsOffByOne(p) ==
    Excess(Current, Limit(p, p.clients, Cardinality(ClaimedClients)) + 1)

ExcessClients(p) == Excess(Current, Limit(p, p.clients, Cardinality(ClaimedClients)))

-----------------------------------------------------------------------------
(* What owners, payments and agencies do meanwhile (bounded by Changes).   *)

Disturb(pools) ==
    /\ left > 0
    /\ left' = left - 1
    /\ calm' = "no"
    /\ loosened' = loosened \cup pools

PlanChanges(company, p) ==
    /\ p # plan[company]
    /\ plan' = [plan EXCEPT ![company] = p]
    /\ Disturb({company})
    /\ UNCHANGED <<rows, link, linked, request, sweep>>

\* Broken variant: the row is updated and never inserted.
LinkChangesUpdateOnly(c, status) ==
    /\ status # link[c]
    /\ link' = [link EXCEPT ![c] = status]
    /\ Disturb({Agency, c})
    /\ UNCHANGED <<plan, rows, linked, request, sweep>>

\* An invitation, an answer to one, a suspension or a removal takes effect.
LinkChanges(c, status) ==
    /\ status # link[c]
    /\ link' = [link EXCEPT ![c] = status]
    /\ linked' = IF Contains(linked, c) THEN linked ELSE Append(linked, c)
    /\ Disturb({Agency, c})
    /\ UNCHANGED <<plan, rows, request, sweep>>

\* PATCH /api/campaigns/<id>: any status, whatever the limit.
SetStatus(i, status) ==
    /\ status # rows[i].st
    /\ rows' = [rows EXCEPT ![i].st = status]
    /\ Disturb({})
    /\ UNCHANGED <<plan, link, linked, request, sweep>>

\* syncCampaignsForSelectedAdAccount: a campaign seen for the first time.
SyncCampaign(company) ==
    /\ Len(rows) < MaxCampaigns
    /\ rows' = Append(rows, [owner |-> company, st |-> "running"])
    /\ calm' = "no"
    /\ loosened' = loosened \cup {PoolRoot(company)}
    /\ UNCHANGED <<plan, link, linked, request, sweep, left>>

-----------------------------------------------------------------------------
(* Creating a campaign: assertCampaignLimitNotReached, then the insert.    *)

Asking(r, pc) == request[r].pc = pc
Quiet == UNCHANGED <<plan, link, linked, sweep, left, loosened>>

ResolvePoolRoot(r, company) ==
    /\ Asking(r, "idle")
    /\ request' = [request EXCEPT ![r] = [RequestIdle EXCEPT
                      !.pc = "plan", !.owner = company, !.root = PoolRoot(company)]]
    /\ Quiet /\ UNCHANGED <<rows, calm>>

ReadPlan(r) ==
    /\ Asking(r, "plan")
    /\ request' = [request EXCEPT ![r].plan = plan[request[r].root],
                                  ![r].pc = IF request[r].root = Agency THEN "claimed" ELSE "count"]
    /\ Quiet /\ UNCHANGED <<rows, calm>>

ReadClaimed(r) ==
    /\ Asking(r, "claimed")
    /\ request' = [request EXCEPT ![r].claimed = ClaimedClients, ![r].pc = "count"]
    /\ Quiet /\ UNCHANGED <<rows, calm>>

\* Broken variant: the limit itself is still accepted.
CountCampaignsOffByOne(r) ==
    LET q == request[r]
        used == Cardinality(CampaignsOf(Pool(q.root, q.claimed)))
    IN
    /\ Asking(r, "count")
    /\ request' = [request EXCEPT ![r] = IF used > Limit(q.plan, q.plan.campaigns, used)
                                         THEN RequestIdle ELSE [q EXCEPT !.pc = "insert"]]
    /\ Quiet /\ UNCHANGED <<rows, calm>>

\* 402 at the limit.
CountCampaigns(r) ==
    LET q == request[r]
        used == Cardinality(CampaignsOf(Pool(q.root, q.claimed)))
    IN
    /\ Asking(r, "count")
    /\ request' = [request EXCEPT ![r] = IF used >= Limit(q.plan, q.plan.campaigns, used)
                                         THEN RequestIdle ELSE [q EXCEPT !.pc = "insert"]]
    /\ Quiet /\ UNCHANGED <<rows, calm>>

CreateCampaign(r) ==
    /\ Asking(r, "insert")
    /\ Len(rows) < MaxCampaigns
    /\ rows' = Append(rows, [owner |-> request[r].owner, st |-> "running"])
    /\ request' = [request EXCEPT ![r] = RequestIdle]
    /\ calm' = "no"
    /\ Quiet

RequestStep(r) ==
    \/ \E company \in Companies : ResolvePoolRoot(r, company)
    \/ ReadPlan(r) \/ ReadClaimed(r) \/ CountCampaigns(r) \/ CreateCampaign(r)

-----------------------------------------------------------------------------
(* The sweep.                                                              *)

Sweeping(pc) == sweep.pc = pc
Still == UNCHANGED <<plan, linked, request, left, loosened>>

\* listPoolRootCompanyIds.
SweepListRoots ==
    /\ Sweeping("idle")
    /\ sweep' = [SweepIdle EXCEPT !.pc = "next", !.todo = Companies \ ClaimedClients]
    /\ calm' = IF calm = "settled" THEN calm ELSE "sweeping"
    /\ Still /\ UNCHANGED <<rows, link>>

SweepReadPlan(root) ==
    /\ Sweeping("next")
    /\ root \in sweep.todo
    /\ sweep' = [sweep EXCEPT !.todo = @ \ {root}, !.root = root, !.plan = plan[root],
                              !.pc = IF root = Agency THEN "claimed" ELSE "campaigns",
                              !.claimed = {}]
    /\ Still /\ UNCHANGED <<rows, link, calm>>

\* The clients to suspend are chosen from this list, after the pauses.
SweepReadClaimed ==
    /\ Sweeping("claimed")
    /\ sweep' = [sweep EXCEPT !.claimed = ClaimedClients, !.suspend = ExcessClients(sweep.plan),
                              !.pc = "campaigns"]
    /\ Still /\ UNCHANGED <<rows, link, calm>>

SweepReadCampaigns ==
    /\ Sweeping("campaigns")
    /\ sweep' = [sweep EXCEPT !.pause = ExcessCampaigns(sweep.root, sweep.plan, sweep.claimed),
                              !.pc = "write"]
    /\ Still /\ UNCHANGED <<rows, link, calm>>

\* Oldest first, whatever became of the campaign since it was listed.
SweepPause(i) ==
    /\ Sweeping("write")
    /\ i \in sweep.pause /\ \A j \in sweep.pause : i <= j
    /\ rows' = [rows EXCEPT ![i].st = "paused"]
    /\ sweep' = [sweep EXCEPT !.pause = @ \ {i}]
    /\ Still /\ UNCHANGED <<link, calm>>

SweepSuspend(k) ==
    /\ Sweeping("write") /\ sweep.pause = {}
    /\ k \in sweep.suspend /\ \A j \in sweep.suspend : k <= j
    /\ link' = [link EXCEPT ![linked[k]] = "suspended"]
    /\ sweep' = [sweep EXCEPT !.suspend = @ \ {k}]
    /\ Still /\ UNCHANGED <<rows, calm>>

SweepNext ==
    /\ Sweeping("write") /\ sweep.pause = {} /\ sweep.suspend = {}
    /\ sweep' = [sweep EXCEPT !.pc = "next"]
    /\ Still /\ UNCHANGED <<rows, link, calm>>

SweepDone ==
    /\ Sweeping("next") /\ sweep.todo = {}
    /\ sweep' = SweepIdle
    /\ calm' = IF calm = "sweeping" THEN "settled" ELSE calm
    /\ Still /\ UNCHANGED <<rows, link>>

\* A statement fails: the sweep goes on with the next company.
SweepSkips ==
    /\ sweep.pc \in {"claimed", "campaigns", "write"}
    /\ sweep' = [sweep EXCEPT !.pc = "next", !.pause = {}, !.suspend = {}]
    /\ calm' = "no"
    /\ Still /\ UNCHANGED <<rows, link>>

SweepCrash ==
    /\ ~Sweeping("idle")
    /\ sweep' = SweepIdle
    /\ calm' = "no"
    /\ Still /\ UNCHANGED <<rows, link>>

SweepRuns ==
    \/ SweepListRoots \/ SweepReadClaimed \/ SweepReadCampaigns \/ SweepNext \/ SweepDone
    \/ \E root \in Companies : SweepReadPlan(root)
    \/ \E i \in DOMAIN rows : SweepPause(i)
    \/ \E k \in DOMAIN linked : SweepSuspend(k)

-----------------------------------------------------------------------------

Next ==
    \/ \E company \in Companies, p \in Plans : PlanChanges(company, p)
    \/ \E c \in Clients, status \in Claimed \cup {"removed"} : LinkChanges(c, status)
    \/ \E i \in DOMAIN rows, status \in CampaignStatuses : SetStatus(i, status)
    \/ \E company \in Companies : SyncCampaign(company)
    \/ \E r \in Requests : RequestStep(r)
    \/ SweepRuns \/ SweepSkips \/ SweepCrash

Spec == Init /\ [][Next]_vars

(***************************************************************************)
(* Fairness. The schedule starts a sweep every 15 minutes, and no step of  *)
(* it fails for ever for one company. Nothing is assumed of owners and     *)
(* requests.                                                               *)
(***************************************************************************)
FairSpec ==
    /\ Spec
    /\ WF_vars(SweepRuns)
    /\ \A root \in Companies : /\ SF_vars(SweepReadPlan(root))
                               /\ SF_vars(sweep.root = root /\ SweepReadCampaigns)
    /\ SF_vars(SweepReadClaimed)
    /\ SF_vars(\E i \in DOMAIN rows : SweepPause(i))
    /\ SF_vars(\E k \in DOMAIN linked : SweepSuspend(k))

-----------------------------------------------------------------------------
(* Properties.                                                             *)

PlanState == [entitlement : Entitlements, campaigns : Nat, clients : Nat]

\* What rows, links and snapshots can hold: a client has a status exactly when
\* it has a row.
TypeOK ==
    /\ plan \in [Companies -> Plans]
    /\ rows \in Seq([owner : Companies, st : CampaignStatuses])
    /\ Len(rows) <= MaxCampaigns
    /\ link \in [Clients -> Claimed \cup {"none", "removed"}]
    /\ linked \in Seq(Clients)
    /\ \A c \in Clients : link[c] = "none" <=> ~Contains(linked, c)
    /\ request \in [Requests -> [pc : {"idle", "plan", "claimed", "count", "insert"},
                                 owner : Companies, root : Companies, plan : PlanState,
                                 claimed : SUBSET Clients]]
    /\ sweep \in [pc : {"idle", "next", "claimed", "campaigns", "write"},
                  todo : SUBSET Companies, root : Companies, plan : PlanState,
                  claimed : SUBSET Clients, pause : SUBSET DOMAIN rows,
                  suspend : SUBSET DOMAIN linked]
    /\ left \in 0..Changes
    /\ calm \in {"no", "sweeping", "settled"}
    /\ loosened \subseteq Companies

\* The limit is checked before the insert, so requests can race past it, but
\* never by more than there are other requests at the same time.
RaceOverrunIsBounded ==
    \A root \in (Companies \ ClaimedClients) \ loosened :
        LET used == Cardinality(CampaignsOf(Pool(root, ClaimedClients))) IN
        used > 0 => used < Limit(plan[root], plan[root].campaigns, used) + Cardinality(Requests)

\* What runs is no more than each plan allows.
Within ==
    /\ \A root \in Companies \ ClaimedClients :
         LET pool == Pool(root, ClaimedClients) IN
         Cardinality(Running(pool)) <= Limit(plan[root], plan[root].campaigns, Cardinality(CampaignsOf(pool)))
    /\ Cardinality(Current) <= Limit(plan[Agency], plan[Agency].clients, Cardinality(ClaimedClients))

\* A sweep that nothing disturbed leaves nothing for the next one to do, in
\* whatever order it takes the companies, although what it does to one could
\* change what the next counts.
QuietSweepSettles == calm = "settled" => Within

\* Once owners, plans and claims stop changing, what runs is within the limits
\* for good, whatever sweeps fail and however old the lists they work from.
WithinInTheEnd == <>[]Within
=============================================================================
