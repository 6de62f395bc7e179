--------------------------- MODULE CapacityProofs ---------------------------
(* Theorems of Capacity, for any number of clients, requests, plans and    *)
(* campaigns, and for any number of changes.                               *)
EXTENDS Capacity, FiniteSetTheorems, TLAPS

USE AgencyAssumption, PlansAssumption, BoundsAssumption

-----------------------------------------------------------------------------
(* Types.                                                                  *)

Rows == [owner : Companies, st : CampaignStatuses]
LinkStates == Claimed \cup {"none", "removed"}
RequestStates == [pc : {"idle", "plan", "claimed", "count", "insert"},
                  owner : Companies, root : Companies, plan : PlanState,
                  claimed : SUBSET Clients]
SweepStates == [pc : {"idle", "next", "claimed", "campaigns", "write"},
                todo : SUBSET Companies, root : Companies, plan : PlanState,
                claimed : SUBSET Clients, pause : SUBSET DOMAIN rows,
                suspend : SUBSET DOMAIN linked]

LEMMA PlansArePlanStates == Plans \subseteq PlanState
  BY DEF PlanState

LEMMA IdleTyped ==
    /\ RequestIdle \in RequestStates
    /\ RequestIdle.pc = "idle"
    /\ SweepIdle.pc = "idle" /\ SweepIdle.plan \in PlanState
    /\ SweepIdle.todo = {} /\ SweepIdle.root = Agency /\ SweepIdle.claimed = {}
    /\ SweepIdle.pause = {} /\ SweepIdle.suspend = {}
  BY DEF RequestIdle, RequestStates, SweepIdle, PlanState, Entitlements, Companies

\* A client that the first links were drawn from is listed.
LEMMA ListedInit ==
    ASSUME NEW S \in SUBSET Clients, NEW f \in SetToSeqs(S)
    PROVE  f \in Seq(Clients) /\ \A c \in Clients : c \in S <=> Contains(f, c)
  <1>1. IsFiniteSet(S) /\ Cardinality(S) \in Nat
    BY FiniteAssumption, FS_Subset, FS_CardinalityType
  <1> DEFINE D == 1..Cardinality(S)
  <1>2. f \in [D -> S] /\ \A i, j \in D : i # j => f[i] # f[j]
    BY DEF SetToSeqs
  <1>3. f \in Injection(D, S)
    BY <1>2 DEF Injection, IsInjective
  <1>4. IsFiniteSet(D) /\ Cardinality(D) = Cardinality(S)
    BY <1>1, FS_Interval
  <1>5. f \in Surjection(D, S)
    BY <1>1, <1>3, <1>4, FS_Injection
  <1>6. Len(f) = Cardinality(S) /\ f \in Seq(Clients)
    BY <1>1, <1>2
  <1>7. \A c \in S : \E i \in D : f[i] = c
    BY <1>5 DEF Surjection
  <1> QED BY <1>2, <1>6, <1>7 DEF Contains

LEMMA TypeInit == Init => TypeOK
  <1> SUFFICES ASSUME Init PROVE TypeOK
    OBVIOUS
  <1>1. plan \in [Companies -> Plans] /\ rows \in Seq(Rows) /\ Len(rows) <= MaxCampaigns
    BY DEF Init
  <1>2. link \in [Clients -> LinkStates]
    BY DEF Init, LinkStates, Claimed
  <1>3. /\ linked \in Seq(Clients)
        /\ \A c \in Clients : link[c] = "none" <=> ~Contains(linked, c)
    <2> DEFINE S == {c \in Clients : link[c] = "active"}
    <2>1. S \in SUBSET Clients /\ linked \in SetToSeqs(S)
      BY DEF Init
    <2> HIDE DEF S
    <2>2. linked \in Seq(Clients) /\ \A c \in Clients : c \in S <=> Contains(linked, c)
      BY <2>1, ListedInit
    <2>3. \A c \in Clients : link[c] = "none" <=> c \notin S
      BY DEF Init, S
    <2> QED BY <2>2, <2>3
  <1>4. request \in [Requests -> RequestStates]
    BY IdleTyped DEF Init
  <1>5. sweep = SweepIdle /\ left \in 0..Changes /\ calm \in {"no", "sweeping", "settled"}
        /\ loosened \subseteq Companies
    BY DEF Init
  <1>6. sweep \in SweepStates
    BY <1>5 DEF SweepIdle, SweepStates, PlanState, Entitlements, Companies
  <1> QED BY <1>1, <1>2, <1>3, <1>4, <1>5, <1>6 DEF TypeOK, Rows, LinkStates, RequestStates, SweepStates

\* The type invariant in three parts.
Tables ==
    /\ plan \in [Companies -> Plans]
    /\ rows \in Seq(Rows) /\ Len(rows) <= MaxCampaigns
    /\ link \in [Clients -> LinkStates]
    /\ linked \in Seq(Clients)
    /\ \A c \in Clients : link[c] = "none" <=> ~Contains(linked, c)
    /\ left \in 0..Changes
    /\ calm \in {"no", "sweeping", "settled"}
    /\ loosened \subseteq Companies

LEMMA TypeParts ==
    TypeOK <=> Tables /\ request \in [Requests -> RequestStates] /\ sweep \in SweepStates
  BY DEF TypeOK, Tables, Rows, LinkStates, RequestStates, SweepStates

LEMMA TypePartsNext ==
    ASSUME Tables', request' \in [Requests -> RequestStates], sweep' \in SweepStates'
    PROVE  TypeOK'
  BY DEF TypeOK, Tables, Rows, LinkStates, RequestStates, SweepStates

LEMMA TypePartsOf ==
    ASSUME TypeOK'
    PROVE  Tables' /\ request' \in [Requests -> RequestStates] /\ sweep' \in SweepStates'
  BY DEF TypeOK, Tables, Rows, LinkStates, RequestStates, SweepStates

LEMMA RootTyped == ASSUME NEW c \in Companies PROVE PoolRoot(c) \in Companies
  BY DEF PoolRoot, Companies

\* A step of the sweep's own, and one of a request.
LEMMA SweepKeepsTables ==
    ASSUME Tables, UNCHANGED <<plan, rows, link, linked, left, loosened>>,
           calm' \in {"no", "sweeping", "settled"}
    PROVE  Tables' /\ SweepStates' = SweepStates
  BY DEF Tables, SweepStates

LEMMA RequestKeepsTables ==
    ASSUME Tables, UNCHANGED <<plan, rows, link, linked, left, calm, loosened>>
    PROVE  Tables'
  BY DEF Tables

LEMMA RequestTyped ==
    ASSUME request \in [Requests -> RequestStates], NEW r \in Requests, NEW q \in RequestStates,
           request' = [request EXCEPT ![r] = q]
    PROVE  request' \in [Requests -> RequestStates]
  OBVIOUS

LEMMA DisturbTyped ==
    ASSUME Tables, NEW pools \in SUBSET Companies, Disturb(pools)
    PROVE  left' \in 0..Changes /\ calm' = "no" /\ loosened' \subseteq Companies
  BY DEF Disturb, Tables

\* A campaign is created.
LEMMA AppendTyped ==
    ASSUME Tables, sweep \in SweepStates, NEW c \in Companies, Len(rows) < MaxCampaigns,
           rows' = Append(rows, [owner |-> c, st |-> "running"])
    PROVE  /\ rows' \in Seq(Rows) /\ Len(rows') <= MaxCampaigns
           /\ Len(rows') = Len(rows) + 1
           /\ DOMAIN rows' = DOMAIN rows \cup {Len(rows) + 1}
           /\ \A i \in DOMAIN rows : rows'[i] = rows[i]
           /\ rows'[Len(rows) + 1] = [owner |-> c, st |-> "running"]
  <1>1. [owner |-> c, st |-> "running"] \in Rows
    BY DEF Rows, CampaignStatuses
  <1> QED BY <1>1 DEF Tables

\* A campaign's status changes.
LEMMA StatusTyped ==
    ASSUME Tables, NEW i \in DOMAIN rows, NEW st \in CampaignStatuses,
           rows' = [rows EXCEPT ![i].st = st]
    PROVE  /\ rows' \in Seq(Rows) /\ Len(rows') = Len(rows) /\ DOMAIN rows' = DOMAIN rows
           /\ \A j \in DOMAIN rows : /\ rows'[j].owner = rows[j].owner
                                     /\ rows'[j].st = IF j = i THEN st ELSE rows[j].st
  <1>1. rows[i] \in Rows /\ rows' = [rows EXCEPT ![i] = [rows[i] EXCEPT !.st = st]]
    BY DEF Tables
  <1>2. PICK row : row = [rows[i] EXCEPT !.st = st]
    OBVIOUS
  <1>3. row \in Rows /\ row.owner = rows[i].owner /\ row.st = st
    BY <1>1, <1>2 DEF Rows
  <1>4. rows' = [rows EXCEPT ![i] = row]
    BY <1>1, <1>2
  <1>5. \A j \in DOMAIN rows : rows'[j] = IF j = i THEN row ELSE rows[j]
    BY <1>4 DEF Tables
  <1>6. rows' \in Seq(Rows) /\ Len(rows') = Len(rows) /\ DOMAIN rows' = DOMAIN rows
    <2>1. rows \in [1..Len(rows) -> Rows] /\ Len(rows) \in Nat
      BY DEF Tables
    <2>2. rows' \in [1..Len(rows) -> Rows]
      BY <1>3, <1>4, <2>1
    <2> QED BY <2>1, <2>2
  <1> QED BY <1>3, <1>5, <1>6

\* A client's status changes, for the first time or again.
LEMMA LinkTyped ==
    ASSUME Tables, NEW c \in Clients, NEW status \in Claimed \cup {"removed"},
           link' = [link EXCEPT ![c] = status],
           linked' = IF Contains(linked, c) THEN linked ELSE Append(linked, c)
    PROVE  /\ link' \in [Clients -> LinkStates] /\ linked' \in Seq(Clients)
           /\ \A d \in Clients : link'[d] = "none" <=> ~Contains(linked', d)
           /\ DOMAIN linked \subseteq DOMAIN linked'
           /\ \A k \in DOMAIN linked : linked'[k] = linked[k]
  <1>1. link' \in [Clients -> LinkStates] /\ status # "none"
    BY DEF Tables, LinkStates, Claimed
  <1>2. \A d \in Clients : link'[d] = IF d = c THEN status ELSE link[d]
    BY DEF Tables
  <1>3. CASE Contains(linked, c)
    BY <1>1, <1>2, <1>3 DEF Tables
  <1>4. CASE ~Contains(linked, c)
    <2>1. linked' = Append(linked, c) /\ linked \in Seq(Clients)
      BY <1>4 DEF Tables
    <2>2. /\ linked' \in Seq(Clients) /\ Len(linked') = Len(linked) + 1
          /\ \A k \in 1..Len(linked) : linked'[k] = linked[k]
          /\ linked'[Len(linked) + 1] = c
          /\ DOMAIN linked \subseteq DOMAIN linked'
      BY <2>1
    <2>3. \A d \in Clients : Contains(linked', d) <=> Contains(linked, d) \/ d = c
      <3>1. ASSUME NEW d \in Clients, Contains(linked, d) PROVE Contains(linked', d)
        BY <2>1, <2>2, <3>1 DEF Contains
      <3>2. Contains(linked', c)
        BY <2>1, <2>2 DEF Contains
      <3>3. ASSUME NEW d \in Clients, Contains(linked', d), d # c PROVE Contains(linked, d)
        <4>1. PICK k \in 1..Len(linked') : linked'[k] = d
          BY <3>3 DEF Contains
        <4>2. k \in 1..Len(linked)
          BY <2>1, <2>2, <3>3, <4>1
        <4> QED BY <2>2, <4>1, <4>2 DEF Contains
      <3> QED BY <3>1, <3>2, <3>3
    <2> QED BY <1>1, <1>2, <2>1, <2>2, <2>3 DEF Tables
  <1> QED BY <1>3, <1>4

LEMMA TypeRequestStep ==
    ASSUME TypeOK, NEW r \in Requests, RequestStep(r)
    PROVE  TypeOK'
  <1>0. Tables /\ request \in [Requests -> RequestStates] /\ sweep \in SweepStates
    BY TypeParts
  <1>1. request[r] \in RequestStates
    BY <1>0
  <1>a. ASSUME NEW q \in RequestStates, request' = [request EXCEPT ![r] = q], Quiet,
               UNCHANGED <<rows, calm>>
        PROVE  TypeOK'
    <2>1. Tables'
      BY <1>0, <1>a, RequestKeepsTables DEF Quiet
    <2>2. sweep' \in SweepStates'
      BY <1>0, <1>a DEF Quiet, SweepStates
    <2> QED BY <1>0, <1>a, <2>1, <2>2, RequestTyped, TypePartsNext
  <1>2. ASSUME NEW c \in Companies, ResolvePoolRoot(r, c) PROVE TypeOK'
    <2> DEFINE q == [RequestIdle EXCEPT !.pc = "plan", !.owner = c, !.root = PoolRoot(c)]
    <2>1. q \in RequestStates
      BY RootTyped, IdleTyped DEF RequestStates
    <2> QED BY <1>2, <1>a, <2>1 DEF ResolvePoolRoot
  <1>3. ASSUME ReadPlan(r) PROVE TypeOK'
    <2> DEFINE q == [request[r] EXCEPT !.plan = plan[request[r].root],
                        !.pc = IF request[r].root = Agency THEN "claimed" ELSE "count"]
    <2>1. plan[request[r].root] \in PlanState
      BY <1>0, <1>1, PlansArePlanStates DEF Tables, RequestStates
    <2>2. q \in RequestStates
      BY <1>1, <2>1 DEF RequestStates
    <2>3. request' = [request EXCEPT ![r] = q]
      BY <1>3 DEF ReadPlan
    <2> QED BY <1>3, <1>a, <2>2, <2>3 DEF ReadPlan
  <1>4. ASSUME ReadClaimed(r) PROVE TypeOK'
    <2> DEFINE q == [request[r] EXCEPT !.claimed = ClaimedClients, !.pc = "count"]
    <2>1. ClaimedClients \in SUBSET Clients
      BY DEF ClaimedClients
    <2>2. q \in RequestStates
      BY <1>1, <2>1 DEF RequestStates
    <2>3. request' = [request EXCEPT ![r] = q]
      BY <1>4 DEF ReadClaimed
    <2> QED BY <1>4, <1>a, <2>2, <2>3 DEF ReadClaimed
  <1>5. ASSUME CountCampaigns(r) PROVE TypeOK'
    <2>1. PICK q : /\ q = RequestIdle \/ q = [request[r] EXCEPT !.pc = "insert"]
                   /\ request' = [request EXCEPT ![r] = q]
      BY <1>5 DEF CountCampaigns
    <2>2. q \in RequestStates
      BY <1>1, <2>1, IdleTyped DEF RequestStates
    <2> QED BY <1>5, <1>a, <2>1, <2>2 DEF CountCampaigns
  <1>6. ASSUME CreateCampaign(r) PROVE TypeOK'
    <2>1. request[r].owner \in Companies
      BY <1>1 DEF RequestStates
    <2>2. rows' \in Seq(Rows) /\ Len(rows') <= MaxCampaigns /\ DOMAIN rows \subseteq DOMAIN rows'
      BY <1>0, <1>6, <2>1, AppendTyped DEF CreateCampaign
    <2>3. Tables'
      BY <1>0, <1>6, <2>2 DEF CreateCampaign, Quiet, Tables
    <2>4. sweep' \in SweepStates'
      BY <1>0, <1>6, <2>2 DEF CreateCampaign, Quiet, SweepStates
    <2>5. request' \in [Requests -> RequestStates]
      BY <1>0, <1>6, IdleTyped, RequestTyped DEF CreateCampaign
    <2> QED BY <2>3, <2>4, <2>5, TypePartsNext
  <1> QED BY <1>2, <1>3, <1>4, <1>5, <1>6 DEF RequestStep

LEMMA ExcessTyped ==
    ASSUME NEW p, NEW root, NEW claimed
    PROVE  /\ ExcessCampaigns(root, p, claimed) \subseteq DOMAIN rows
           /\ ExcessClients(p) \subseteq DOMAIN linked
  BY DEF ExcessCampaigns, ExcessClients, Excess, Running, CampaignsOf, Current

\* A step of the sweep that writes nothing.
LEMMA SweepReadsTyped ==
    ASSUME TypeOK, Still, UNCHANGED <<rows, link>>, calm' \in {"no", "sweeping", "settled"},
           sweep' \in SweepStates
    PROVE  TypeOK'
  <1>1. Tables /\ request \in [Requests -> RequestStates]
    BY TypeParts
  <1>2. Tables' /\ SweepStates' = SweepStates
    BY <1>1, SweepKeepsTables DEF Still
  <1> QED BY <1>1, <1>2, TypePartsNext DEF Still

LEMMA TypeSweep ==
    ASSUME TypeOK, SweepRuns \/ SweepSkips \/ SweepCrash
    PROVE  TypeOK'
  <1>0. Tables /\ request \in [Requests -> RequestStates] /\ sweep \in SweepStates
    BY TypeParts
  <1>1. calm \in {"no", "sweeping", "settled"}
    BY <1>0 DEF Tables
  <1>2. SweepIdle \in SweepStates
    BY IdleTyped DEF SweepIdle, SweepStates, PlanState, Entitlements, Companies
  <1>3. ASSUME SweepListRoots PROVE TypeOK'
    <2> DEFINE s == [SweepIdle EXCEPT !.pc = "next", !.todo = Companies \ ClaimedClients]
    <2>1. s \in SweepStates
      BY <1>2 DEF SweepStates
    <2> QED BY <1>1, <1>3, <2>1, SweepReadsTyped DEF SweepListRoots
  <1>4. ASSUME NEW root \in Companies, SweepReadPlan(root) PROVE TypeOK'
    <2>1. plan[root] \in PlanState
      BY <1>0, PlansArePlanStates DEF Tables
    <2> DEFINE s == [sweep EXCEPT !.todo = sweep.todo \ {root}, !.root = root, !.plan = plan[root],
                              !.pc = IF root = Agency THEN "claimed" ELSE "campaigns",
                              !.claimed = {}]
    <2>2. s \in SweepStates
      BY <1>0, <2>1 DEF SweepStates
    <2>3. sweep' = s
      BY <1>4 DEF SweepReadPlan
    <2> QED BY <1>1, <1>4, <2>2, <2>3, SweepReadsTyped DEF SweepReadPlan
  <1>5. ASSUME SweepReadClaimed PROVE TypeOK'
    <2> DEFINE s == [sweep EXCEPT !.claimed = ClaimedClients, !.suspend = ExcessClients(sweep.plan),
                              !.pc = "campaigns"]
    <2>1. ClaimedClients \in SUBSET Clients
      BY DEF ClaimedClients
    <2>2. s \in SweepStates
      BY <1>0, <2>1, ExcessTyped DEF SweepStates
    <2> QED BY <1>1, <1>5, <2>2, SweepReadsTyped DEF SweepReadClaimed
  <1>6. ASSUME SweepReadCampaigns PROVE TypeOK'
    <2> DEFINE s == [sweep EXCEPT !.pause = ExcessCampaigns(sweep.root, sweep.plan, sweep.claimed),
                              !.pc = "write"]
    <2>1. s \in SweepStates
      BY <1>0, ExcessTyped DEF SweepStates
    <2> QED BY <1>1, <1>6, <2>1, SweepReadsTyped DEF SweepReadCampaigns
  <1>7. ASSUME NEW i \in DOMAIN rows, SweepPause(i) PROVE TypeOK'
    <2>1. rows' \in Seq(Rows) /\ Len(rows') = Len(rows) /\ DOMAIN rows' = DOMAIN rows
      BY <1>0, <1>7, StatusTyped DEF SweepPause, CampaignStatuses
    <2>2. Tables'
      BY <1>0, <1>7, <2>1 DEF SweepPause, Still, Tables
    <2>3. sweep' = [sweep EXCEPT !.pause = sweep.pause \ {i}] /\ linked' = linked
      BY <1>7 DEF SweepPause, Still
    <2>4. sweep' \in SweepStates'
      BY <1>0, <2>1, <2>3 DEF SweepStates
    <2> QED BY <1>0, <1>7, <2>2, <2>4, TypePartsNext DEF SweepPause, Still
  <1>8. ASSUME NEW k \in DOMAIN linked, SweepSuspend(k) PROVE TypeOK'
    <2>1. linked[k] \in Clients /\ Contains(linked, linked[k]) /\ linked' = linked
      <3>1. k \in 1..Len(linked) /\ linked \in Seq(Clients)
        BY <1>0, <1>8 DEF Tables
      <3>2. Contains(linked, linked[k])
        BY <3>1 DEF Contains
      <3> QED BY <1>8, <3>1, <3>2 DEF SweepSuspend, Still
    <2>2. link' = [link EXCEPT ![linked[k]] = "suspended"]
      BY <1>8 DEF SweepSuspend
    <2>3. \A d \in Clients : link'[d] = IF d = linked[k] THEN "suspended" ELSE link[d]
      BY <1>0, <2>2 DEF Tables
    <2>4. link' \in [Clients -> LinkStates]
      BY <1>0, <2>2 DEF Tables, LinkStates, Claimed
    <2>5. \A d \in Clients : link'[d] = "none" <=> ~Contains(linked, d)
      BY <1>0, <2>1, <2>3 DEF Tables
    <2>6. Tables'
      BY <1>0, <1>8, <2>1, <2>4, <2>5 DEF SweepSuspend, Still, Tables
    <2>7. sweep' = [sweep EXCEPT !.suspend = sweep.suspend \ {k}] /\ rows' = rows
      BY <1>8 DEF SweepSuspend, Still
    <2>8. sweep' \in SweepStates'
      BY <1>0, <2>1, <2>7 DEF SweepStates
    <2> QED BY <1>0, <1>8, <2>6, <2>8, TypePartsNext DEF SweepSuspend, Still
  <1>9. ASSUME SweepNext PROVE TypeOK'
    <2> DEFINE s == [sweep EXCEPT !.pc = "next"]
    <2>1. s \in SweepStates
      BY <1>0 DEF SweepStates
    <2> QED BY <1>1, <1>9, <2>1, SweepReadsTyped DEF SweepNext
  <1>10. ASSUME SweepDone PROVE TypeOK'
    BY <1>1, <1>2, <1>10, SweepReadsTyped DEF SweepDone
  <1>11. ASSUME SweepSkips PROVE TypeOK'
    <2> DEFINE s == [sweep EXCEPT !.pc = "next", !.pause = {}, !.suspend = {}]
    <2>1. s \in SweepStates
      BY <1>0 DEF SweepStates
    <2> QED BY <1>11, <2>1, SweepReadsTyped DEF SweepSkips
  <1>12. ASSUME SweepCrash PROVE TypeOK'
    BY <1>2, <1>12, SweepReadsTyped DEF SweepCrash
  <1> QED BY <1>3, <1>4, <1>5, <1>6, <1>7, <1>8, <1>9, <1>10, <1>11, <1>12 DEF SweepRuns

LEMMA TypeStep == TypeOK /\ [Next]_vars => TypeOK'
  <1> SUFFICES ASSUME TypeOK, [Next]_vars PROVE TypeOK'
    OBVIOUS
  <1>0. Tables /\ request \in [Requests -> RequestStates] /\ sweep \in SweepStates
    BY TypeParts
  <1>1. ASSUME NEW company \in Companies, NEW p \in Plans, PlanChanges(company, p) PROVE TypeOK'
    <2>1. left' \in 0..Changes /\ calm' = "no" /\ loosened' \subseteq Companies
      BY <1>0, <1>1, DisturbTyped DEF PlanChanges
    <2>2. Tables'
      BY <1>0, <1>1, <2>1 DEF PlanChanges, Tables
    <2>3. sweep' \in SweepStates'
      BY <1>0, <1>1 DEF PlanChanges, SweepStates
    <2> QED BY <1>0, <1>1, <2>2, <2>3, TypePartsNext DEF PlanChanges
  <1>2. ASSUME NEW c \in Clients, NEW status \in Claimed \cup {"removed"}, LinkChanges(c, status)
        PROVE  TypeOK'
    <2>0. {Agency, c} \in SUBSET Companies
      BY DEF Companies
    <2>1. left' \in 0..Changes /\ calm' = "no" /\ loosened' \subseteq Companies
      BY <1>0, <1>2, <2>0, DisturbTyped DEF LinkChanges
    <2>2. /\ link' \in [Clients -> LinkStates] /\ linked' \in Seq(Clients)
          /\ \A d \in Clients : link'[d] = "none" <=> ~Contains(linked', d)
          /\ DOMAIN linked \subseteq DOMAIN linked'
      BY <1>0, <1>2, LinkTyped DEF LinkChanges
    <2>3. Tables'
      BY <1>0, <1>2, <2>1, <2>2 DEF LinkChanges, Tables
    <2>4. sweep' \in SweepStates'
      BY <1>0, <1>2, <2>2 DEF LinkChanges, SweepStates
    <2> QED BY <1>0, <1>2, <2>3, <2>4, TypePartsNext DEF LinkChanges
  <1>3. ASSUME NEW i \in DOMAIN rows, NEW status \in CampaignStatuses, SetStatus(i, status)
        PROVE  TypeOK'
    <2>1. left' \in 0..Changes /\ calm' = "no" /\ loosened' \subseteq Companies
      BY <1>0, <1>3, DisturbTyped DEF SetStatus
    <2>2. rows' \in Seq(Rows) /\ Len(rows') = Len(rows) /\ DOMAIN rows' = DOMAIN rows
      BY <1>0, <1>3, StatusTyped DEF SetStatus
    <2>3. Tables'
      BY <1>0, <1>3, <2>1, <2>2 DEF SetStatus, Tables
    <2>4. sweep' \in SweepStates'
      BY <1>0, <1>3, <2>2 DEF SetStatus, SweepStates
    <2> QED BY <1>0, <1>3, <2>3, <2>4, TypePartsNext DEF SetStatus
  <1>4. ASSUME NEW company \in Companies, SyncCampaign(company) PROVE TypeOK'
    <2>1. rows' \in Seq(Rows) /\ Len(rows') <= MaxCampaigns /\ DOMAIN rows \subseteq DOMAIN rows'
      BY <1>0, <1>4, AppendTyped DEF SyncCampaign
    <2>2. Tables'
      BY <1>0, <1>4, <2>1, RootTyped DEF SyncCampaign, Tables
    <2>3. sweep' \in SweepStates'
      BY <1>0, <1>4, <2>1 DEF SyncCampaign, SweepStates
    <2> QED BY <1>0, <1>4, <2>2, <2>3, TypePartsNext DEF SyncCampaign
  <1>5. CASE UNCHANGED vars
    BY <1>5, <1>0, TypePartsNext DEF vars, Tables, SweepStates
  <1> QED BY <1>1, <1>2, <1>3, <1>4, <1>5, TypeRequestStep, TypeSweep DEF Next

\* What rows, links, requests and the sweep's snapshots hold; a client has a
\* status exactly when it has a row; the sweep's lists are of rows there are.
THEOREM TypeCorrect == Spec => []TypeOK
  BY TypeInit, TypeStep, PTL DEF Spec

-----------------------------------------------------------------------------
(* What a step leaves as it was.                                           *)

LEMMA LinkWrites ==
    ASSUME [Next]_vars
    PROVE  \/ UNCHANGED <<link, linked>>
           \/ \E c \in Clients, status \in Claimed \cup {"removed"} : LinkChanges(c, status)
           \/ \E k \in DOMAIN linked : SweepSuspend(k)
  BY DEF Next, vars, PlanChanges, SetStatus, SyncCampaign, RequestStep, ResolvePoolRoot,
     ReadPlan, ReadClaimed, CountCampaigns, CreateCampaign, Quiet, SweepRuns, SweepListRoots,
     SweepReadPlan, SweepReadClaimed, SweepReadCampaigns, SweepPause, SweepNext, SweepDone,
     SweepSkips, SweepCrash, Still

LEMMA PlanWrites ==
    ASSUME [Next]_vars
    PROVE  \/ UNCHANGED plan
           \/ \E company \in Companies, p \in Plans : PlanChanges(company, p)
  BY DEF Next, vars, LinkChanges, SetStatus, SyncCampaign, RequestStep, ResolvePoolRoot,
     ReadPlan, ReadClaimed, CountCampaigns, CreateCampaign, Quiet, SweepRuns, SweepListRoots,
     SweepReadPlan, SweepReadClaimed, SweepReadCampaigns, SweepPause, SweepSuspend, SweepNext,
     SweepDone, SweepSkips, SweepCrash, Still

LEMMA LoosenedGrows ==
    ASSUME [Next]_vars PROVE loosened \subseteq loosened'
  BY DEF Next, vars, PlanChanges, LinkChanges, SetStatus, Disturb, SyncCampaign, RequestStep,
     ResolvePoolRoot, ReadPlan, ReadClaimed, CountCampaigns, CreateCampaign, Quiet, SweepRuns,
     SweepListRoots, SweepReadPlan, SweepReadClaimed, SweepReadCampaigns, SweepPause,
     SweepSuspend, SweepNext, SweepDone, SweepSkips, SweepCrash, Still

LEMMA RowWrites ==
    ASSUME [Next]_vars
    PROVE  \/ UNCHANGED rows
           \/ \E i \in DOMAIN rows, st \in CampaignStatuses :
                 rows' = [rows EXCEPT ![i].st = st] /\ UNCHANGED <<request, link>>
           \/ \E company \in Companies : SyncCampaign(company)
           \/ \E r \in Requests : CreateCampaign(r)
  <1>1. "paused" \in CampaignStatuses
    BY DEF CampaignStatuses
  <1> QED
    BY <1>1 DEF Next, vars, PlanChanges, LinkChanges, SetStatus, RequestStep, ResolvePoolRoot,
     ReadPlan, ReadClaimed, CountCampaigns, Quiet, SweepRuns, SweepListRoots,
     SweepReadPlan, SweepReadClaimed, SweepReadCampaigns, SweepPause, SweepSuspend, SweepNext,
     SweepDone, SweepSkips, SweepCrash, Still

LEMMA RequestWrites ==
    ASSUME [Next]_vars
    PROVE  UNCHANGED request \/ \E r \in Requests : RequestStep(r)
  BY DEF Next, vars, PlanChanges, LinkChanges, SetStatus, SyncCampaign, SweepRuns,
     SweepListRoots, SweepReadPlan, SweepReadClaimed, SweepReadCampaigns, SweepPause,
     SweepSuspend, SweepNext, SweepDone, SweepSkips, SweepCrash, Still

-----------------------------------------------------------------------------
(* The race for the campaign limit.                                        *)

\* Whom the sweep is about to suspend is claimed, unless its claim changed.
SweepKnows ==
    \A k \in sweep.suspend : \/ link[linked[k]] \in Claimed
                             \/ linked[k] \in loosened /\ Agency \in loosened

\* A request counts in the pool it asks for, whose plan and companies it has
\* read, unless that changed since.
Counts(r) ==
    \/ PoolRoot(request[r].owner) = request[r].root
    \/ request[r].owner \in loosened /\ Agency \in loosened
Knows(r) ==
    /\ request[r].pc \in {"claimed", "count", "insert"} => request[r].plan = plan[request[r].root]
    /\ request[r].pc = "count" /\ request[r].root = Agency => request[r].claimed = ClaimedClients
RequestsKnow ==
    \A r \in Requests : request[r].pc # "idle" =>
        Counts(r) /\ (request[r].root \notin loosened => Knows(r))

Used(root) == Cardinality(CampaignsOf(Pool(root, ClaimedClients)))
Inserting(root) == {r \in Requests : request[r].pc = "insert" /\ request[r].root = root}
Untouched == (Companies \ ClaimedClients) \ loosened

\* The campaigns of a pool and those about to be inserted together stay below
\* its limit and the requests: each found room when it counted.
CountBounded ==
    \A root \in Untouched :
        /\ plan[root].entitlement = "blocked" => Used(root) = 0 /\ Inserting(root) = {}
        /\ Used(root) > 0 \/ Inserting(root) # {} =>
             Used(root) + Cardinality(Inserting(root)) <
               Limit(plan[root], plan[root].campaigns, Used(root)) + Cardinality(Requests)

RaceInv == SweepKnows /\ RequestsKnow /\ CountBounded

LEMMA InPool ==
    ASSUME NEW root \in Companies \ ClaimedClients, NEW c \in Companies
    PROVE  c \in Pool(root, ClaimedClients) <=> PoolRoot(c) = root
  BY DEF Pool, PoolRoot, Companies, ClaimedClients

\* A claim that changes leaves its mark on both pools.
LEMMA ClaimStays ==
    ASSUME TypeOK, SweepKnows, [Next]_vars
    PROVE  /\ \A c \in Clients : \/ c \in ClaimedClients <=> c \in ClaimedClients'
                                 \/ c \in loosened' /\ Agency \in loosened'
           /\ ClaimedClients' = ClaimedClients \/ Agency \in loosened'
           /\ \A c \in Companies : \/ PoolRoot(c)' = PoolRoot(c)
                                   \/ c \in loosened' /\ Agency \in loosened'
  <1>0. Tables
    BY TypeParts
  <1>1. \A c \in Clients : \/ c \in ClaimedClients <=> c \in ClaimedClients'
                           \/ c \in loosened' /\ Agency \in loosened'
    <2>1. CASE UNCHANGED <<link, linked>>
      BY <2>1 DEF ClaimedClients
    <2>2. ASSUME NEW d \in Clients, NEW status \in Claimed \cup {"removed"}, LinkChanges(d, status)
          PROVE  \A c \in Clients : \/ c \in ClaimedClients <=> c \in ClaimedClients'
                                    \/ c \in loosened' /\ Agency \in loosened'
      BY <1>0, <2>2 DEF LinkChanges, Disturb, ClaimedClients, Tables
    <2>3. ASSUME NEW k \in DOMAIN linked, SweepSuspend(k)
          PROVE  \A c \in Clients : \/ c \in ClaimedClients <=> c \in ClaimedClients'
                                    \/ c \in loosened' /\ Agency \in loosened'
      <3>1. /\ link' = [link EXCEPT ![linked[k]] = "suspended"]
            /\ k \in sweep.suspend /\ loosened' = loosened
        BY <2>3 DEF SweepSuspend, Still
      <3>2. \A c \in Clients : link'[c] = IF c = linked[k] THEN "suspended" ELSE link[c]
        BY <1>0, <3>1 DEF Tables
      <3> QED BY <3>1, <3>2 DEF SweepKnows, ClaimedClients, Claimed
    <2> QED BY <2>1, <2>2, <2>3, LinkWrites
  <1>2. ClaimedClients \subseteq Clients /\ ClaimedClients' \subseteq Clients
    BY DEF ClaimedClients
  <1>3. ClaimedClients' = ClaimedClients \/ Agency \in loosened'
    BY <1>1, <1>2
  <1>4. \A c \in Companies : \/ PoolRoot(c)' = PoolRoot(c)
                             \/ c \in loosened' /\ Agency \in loosened'
    <2> SUFFICES ASSUME NEW c \in Companies, PoolRoot(c)' # PoolRoot(c)
                 PROVE  c \in loosened' /\ Agency \in loosened'
      OBVIOUS
    <2>1. ~(c \in ClaimedClients <=> c \in ClaimedClients')
      BY DEF PoolRoot
    <2>2. c \in Clients
      BY <1>2, <2>1
    <2> QED BY <1>1, <2>1, <2>2
  <1> QED BY <1>1, <1>3, <1>4

LEMMA UntouchedStays ==
    ASSUME TypeOK, SweepKnows, [Next]_vars, NEW root \in Untouched'
    PROVE  /\ root \in Untouched /\ plan'[root] = plan[root]
           /\ Pool(root, ClaimedClients)' = Pool(root, ClaimedClients)
  <1>0. root \in Companies /\ root \notin ClaimedClients' /\ root \notin loosened'
    BY DEF Untouched
  <1>1. root \notin ClaimedClients
    BY <1>0, ClaimStays DEF ClaimedClients
  <1>2. plan'[root] = plan[root]
    <2>1. ASSUME NEW company \in Companies, NEW p \in Plans, PlanChanges(company, p)
          PROVE  plan'[root] = plan[root]
      BY <2>1, <1>0, TypeParts DEF PlanChanges, Disturb, Tables
    <2> QED BY <2>1, PlanWrites
  <1>3. Pool(root, ClaimedClients)' = Pool(root, ClaimedClients)
    BY <1>0, ClaimStays DEF Pool
  <1> QED BY <1>0, <1>1, <1>2, <1>3, LoosenedGrows DEF Untouched

LEMMA LimitFacts ==
    ASSUME NEW p \in PlanState, NEW u \in Nat, NEW v \in Nat
    PROVE  /\ Limit(p, p.campaigns, u) \in Nat
           /\ p.entitlement # "blocked" => Limit(p, p.campaigns, u) = Limit(p, p.campaigns, v)
           /\ p.entitlement = "blocked" => Limit(p, p.campaigns, u) = u
  BY DEF Limit, TrialLimit, PlanState, Entitlements

LEMMA CampaignsFinite ==
    ASSUME Tables, NEW pool
    PROVE  IsFiniteSet(CampaignsOf(pool)) /\ Cardinality(CampaignsOf(pool)) \in Nat
  <1>1. DOMAIN rows = 1..Len(rows) /\ Len(rows) \in Nat
    BY DEF Tables
  <1>2. IsFiniteSet(DOMAIN rows)
    BY <1>1, FS_Interval
  <1>3. CampaignsOf(pool) \in SUBSET DOMAIN rows
    BY DEF CampaignsOf
  <1> QED BY <1>2, <1>3, FS_Subset, FS_CardinalityType

LEMMA InsertingFinite ==
    ASSUME NEW root
    PROVE  /\ IsFiniteSet(Inserting(root)) /\ Cardinality(Inserting(root)) \in Nat
           /\ Cardinality(Requests) \in Nat
           /\ Cardinality(Inserting(root)) <= Cardinality(Requests)
  <1>1. Inserting(root) \in SUBSET Requests
    BY DEF Inserting
  <1> QED BY <1>1, FiniteAssumption, FS_Subset, FS_CardinalityType

LEMMA RaceInit == Init => RaceInv
  <1> SUFFICES ASSUME Init PROVE RaceInv
    OBVIOUS
  <1>1. SweepKnows
    BY IdleTyped DEF Init, SweepKnows
  <1>2. \A r \in Requests : request[r].pc = "idle"
    BY IdleTyped DEF Init
  <1>3. RequestsKnow
    BY <1>2 DEF RequestsKnow
  <1>4. CountBounded
    <2>1. \A root : Inserting(root) = {}
      BY <1>2 DEF Inserting
    <2>2. \A pool : CampaignsOf(pool) = {}
      BY DEF Init, CampaignsOf
    <2>3. \A root : Used(root) = 0
      BY <2>2, FS_EmptySet DEF Used
    <2> QED BY <2>1, <2>3 DEF CountBounded
  <1> QED BY <1>1, <1>3, <1>4 DEF RaceInv

LEMMA SweepKnowsStep ==
    ASSUME TypeOK, SweepKnows, [Next]_vars PROVE SweepKnows'
  <1>0. Tables /\ sweep \in SweepStates /\ loosened \subseteq loosened'
    BY TypeParts, LoosenedGrows
  <1>1. \A k \in sweep.suspend : k \in DOMAIN linked /\ linked[k] \in Clients
    BY <1>0 DEF SweepStates, Tables
  <1>2. \A k \in DOMAIN linked : linked'[k] = linked[k]
    <2>1. CASE UNCHANGED <<link, linked>>
      BY <2>1
    <2>2. ASSUME NEW d \in Clients, NEW status \in Claimed \cup {"removed"}, LinkChanges(d, status)
          PROVE  \A k \in DOMAIN linked : linked'[k] = linked[k]
      BY <1>0, <2>2, LinkTyped DEF LinkChanges
    <2>3. ASSUME NEW k \in DOMAIN linked, SweepSuspend(k)
          PROVE  \A j \in DOMAIN linked : linked'[j] = linked[j]
      BY <2>3 DEF SweepSuspend, Still
    <2> QED BY <2>1, <2>2, <2>3, LinkWrites
  <1>3. ASSUME sweep'.suspend \subseteq sweep.suspend PROVE SweepKnows'
    <2> SUFFICES ASSUME NEW k \in sweep'.suspend
                 PROVE  \/ link'[linked'[k]] \in Claimed
                        \/ linked'[k] \in loosened' /\ Agency \in loosened'
      BY DEF SweepKnows
    <2>1. k \in sweep.suspend /\ linked'[k] = linked[k] /\ linked[k] \in Clients
      BY <1>1, <1>2, <1>3
    <2> QED BY <1>0, <2>1, ClaimStays DEF SweepKnows, ClaimedClients
  <1>4. ASSUME SweepReadClaimed PROVE SweepKnows'
    <2>1. sweep'.suspend = ExcessClients(sweep.plan) /\ link' = link /\ linked' = linked
      BY <1>0, <1>4 DEF SweepReadClaimed, Still, SweepStates
    <2>2. ExcessClients(sweep.plan) \subseteq Current
      BY DEF ExcessClients, Excess
    <2> QED BY <2>1, <2>2 DEF SweepKnows, Current, Claimed
  <1>5. CASE UNCHANGED sweep
    BY <1>3, <1>5
  <1>6. ASSUME NEW k \in DOMAIN linked, SweepSuspend(k) PROVE SweepKnows'
    BY <1>0, <1>3, <1>6 DEF SweepSuspend, SweepStates
  <1>7. ASSUME \/ SweepListRoots \/ SweepReadCampaigns \/ SweepNext \/ SweepDone
               \/ SweepSkips \/ SweepCrash
               \/ \E root \in Companies : SweepReadPlan(root)
               \/ \E i \in DOMAIN rows : SweepPause(i)
        PROVE  SweepKnows'
    <2>1. sweep'.suspend = {} \/ sweep'.suspend = sweep.suspend
      BY <1>0, <1>7, IdleTyped
         DEF SweepListRoots, SweepReadCampaigns, SweepNext, SweepDone, SweepSkips, SweepCrash,
             SweepReadPlan, SweepPause, SweepIdle, SweepStates
    <2> QED BY <1>3, <2>1
  <1>8. CASE UNCHANGED vars
    BY <1>5, <1>8 DEF vars
  <1>9. ASSUME \/ \E company \in Companies, p \in Plans : PlanChanges(company, p)
               \/ \E c \in Clients, status \in Claimed \cup {"removed"} : LinkChanges(c, status)
               \/ \E i \in DOMAIN rows, status \in CampaignStatuses : SetStatus(i, status)
               \/ \E company \in Companies : SyncCampaign(company)
               \/ \E r \in Requests : RequestStep(r)
        PROVE  UNCHANGED sweep
    BY <1>9 DEF PlanChanges, LinkChanges, SetStatus, SyncCampaign, RequestStep, ResolvePoolRoot,
       ReadPlan, ReadClaimed, CountCampaigns, CreateCampaign, Quiet
  <1> QED BY <1>4, <1>5, <1>6, <1>7, <1>8, <1>9 DEF Next, SweepRuns

\* One step of one request.
LEMMA RequestMoves ==
    ASSUME TypeOK, NEW r \in Requests, RequestStep(r)
    PROVE  /\ \A q \in Requests \ {r} : request'[q] = request[q]
           /\ \/ request'[r].pc = "idle"
              \/ /\ request'[r].pc = "plan"
                 /\ PoolRoot(request'[r].owner) = request'[r].root
                 /\ UNCHANGED <<plan, link, rows>>
              \/ /\ UNCHANGED <<plan, link, rows>>
                 /\ request'[r].owner = request[r].owner /\ request'[r].root = request[r].root
                 /\ \/ /\ ReadPlan(r) /\ request'[r].pc \in {"claimed", "count"}
                       /\ request'[r].pc = "count" => request[r].root # Agency
                       /\ request'[r].plan = plan[request[r].root]
                    \/ /\ ReadClaimed(r) /\ request'[r].pc = "count"
                       /\ request'[r].plan = request[r].plan
                       /\ request'[r].claimed = ClaimedClients
                    \/ /\ CountCampaigns(r) /\ request'[r].pc = "insert"
                       /\ request'[r].plan = request[r].plan
                       /\ LET used == Cardinality(CampaignsOf(Pool(request[r].root, request[r].claimed)))
                          IN used < Limit(request[r].plan, request[r].plan.campaigns, used)
  <1>0. request \in [Requests -> RequestStates] /\ request[r] \in RequestStates
    BY TypeParts
  <1>a. ASSUME NEW q, request' = [request EXCEPT ![r] = q]
        PROVE  request'[r] = q /\ \A p \in Requests \ {r} : request'[p] = request[p]
    BY <1>0, <1>a
  <1> DEFINE Goal ==
         /\ \A q \in Requests \ {r} : request'[q] = request[q]
         /\ \/ request'[r].pc = "idle"
            \/ /\ request'[r].pc = "plan"
               /\ PoolRoot(request'[r].owner) = request'[r].root
               /\ UNCHANGED <<plan, link, rows>>
            \/ /\ UNCHANGED <<plan, link, rows>>
               /\ request'[r].owner = request[r].owner /\ request'[r].root = request[r].root
               /\ \/ /\ ReadPlan(r) /\ request'[r].pc \in {"claimed", "count"}
                     /\ request'[r].pc = "count" => request[r].root # Agency
                     /\ request'[r].plan = plan[request[r].root]
                  \/ /\ ReadClaimed(r) /\ request'[r].pc = "count"
                     /\ request'[r].plan = request[r].plan
                     /\ request'[r].claimed = ClaimedClients
                  \/ /\ CountCampaigns(r) /\ request'[r].pc = "insert"
                     /\ request'[r].plan = request[r].plan
                     /\ LET used == Cardinality(CampaignsOf(Pool(request[r].root, request[r].claimed)))
                        IN used < Limit(request[r].plan, request[r].plan.campaigns, used)
  <1>1. ASSUME NEW c \in Companies, ResolvePoolRoot(r, c) PROVE Goal
    <2>1. /\ request'[r] = [RequestIdle EXCEPT !.pc = "plan", !.owner = c, !.root = PoolRoot(c)]
          /\ \A p \in Requests \ {r} : request'[p] = request[p]
          /\ UNCHANGED <<plan, link, rows>>
      BY <1>1, <1>a DEF ResolvePoolRoot, Quiet
    <2>2. request'[r].pc = "plan" /\ request'[r].owner = c /\ request'[r].root = PoolRoot(c)
      BY <2>1 DEF RequestIdle
    <2> QED BY <2>1, <2>2
  <1>2. ASSUME ReadPlan(r) PROVE Goal
    <2>1. request' = [request EXCEPT ![r] = [request[r] EXCEPT !.plan = plan[request[r].root],
                        !.pc = IF request[r].root = Agency THEN "claimed" ELSE "count"]]
      BY <1>2 DEF ReadPlan
    <2>2. /\ request'[r] = [request[r] EXCEPT !.plan = plan[request[r].root],
                              !.pc = IF request[r].root = Agency THEN "claimed" ELSE "count"]
          /\ \A p \in Requests \ {r} : request'[p] = request[p]
      BY <2>1, <1>a
    <2>3. /\ request'[r].pc = (IF request[r].root = Agency THEN "claimed" ELSE "count")
          /\ request'[r].plan = plan[request[r].root]
          /\ request'[r].owner = request[r].owner /\ request'[r].root = request[r].root
      BY <1>0, <2>2 DEF RequestStates
    <2>4. UNCHANGED <<plan, link, rows>>
      BY <1>2 DEF ReadPlan, Quiet
    <2> QED BY <1>2, <2>2, <2>3, <2>4
  <1>3. ASSUME ReadClaimed(r) PROVE Goal
    <2>1. request' = [request EXCEPT ![r] = [request[r] EXCEPT !.claimed = ClaimedClients,
                                                              !.pc = "count"]]
      BY <1>3 DEF ReadClaimed
    <2>2. /\ request'[r] = [request[r] EXCEPT !.claimed = ClaimedClients, !.pc = "count"]
          /\ \A p \in Requests \ {r} : request'[p] = request[p]
      BY <2>1, <1>a
    <2>3. /\ request'[r].pc = "count" /\ request'[r].claimed = ClaimedClients
          /\ request'[r].plan = request[r].plan
          /\ request'[r].owner = request[r].owner /\ request'[r].root = request[r].root
      BY <1>0, <2>2 DEF RequestStates
    <2>4. UNCHANGED <<plan, link, rows>>
      BY <1>3 DEF ReadClaimed, Quiet
    <2> QED BY <1>3, <2>2, <2>3, <2>4
  <1>4. ASSUME CountCampaigns(r) PROVE Goal
    <2> DEFINE used == Cardinality(CampaignsOf(Pool(request[r].root, request[r].claimed)))
               limit == Limit(request[r].plan, request[r].plan.campaigns, used)
    <2>1. request' = [request EXCEPT ![r] = IF used >= limit THEN RequestIdle
                                            ELSE [request[r] EXCEPT !.pc = "insert"]]
      BY <1>4 DEF CountCampaigns
    <2>2. used \in Nat /\ limit \in Nat
      BY <1>0, TypeParts, CampaignsFinite, LimitFacts DEF RequestStates
    <2> HIDE DEF used, limit
    <2>3. /\ request'[r] = IF used >= limit THEN RequestIdle
                           ELSE [request[r] EXCEPT !.pc = "insert"]
          /\ \A p \in Requests \ {r} : request'[p] = request[p]
      BY <2>1, <1>a
    <2>4. CASE used >= limit
      <3>1. request'[r].pc = "idle"
        BY <2>3, <2>4, IdleTyped
      <3> QED BY <2>3, <3>1
    <2>5. CASE used < limit
      <3>1. request'[r] = [request[r] EXCEPT !.pc = "insert"]
        BY <2>2, <2>3, <2>5
      <3>2. /\ request'[r].pc = "insert" /\ request'[r].plan = request[r].plan
            /\ request'[r].owner = request[r].owner /\ request'[r].root = request[r].root
        BY <1>0, <3>1 DEF RequestStates
      <3>3. UNCHANGED <<plan, link, rows>>
        BY <1>4 DEF CountCampaigns, Quiet
      <3>4. LET u == Cardinality(CampaignsOf(Pool(request[r].root, request[r].claimed)))
            IN  u < Limit(request[r].plan, request[r].plan.campaigns, u)
        BY <2>5 DEF used, limit
      <3> QED BY <1>4, <2>3, <3>2, <3>3, <3>4
    <2> QED BY <2>2, <2>4, <2>5
  <1>5. ASSUME CreateCampaign(r) PROVE Goal
    <2>1. request'[r] = RequestIdle /\ \A p \in Requests \ {r} : request'[p] = request[p]
      BY <1>5, <1>a DEF CreateCampaign
    <2>2. request'[r].pc = "idle"
      BY <2>1, IdleTyped
    <2> QED BY <2>1, <2>2
  <1> HIDE DEF Goal
  <1>6. Goal
    BY <1>1, <1>2, <1>3, <1>4, <1>5 DEF RequestStep
  <1> QED BY <1>6 DEF Goal

LEMMA RequestsKnowStep ==
    ASSUME TypeOK, RaceInv, [Next]_vars PROVE RequestsKnow'
  <1> SUFFICES ASSUME NEW r \in Requests, request'[r].pc # "idle"
               PROVE  Counts(r)' /\ (request'[r].root \notin loosened' => Knows(r)')
    BY DEF RequestsKnow
  <1>0. /\ Tables /\ request[r] \in RequestStates /\ loosened \subseteq loosened'
        /\ SweepKnows /\ RequestsKnow
    BY TypeParts, LoosenedGrows DEF RaceInv
  <1>1. CASE request'[r] = request[r]
    <2>1. request[r].owner \in Companies /\ request[r].root \in Companies
      BY <1>0 DEF RequestStates
    <2>2. Counts(r) /\ (request[r].root \notin loosened => Knows(r))
      BY <1>0, <1>1 DEF RequestsKnow
    <2>3. Counts(r)'
      BY <1>0, <1>1, <2>1, <2>2, ClaimStays DEF Counts
    <2>4. ASSUME request'[r].root \notin loosened' PROVE Knows(r)'
      <3>1. request[r].root \notin loosened /\ Knows(r)
        BY <1>0, <1>1, <2>2, <2>4
      <3>2. plan'[request[r].root] = plan[request[r].root]
        <4>1. ASSUME NEW company \in Companies, NEW p \in Plans, PlanChanges(company, p)
              PROVE  plan'[request[r].root] = plan[request[r].root]
          BY <1>0, <1>1, <2>1, <2>4, <4>1 DEF PlanChanges, Disturb, Tables
        <4> QED BY <4>1, PlanWrites
      <3>3. request[r].root = Agency => ClaimedClients' = ClaimedClients
        BY <1>0, <1>1, <2>4, ClaimStays
      <3> QED BY <1>1, <3>1, <3>2, <3>3 DEF Knows
    <2> QED BY <2>3, <2>4
  <1>2. CASE RequestStep(r)
    <2>1. CASE /\ request'[r].pc = "plan"
               /\ PoolRoot(request'[r].owner) = request'[r].root
               /\ UNCHANGED <<plan, link, rows>>
      <3>1. ClaimedClients' = ClaimedClients
        BY <2>1 DEF ClaimedClients
      <3>2. Counts(r)'
        BY <2>1, <3>1 DEF Counts, PoolRoot
      <3> QED BY <2>1, <3>2 DEF Knows
    <2>2. CASE /\ UNCHANGED <<plan, link, rows>>
               /\ request'[r].owner = request[r].owner /\ request'[r].root = request[r].root
               /\ request[r].pc # "idle"
               /\ \/ /\ ReadPlan(r) /\ request'[r].pc \in {"claimed", "count"}
                     /\ request'[r].pc = "count" => request[r].root # Agency
                     /\ request'[r].plan = plan[request[r].root]
                  \/ /\ ReadClaimed(r) /\ request'[r].pc = "count"
                     /\ request'[r].plan = request[r].plan
                     /\ request'[r].claimed = ClaimedClients
                  \/ /\ CountCampaigns(r) /\ request'[r].pc = "insert"
                     /\ request'[r].plan = request[r].plan
      <3>1. Counts(r) /\ (request[r].root \notin loosened => Knows(r))
        BY <1>0, <2>2 DEF RequestsKnow
      <3>2. /\ ClaimedClients' = ClaimedClients
            /\ PoolRoot(request[r].owner)' = PoolRoot(request[r].owner)
        BY <2>2 DEF PoolRoot, ClaimedClients
      <3>3. Counts(r)'
        BY <1>0, <2>2, <3>1, <3>2 DEF Counts
      <3>4. CASE /\ ReadPlan(r) /\ request'[r].pc \in {"claimed", "count"}
                 /\ request'[r].pc = "count" => request[r].root # Agency
                 /\ request'[r].plan = plan[request[r].root]
        BY <2>2, <3>3, <3>4 DEF Knows
      <3>5. CASE /\ ReadClaimed(r) /\ request'[r].pc = "count"
                 /\ request'[r].plan = request[r].plan
                 /\ request'[r].claimed = ClaimedClients
        <4>1. request[r].pc = "claimed"
          BY <3>5 DEF ReadClaimed, Asking
        <4> QED BY <1>0, <2>2, <3>1, <3>2, <3>3, <3>5, <4>1 DEF Knows
      <3>6. CASE /\ CountCampaigns(r) /\ request'[r].pc = "insert"
                 /\ request'[r].plan = request[r].plan
        <4>1. request[r].pc = "count"
          BY <3>6 DEF CountCampaigns, Asking
        <4> QED BY <1>0, <2>2, <3>1, <3>2, <3>3, <3>6, <4>1 DEF Knows
      <3> QED BY <2>2, <3>4, <3>5, <3>6
    <2>3. ReadPlan(r) \/ ReadClaimed(r) \/ CountCampaigns(r) => request[r].pc # "idle"
      BY DEF ReadPlan, ReadClaimed, CountCampaigns, Asking
    <2> QED BY <1>2, <2>1, <2>2, <2>3, RequestMoves
  <1>3. ASSUME NEW q \in Requests, RequestStep(q), q # r PROVE request'[r] = request[r]
    BY <1>3, RequestMoves
  <1> QED BY <1>1, <1>2, <1>3, RequestWrites

\* A pool counts what it counted, but for a campaign created in it.
LEMMA UsedStays ==
    ASSUME TypeOK, RaceInv, [Next]_vars, NEW root \in Untouched',
           \A r \in Requests : ~CreateCampaign(r)
    PROVE  Used(root)' = Used(root)
  <1>0. /\ Tables /\ sweep \in SweepStates
        /\ Pool(root, ClaimedClients)' = Pool(root, ClaimedClients)
    BY TypeParts, UntouchedStays DEF RaceInv
  <1> DEFINE P == Pool(root, ClaimedClients)
  <1>1. CampaignsOf(Pool(root, ClaimedClients))' = {i \in DOMAIN rows' : rows'[i].owner \in P}
    BY <1>0 DEF CampaignsOf
  <1>2. CampaignsOf(P) = {i \in DOMAIN rows : rows[i].owner \in P}
    BY DEF CampaignsOf
  <1>3. root \in Companies \ ClaimedClients /\ root \notin loosened'
    BY UntouchedStays DEF RaceInv, Untouched
  <1> HIDE DEF P
  <1>4. CASE UNCHANGED rows
    BY <1>1, <1>2, <1>4 DEF Used, P
  <1>5. ASSUME NEW i \in DOMAIN rows, NEW st \in CampaignStatuses,
               rows' = [rows EXCEPT ![i].st = st]
        PROVE  Used(root)' = Used(root)
    <2>1. /\ DOMAIN rows' = DOMAIN rows
          /\ \A j \in DOMAIN rows : rows'[j].owner = rows[j].owner
      BY <1>0, <1>5, StatusTyped
    <2>2. {j \in DOMAIN rows' : rows'[j].owner \in P} = {j \in DOMAIN rows : rows[j].owner \in P}
      BY <2>1
    <2> QED BY <1>1, <1>2, <2>2 DEF Used, P
  <1>6. ASSUME NEW c \in Companies, SyncCampaign(c) PROVE Used(root)' = Used(root)
    <2>1. c \notin P
      <3>1. PoolRoot(c) # root
        BY <1>3, <1>6 DEF SyncCampaign
      <3> QED BY <1>3, <3>1, InPool DEF P
    <2>2. /\ DOMAIN rows' = DOMAIN rows \cup {Len(rows) + 1}
          /\ \A i \in DOMAIN rows : rows'[i] = rows[i]
          /\ rows'[Len(rows) + 1] = [owner |-> c, st |-> "running"]
      BY <1>0, <1>6, AppendTyped DEF SyncCampaign
    <2>3. rows'[Len(rows) + 1].owner = c
      BY <2>2
    <2>4. {j \in DOMAIN rows' : rows'[j].owner \in P} = {j \in DOMAIN rows : rows[j].owner \in P}
      BY <2>1, <2>2, <2>3
    <2> QED BY <1>1, <1>2, <2>4 DEF Used, P
  <1> QED BY <1>4, <1>5, <1>6, RowWrites

\* The insert: the campaign that was about to be created is there.
LEMMA UsedGrows ==
    ASSUME TypeOK, RaceInv, [Next]_vars, NEW root \in Untouched',
           NEW r \in Requests, CreateCampaign(r)
    PROVE  /\ Inserting(root)' = Inserting(root) \ {r}
           /\ r \in Inserting(root) \/ Used(root)' = Used(root)
           /\ Used(root)' <= Used(root) + 1
  <1>0. /\ Tables /\ sweep \in SweepStates /\ request \in [Requests -> RequestStates]
        /\ Pool(root, ClaimedClients)' = Pool(root, ClaimedClients)
        /\ loosened' = loosened
    BY TypeParts, UntouchedStays DEF RaceInv, CreateCampaign, Quiet
  <1> DEFINE P == Pool(root, ClaimedClients)
             c == request[r].owner
  <1>1. CampaignsOf(Pool(root, ClaimedClients))' = {i \in DOMAIN rows' : rows'[i].owner \in P}
    BY <1>0 DEF CampaignsOf
  <1>2. CampaignsOf(P) = {i \in DOMAIN rows : rows[i].owner \in P}
    BY DEF CampaignsOf
  <1>3. root \in Companies \ ClaimedClients /\ root \notin loosened
    BY UntouchedStays DEF RaceInv, Untouched
  <1>4. request[r].pc = "insert" /\ request' = [request EXCEPT ![r] = RequestIdle]
    BY DEF CreateCampaign, Asking
  <1>5. Inserting(root)' = Inserting(root) \ {r}
    <2>1. \A q \in Requests : request'[q] = IF q = r THEN RequestIdle ELSE request[q]
      BY <1>0, <1>4
    <2>2. request'[r].pc = "idle" /\ \A q \in Requests \ {r} : request'[q] = request[q]
      BY <2>1, IdleTyped
    <2> QED BY <2>2 DEF Inserting
  <1>6. c \in Companies
    BY <1>0 DEF RequestStates
  <1> HIDE DEF P, c
  <1>7. /\ DOMAIN rows' = DOMAIN rows \cup {Len(rows) + 1}
        /\ \A i \in DOMAIN rows : rows'[i] = rows[i]
        /\ rows'[Len(rows) + 1] = [owner |-> c, st |-> "running"]
    BY <1>0, <1>6, AppendTyped DEF CreateCampaign, c
  <1>8. rows'[Len(rows) + 1].owner = c
    BY <1>7
  <1>9. CASE c \in P
    <2>1. PoolRoot(c) = root
      BY <1>3, <1>6, <1>9, InPool DEF P
    <2>2. Counts(r)
      BY <1>4 DEF RaceInv, RequestsKnow
    <2>3. request[r].root = root
      BY <1>3, <2>1, <2>2 DEF Counts, PoolRoot, c
    <2>4. r \in Inserting(root)
      BY <1>4, <2>3 DEF Inserting
    <2>5. CampaignsOf(Pool(root, ClaimedClients))' = CampaignsOf(P) \cup {Len(rows) + 1}
      BY <1>1, <1>2, <1>7, <1>8, <1>9
    <2>6. Used(root)' <= Used(root) + 1
      <3> DEFINE U == CampaignsOf(P)
      <3>1. IsFiniteSet(U) /\ Cardinality(U) \in Nat
        BY <1>0, CampaignsFinite
      <3>2. Used(root) = Cardinality(U) /\ Used(root)' = Cardinality(U \cup {Len(rows) + 1})
        BY <2>5 DEF Used, P
      <3> DEFINE n == Len(rows) + 1
      <3> HIDE DEF U, n
      <3>3. Cardinality(U \cup {n}) = IF n \in U THEN Cardinality(U) ELSE Cardinality(U) + 1
        BY <3>1, FS_AddElement
      <3>4. Cardinality(U \cup {n}) <= Cardinality(U) + 1
        BY <3>1, <3>3
      <3> QED BY <3>2, <3>4 DEF n
    <2> QED BY <1>5, <2>4, <2>6
  <1>10. CASE c \notin P
    <2>1. {i \in DOMAIN rows' : rows'[i].owner \in P} = {i \in DOMAIN rows : rows[i].owner \in P}
      BY <1>7, <1>8, <1>10
    <2>2. Used(root)' = Used(root)
      BY <1>1, <1>2, <2>1 DEF Used, P
    <2>3. Used(root) \in Nat
      BY <1>0, CampaignsFinite DEF Used
    <2> QED BY <1>5, <2>2, <2>3
  <1> QED BY <1>9, <1>10

LEMMA CountBoundedStep ==
    ASSUME TypeOK, RaceInv, [Next]_vars PROVE CountBounded'
  <1> SUFFICES ASSUME NEW root \in Untouched'
               PROVE  /\ plan'[root].entitlement = "blocked" =>
                           Used(root)' = 0 /\ Inserting(root)' = {}
                      /\ Used(root)' > 0 \/ Inserting(root)' # {} =>
                           Used(root)' + Cardinality(Inserting(root)') <
                             Limit(plan'[root], plan'[root].campaigns, Used(root)')
                               + Cardinality(Requests)
    BY DEF CountBounded
  <1>0. /\ Tables /\ request \in [Requests -> RequestStates]
        /\ root \in Untouched /\ root \in Companies /\ plan'[root] = plan[root]
        /\ Pool(root, ClaimedClients)' = Pool(root, ClaimedClients)
    BY TypeParts, UntouchedStays DEF RaceInv, Untouched
  <1>1. /\ plan[root] \in PlanState /\ Used(root) \in Nat
        /\ IsFiniteSet(Inserting(root)) /\ Cardinality(Inserting(root)) \in Nat
        /\ Cardinality(Requests) \in Nat
    BY <1>0, PlansArePlanStates, CampaignsFinite, InsertingFinite DEF Tables, Used
  <1>2. Tables' /\ Used(root)' \in Nat
    <2>1. Tables'
      BY TypeStep, TypePartsOf
    <2>2. DOMAIN rows' = 1..Len(rows') /\ Len(rows') \in Nat
      BY <2>1 DEF Tables
    <2>3. IsFiniteSet(DOMAIN rows')
      BY <2>2, FS_Interval
    <2>4. CampaignsOf(Pool(root, ClaimedClients))' \in SUBSET DOMAIN rows'
      BY DEF CampaignsOf
    <2>5. Cardinality(CampaignsOf(Pool(root, ClaimedClients))') \in Nat
      BY <2>3, <2>4, FS_Subset, FS_CardinalityType
    <2> QED BY <2>1, <2>5 DEF Used
  <1>3. /\ plan[root].entitlement = "blocked" => Used(root) = 0 /\ Inserting(root) = {}
        /\ Used(root) > 0 \/ Inserting(root) # {} =>
             Used(root) + Cardinality(Inserting(root)) <
               Limit(plan[root], plan[root].campaigns, Used(root)) + Cardinality(Requests)
    BY <1>0 DEF RaceInv, CountBounded
  <1>4. /\ Limit(plan[root], plan[root].campaigns, Used(root)) \in Nat
        /\ plan[root].entitlement # "blocked" =>
             Limit(plan[root], plan[root].campaigns, Used(root)') =
               Limit(plan[root], plan[root].campaigns, Used(root))
    BY <1>1, <1>2, LimitFacts
  <1>5. ASSUME Used(root)' = Used(root), Inserting(root)' = Inserting(root)
        PROVE  /\ plan'[root].entitlement = "blocked" =>
                    Used(root)' = 0 /\ Inserting(root)' = {}
               /\ Used(root)' > 0 \/ Inserting(root)' # {} =>
                    Used(root)' + Cardinality(Inserting(root)') <
                      Limit(plan'[root], plan'[root].campaigns, Used(root)')
                        + Cardinality(Requests)
    BY <1>0, <1>3, <1>5
  <1>6. CASE UNCHANGED request
    <2>1. \A r \in Requests : ~CreateCampaign(r)
      <3> SUFFICES ASSUME NEW r \in Requests, CreateCampaign(r) PROVE FALSE
        OBVIOUS
      <3>1. request[r].pc = "insert" /\ request' = [request EXCEPT ![r] = RequestIdle]
        BY DEF CreateCampaign, Asking
      <3>2. request'[r].pc = "idle"
        BY <1>0, <3>1, IdleTyped
      <3> QED BY <1>6, <3>1, <3>2
    <2>2. Used(root)' = Used(root)
      BY <2>1, UsedStays
    <2>3. Inserting(root)' = Inserting(root)
      BY <1>6 DEF Inserting
    <2> QED BY <1>5, <2>2, <2>3
  <1>7. ASSUME NEW r \in Requests, CreateCampaign(r)
        PROVE  /\ plan'[root].entitlement = "blocked" =>
                    Used(root)' = 0 /\ Inserting(root)' = {}
               /\ Used(root)' > 0 \/ Inserting(root)' # {} =>
                    Used(root)' + Cardinality(Inserting(root)') <
                      Limit(plan'[root], plan'[root].campaigns, Used(root)')
                        + Cardinality(Requests)
    <2> DEFINE I == Inserting(root)
    <2>1. /\ Inserting(root)' = I \ {r}
          /\ r \in I \/ Used(root)' = Used(root)
          /\ Used(root)' <= Used(root) + 1
      BY <1>7, UsedGrows
    <2>2. IsFiniteSet(I) /\ Cardinality(I) \in Nat
      BY <1>1
    <2> HIDE DEF I
    <2>3. Cardinality(I \ {r}) = IF r \in I THEN Cardinality(I) - 1 ELSE Cardinality(I)
      BY <2>2, FS_RemoveElement
    <2>4. Used(root)' + Cardinality(I \ {r}) <= Used(root) + Cardinality(I)
      BY <1>1, <1>2, <2>1, <2>2, <2>3
    <2>5. CASE plan[root].entitlement = "blocked"
      <3>1. Used(root) = 0 /\ I = {}
        BY <1>3, <2>5 DEF I
      <3> QED BY <1>0, <1>2, <2>1, <3>1
    <2>6. CASE plan[root].entitlement # "blocked"
      <3>1. CASE Used(root) > 0 \/ I # {}
        <4>1. Used(root) + Cardinality(I) <
                Limit(plan[root], plan[root].campaigns, Used(root)) + Cardinality(Requests)
          BY <1>3, <3>1 DEF I
        <4>2. Cardinality(I \ {r}) \in Nat
          BY <2>2, FS_RemoveElement, FS_CardinalityType
        <4> QED BY <1>0, <1>1, <1>2, <1>4, <2>1, <2>2, <2>4, <2>6, <4>1, <4>2
      <3>2. CASE ~(Used(root) > 0 \/ I # {})
        BY <1>0, <1>1, <1>2, <2>1, <3>2
      <3> QED BY <3>1, <3>2
    <2> QED BY <2>5, <2>6
  <1>8. ASSUME NEW r \in Requests, RequestStep(r), ~CreateCampaign(r)
        PROVE  /\ plan'[root].entitlement = "blocked" =>
                    Used(root)' = 0 /\ Inserting(root)' = {}
               /\ Used(root)' > 0 \/ Inserting(root)' # {} =>
                    Used(root)' + Cardinality(Inserting(root)') <
                      Limit(plan'[root], plan'[root].campaigns, Used(root)')
                        + Cardinality(Requests)
    <2>1. \A q \in Requests \ {r} : request'[q] = request[q]
      BY <1>8, RequestMoves
    <2>2. \A q \in Requests : ~CreateCampaign(q)
      <3> SUFFICES ASSUME NEW q \in Requests \ {r}, CreateCampaign(q) PROVE FALSE
        BY <1>8
      <3>1. request[q].pc = "insert" /\ request' = [request EXCEPT ![q] = RequestIdle]
        BY DEF CreateCampaign, Asking
      <3>2. request'[q].pc = "idle"
        BY <1>0, <3>1, IdleTyped
      <3> QED BY <2>1, <3>1, <3>2
    <2>3. Used(root)' = Used(root)
      BY <2>2, UsedStays
    <2>4. request[r].pc # "insert"
      BY <1>8 DEF RequestStep, ResolvePoolRoot, ReadPlan, ReadClaimed, CountCampaigns, Asking
    <2>5. CASE r \notin Inserting(root)'
      <3>1. Inserting(root)' = Inserting(root)
        BY <2>1, <2>4, <2>5 DEF Inserting
      <3> QED BY <1>5, <2>3, <3>1
    <2>6. CASE r \in Inserting(root)'
      <3>1. request'[r].pc = "insert" /\ request'[r].root = root
        BY <2>6 DEF Inserting
      <3>2. /\ CountCampaigns(r) /\ request[r].root = root
            /\ LET used == Cardinality(CampaignsOf(Pool(request[r].root, request[r].claimed)))
               IN  used < Limit(request[r].plan, request[r].plan.campaigns, used)
        BY <1>8, <3>1, RequestMoves
      <3>3. request[r].pc = "count" /\ root \notin loosened
        BY <1>0, <3>2 DEF CountCampaigns, Asking, Untouched
      <3>4. Knows(r)
        BY <3>2, <3>3 DEF RaceInv, RequestsKnow
      <3>5. /\ request[r].plan = plan[root]
            /\ Pool(root, request[r].claimed) = Pool(root, ClaimedClients)
        BY <3>2, <3>3, <3>4 DEF Knows, Pool
      <3>6. Used(root) < Limit(plan[root], plan[root].campaigns, Used(root))
        BY <3>2, <3>5 DEF Used
      <3>7. plan[root].entitlement # "blocked"
        BY <1>1, <3>6, LimitFacts
      <3>8. Cardinality(Inserting(root)') <= Cardinality(Requests)
            /\ Cardinality(Inserting(root)') \in Nat
        <4>1. Inserting(root)' \in SUBSET Requests
          BY DEF Inserting
        <4> QED BY <4>1, FiniteAssumption, FS_Subset, FS_CardinalityType
      <3> QED BY <1>0, <1>1, <1>4, <2>3, <3>6, <3>7, <3>8
    <2> QED BY <2>5, <2>6
  <1> QED BY <1>6, <1>7, <1>8, RequestWrites

\* Requests race past the campaign limit by less than there are of them,
\* in every pool whose plan and companies have not changed and that Meta's
\* synchronisation adds nothing to.
THEOREM RaceOverrun == Spec => []RaceOverrunIsBounded
  <1>1. TypeOK /\ RaceInv /\ [Next]_vars => RaceInv'
    BY SweepKnowsStep, RequestsKnowStep, CountBoundedStep DEF RaceInv
  <1>2. TypeOK /\ RaceInv => RaceOverrunIsBounded
    <2> SUFFICES ASSUME TypeOK, RaceInv, NEW root \in Untouched, Used(root) > 0
                 PROVE  Used(root) < Limit(plan[root], plan[root].campaigns, Used(root))
                                       + Cardinality(Requests)
      BY DEF RaceOverrunIsBounded, Untouched, Used
    <2>1. Tables /\ root \in Companies
      BY TypeParts DEF Untouched
    <2>2. /\ Used(root) \in Nat /\ Cardinality(Inserting(root)) \in Nat
          /\ Cardinality(Requests) \in Nat /\ plan[root] \in PlanState
      BY <2>1, CampaignsFinite, InsertingFinite, PlansArePlanStates DEF Used, Tables
    <2>3. Limit(plan[root], plan[root].campaigns, Used(root)) \in Nat
      BY <2>2, LimitFacts
    <2>4. Used(root) + Cardinality(Inserting(root)) <
            Limit(plan[root], plan[root].campaigns, Used(root)) + Cardinality(Requests)
      BY DEF RaceInv, CountBounded
    <2> QED BY <2>2, <2>3, <2>4
  <1> QED BY <1>1, <1>2, TypeInit, TypeStep, RaceInit, PTL DEF Spec

-----------------------------------------------------------------------------
(* What an undisturbed sweep achieves.                                     *)

\* Keeping the oldest `limit` keeps no more than that: the number of older
\* ones tells those kept apart.
LEMMA KeptCard ==
    ASSUME NEW S, IsFiniteSet(S), S \subseteq Nat, NEW limit \in Nat
    PROVE  Cardinality(S \ Excess(S, limit)) <= limit
  <1> DEFINE Older(k) == {j \in S : j < k}
             K == S \ Excess(S, limit)
             f == [k \in K |-> Cardinality(Older(k))]
             T == 0..(limit - 1)
  <1>1. \A k \in S : IsFiniteSet(Older(k)) /\ Cardinality(Older(k)) \in Nat
    BY FS_Subset, FS_CardinalityType
  <1>2. ASSUME NEW k \in S, NEW m \in S, k < m
        PROVE  Cardinality(Older(k)) < Cardinality(Older(m))
    <2>1. Older(k) \in SUBSET Older(m)
      <3>1. k \in Nat /\ m \in Nat /\ \A j \in S : j \in Nat
        OBVIOUS
      <3>2. \A j \in S : j < k => j < m
        BY <1>2, <3>1
      <3> QED BY <3>2
    <2>2. k \in Older(m) /\ k \notin Older(k)
      BY <1>2
    <2>3. /\ Cardinality(Older(k)) <= Cardinality(Older(m))
          /\ Cardinality(Older(m)) = Cardinality(Older(k)) => Older(m) = Older(k)
      BY <1>1, <2>1, FS_Subset
    <2> QED BY <1>1, <2>2, <2>3
  <1>3. \A k \in K : Cardinality(Older(k)) \in T
    BY <1>1 DEF Excess
  <1> HIDE DEF Older
  <1>4. f \in [K -> T]
    BY <1>3
  <1>5. \A k, m \in K : f[k] = f[m] => k = m
    <2> SUFFICES ASSUME NEW k \in K, NEW m \in K, f[k] = f[m], k # m PROVE FALSE
      OBVIOUS
    <2>1. k \in S /\ m \in S /\ k \in Nat /\ m \in Nat
      OBVIOUS
    <2>2. Cardinality(Older(k)) = Cardinality(Older(m))
      OBVIOUS
    <2>3. Cardinality(Older(k)) \in Nat /\ Cardinality(Older(m)) \in Nat
      BY <1>1, <2>1
    <2>4. k < m \/ m < k
      BY <2>1
    <2> QED BY <1>2, <2>1, <2>2, <2>3, <2>4
  <1> HIDE DEF f, K
  <1>6. f \in Injection(K, T)
    BY <1>4, <1>5 DEF Injection, IsInjective
  <1>7. IsFiniteSet(T) /\ Cardinality(T) = limit
    BY FS_Interval
  <1>8. Cardinality(K) <= limit
    BY <1>6, <1>7, FS_Injection
  <1> QED BY <1>8 DEF K

LEMMA SmallerCard ==
    ASSUME NEW S, IsFiniteSet(S), NEW T \in SUBSET S, NEW n \in Nat, Cardinality(S) <= n
    PROVE  Cardinality(T) <= n
  <1>1. Cardinality(T) <= Cardinality(S) /\ IsFiniteSet(T)
    BY FS_Subset
  <1>2. Cardinality(T) \in Nat /\ Cardinality(S) \in Nat
    BY <1>1, FS_CardinalityType
  <1> QED BY <1>1, <1>2

Unclaimed == Companies \ ClaimedClients
Runs(root) == Running(Pool(root, ClaimedClients))
CampaignRoom(root) ==
    Limit(plan[root], plan[root].campaigns, Cardinality(CampaignsOf(Pool(root, ClaimedClients))))
ClientRoom == Limit(plan[Agency], plan[Agency].clients, Cardinality(ClaimedClients))
InHand(root) == sweep.pc \in {"claimed", "campaigns", "write"} /\ sweep.root = root

\* What the sweep has read is still so.
SnapshotsCurrent ==
    /\ \A k \in sweep.suspend : link[linked[k]] \in Claimed
    /\ sweep.todo \subseteq Unclaimed
    /\ \A root \in Companies : InHand(root) =>
          /\ root \in Unclaimed /\ sweep.plan = plan[root]
          /\ root = Agency /\ sweep.pc # "claimed" => sweep.claimed = ClaimedClients

\* The companies it is done with are within their limits, and the one in hand
\* will be once what is listed is written.
CampaignsDone ==
    \A root \in Unclaimed \ sweep.todo :
        /\ InHand(root) /\ sweep.pc = "write"
             => Cardinality(Runs(root) \ sweep.pause) <= CampaignRoom(root)
        /\ ~InHand(root) => Cardinality(Runs(root)) <= CampaignRoom(root)
ClientsDone ==
    Agency \notin sweep.todo =>
        /\ InHand(Agency) /\ sweep.pc # "claimed"
             => Cardinality(Current \ sweep.suspend) <= ClientRoom
        /\ ~InHand(Agency) => Cardinality(Current) <= ClientRoom

QuietInv ==
    calm # "no" =>
        /\ SnapshotsCurrent
        /\ calm = "settled" => Within
        /\ calm = "sweeping" => sweep.pc # "idle" /\ CampaignsDone /\ ClientsDone

\* A sweep's own writes: nothing starts to run or to be claimed.
Frame ==
    /\ plan' = plan /\ linked' = linked /\ ClaimedClients' = ClaimedClients
    /\ DOMAIN rows' = DOMAIN rows
    /\ \A i \in DOMAIN rows : /\ rows'[i].owner = rows[i].owner
                              /\ rows'[i].st = "running" => rows[i].st = "running"
    /\ \A k \in DOMAIN linked : link'[linked[k]] \in {"invited", "active"}
                                  => link[linked[k]] \in {"invited", "active"}

LEMMA FrameKeeps ==
    ASSUME TypeOK, Frame
    PROVE  /\ Unclaimed' = Unclaimed /\ ClientRoom' = ClientRoom /\ Current' \subseteq Current
           /\ \A root \in Companies : /\ CampaignRoom(root)' = CampaignRoom(root)
                                      /\ Runs(root)' \subseteq Runs(root)
  <1>1. Unclaimed' = Unclaimed
    BY DEF Frame, Unclaimed
  <1>2. ClientRoom' = ClientRoom
    BY DEF Frame, ClientRoom
  <1>3. Current' \subseteq Current
    BY DEF Frame, Current
  <1>4. ASSUME NEW root \in Companies
        PROVE  CampaignRoom(root)' = CampaignRoom(root) /\ Runs(root)' \subseteq Runs(root)
    <2> DEFINE P == Pool(root, ClaimedClients)
    <2>1. Pool(root, ClaimedClients)' = P
      BY DEF Frame, Pool
    <2>2. CampaignsOf(P) = {i \in DOMAIN rows : rows[i].owner \in P}
      BY DEF CampaignsOf
    <2>3. CampaignsOf(Pool(root, ClaimedClients))' = {i \in DOMAIN rows' : rows'[i].owner \in P}
      BY <2>1 DEF CampaignsOf
    <2> HIDE DEF P
    <2>4. {i \in DOMAIN rows' : rows'[i].owner \in P} = {i \in DOMAIN rows : rows[i].owner \in P}
      BY DEF Frame
    <2>5. CampaignsOf(Pool(root, ClaimedClients))' = CampaignsOf(Pool(root, ClaimedClients))
      BY <2>2, <2>3, <2>4 DEF P
    <2>6. CampaignRoom(root)' = CampaignRoom(root)
      BY <2>5 DEF CampaignRoom, Frame
    <2>7. CampaignsOf(Pool(root, ClaimedClients)) \subseteq DOMAIN rows
      BY DEF CampaignsOf
    <2>8. Runs(root)' \subseteq Runs(root)
      BY <2>5, <2>7 DEF Runs, Running, Frame
    <2> QED BY <2>6, <2>8
  <1> QED BY <1>1, <1>2, <1>3, <1>4

LEMMA QuietTypes ==
    ASSUME TypeOK
    PROVE  /\ IsFiniteSet(Current) /\ ClientRoom \in Nat /\ Current \subseteq Nat
           /\ \A root \in Companies : /\ IsFiniteSet(Runs(root)) /\ CampaignRoom(root) \in Nat
                                      /\ Runs(root) \subseteq Nat
  <1>0. Tables
    BY TypeParts
  <1>1. IsFiniteSet(Current) /\ Current \subseteq Nat
    <2>1. DOMAIN linked = 1..Len(linked) /\ Len(linked) \in Nat
      BY <1>0 DEF Tables
    <2>2. IsFiniteSet(DOMAIN linked) /\ Current \in SUBSET DOMAIN linked
      BY <2>1, FS_Interval DEF Current
    <2> QED BY <2>1, <2>2, FS_Subset
  <1>2. Cardinality(ClaimedClients) \in Nat
    <2>1. ClaimedClients \in SUBSET Clients
      BY DEF ClaimedClients
    <2> QED BY <2>1, FiniteAssumption, FS_Subset, FS_CardinalityType
  <1>3. \A root \in Companies : plan[root] \in PlanState
    BY <1>0, PlansArePlanStates DEF Tables
  <1>4. ClientRoom \in Nat
    BY <1>2, <1>3 DEF ClientRoom, Limit, TrialLimit, PlanState, Companies
  <1>5. ASSUME NEW root \in Companies
        PROVE  IsFiniteSet(Runs(root)) /\ CampaignRoom(root) \in Nat /\ Runs(root) \subseteq Nat
    <2>1. /\ IsFiniteSet(CampaignsOf(Pool(root, ClaimedClients)))
          /\ Cardinality(CampaignsOf(Pool(root, ClaimedClients))) \in Nat
      BY <1>0, CampaignsFinite
    <2>2. Runs(root) \in SUBSET CampaignsOf(Pool(root, ClaimedClients))
      BY DEF Runs, Running
    <2>3. CampaignsOf(Pool(root, ClaimedClients)) \subseteq Nat
      BY <1>0 DEF CampaignsOf, Tables
    <2> QED BY <1>3, <2>1, <2>2, <2>3, FS_Subset, LimitFacts DEF CampaignRoom
  <1> QED BY <1>1, <1>4, <1>5

LEMMA WithinIs ==
    Within <=> /\ \A root \in Unclaimed : Cardinality(Runs(root)) <= CampaignRoom(root)
               /\ Cardinality(Current) <= ClientRoom
  BY DEF Within, Unclaimed, Runs, CampaignRoom, ClientRoom

LEMMA WithinNext ==
    ASSUME /\ \A root \in Unclaimed' : Cardinality(Runs(root)') <= CampaignRoom(root)'
           /\ Cardinality(Current') <= ClientRoom'
    PROVE  Within'
  BY DEF Within, Unclaimed, Runs, CampaignRoom, ClientRoom

\* What is within the limits stays so.
LEMMA FrameWithin ==
    ASSUME TypeOK, Frame, Within PROVE Within'
  <1>1. Cardinality(Current') <= ClientRoom'
    BY FrameKeeps, QuietTypes, WithinIs, SmallerCard
  <1>2. ASSUME NEW root \in Unclaimed' PROVE Cardinality(Runs(root)') <= CampaignRoom(root)'
    <2>1. root \in Unclaimed /\ root \in Companies
      BY FrameKeeps DEF Unclaimed
    <2>2. Cardinality(Runs(root)) <= CampaignRoom(root)
      BY <2>1, WithinIs
    <2> QED BY <2>1, <2>2, FrameKeeps, QuietTypes, SmallerCard
  <1> QED BY <1>1, <1>2, WithinNext

\* Nothing but a sweep that fails nowhere leaves the observer calm.
LEMMA CalmSteps ==
    ASSUME [Next]_vars, calm' # "no"
    PROVE  UNCHANGED <<plan, rows, link, linked, sweep, calm>> \/ SweepRuns
  <1>1. CASE UNCHANGED vars
    BY <1>1 DEF vars
  <1>2. ASSUME NEW company \in Companies, NEW p \in Plans, PlanChanges(company, p) PROVE FALSE
    BY <1>2 DEF PlanChanges, Disturb
  <1>3. ASSUME NEW c \in Clients, NEW status \in Claimed \cup {"removed"}, LinkChanges(c, status)
        PROVE  FALSE
    BY <1>3 DEF LinkChanges, Disturb
  <1>4. ASSUME NEW i \in DOMAIN rows, NEW status \in CampaignStatuses, SetStatus(i, status)
        PROVE  FALSE
    BY <1>4 DEF SetStatus, Disturb
  <1>5. ASSUME NEW company \in Companies, SyncCampaign(company) PROVE FALSE
    BY <1>5 DEF SyncCampaign
  <1>6. ASSUME NEW r \in Requests, RequestStep(r)
        PROVE  UNCHANGED <<plan, rows, link, linked, sweep, calm>>
    BY <1>6 DEF RequestStep, ResolvePoolRoot, ReadPlan, ReadClaimed, CountCampaigns,
                CreateCampaign, Quiet
  <1>7. ~SweepSkips /\ ~SweepCrash
    BY DEF SweepSkips, SweepCrash
  <1> QED BY <1>1, <1>2, <1>3, <1>4, <1>5, <1>6, <1>7, Zenon DEF Next

\* A sweep that has begun needs a list it read to begin again.
LEMMA CalmBefore ==
    ASSUME SweepRuns, calm' # "no" PROVE calm # "no" \/ SweepListRoots
  BY DEF SweepRuns, SweepReadClaimed, SweepReadCampaigns, SweepNext, SweepDone, SweepReadPlan,
         SweepPause, SweepSuspend

LEMMA FrameOfReads ==
    ASSUME UNCHANGED <<plan, rows, link, linked>> PROVE Frame
  BY DEF Frame, ClaimedClients

LEMMA SweepFrame ==
    ASSUME TypeOK, SweepRuns, SnapshotsCurrent \/ SweepListRoots
    PROVE  Frame
  <1>0. Tables /\ sweep \in SweepStates
    BY TypeParts
  <1>1. CASE SweepListRoots
    BY <1>1, FrameOfReads DEF SweepListRoots, Still
  <1>2. CASE SweepReadClaimed
    BY <1>2, FrameOfReads DEF SweepReadClaimed, Still
  <1>3. CASE SweepReadCampaigns
    BY <1>3, FrameOfReads DEF SweepReadCampaigns, Still
  <1>4. CASE SweepNext
    BY <1>4, FrameOfReads DEF SweepNext, Still
  <1>5. CASE SweepDone
    BY <1>5, FrameOfReads DEF SweepDone, Still
  <1>6. ASSUME NEW root \in Companies, SweepReadPlan(root) PROVE Frame
    BY <1>6, FrameOfReads DEF SweepReadPlan, Still
  <1>7. ASSUME NEW i \in DOMAIN rows, SweepPause(i) PROVE Frame
    <2>1. DOMAIN rows' = DOMAIN rows
          /\ \A j \in DOMAIN rows : /\ rows'[j].owner = rows[j].owner
                                    /\ rows'[j].st = IF j = i THEN "paused" ELSE rows[j].st
      BY <1>0, <1>7, StatusTyped DEF SweepPause, CampaignStatuses
    <2> QED BY <1>7, <2>1 DEF SweepPause, Still, Frame, ClaimedClients
  <1>8. ASSUME NEW k \in DOMAIN linked, SweepSuspend(k) PROVE Frame
    <2>1. k \in sweep.suspend /\ link' = [link EXCEPT ![linked[k]] = "suspended"]
          /\ UNCHANGED <<plan, rows, linked>>
      BY <1>8 DEF SweepSuspend, Still
    <2>2. SnapshotsCurrent
      <3>1. ~SweepListRoots
        BY <1>8 DEF SweepListRoots, SweepSuspend, Sweeping
      <3> QED BY <3>1
    <2>3. link[linked[k]] \in Claimed
      BY <2>1, <2>2 DEF SnapshotsCurrent
    <2>4. linked[k] \in Clients /\ \A j \in DOMAIN linked : linked[j] \in Clients
      BY <1>0 DEF Tables
    <2>5. \A c \in Clients : link'[c] = IF c = linked[k] THEN "suspended" ELSE link[c]
      BY <1>0, <2>1 DEF Tables
    <2>6. ClaimedClients' = ClaimedClients
      BY <2>3, <2>5 DEF ClaimedClients, Claimed
    <2> QED BY <2>1, <2>4, <2>5, <2>6 DEF Frame
  <1> QED BY <1>1, <1>2, <1>3, <1>4, <1>5, <1>6, <1>7, <1>8, Zenon DEF SweepRuns

\* What the sweep lists to suspend is claimed, and stays so.
LEMMA SnapshotsStep ==
    ASSUME TypeOK, SweepRuns, SnapshotsCurrent \/ SweepListRoots
    PROVE  SnapshotsCurrent'
  <1>0. Tables /\ sweep \in SweepStates /\ Frame
    BY TypeParts, SweepFrame
  <1>1. Unclaimed' = Unclaimed /\ ClaimedClients' = ClaimedClients /\ plan' = plan
        /\ linked' = linked
    BY <1>0, FrameKeeps DEF Frame
  <1>2. \A k \in DOMAIN linked : link[linked[k]] \in Claimed => link'[linked[k]] \in Claimed
    <2>1. \A k \in DOMAIN linked : linked[k] \in Clients
      BY <1>0 DEF Tables
    <2> QED BY <1>1, <2>1 DEF ClaimedClients
  <1>3. CASE SweepListRoots
    <2>1. sweep' = [SweepIdle EXCEPT !.pc = "next", !.todo = Companies \ ClaimedClients]
      BY <1>3 DEF SweepListRoots
    <2>2. sweep'.pc = "next" /\ sweep'.todo = Unclaimed /\ sweep'.suspend = {}
      BY <2>1, IdleTyped DEF SweepIdle, Unclaimed
    <2> QED BY <1>1, <2>2 DEF SnapshotsCurrent, InHand
  <1>4. CASE ~SweepListRoots
    <2>0. SnapshotsCurrent
      BY <1>4
    <2>1. /\ sweep'.todo \subseteq Unclaimed
          /\ \A k \in sweep'.suspend : k \in DOMAIN linked /\ link[linked[k]] \in Claimed
          /\ \A root \in Companies :
                sweep'.pc \in {"claimed", "campaigns", "write"} /\ sweep'.root = root =>
                  /\ root \in Unclaimed /\ sweep'.plan = plan[root]
                  /\ root = Agency /\ sweep'.pc # "claimed" => sweep'.claimed = ClaimedClients
      <3> DEFINE Goal ==
             /\ sweep'.todo \subseteq Unclaimed
             /\ \A k \in sweep'.suspend : k \in DOMAIN linked /\ link[linked[k]] \in Claimed
             /\ \A root \in Companies :
                sweep'.pc \in {"claimed", "campaigns", "write"} /\ sweep'.root = root =>
                  /\ root \in Unclaimed /\ sweep'.plan = plan[root]
                  /\ root = Agency /\ sweep'.pc # "claimed" => sweep'.claimed = ClaimedClients
      <3>0. /\ sweep.todo \subseteq Unclaimed
            /\ \A k \in sweep.suspend : k \in DOMAIN linked /\ link[linked[k]] \in Claimed
            /\ \A root \in Companies :
                sweep.pc \in {"claimed", "campaigns", "write"} /\ sweep.root = root =>
                  /\ root \in Unclaimed /\ sweep.plan = plan[root]
                  /\ root = Agency /\ sweep.pc # "claimed" => sweep.claimed = ClaimedClients
        BY <1>0, <2>0 DEF SnapshotsCurrent, SweepStates, InHand
      <3>1. ASSUME SweepReadClaimed PROVE Goal
        <4>1. /\ sweep.pc = "claimed"
              /\ sweep' = [sweep EXCEPT !.claimed = ClaimedClients,
                                        !.suspend = ExcessClients(sweep.plan), !.pc = "campaigns"]
          BY <3>1 DEF SweepReadClaimed, Sweeping
        <4>2. /\ sweep'.pc = "campaigns" /\ sweep'.claimed = ClaimedClients
              /\ sweep'.suspend = ExcessClients(sweep.plan) /\ sweep'.todo = sweep.todo
              /\ sweep'.root = sweep.root /\ sweep'.plan = sweep.plan
          BY <1>0, <4>1 DEF SweepStates
        <4>3. \A k \in ExcessClients(sweep.plan) : k \in DOMAIN linked /\ link[linked[k]] \in Claimed
          BY DEF ExcessClients, Excess, Current, Claimed
        <4> QED BY <3>0, <4>1, <4>2, <4>3
      <3>2. ASSUME SweepReadCampaigns PROVE Goal
        <4>1. /\ sweep.pc = "campaigns"
              /\ sweep' = [sweep EXCEPT
                             !.pause = ExcessCampaigns(sweep.root, sweep.plan, sweep.claimed),
                             !.pc = "write"]
          BY <3>2 DEF SweepReadCampaigns, Sweeping
        <4>2. /\ sweep'.pc = "write" /\ sweep'.claimed = sweep.claimed
              /\ sweep'.suspend = sweep.suspend /\ sweep'.todo = sweep.todo
              /\ sweep'.root = sweep.root /\ sweep'.plan = sweep.plan
          BY <1>0, <4>1 DEF SweepStates
        <4> QED BY <3>0, <4>1, <4>2
      <3>3. ASSUME SweepNext \/ SweepDone PROVE Goal
        <4>1. \/ sweep' = SweepIdle
              \/ sweep' = [sweep EXCEPT !.pc = "next"]
          BY <3>3 DEF SweepNext, SweepDone
        <4>2. /\ sweep'.pc \in {"idle", "next"} /\ sweep'.todo \in {{}, sweep.todo}
              /\ sweep'.suspend \in {{}, sweep.suspend}
          BY <1>0, <4>1, IdleTyped DEF SweepStates
        <4> QED BY <3>0, <4>2
      <3>4. ASSUME NEW root \in Companies, SweepReadPlan(root) PROVE Goal
        <4>1. /\ root \in sweep.todo
              /\ sweep' = [sweep EXCEPT !.todo = sweep.todo \ {root}, !.root = root,
                              !.plan = plan[root],
                              !.pc = IF root = Agency THEN "claimed" ELSE "campaigns",
                              !.claimed = {}]
          BY <3>4 DEF SweepReadPlan
        <4>2. /\ sweep'.pc = (IF root = Agency THEN "claimed" ELSE "campaigns")
              /\ sweep'.suspend = sweep.suspend /\ sweep'.todo = sweep.todo \ {root}
              /\ sweep'.root = root /\ sweep'.plan = plan[root]
          BY <1>0, <4>1 DEF SweepStates
        <4> QED BY <3>0, <4>1, <4>2
      <3>5. ASSUME NEW i \in DOMAIN rows, SweepPause(i) PROVE Goal
        <4>1. sweep' = [sweep EXCEPT !.pause = sweep.pause \ {i}]
          BY <3>5 DEF SweepPause
        <4>2. /\ sweep'.pc = sweep.pc /\ sweep'.claimed = sweep.claimed
              /\ sweep'.suspend = sweep.suspend /\ sweep'.todo = sweep.todo
              /\ sweep'.root = sweep.root /\ sweep'.plan = sweep.plan
          BY <1>0, <4>1 DEF SweepStates
        <4> QED BY <3>0, <4>2
      <3>6. ASSUME NEW k \in DOMAIN linked, SweepSuspend(k) PROVE Goal
        <4>1. sweep' = [sweep EXCEPT !.suspend = sweep.suspend \ {k}]
          BY <3>6 DEF SweepSuspend
        <4>2. /\ sweep'.pc = sweep.pc /\ sweep'.claimed = sweep.claimed
              /\ sweep'.suspend = sweep.suspend \ {k} /\ sweep'.todo = sweep.todo
              /\ sweep'.root = sweep.root /\ sweep'.plan = sweep.plan
          BY <1>0, <4>1 DEF SweepStates
        <4> QED BY <3>0, <4>2
      <3> HIDE DEF Goal
      <3>7. Goal
        BY <1>4, <3>1, <3>2, <3>3, <3>4, <3>5, <3>6, Zenon DEF SweepRuns
      <3> QED BY <3>7 DEF Goal
    <2>2. \A k \in sweep'.suspend : link'[linked'[k]] \in Claimed
      BY <1>1, <1>2, <2>1
    <2> QED BY <1>1, <2>1, <2>2 DEF SnapshotsCurrent, InHand
  <1> QED BY <1>3, <1>4

\* What is within its limit stays so, company by company.
LEMMA RoomKept ==
    ASSUME TypeOK, Frame
    PROVE  /\ Cardinality(Current) <= ClientRoom => Cardinality(Current') <= ClientRoom'
           /\ \A root \in Companies : Cardinality(Runs(root)) <= CampaignRoom(root)
                                        => Cardinality(Runs(root)') <= CampaignRoom(root)'
  <1>1. Cardinality(Current) <= ClientRoom => Cardinality(Current') <= ClientRoom'
    BY FrameKeeps, QuietTypes, SmallerCard
  <1>2. ASSUME NEW root \in Companies, Cardinality(Runs(root)) <= CampaignRoom(root)
        PROVE  Cardinality(Runs(root)') <= CampaignRoom(root)'
    BY <1>2, FrameKeeps, QuietTypes, SmallerCard
  <1> QED BY <1>1, <1>2

\* What remains when the list of a company's excess campaigns is written, and
\* that of the agency's excess clients.
LEMMA ListedCampaigns ==
    ASSUME TypeOK, NEW root \in Companies
    PROVE  /\ Cardinality(Runs(root) \ ExcessCampaigns(root, plan[root], ClaimedClients))
                <= CampaignRoom(root)
           /\ root # Agency => \A claimed \in SUBSET Clients :
                ExcessCampaigns(root, plan[root], claimed) =
                  ExcessCampaigns(root, plan[root], ClaimedClients)
  <1>1. ExcessCampaigns(root, plan[root], ClaimedClients) = Excess(Runs(root), CampaignRoom(root))
    BY DEF ExcessCampaigns, Runs, CampaignRoom
  <1>2. IsFiniteSet(Runs(root)) /\ CampaignRoom(root) \in Nat /\ Runs(root) \subseteq Nat
    BY QuietTypes
  <1>3. root # Agency => \A claimed \in SUBSET Clients :
          Pool(root, claimed) = Pool(root, ClaimedClients)
    BY DEF Pool
  <1> QED BY <1>1, <1>2, <1>3, KeptCard DEF ExcessCampaigns

LEMMA ListedClients ==
    ASSUME TypeOK
    PROVE  Cardinality(Current \ ExcessClients(plan[Agency])) <= ClientRoom
  <1>1. ExcessClients(plan[Agency]) = Excess(Current, ClientRoom)
    BY DEF ExcessClients, ClientRoom
  <1> QED BY <1>1, QuietTypes, KeptCard

LEMMA AgencyUnclaimed == Agency \in Companies /\ Agency \in Unclaimed
  BY DEF Companies, Unclaimed, ClaimedClients

\* A step keeps what is done done.
LEMMA DoneStep ==
    ASSUME TypeOK, SweepRuns, QuietInv, calm' = "sweeping"
    PROVE  sweep'.pc # "idle" /\ CampaignsDone' /\ ClientsDone'
  <1>0. Tables /\ sweep \in SweepStates
    BY TypeParts
  <1>1. SnapshotsCurrent \/ SweepListRoots
    BY CalmBefore DEF QuietInv
  <1>2. Frame
    BY <1>1, SweepFrame
  <1>3. Unclaimed' = Unclaimed /\ ClientRoom' = ClientRoom /\ Current' \subseteq Current
        /\ \A root \in Companies : /\ CampaignRoom(root)' = CampaignRoom(root)
                                   /\ Runs(root)' \subseteq Runs(root)
    BY <1>2, FrameKeeps
  <1>4. /\ Cardinality(Current) <= ClientRoom => Cardinality(Current') <= ClientRoom'
        /\ \A root \in Companies : Cardinality(Runs(root)) <= CampaignRoom(root)
                                     => Cardinality(Runs(root)') <= CampaignRoom(root)'
    BY <1>2, RoomKept
  <1>5. Unclaimed \subseteq Companies
    BY DEF Unclaimed
  <1> DEFINE Busy(s, root) == s.pc \in {"claimed", "campaigns", "write"} /\ s.root = root
             Campaigns ==
               \A root \in Unclaimed \ sweep'.todo :
                  /\ Busy(sweep', root) /\ sweep'.pc = "write"
                       => Cardinality(Runs(root)' \ sweep'.pause) <= CampaignRoom(root)
                  /\ ~Busy(sweep', root) => Cardinality(Runs(root)') <= CampaignRoom(root)
             Customers ==
               Agency \notin sweep'.todo =>
                  /\ Busy(sweep', Agency) /\ sweep'.pc # "claimed"
                       => Cardinality(Current' \ sweep'.suspend) <= ClientRoom
                  /\ ~Busy(sweep', Agency) => Cardinality(Current') <= ClientRoom
             Goal == sweep'.pc # "idle" /\ Campaigns /\ Customers
  <1>6. ASSUME SweepListRoots PROVE Goal
    <2>1. sweep' = [SweepIdle EXCEPT !.pc = "next", !.todo = Companies \ ClaimedClients]
      BY <1>6 DEF SweepListRoots
    <2>2. sweep'.pc = "next" /\ sweep'.todo = Unclaimed
      BY <2>1 DEF SweepIdle, Unclaimed
    <2> QED BY <2>2, AgencyUnclaimed
  <1>7. ASSUME ~SweepListRoots
        PROVE  /\ SnapshotsCurrent /\ sweep.pc # "idle" /\ ~SweepDone
               /\ \A root \in Unclaimed \ sweep.todo :
                    /\ Busy(sweep, root) /\ sweep.pc = "write"
                         => Cardinality(Runs(root) \ sweep.pause) <= CampaignRoom(root)
                    /\ ~Busy(sweep, root) => Cardinality(Runs(root)) <= CampaignRoom(root)
               /\ Agency \notin sweep.todo =>
                    /\ Busy(sweep, Agency) /\ sweep.pc # "claimed"
                         => Cardinality(Current \ sweep.suspend) <= ClientRoom
                    /\ ~Busy(sweep, Agency) => Cardinality(Current) <= ClientRoom
    <2>1. calm = "sweeping" /\ ~SweepDone
      BY <1>7, Zenon DEF SweepRuns, SweepReadClaimed, SweepReadCampaigns, SweepNext, SweepDone,
               SweepReadPlan, SweepPause, SweepSuspend
    <2>2. SnapshotsCurrent /\ sweep.pc # "idle" /\ CampaignsDone /\ ClientsDone
      BY <2>1 DEF QuietInv
    <2> QED BY <2>1, <2>2 DEF CampaignsDone, ClientsDone, InHand
  <1>8. ASSUME SweepReadClaimed PROVE Goal
    <2>1. /\ sweep.pc = "claimed"
          /\ sweep' = [sweep EXCEPT !.claimed = ClaimedClients,
                                    !.suspend = ExcessClients(sweep.plan), !.pc = "campaigns"]
          /\ UNCHANGED <<plan, rows, link, linked>>
      BY <1>8 DEF SweepReadClaimed, Sweeping, Still
    <2>2. /\ sweep'.pc = "campaigns" /\ sweep'.suspend = ExcessClients(sweep.plan)
          /\ sweep'.todo = sweep.todo /\ sweep'.root = sweep.root
      BY <1>0, <2>1 DEF SweepStates
    <2>3. ~SweepListRoots
      BY <2>1 DEF SweepListRoots, Sweeping
    <2>4. Campaigns
      BY <1>3, <1>4, <1>5, <1>7, <2>1, <2>2, <2>3
    <2>5. Customers
      <3>1. ASSUME sweep.root = Agency PROVE Cardinality(Current' \ sweep'.suspend) <= ClientRoom
        <4>1. sweep.plan = plan[Agency]
          BY <1>7, <2>1, <2>3, <3>1, AgencyUnclaimed DEF SnapshotsCurrent, InHand
        <4>2. Current' = Current
          BY <2>1 DEF Current
        <4> QED BY <2>2, <4>1, <4>2, ListedClients
      <3> QED BY <1>3, <1>4, <1>7, <2>1, <2>2, <2>3, <3>1
    <2> QED BY <2>2, <2>4, <2>5
  <1>9. ASSUME SweepReadCampaigns PROVE Goal
    <2>1. /\ sweep.pc = "campaigns"
          /\ sweep' = [sweep EXCEPT
                         !.pause = ExcessCampaigns(sweep.root, sweep.plan, sweep.claimed),
                         !.pc = "write"]
          /\ UNCHANGED <<plan, rows, link, linked>>
      BY <1>9 DEF SweepReadCampaigns, Sweeping, Still
    <2>2. /\ sweep'.pc = "write" /\ sweep'.suspend = sweep.suspend
          /\ sweep'.pause = ExcessCampaigns(sweep.root, sweep.plan, sweep.claimed)
          /\ sweep'.todo = sweep.todo /\ sweep'.root = sweep.root
      BY <1>0, <2>1 DEF SweepStates
    <2>3. ~SweepListRoots
      BY <2>1 DEF SweepListRoots, Sweeping
    <2>4. Campaigns
      <3>1. ASSUME NEW root \in Companies, sweep.root = root
            PROVE  Cardinality(Runs(root)' \ sweep'.pause) <= CampaignRoom(root)
        <4>1. /\ sweep.plan = plan[root]
              /\ root = Agency => sweep.claimed = ClaimedClients
          BY <1>7, <2>1, <2>3, <3>1 DEF SnapshotsCurrent, InHand
        <4>2. sweep.claimed \in SUBSET Clients
          BY <1>0 DEF SweepStates
        <4>3. ExcessCampaigns(sweep.root, sweep.plan, sweep.claimed) =
                ExcessCampaigns(root, plan[root], ClaimedClients)
          BY <3>1, <4>1, <4>2, ListedCampaigns
        <4>4. Runs(root)' = Runs(root)
          BY <2>1 DEF Runs, Running, CampaignsOf, Pool, ClaimedClients
        <4> QED BY <2>2, <4>3, <4>4, ListedCampaigns
      <3> QED BY <1>3, <1>4, <1>5, <1>7, <2>1, <2>2, <2>3, <3>1
    <2>5. Customers
      <3>1. Current' = Current
        BY <2>1 DEF Current
      <3> QED BY <1>3, <1>4, <1>7, <2>1, <2>2, <2>3, <3>1
    <2> QED BY <2>2, <2>4, <2>5
  <1>10. ASSUME SweepNext PROVE Goal
    <2>1. /\ sweep.pc = "write" /\ sweep.pause = {} /\ sweep.suspend = {}
          /\ sweep' = [sweep EXCEPT !.pc = "next"]
          /\ UNCHANGED <<plan, rows, link, linked>>
      BY <1>10 DEF SweepNext, Sweeping, Still
    <2>2. sweep'.pc = "next" /\ sweep'.todo = sweep.todo
      BY <1>0, <2>1 DEF SweepStates
    <2>3. ~SweepListRoots
      BY <2>1 DEF SweepListRoots, Sweeping
    <2>4. /\ \A root \in Unclaimed \ sweep.todo : Cardinality(Runs(root)) <= CampaignRoom(root)
          /\ Agency \notin sweep.todo => Cardinality(Current) <= ClientRoom
      <3>1. Current \ sweep.suspend = Current
            /\ \A root \in Companies : Runs(root) \ sweep.pause = Runs(root)
        BY <2>1
      <3> QED BY <1>5, <1>7, <2>1, <2>3, <3>1
    <2> QED BY <1>3, <1>4, <1>5, <2>2, <2>4
  <1>11. ASSUME NEW root \in Companies, SweepReadPlan(root) PROVE Goal
    <2>1. /\ sweep.pc = "next" /\ root \in sweep.todo
          /\ sweep' = [sweep EXCEPT !.todo = sweep.todo \ {root}, !.root = root,
                          !.plan = plan[root],
                          !.pc = IF root = Agency THEN "claimed" ELSE "campaigns",
                          !.claimed = {}]
      BY <1>11 DEF SweepReadPlan, Sweeping
    <2>2. /\ sweep'.pc = (IF root = Agency THEN "claimed" ELSE "campaigns")
          /\ sweep'.todo = sweep.todo \ {root} /\ sweep'.root = root
      BY <1>0, <2>1 DEF SweepStates
    <2>3. ~SweepListRoots
      BY <2>1 DEF SweepListRoots, Sweeping
    <2>4. /\ \A r \in Unclaimed \ sweep.todo : Cardinality(Runs(r)) <= CampaignRoom(r)
          /\ Agency \notin sweep.todo => Cardinality(Current) <= ClientRoom
      BY <1>7, <2>1, <2>3
    <2>5. Campaigns
      BY <1>3, <1>4, <1>5, <2>2, <2>4
    <2>6. Customers
      BY <1>3, <1>4, <2>2, <2>4
    <2> QED BY <2>2, <2>5, <2>6
  <1>12. ASSUME NEW i \in DOMAIN rows, SweepPause(i) PROVE Goal
    <2>1. /\ sweep.pc = "write" /\ rows' = [rows EXCEPT ![i].st = "paused"]
          /\ sweep' = [sweep EXCEPT !.pause = sweep.pause \ {i}]
          /\ UNCHANGED <<plan, link, linked>>
      BY <1>12 DEF SweepPause, Sweeping, Still
    <2>2. /\ sweep'.pc = "write" /\ sweep'.suspend = sweep.suspend
          /\ sweep'.pause = sweep.pause \ {i}
          /\ sweep'.todo = sweep.todo /\ sweep'.root = sweep.root
      BY <1>0, <2>1 DEF SweepStates
    <2>3. ~SweepListRoots
      BY <2>1 DEF SweepListRoots, Sweeping
    <2>4. rows'[i].st = "paused"
      BY <1>0, <2>1, StatusTyped DEF CampaignStatuses
    <2>5. Campaigns
      <3>1. ASSUME NEW root \in Companies, Cardinality(Runs(root) \ sweep.pause) <= CampaignRoom(root)
            PROVE  Cardinality(Runs(root)' \ sweep'.pause) <= CampaignRoom(root)
        <4>1. i \notin Runs(root)'
          BY <2>4 DEF Runs, Running
        <4> DEFINE S == Runs(root) \ sweep.pause
                   T == Runs(root)' \ sweep'.pause
        <4>2. T \in SUBSET S
          BY <1>3, <2>2, <4>1
        <4>3. IsFiniteSet(S) /\ CampaignRoom(root) \in Nat
          BY QuietTypes, FS_Subset
        <4>4. Cardinality(S) <= CampaignRoom(root)
          BY <3>1
        <4> HIDE DEF S, T
        <4>5. Cardinality(T) <= CampaignRoom(root)
          BY <4>2, <4>3, <4>4, SmallerCard
        <4> QED BY <4>5 DEF T
      <3> QED BY <1>3, <1>4, <1>5, <1>7, <2>1, <2>2, <2>3, <3>1
    <2>6. Customers
      <3>1. Current' = Current
        BY <2>1 DEF Current
      <3> QED BY <1>3, <1>4, <1>7, <2>1, <2>2, <2>3, <3>1
    <2> QED BY <2>2, <2>5, <2>6
  <1>13. ASSUME NEW k \in DOMAIN linked, SweepSuspend(k) PROVE Goal
    <2>1. /\ sweep.pc = "write" /\ link' = [link EXCEPT ![linked[k]] = "suspended"]
          /\ sweep.pause = {} /\ sweep' = [sweep EXCEPT !.suspend = sweep.suspend \ {k}]
          /\ UNCHANGED <<plan, rows, linked>>
      BY <1>13 DEF SweepSuspend, Sweeping, Still
    <2>2. /\ sweep'.pc = "write" /\ sweep'.suspend = sweep.suspend \ {k}
          /\ sweep'.pause = sweep.pause
          /\ sweep'.todo = sweep.todo /\ sweep'.root = sweep.root
      BY <1>0, <2>1 DEF SweepStates
    <2>3. ~SweepListRoots
      BY <2>1 DEF SweepListRoots, Sweeping
    <2>4. k \notin Current'
      <3>1. linked[k] \in Clients
        BY <1>0 DEF Tables
      <3>2. link'[linked[k]] = "suspended"
        BY <1>0, <2>1, <3>1 DEF Tables
      <3> QED BY <2>1, <3>2 DEF Current
    <2>5. Campaigns
      <3>1. \A root \in Companies : Runs(root) \ sweep.pause = Runs(root)
                                      /\ Runs(root)' \ sweep'.pause = Runs(root)'
        BY <2>1, <2>2
      <3>2. ASSUME NEW root \in Unclaimed \ sweep.todo
            PROVE  Cardinality(Runs(root)) <= CampaignRoom(root)
        <4>1. CASE Busy(sweep, root)
          BY <1>5, <1>7, <2>1, <2>3, <3>1, <4>1
        <4>2. CASE ~Busy(sweep, root)
          BY <1>7, <2>3, <4>2
        <4> QED BY <4>1, <4>2
      <3>3. \A root \in Unclaimed \ sweep.todo : Cardinality(Runs(root)') <= CampaignRoom(root)
        BY <1>3, <1>4, <1>5, <3>2
      <3> QED BY <1>5, <2>2, <3>1, <3>3
    <2>6. Customers
      <3>1. ASSUME Cardinality(Current \ sweep.suspend) <= ClientRoom
            PROVE  Cardinality(Current' \ sweep'.suspend) <= ClientRoom
        <4> DEFINE S == Current \ sweep.suspend
                   T == Current' \ sweep'.suspend
        <4>2. T \in SUBSET S
          BY <1>3, <2>2, <2>4
        <4>3. IsFiniteSet(S) /\ ClientRoom \in Nat
          BY QuietTypes, FS_Subset
        <4>4. Cardinality(S) <= ClientRoom
          BY <3>1
        <4> HIDE DEF S, T
        <4>5. Cardinality(T) <= ClientRoom
          BY <4>2, <4>3, <4>4, SmallerCard
        <4> QED BY <4>5 DEF T
      <3> QED BY <1>3, <1>4, <1>7, <2>1, <2>2, <2>3, <3>1
    <2> QED BY <2>2, <2>5, <2>6
  <1>14. Goal
    <2> HIDE DEF Goal, Campaigns, Customers, Busy
    <2>1. ASSUME SweepDone PROVE SweepListRoots
      BY <1>7, <2>1
    <2> QED BY <1>6, <1>8, <1>9, <1>10, <1>11, <1>12, <1>13, <2>1, Zenon DEF SweepRuns
  <1>15. /\ \A root \in Unclaimed : CampaignRoom(root)' = CampaignRoom(root)
         /\ \A root : InHand(root)' <=> Busy(sweep', root)
    BY <1>3, <1>5 DEF InHand
  <1>16. CampaignsDone'
    BY <1>3, <1>14, <1>15 DEF CampaignsDone
  <1>17. ClientsDone'
    BY <1>3, <1>14, <1>15 DEF ClientsDone
  <1> QED BY <1>14, <1>16, <1>17

\* A sweep whose list is exhausted has settled everything.
LEMMA DoneSettles ==
    ASSUME QuietInv, calm = "sweeping", SweepDone PROVE Within
  <1>1. CampaignsDone /\ ClientsDone /\ sweep.pc = "next" /\ sweep.todo = {}
    BY DEF QuietInv, SweepDone, Sweeping
  <1>2. \A root \in Unclaimed : Cardinality(Runs(root)) <= CampaignRoom(root)
    BY <1>1 DEF CampaignsDone, InHand
  <1>3. Cardinality(Current) <= ClientRoom
    BY <1>1 DEF ClientsDone, InHand
  <1> QED BY <1>2, <1>3, WithinIs

LEMMA QuietStep ==
    ASSUME TypeOK, QuietInv, [Next]_vars PROVE QuietInv'
  <1> SUFFICES ASSUME calm' # "no"
               PROVE  /\ SnapshotsCurrent'
                      /\ calm' = "settled" => Within'
                      /\ calm' = "sweeping" => sweep'.pc # "idle" /\ CampaignsDone' /\ ClientsDone'
    BY DEF QuietInv
  <1>1. CASE UNCHANGED <<plan, rows, link, linked, sweep, calm>>
    <2>1. /\ Unclaimed' = Unclaimed /\ ClaimedClients' = ClaimedClients
          /\ ClientRoom' = ClientRoom /\ Current' = Current
      BY <1>1 DEF Unclaimed, ClaimedClients, ClientRoom, Current
    <2>2. \A root : /\ Runs(root)' = Runs(root) /\ CampaignRoom(root)' = CampaignRoom(root)
                    /\ InHand(root)' <=> InHand(root)
      BY <1>1 DEF Runs, Running, CampaignsOf, CampaignRoom, ClaimedClients, Pool, InHand
    <2>3. SnapshotsCurrent => SnapshotsCurrent'
      BY <1>1, <2>1, <2>2 DEF SnapshotsCurrent
    <2>4. CampaignsDone => CampaignsDone'
      BY <1>1, <2>1, <2>2 DEF CampaignsDone
    <2>5. ClientsDone => ClientsDone'
      BY <1>1, <2>1, <2>2 DEF ClientsDone
    <2>6. Within => Within'
      BY <2>1, <2>2, WithinIs, WithinNext
    <2> QED BY <1>1, <2>3, <2>4, <2>5, <2>6 DEF QuietInv
  <1>2. CASE SweepRuns
    <2>1. SnapshotsCurrent \/ SweepListRoots
      BY <1>2, CalmBefore DEF QuietInv
    <2>2. SnapshotsCurrent' /\ Frame
      BY <1>2, <2>1, SnapshotsStep, SweepFrame
    <2>3. ASSUME calm' = "settled" PROVE Within'
      <3>1. calm = "settled" \/ (calm = "sweeping" /\ SweepDone)
        BY <1>2, <2>3, Zenon DEF SweepRuns, SweepListRoots, SweepReadClaimed, SweepReadCampaigns,
                 SweepNext, SweepDone, SweepReadPlan, SweepPause, SweepSuspend
      <3>2. Within
        BY <3>1, DoneSettles DEF QuietInv
      <3> QED BY <2>2, <3>2, FrameWithin
    <2> QED BY <1>2, <2>2, <2>3, DoneStep
  <1> QED BY <1>1, <1>2, CalmSteps

\* A sweep that nothing disturbed leaves every company within its limits, in
\* whatever order it took them.
THEOREM QuietSweep == Spec => []QuietSweepSettles
  <1>1. Init => QuietInv
    BY DEF Init, QuietInv
  <1>2. TypeOK /\ QuietInv /\ [Next]_vars => QuietInv'
    BY QuietStep
  <1>3. QuietInv => QuietSweepSettles
    BY DEF QuietInv, QuietSweepSettles
  <1> QED BY <1>1, <1>2, <1>3, TypeInit, TypeStep, PTL DEF Spec
=============================================================================
