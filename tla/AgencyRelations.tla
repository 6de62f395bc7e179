--------------------------- MODULE AgencyRelations ---------------------------
(***************************************************************************)
(* Agencies and the clients they manage (application/agency.ts,            *)
(* application/agencyOnboarding.ts and their repositories):                *)
(*   - an agency adds a company of its own making, invites a registered    *)
(*     one, or hands out an onboarding link that registers one;            *)
(*   - a client answers an invitation, an agency suspends, restores or     *)
(*     removes a client, and the capacity sweep suspends what is too many. *)
(* Each is an invocation of several statements with no transaction around  *)
(* them; any two interleave, and any may die between two statements.       *)
(***************************************************************************)
EXTENDS Naturals, FiniteSets

CONSTANTS
    Agencies,     \* companies of type "agency"
    Registered,   \* companies that register without an agency
    Fresh,        \* companies that agencies and links create
    Emails,       \* addresses that owners of fresh companies give
    Invitations,  \* rows of organization_invitations
    Procs,        \* concurrent invocations
    ClientLimit,  \* per agency, the clients its plan allows
    None

Clients == Registered \cup Fresh

ASSUME NoneAssumption == None \notin Agencies \cup Clients \cup Emails \cup Invitations
ASSUME LimitAssumption == ClientLimit \in [Agencies -> Nat]
ASSUME DisjointAssumption == Registered \cap Fresh = {}
ASSUME FiniteAssumption ==
    /\ IsFiniteSet(Registered) /\ IsFiniteSet(Fresh)
    /\ IsFiniteSet(Procs)

VARIABLES
    company,     \* crm.companies and its owner's row in crm.users
    accounts,    \* addresses of owners of fresh companies (unique in crm.users)
    origin,      \* the onboarding link that created a company
    link,        \* agency_clients.status per agency and client
    invitation,  \* crm.organization_invitations
    consent,     \* observer: what a client agreed to and has not been released from
    proc         \* the invocations

vars == <<company, accounts, origin, link, invitation, consent, proc>>

Claimed == {"invited", "active", "suspended"}  \* "pending" is never written
LinkStatuses == Claimed \cup {"none", "removed"}
WithAccess == {"active", "suspended"}

ProcIdle == [pc |-> "idle", agency |-> None, client |-> None, status |-> "none",
             email |-> None, via |-> None]
NoInvitation == [st |-> "free", agency |-> None, email |-> None,
                 expired |-> FALSE, accepted |-> FALSE, result |-> None]

Init ==
    /\ company = [c \in Clients |-> IF c \in Registered THEN "owned" ELSE "none"]
    /\ accounts = {}
    /\ origin = [c \in Clients |-> None]
    /\ link = [a \in Agencies |-> [c \in Clients |-> "none"]]
    /\ invitation = [i \in Invitations |-> NoInvitation]
    /\ consent = {}
    /\ proc = [p \in Procs |-> ProcIdle]

-----------------------------------------------------------------------------
(* agency_clients.                                                         *)

ClaimedBy(a) == {c \in Clients : link[a][c] \in Claimed}

\* The partial unique index: one claiming agency per client.
Conflict(a, c, status) ==
    status \in Claimed /\ \E b \in Agencies \ {a} : link[b][c] \in Claimed

At(p, pc) == proc[p].pc = pc
Goto(p, pc) == proc' = [proc EXCEPT ![p].pc = pc]
Finish(p) == proc' = [proc EXCEPT ![p] = ProcIdle]

ConsentAfter(a, c, status, agreed) ==
    IF status \notin Claimed THEN consent \ {<<a, c>>}
    ELSE IF agreed THEN consent \cup {<<a, c>>} ELSE consent

\* Broken variant: the index covers no suspended client.
SetLinkPastSuspended(a, c, status, agreed) ==
    /\ ~(status \in Claimed /\ \E b \in Agencies \ {a} : link[b][c] \in {"invited", "active"})
    /\ link' = [link EXCEPT ![a][c] = status]
    /\ consent' = ConsentAfter(a, c, status, agreed)

\* One row for ever per agency and client: an upsert and an update leave the
\* same, whatever status was there.
SetLink(a, c, status, agreed) ==
    /\ ~Conflict(a, c, status)
    /\ link' = [link EXCEPT ![a][c] = status]
    /\ consent' = ConsentAfter(a, c, status, agreed)

-----------------------------------------------------------------------------
(* A company of the agency's own making, by hand or through a link.        *)

\* Broken variant: the limit itself is still accepted.
HasRoomOffByOne(a) == Cardinality(ClaimedBy(a)) <= ClientLimit[a]

\* assertClientLimitNotReached.
HasRoom(a) == Cardinality(ClaimedBy(a)) < ClientLimit[a]

AddClient(p, a, e) ==
    /\ At(p, "idle")
    /\ HasRoom(a)
    /\ proc' = [proc EXCEPT ![p] = [ProcIdle EXCEPT
                   !.pc = "email", !.agency = a, !.status = "active", !.email = e]]
    /\ UNCHANGED <<company, accounts, origin, link, invitation, consent>>

\* An agency generates a link; one pending link per agency and address, an
\* expired one included, as its stored status stays PENDING.
GenerateLink(a, e, i) ==
    /\ invitation[i].st = "free"
    /\ \A j \in Invitations : ~(/\ invitation[j].st = "PENDING"
                                /\ invitation[j].agency = a /\ invitation[j].email = e)
    /\ invitation' = [invitation EXCEPT ![i] =
                         [NoInvitation EXCEPT !.st = "PENDING", !.agency = a, !.email = e]]
    /\ UNCHANGED <<company, accounts, origin, link, consent, proc>>

LinkExpires(i) ==
    /\ invitation[i].st = "PENDING" /\ ~invitation[i].expired
    /\ invitation' = [invitation EXCEPT ![i].expired = TRUE]
    /\ UNCHANGED <<company, accounts, origin, link, consent, proc>>

\* Whatever the link's status: an accepted one becomes REVOKED too.
RevokeLink(i) ==
    /\ invitation[i].st # "free"
    /\ invitation' = [invitation EXCEPT ![i].st = "REVOKED"]
    /\ UNCHANGED <<company, accounts, origin, link, consent, proc>>

\* Broken variant: the status is not part of the UPDATE's condition.
AcceptLinkAgain(p, i, e) ==
    /\ At(p, "idle")
    /\ invitation[i].st # "free" /\ ~invitation[i].expired
    /\ invitation' = [invitation EXCEPT ![i].st = "ACCEPTED", ![i].accepted = TRUE]
    /\ proc' = [proc EXCEPT ![p] = [ProcIdle EXCEPT
                   !.pc = "email", !.agency = invitation[i].agency, !.status = "active",
                   !.email = e, !.via = i]]
    /\ UNCHANGED <<company, accounts, origin, link, consent>>

\* Broken variant: the agency is not the one that the accepted row names.
AcceptLinkForNobody(p, i, e) ==
    /\ At(p, "idle")
    /\ invitation[i].st = "PENDING" /\ ~invitation[i].expired
    /\ invitation' = [invitation EXCEPT ![i].st = "ACCEPTED", ![i].accepted = TRUE]
    /\ proc' = [proc EXCEPT ![p] = [ProcIdle EXCEPT
                   !.pc = "email", !.status = "active", !.email = e, !.via = i]]
    /\ UNCHANGED <<company, accounts, origin, link, consent>>

\* acceptInvitationByHash, one conditional UPDATE. The person may give another
\* address than the agency did; the client limit is not asked for.
AcceptLink(p, i, e) ==
    /\ At(p, "idle")
    /\ invitation[i].st = "PENDING" /\ ~invitation[i].expired
    /\ invitation' = [invitation EXCEPT ![i].st = "ACCEPTED", ![i].accepted = TRUE]
    /\ proc' = [proc EXCEPT ![p] = [ProcIdle EXCEPT
                   !.pc = "email", !.agency = invitation[i].agency, !.status = "active",
                   !.email = e, !.via = i]]
    /\ UNCHANGED <<company, accounts, origin, link, consent>>

\* emailExists: 409, and an accepted link is spent.
CheckEmail(p) ==
    /\ At(p, "email")
    /\ IF proc[p].email \in accounts THEN Finish(p) ELSE Goto(p, "company")
    /\ UNCHANGED <<company, accounts, origin, link, invitation, consent>>

CreateCompany(p, c) ==
    /\ At(p, "company")
    /\ c \in Fresh /\ company[c] = "none"
    /\ company' = [company EXCEPT ![c] = "ownerless"]
    /\ origin' = [origin EXCEPT ![c] = proc[p].via]
    /\ proc' = [proc EXCEPT ![p].pc = "owner", ![p].client = c]
    /\ UNCHANGED <<accounts, link, invitation, consent>>

\* Broken variant: a refused owner does not stop the invocation.
CreateOwnerOrGoOn(p) ==
    LET q == proc[p] IN
    /\ At(p, "owner")
    /\ accounts' = accounts \cup {q.email}
    /\ company' = IF q.email \in accounts THEN company ELSE [company EXCEPT ![q.client] = "owned"]
    /\ Goto(p, "link")
    /\ UNCHANGED <<origin, link, invitation, consent>>

\* createUser. Another invocation may have taken the address: the unique index
\* refuses it, and a company without an owner stays behind.
CreateOwner(p) ==
    LET q == proc[p] IN
    /\ At(p, "owner")
    /\ IF q.email \in accounts
       THEN Finish(p) /\ UNCHANGED <<company, accounts>>
       ELSE /\ accounts' = accounts \cup {q.email}
            /\ company' = [company EXCEPT ![q.client] = "owned"]
            /\ proc' = [proc EXCEPT ![p].pc = "link", ![p].email = None]
    /\ UNCHANGED <<origin, link, invitation, consent>>

\* linkOrReactivateClientOrganization: the creator's, or the invitation's.
LinkClient(p) ==
    LET q == proc[p] IN
    /\ At(p, "link")
    /\ SetLink(q.agency, q.client, q.status, q.status = "active")
    /\ IF q.via # None THEN Goto(p, "result") ELSE Finish(p)
    /\ UNCHANGED <<company, accounts, origin, invitation>>

\* setInvitationResultingCompany.
RecordResult(p) ==
    /\ At(p, "result")
    /\ invitation' = [invitation EXCEPT ![proc[p].via].result = proc[p].client]
    /\ Finish(p)
    /\ UNCHANGED <<company, accounts, origin, link, consent>>

-----------------------------------------------------------------------------
(* Invitations to registered companies, answers and changes of status.     *)

StartInvite(p, a, c) ==
    /\ At(p, "idle")
    /\ HasRoom(a)
    /\ company[c] = "owned"
    /\ proc' = [proc EXCEPT ![p] = [ProcIdle EXCEPT
                   !.pc = "claim", !.agency = a, !.client = c, !.status = "invited"]]
    /\ UNCHANGED <<company, accounts, origin, link, invitation, consent>>

\* getClaimingAgencyForClient: 409 if any agency claims the company.
ReadClaim(p) ==
    /\ At(p, "claim")
    /\ IF \E b \in Agencies : link[b][proc[p].client] \in Claimed
       THEN Finish(p) ELSE Goto(p, "link")
    /\ UNCHANGED <<company, accounts, origin, link, invitation, consent>>

\* respondToAgencyInvite reads the invitation ...
Respond(p, a, c, accept) ==
    /\ At(p, "idle")
    /\ link[a][c] = "invited"
    /\ proc' = [proc EXCEPT ![p] = [ProcIdle EXCEPT
                   !.pc = IF accept THEN "accept" ELSE "status", !.agency = a, !.client = c,
                   !.status = IF accept THEN "active" ELSE "removed"]]
    /\ UNCHANGED <<company, accounts, origin, link, invitation, consent>>

\* ... setClientRelationshipStatus any claim of the agency ...
ChangeStatus(p, a, c, status) ==
    /\ At(p, "idle")
    /\ link[a][c] \in Claimed
    /\ proc' = [proc EXCEPT ![p] = [ProcIdle EXCEPT
                   !.pc = "status", !.agency = a, !.client = c, !.status = status]]
    /\ UNCHANGED <<company, accounts, origin, link, invitation, consent>>

\* ... the capacity sweep its list of clients, invited ones included, when
\* they are too many (which of them: Capacity) ...
SweepLists(p, a, c) ==
    /\ At(p, "idle")
    /\ link[a][c] \in {"invited", "active"}
    /\ Cardinality({d \in Clients : link[a][d] \in {"invited", "active"}}) > ClientLimit[a]
    /\ proc' = [proc EXCEPT ![p] = [ProcIdle EXCEPT
                   !.pc = "status", !.agency = a, !.client = c, !.status = "suspended"]]
    /\ UNCHANGED <<company, accounts, origin, link, invitation, consent>>

\* ... and each writes its status over whatever became of the claim.
WriteStatus(p) ==
    LET q == proc[p] IN
    /\ q.pc \in {"accept", "status"}
    /\ SetLink(q.agency, q.client, q.status, q.pc = "accept")
    /\ Finish(p)
    /\ UNCHANGED <<company, accounts, origin, invitation>>

-----------------------------------------------------------------------------

\* The platform kills an invocation, or a statement fails: the unique index
\* refuses a claim, the database does not answer.
Dies(p) ==
    /\ ~At(p, "idle")
    /\ Finish(p)
    /\ UNCHANGED <<company, accounts, origin, link, invitation, consent>>

Start(p) ==
    \E a \in Agencies :
        \/ \E e \in Emails : AddClient(p, a, e)
        \/ \E c \in Clients :
              \/ StartInvite(p, a, c) \/ SweepLists(p, a, c)
              \/ \E accept \in BOOLEAN : Respond(p, a, c, accept)
              \/ \E status \in {"active", "suspended", "removed"} : ChangeStatus(p, a, c, status)

Step(p) ==
    \/ CheckEmail(p) \/ CreateOwner(p) \/ LinkClient(p) \/ RecordResult(p)
    \/ \E c \in Clients : CreateCompany(p, c)
    \/ ReadClaim(p) \/ WriteStatus(p) \/ Dies(p)

Next ==
    \/ \E p \in Procs : Start(p) \/ Step(p)
    \/ \E p \in Procs, i \in Invitations, e \in Emails : AcceptLink(p, i, e)
    \/ \E a \in Agencies, e \in Emails, i \in Invitations : GenerateLink(a, e, i)
    \/ \E i \in Invitations : LinkExpires(i) \/ RevokeLink(i)

Spec == Init /\ [][Next]_vars

-----------------------------------------------------------------------------
(* Properties.                                                             *)

ProcState ==
    [pc : {"idle", "email", "company", "owner", "link", "result", "claim", "accept", "status"},
     agency : Agencies \cup {None}, client : Clients \cup {None}, status : LinkStatuses,
     email : Emails \cup {None}, via : Invitations \cup {None}]
InvitationState ==
    [st : {"free", "PENDING", "ACCEPTED", "REVOKED"}, agency : Agencies \cup {None},
     email : Emails \cup {None}, expired : BOOLEAN, accepted : BOOLEAN,
     result : Clients \cup {None}]

\* What the tables hold, and that an invocation at work knows for whom.
TypeOK ==
    /\ company \in [Clients -> {"none", "ownerless", "owned"}]
    /\ accounts \subseteq Emails
    /\ origin \in [Clients -> Invitations \cup {None}]
    /\ link \in [Agencies -> [Clients -> LinkStatuses]]
    /\ invitation \in [Invitations -> InvitationState]
    /\ consent \subseteq Agencies \X Clients
    /\ proc \in [Procs -> ProcState]
    /\ \A p \in Procs : proc[p].pc # "idle" => proc[p].agency \in Agencies
    /\ \A i \in Invitations : invitation[i].st # "free" => invitation[i].agency \in Agencies

\* A client is claimed by one agency at a time and passes to another only by
\* being released (holder: the refinement mapping).
Claimers(links, c) == {a \in Agencies : links[a][c] \in Claimed}
HolderOf(claimers) == IF claimers = {} THEN None ELSE CHOOSE a \in claimers : TRUE
Holder(links) == [c \in Clients |-> HolderOf(Claimers(links, c))]
Claims == INSTANCE ClaimBook WITH holder <- Holder(link)
ImplementsClaimBook == Claims!Spec

\* However often a link is opened, and whatever revocation or expiry races it,
\* at most one company comes of it, and none unless it was accepted.
LinkMakesOneClient ==
    /\ \A c, d \in Clients : origin[c] # None /\ origin[c] = origin[d] => c = d
    /\ \A c \in Clients : origin[c] # None => invitation[origin[c]].accepted

\* An agency never manages a company that nobody can log in to, although
\* company, owner and claim are separate statements and the owner's may fail.
ClaimedIsOwned ==
    \A a \in Agencies : \A c \in ClaimedBy(a) : company[c] = "owned"

\* The client limit is checked before the claim, so invocations can race past
\* it, but not by more than there are of them; what came of links is not limited.
LimitOverrunIsBounded ==
    \A a \in Agencies :
        LET limited == {c \in ClaimedBy(a) : origin[c] = None}
        IN limited # {} => Cardinality(limited) < ClientLimit[a] + Cardinality(Procs)

\* agency.ts: "invited"/"pending" never grants data access: an agency sees the
\* data of a client only if the client agreed, or is of the agency's making.
AccessIsConsented ==
    \A a \in Agencies, c \in Clients : link[a][c] \in WithAccess => <<a, c>> \in consent
=============================================================================
