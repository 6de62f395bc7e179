----------------------- MODULE AgencyRelationsProofs -----------------------
(* Theorems of AgencyRelations, for any number of agencies, clients, links *)
(* and invocations.                                                        *)
EXTENDS AgencyRelations, FiniteSetTheorems, TLAPS

USE NoneAssumption, LimitAssumption, DisjointAssumption

\* The steps of one invocation, and what changes no claim.
LEMMA StepCases ==
    ASSUME Next
    PROVE  \/ \E p \in Procs, a \in Agencies, e \in Emails : AddClient(p, a, e)
           \/ \E p \in Procs, a \in Agencies, c \in Clients :
                StartInvite(p, a, c) \/ SweepLists(p, a, c)
           \/ \E p \in Procs, a \in Agencies, c \in Clients, accept \in BOOLEAN :
                Respond(p, a, c, accept)
           \/ \E p \in Procs, a \in Agencies, c \in Clients,
                 status \in {"active", "suspended", "removed"} : ChangeStatus(p, a, c, status)
           \/ \E p \in Procs : CheckEmail(p) \/ CreateOwner(p) \/ LinkClient(p) \/ RecordResult(p)
           \/ \E p \in Procs, c \in Clients : CreateCompany(p, c)
           \/ \E p \in Procs : ReadClaim(p) \/ WriteStatus(p) \/ Dies(p)
           \/ \E p \in Procs, i \in Invitations, e \in Emails : AcceptLink(p, i, e)
           \/ \E a \in Agencies, e \in Emails, i \in Invitations : GenerateLink(a, e, i)
           \/ \E i \in Invitations : LinkExpires(i) \/ RevokeLink(i)
  BY Zenon DEF Next, Start, Step

-----------------------------------------------------------------------------
(* Types.                                                                  *)

\* An invocation that has a client to write about knows it, and one that
\* records a result has a link to record it on.
ProcTyped ==
    \A p \in Procs :
        /\ proc[p].pc \in {"owner", "link", "result", "claim", "accept", "status"}
             => proc[p].client \in Clients
        /\ proc[p].pc = "owner" => proc[p].client \in Fresh
        /\ proc[p].pc = "result" => proc[p].via \in Invitations
        /\ proc[p].pc \in {"email", "company", "owner"} => proc[p].email \in Emails

Typed == TypeOK /\ ProcTyped

LEMMA InitTyped == Init => Typed
  BY SMTT(30) DEF Init, Typed, TypeOK, ProcTyped, Clients, ProcState, InvitationState, ProcIdle,
         NoInvitation, LinkStatuses, Claimed

LEMMA FinishTyped ==
    ASSUME TypeOK, NEW p \in Procs, Finish(p)
    PROVE  /\ proc' \in [Procs -> ProcState]
           /\ proc'[p] = ProcIdle
           /\ \A q \in Procs \ {p} : proc'[q] = proc[q]
  BY DEF TypeOK, Finish, ProcIdle, ProcState, LinkStatuses, Claimed

LEMMA GotoTyped ==
    ASSUME TypeOK, NEW p \in Procs, NEW pc, Goto(p, pc),
           pc \in {"email", "company", "owner", "link", "result"}
    PROVE  /\ proc' \in [Procs -> ProcState]
           /\ proc'[p] = [proc[p] EXCEPT !.pc = pc]
           /\ \A q \in Procs \ {p} : proc'[q] = proc[q]
  <1>1. proc \in [Procs -> ProcState]
    BY DEF TypeOK
  <1>2. proc' = [proc EXCEPT ![p] = [proc[p] EXCEPT !.pc = pc]]
    BY DEF Goto
  <1>3. [proc[p] EXCEPT !.pc = pc] \in ProcState
    BY <1>1 DEF ProcState
  <1> QED BY <1>1, <1>2, <1>3

LEMMA SetLinkTyped ==
    ASSUME TypeOK, NEW a \in Agencies, NEW c \in Clients, NEW status \in LinkStatuses,
           NEW agreed \in BOOLEAN, SetLink(a, c, status, agreed)
    PROVE  /\ link' \in [Agencies -> [Clients -> LinkStatuses]]
           /\ consent' \subseteq Agencies \X Clients
  <1>1. link' \in [Agencies -> [Clients -> LinkStatuses]]
    BY DEF TypeOK, SetLink, Clients
  <1>2. consent' \subseteq consent \cup {<<a, c>>}
    <2>1. ConsentAfter(a, c, status, agreed) \subseteq consent \cup {<<a, c>>}
      BY DEF ConsentAfter
    <2> QED BY <2>1 DEF SetLink
  <1>3. <<a, c>> \in Agencies \X Clients
    OBVIOUS
  <1> QED BY <1>1, <1>2, <1>3 DEF TypeOK

\* A step that changes one invitation.
LEMMA InvitationTyped ==
    ASSUME TypeOK, NEW i \in Invitations, NEW row \in InvitationState,
           invitation' = [invitation EXCEPT ![i] = row],
           row.st # "free" => row.agency \in Agencies
    PROVE  /\ invitation' \in [Invitations -> InvitationState]
           /\ \A j \in Invitations : invitation'[j].st # "free" => invitation'[j].agency \in Agencies
  <1>1. invitation \in [Invitations -> InvitationState]
    BY DEF TypeOK
  <1>2. invitation' \in [Invitations -> InvitationState]
    BY <1>1
  <1>3. \A j \in Invitations : invitation'[j] = IF j = i THEN row ELSE invitation[j]
    BY <1>1
  <1> QED BY <1>2, <1>3 DEF TypeOK

\* A step that leaves the tables alone but for the invocation p.
LEMMA ProcOnlyTyped ==
    ASSUME Typed, NEW p \in Procs, proc' \in [Procs -> ProcState],
           \A q \in Procs \ {p} : proc'[q] = proc[q],
           proc'[p].pc # "idle" => proc'[p].agency \in Agencies,
           proc'[p].pc \in {"owner", "link", "result", "claim", "accept", "status"}
             => proc'[p].client \in Clients,
           proc'[p].pc = "owner" => proc'[p].client \in Fresh,
           proc'[p].pc = "result" => proc'[p].via \in Invitations,
           proc'[p].pc \in {"email", "company", "owner"} => proc'[p].email \in Emails
    PROVE  /\ \A q \in Procs : proc'[q].pc # "idle" => proc'[q].agency \in Agencies
           /\ ProcTyped'
  BY DEF Typed, TypeOK, ProcTyped

LEMMA NextTyped == Typed /\ [Next]_vars => Typed'
  <1> SUFFICES ASSUME Typed, [Next]_vars PROVE Typed'
    OBVIOUS
  <1> USE DEF LinkStatuses, Claimed
  <1>1. ASSUME NEW p \in Procs, NEW a \in Agencies, NEW e \in Emails, AddClient(p, a, e)
        PROVE  Typed'
    <2>1. /\ proc' \in [Procs -> ProcState]
          /\ proc'[p] = [ProcIdle EXCEPT !.pc = "email", !.agency = a, !.status = "active", !.email = e]
          /\ \A q \in Procs \ {p} : proc'[q] = proc[q]
      BY <1>1 DEF AddClient, Typed, TypeOK, ProcState, ProcIdle
    <2>2. /\ \A q \in Procs : proc'[q].pc # "idle" => proc'[q].agency \in Agencies
          /\ ProcTyped'
      BY <2>1, ProcOnlyTyped DEF ProcIdle
    <2> QED BY <1>1, <2>1, <2>2 DEF AddClient, Typed, TypeOK
  <1>2. ASSUME NEW p \in Procs, NEW a \in Agencies, NEW c \in Clients, NEW s \in LinkStatuses,
               NEW pc \in {"claim", "accept", "status"},
               proc' = [proc EXCEPT ![p] = [ProcIdle EXCEPT
                           !.pc = pc, !.agency = a, !.client = c, !.status = s]],
               UNCHANGED <<company, accounts, origin, link, invitation, consent>>
        PROVE  Typed'
    <2>1. /\ proc' \in [Procs -> ProcState]
          /\ proc'[p] = [ProcIdle EXCEPT !.pc = pc, !.agency = a, !.client = c, !.status = s]
          /\ \A q \in Procs \ {p} : proc'[q] = proc[q]
      BY <1>2 DEF Typed, TypeOK, ProcState, ProcIdle
    <2>2. /\ \A q \in Procs : proc'[q].pc # "idle" => proc'[q].agency \in Agencies
          /\ ProcTyped'
      BY <2>1, ProcOnlyTyped DEF ProcIdle
    <2> QED BY <1>2, <2>1, <2>2 DEF Typed, TypeOK
  <1>3. ASSUME NEW p \in Procs, NEW a \in Agencies, NEW c \in Clients,
               StartInvite(p, a, c) \/ SweepLists(p, a, c)
        PROVE  Typed'
    <2>1. CASE StartInvite(p, a, c)
      BY <2>1, <1>2 DEF StartInvite
    <2>2. CASE SweepLists(p, a, c)
      BY <2>2, <1>2 DEF SweepLists
    <2> QED BY <1>3, <2>1, <2>2
  <1>4. ASSUME NEW p \in Procs, NEW a \in Agencies, NEW c \in Clients, NEW accept \in BOOLEAN,
               Respond(p, a, c, accept)
        PROVE  Typed'
    BY <1>4, <1>2 DEF Respond
  <1>5. ASSUME NEW p \in Procs, NEW a \in Agencies, NEW c \in Clients,
               NEW status \in {"active", "suspended", "removed"}, ChangeStatus(p, a, c, status)
        PROVE  Typed'
    BY <1>5, <1>2 DEF ChangeStatus
  <1>6. ASSUME NEW p \in Procs, Finish(p) \/ Goto(p, "company"), At(p, "email"),
               UNCHANGED <<company, accounts, origin, link, invitation, consent>>
        PROVE  Typed'
    <2>1. CASE Finish(p)
      BY <2>1, <1>6, FinishTyped, ProcOnlyTyped DEF Typed, TypeOK, ProcIdle
    <2>2. CASE Goto(p, "company")
      <3>1. /\ proc' \in [Procs -> ProcState]
            /\ proc'[p] = [proc[p] EXCEPT !.pc = "company"]
            /\ \A q \in Procs \ {p} : proc'[q] = proc[q]
        BY <2>2, GotoTyped DEF Typed
      <3>2. /\ \A q \in Procs : proc'[q].pc # "idle" => proc'[q].agency \in Agencies
            /\ ProcTyped'
        <4>1. /\ proc[p] \in ProcState /\ proc[p].pc = "email"
              /\ proc[p].agency \in Agencies /\ proc[p].email \in Emails
          BY <1>6 DEF Typed, TypeOK, ProcTyped, At
        <4> QED BY <3>1, <4>1, ProcOnlyTyped DEF ProcState
      <3> QED BY <3>1, <3>2, <1>6 DEF Typed, TypeOK
    <2> QED BY <1>6, <2>1, <2>2
  <1>7. ASSUME NEW p \in Procs, CreateOwner(p) PROVE Typed'
    <2>0. proc[p] \in ProcState /\ proc[p].pc = "owner" /\ proc[p].client \in Fresh /\ proc[p].email \in Emails
      BY <1>7 DEF CreateOwner, At, Typed, TypeOK, ProcTyped
    <2>1. CASE Finish(p) /\ UNCHANGED <<company, accounts>>
      BY <2>1, <1>7, FinishTyped, ProcOnlyTyped DEF Typed, TypeOK, ProcIdle, CreateOwner
    <2>2. CASE /\ accounts' = accounts \cup {proc[p].email}
               /\ company' = [company EXCEPT ![proc[p].client] = "owned"]
               /\ proc' = [proc EXCEPT ![p].pc = "link", ![p].email = None]
      <3>1. /\ proc' \in [Procs -> ProcState]
            /\ proc'[p] = [proc[p] EXCEPT !.pc = "link", !.email = None]
            /\ \A q \in Procs \ {p} : proc'[q] = proc[q]
        BY <2>2, <2>0 DEF Typed, TypeOK, ProcState
      <3>2. /\ \A q \in Procs : proc'[q].pc # "idle" => proc'[q].agency \in Agencies
            /\ ProcTyped'
        BY <3>1, <2>0, ProcOnlyTyped DEF Typed, TypeOK, ProcState, Clients
      <3>3. accounts' \subseteq Emails
        BY <2>2, <2>0 DEF Typed, TypeOK
      <3>4. company' \in [Clients -> {"none", "ownerless", "owned"}]
        BY <2>2, <2>0 DEF Typed, TypeOK, Clients
      <3> QED BY <3>1, <3>2, <3>3, <3>4, <1>7 DEF Typed, TypeOK, CreateOwner
    <2> QED BY <1>7, <2>1, <2>2 DEF CreateOwner
  <1>8. ASSUME NEW p \in Procs, LinkClient(p) PROVE Typed'
    <2>0. /\ proc[p] \in ProcState /\ proc[p].pc = "link" /\ proc[p].client \in Clients
          /\ proc[p].agency \in Agencies /\ proc[p].status \in LinkStatuses
      BY <1>8 DEF LinkClient, At, Typed, TypeOK, ProcTyped, ProcState
    <2>1. link' \in [Agencies -> [Clients -> LinkStatuses]] /\ consent' \subseteq Agencies \X Clients
      BY <1>8, <2>0, SetLinkTyped DEF LinkClient, Typed
    <2>2. CASE Finish(p)
      BY <2>2, <1>8, <2>1, FinishTyped, ProcOnlyTyped DEF Typed, TypeOK, ProcIdle, LinkClient
    <2>3. CASE proc[p].via # None /\ Goto(p, "result")
      <3>1. /\ proc' \in [Procs -> ProcState]
            /\ proc'[p] = [proc[p] EXCEPT !.pc = "result"]
            /\ \A q \in Procs \ {p} : proc'[q] = proc[q]
        BY <2>3, GotoTyped DEF Typed
      <3>2. /\ \A q \in Procs : proc'[q].pc # "idle" => proc'[q].agency \in Agencies
            /\ ProcTyped'
        BY <3>1, <2>0, <2>3, ProcOnlyTyped DEF ProcState
      <3> QED BY <3>1, <3>2, <2>1, <1>8 DEF Typed, TypeOK, LinkClient
    <2> QED BY <1>8, <2>2, <2>3 DEF LinkClient
  <1>9. ASSUME NEW p \in Procs, RecordResult(p) PROVE Typed'
    <2>1. proc[p].via \in Invitations /\ proc[p].client \in Clients
      BY <1>9 DEF RecordResult, At, Typed, ProcTyped
    <2>2. PICK row : row = [invitation[proc[p].via] EXCEPT !.result = proc[p].client]
      OBVIOUS
    <2>3. invitation[proc[p].via] \in InvitationState
      BY <2>1 DEF Typed, TypeOK
    <2>4. row \in InvitationState
      BY <2>1, <2>2, <2>3 DEF InvitationState
    <2>5. row.st # "free" => row.agency \in Agencies
      BY <2>1, <2>2, <2>3 DEF Typed, TypeOK, InvitationState
    <2>6. invitation' = [invitation EXCEPT ![proc[p].via] = row]
      BY <1>9, <2>2 DEF RecordResult
    <2>7. /\ invitation' \in [Invitations -> InvitationState]
          /\ \A j \in Invitations : invitation'[j].st # "free" => invitation'[j].agency \in Agencies
      BY <2>1, <2>4, <2>5, <2>6, InvitationTyped DEF Typed
    <2> QED BY <1>9, <2>7, FinishTyped, ProcOnlyTyped DEF RecordResult, Typed, TypeOK, ProcIdle
  <1>10. ASSUME NEW p \in Procs, NEW c \in Clients, CreateCompany(p, c) PROVE Typed'
    <2>0. proc[p] \in ProcState /\ proc[p].pc = "company" /\ proc[p].agency \in Agencies /\ proc[p].email \in Emails
      BY <1>10 DEF CreateCompany, At, Typed, TypeOK, ProcTyped
    <2>1. /\ proc' \in [Procs -> ProcState]
          /\ proc'[p] = [proc[p] EXCEPT !.pc = "owner", !.client = c]
          /\ \A q \in Procs \ {p} : proc'[q] = proc[q]
      BY <1>10, <2>0 DEF CreateCompany, Typed, TypeOK, ProcState
    <2>2. /\ \A q \in Procs : proc'[q].pc # "idle" => proc'[q].agency \in Agencies
          /\ ProcTyped'
      BY <2>0, <2>1, <1>10, ProcOnlyTyped DEF CreateCompany, ProcState
    <2>3. company' \in [Clients -> {"none", "ownerless", "owned"}]
      BY <1>10 DEF CreateCompany, Typed, TypeOK
    <2>4. origin' \in [Clients -> Invitations \cup {None}]
      BY <1>10, <2>0 DEF CreateCompany, Typed, TypeOK, ProcState
    <2> QED BY <1>10, <2>1, <2>2, <2>3, <2>4 DEF CreateCompany, Typed, TypeOK
  <1>11. ASSUME NEW p \in Procs, ReadClaim(p) PROVE Typed'
    <2>0. proc[p] \in ProcState /\ proc[p].pc = "claim" /\ proc[p].agency \in Agencies /\ proc[p].client \in Clients
      BY <1>11 DEF ReadClaim, At, Typed, TypeOK, ProcTyped
    <2>1. CASE Finish(p)
      BY <2>1, <1>11, FinishTyped, ProcOnlyTyped DEF Typed, TypeOK, ProcIdle, ReadClaim
    <2>2. CASE Goto(p, "link")
      <3>1. /\ proc' \in [Procs -> ProcState]
            /\ proc'[p] = [proc[p] EXCEPT !.pc = "link"]
            /\ \A q \in Procs \ {p} : proc'[q] = proc[q]
        BY <2>2, GotoTyped DEF Typed
      <3>2. /\ \A q \in Procs : proc'[q].pc # "idle" => proc'[q].agency \in Agencies
            /\ ProcTyped'
        BY <3>1, <2>0, ProcOnlyTyped DEF ProcState
      <3> QED BY <3>1, <3>2, <1>11 DEF Typed, TypeOK, ReadClaim
    <2> QED BY <1>11, <2>1, <2>2 DEF ReadClaim
  <1>12. ASSUME NEW p \in Procs, WriteStatus(p) PROVE Typed'
    <2>0. /\ proc[p] \in ProcState /\ proc[p].client \in Clients
          /\ proc[p].agency \in Agencies /\ proc[p].status \in LinkStatuses
      BY <1>12 DEF WriteStatus, Typed, TypeOK, ProcTyped, ProcState
    <2>1. link' \in [Agencies -> [Clients -> LinkStatuses]] /\ consent' \subseteq Agencies \X Clients
      BY <1>12, <2>0, SetLinkTyped DEF WriteStatus, Typed
    <2> QED BY <1>12, <2>1, FinishTyped, ProcOnlyTyped DEF Typed, TypeOK, ProcIdle, WriteStatus
  <1>13. ASSUME NEW p \in Procs, Dies(p) PROVE Typed'
    BY <1>13, FinishTyped, ProcOnlyTyped DEF Typed, TypeOK, ProcIdle, Dies
  <1>14. ASSUME NEW p \in Procs, NEW i \in Invitations, NEW e \in Emails, AcceptLink(p, i, e)
         PROVE  Typed'
    <2>0. invitation[i] \in InvitationState /\ invitation[i].agency \in Agencies
      BY <1>14 DEF AcceptLink, Typed, TypeOK
    <2>1. /\ proc' \in [Procs -> ProcState]
          /\ proc'[p] = [ProcIdle EXCEPT !.pc = "email", !.agency = invitation[i].agency,
                                         !.status = "active", !.email = e, !.via = i]
          /\ \A q \in Procs \ {p} : proc'[q] = proc[q]
      BY <1>14, <2>0 DEF AcceptLink, Typed, TypeOK, ProcState, ProcIdle
    <2>2. /\ \A q \in Procs : proc'[q].pc # "idle" => proc'[q].agency \in Agencies
          /\ ProcTyped'
      BY <2>0, <2>1, ProcOnlyTyped DEF ProcIdle
    <2>3. /\ invitation' \in [Invitations -> InvitationState]
          /\ \A j \in Invitations : invitation'[j].st # "free" => invitation'[j].agency \in Agencies
      <3>1. PICK row : row = [invitation[i] EXCEPT !.st = "ACCEPTED", !.accepted = TRUE]
        OBVIOUS
      <3>2. row \in InvitationState /\ row.agency \in Agencies
        BY <2>0, <3>1 DEF InvitationState
      <3>3. invitation' = [invitation EXCEPT ![i] = row]
        BY <1>14, <3>1 DEF AcceptLink
      <3> QED BY <3>2, <3>3, InvitationTyped DEF Typed
    <2> QED BY <1>14, <2>1, <2>2, <2>3 DEF AcceptLink, Typed, TypeOK
  <1>15. ASSUME NEW a \in Agencies, NEW e \in Emails, NEW i \in Invitations, GenerateLink(a, e, i)
         PROVE  Typed'
    <2>1. /\ invitation' \in [Invitations -> InvitationState]
          /\ \A j \in Invitations : invitation'[j].st # "free" => invitation'[j].agency \in Agencies
      BY <1>15 DEF GenerateLink, Typed, TypeOK, InvitationState, NoInvitation
    <2> QED BY <1>15, <2>1 DEF GenerateLink, Typed, TypeOK, ProcTyped
  <1>16. ASSUME NEW i \in Invitations, LinkExpires(i) \/ RevokeLink(i) PROVE Typed'
    <2>1. invitation[i] \in InvitationState /\ invitation[i].agency \in Agencies
      BY <1>16 DEF LinkExpires, RevokeLink, Typed, TypeOK
    <2>2. PICK row : \/ row = [invitation[i] EXCEPT !.expired = TRUE]
                           /\ invitation' = [invitation EXCEPT ![i] = row]
                     \/ row = [invitation[i] EXCEPT !.st = "REVOKED"]
                           /\ invitation' = [invitation EXCEPT ![i] = row]
      BY <1>16 DEF LinkExpires, RevokeLink
    <2>3. row \in InvitationState /\ row.agency \in Agencies
      BY <2>1, <2>2 DEF InvitationState
    <2>4. /\ invitation' \in [Invitations -> InvitationState]
          /\ \A j \in Invitations : invitation'[j].st # "free" => invitation'[j].agency \in Agencies
      BY <2>2, <2>3, InvitationTyped DEF Typed
    <2> QED BY <1>16, <2>4 DEF LinkExpires, RevokeLink, Typed, TypeOK, ProcTyped
  <1>17. CASE UNCHANGED vars
    BY <1>17 DEF vars, Typed, TypeOK, ProcTyped
  <1>18. ASSUME NEW p \in Procs, CheckEmail(p) PROVE Typed'
    BY <1>18, <1>6 DEF CheckEmail
  <1> QED
    BY <1>1, <1>3, <1>4, <1>5, <1>7, <1>8, <1>9, <1>10, <1>11, <1>12, <1>13, <1>14, <1>15, <1>16,
       <1>17, <1>18, StepCases

\* The tables hold what their columns may hold, and an invocation at work
\* knows its agency.
THEOREM TypeCorrect == Spec => []TypeOK
  <1>1. Typed => TypeOK
    BY DEF Typed
  <1> QED BY <1>1, InitTyped, NextTyped, PTL DEF Spec

LEMMA AlwaysTyped == Spec => []Typed
  BY InitTyped, NextTyped, PTL DEF Spec

-----------------------------------------------------------------------------
(* One agency per client.                                                  *)

OneClaim ==
    \A a, b \in Agencies, c \in Clients :
        link[a][c] \in Claimed /\ link[b][c] \in Claimed => a = b

\* Claims change in one way only.
LEMMA LinkChanges ==
    ASSUME Typed, [Next]_vars
    PROVE  \/ UNCHANGED link
           \/ \E p \in Procs :
                /\ proc[p].pc \in {"link", "accept", "status"}
                /\ proc[p].agency \in Agencies /\ proc[p].client \in Clients
                /\ proc[p].status \in LinkStatuses
                /\ ~Conflict(proc[p].agency, proc[p].client, proc[p].status)
                /\ link' = [link EXCEPT ![proc[p].agency][proc[p].client] = proc[p].status]
                /\ UNCHANGED company
  <1>1. ASSUME NEW p \in Procs, LinkClient(p) \/ WriteStatus(p)
        PROVE  /\ proc[p].pc \in {"link", "accept", "status"}
               /\ proc[p].agency \in Agencies /\ proc[p].client \in Clients
               /\ proc[p].status \in LinkStatuses
               /\ ~Conflict(proc[p].agency, proc[p].client, proc[p].status)
               /\ link' = [link EXCEPT ![proc[p].agency][proc[p].client] = proc[p].status]
               /\ UNCHANGED company
    <2>1. proc[p].pc \in {"link", "accept", "status"}
      BY <1>1 DEF LinkClient, WriteStatus, At
    <2>2. /\ proc[p].agency \in Agencies /\ proc[p].client \in Clients
          /\ proc[p].status \in LinkStatuses
      BY <2>1 DEF Typed, TypeOK, ProcTyped, ProcState
    <2>3. /\ ~Conflict(proc[p].agency, proc[p].client, proc[p].status)
          /\ link' = [link EXCEPT ![proc[p].agency][proc[p].client] = proc[p].status]
          /\ UNCHANGED company
      BY <1>1 DEF LinkClient, WriteStatus, SetLink
    <2> QED BY <2>1, <2>2, <2>3
  <1>2. CASE UNCHANGED vars
    BY <1>2 DEF vars
  <1>3. CASE Next
    <2>1. CASE \E p \in Procs : LinkClient(p) \/ WriteStatus(p)
      BY <2>1, <1>1
    <2>2. CASE ~\E p \in Procs : LinkClient(p) \/ WriteStatus(p)
      BY <1>3, <2>2, StepCases DEF AddClient, StartInvite, SweepLists, Respond, ChangeStatus,
         CheckEmail, CreateOwner, RecordResult, CreateCompany, ReadClaim, Dies, AcceptLink,
         GenerateLink, LinkExpires, RevokeLink
    <2> QED BY <2>1, <2>2
  <1> QED BY <1>2, <1>3

LEMMA LinkAfter ==
    ASSUME Typed, NEW a \in Agencies, NEW c \in Clients, NEW status,
           link' = [link EXCEPT ![a][c] = status]
    PROVE  \A b \in Agencies, d \in Clients :
              link'[b][d] = IF b = a /\ d = c THEN status ELSE link[b][d]
  BY DEF Typed, TypeOK

LEMMA NextOneClaim == Typed /\ OneClaim /\ [Next]_vars => OneClaim'
  <1> SUFFICES ASSUME Typed, OneClaim, [Next]_vars PROVE OneClaim'
    OBVIOUS
  <1>1. CASE UNCHANGED link
    BY <1>1 DEF OneClaim
  <1>2. ASSUME NEW p \in Procs,
               proc[p].agency \in Agencies, proc[p].client \in Clients,
               ~Conflict(proc[p].agency, proc[p].client, proc[p].status),
               link' = [link EXCEPT ![proc[p].agency][proc[p].client] = proc[p].status]
        PROVE  OneClaim'
    BY <1>2, LinkAfter DEF OneClaim, Conflict
  <1> QED BY <1>1, <1>2, LinkChanges

LEMMA InitOneClaim == Init => OneClaim
  BY DEF Init, OneClaim, Claimed

LEMMA HolderIs ==
    ASSUME NEW links, NEW a \in Agencies, NEW c \in Clients, links[a][c] \in Claimed,
           \A b \in Agencies : links[b][c] \in Claimed => b = a
    PROVE  Holder(links)[c] = a
  <1>1. Claimers(links, c) = {a}
    BY DEF Claimers
  <1> QED BY <1>1 DEF Holder, HolderOf

LEMMA HolderNone ==
    ASSUME NEW links, NEW c \in Clients, \A a \in Agencies : links[a][c] \notin Claimed
    PROVE  Holder(links)[c] = None
  <1>1. Claimers(links, c) = {}
    BY DEF Claimers
  <1> QED BY <1>1 DEF Holder, HolderOf

\* A step that writes one status claims a free client, releases one, or leaves
\* the holders alone.
LEMMA ClaimStep ==
    ASSUME Typed, OneClaim, OneClaim', NEW a \in Agencies, NEW c \in Clients, NEW status,
           ~Conflict(a, c, status), link' = [link EXCEPT ![a][c] = status]
    PROVE  Claims!Next \/ Holder(link') = Holder(link)
  <1>1. \A b \in Agencies, d \in Clients :
           link'[b][d] = IF b = a /\ d = c THEN status ELSE link[b][d]
    BY DEF Typed, TypeOK
  <1>2. Holder(link') = [Holder(link) EXCEPT ![c] = Holder(link')[c]]
    <2>1. ASSUME NEW d \in Clients \ {c} PROVE Holder(link)[d] = Holder(link')[d]
      <3>1. Claimers(link, d) = Claimers(link', d)
        BY <1>1 DEF Claimers
      <3> QED BY <3>1 DEF Holder
    <2>2. \A d \in Clients :
             Holder(link')[d] = [Holder(link) EXCEPT ![c] = Holder(link')[c]][d]
      BY <2>1 DEF Holder
    <2> DEFINE f == Holder(link')
               g == [Holder(link) EXCEPT ![c] = Holder(link')[c]]
    <2>3. f = [d \in Clients |-> f[d]] /\ g = [d \in Clients |-> g[d]]
      BY DEF Holder
    <2> QED BY <2>2, <2>3
  <1>3. CASE status \in Claimed
    <2>1. \A b \in Agencies \ {a} : link[b][c] \notin Claimed
      BY <1>3 DEF Conflict
    <2>2. Holder(link')[c] = a
      <3>1. Claimers(link', c) = {a}
        BY <1>1, <1>3, <2>1 DEF Claimers
      <3> QED BY <3>1 DEF Holder, HolderOf
    <2>3. CASE link[a][c] \in Claimed
      <3>1. Holder(link)[c] = a
        BY <2>1, <2>3, HolderIs
      <3> QED BY <1>2, <2>2, <3>1 DEF Holder
    <2>4. CASE link[a][c] \notin Claimed
      <3>1. Holder(link)[c] = None
        BY <2>1, <2>4, HolderNone
      <3>2. Claims!Claim(a, c)
        BY <1>2, <2>2, <3>1 DEF Claims!Claim
      <3> QED BY <3>2 DEF Claims!Next
    <2> QED BY <2>3, <2>4
  <1>4. CASE status \notin Claimed
    <2>1. CASE link[a][c] \in Claimed
      <3>1. Holder(link)[c] = a /\ a # None
        BY <2>1, HolderIs DEF OneClaim
      <3>2. \A b \in Agencies : link'[b][c] \notin Claimed
        BY <1>1, <1>4, <2>1 DEF OneClaim
      <3>3. Holder(link')[c] = None
        BY <3>2, HolderNone
      <3>4. Claims!Release(c)
        BY <1>2, <3>1, <3>3 DEF Claims!Release
      <3> QED BY <3>4 DEF Claims!Next
    <2>2. CASE link[a][c] \notin Claimed
      <3>1. \A b \in Agencies : link'[b][c] \in Claimed <=> link[b][c] \in Claimed
        BY <1>1, <1>4, <2>2
      <3>2. Holder(link')[c] = Holder(link)[c]
        <4>1. Claimers(link', c) = Claimers(link, c)
          BY <3>1 DEF Claimers
        <4> QED BY <4>1 DEF Holder
      <3> QED BY <1>2, <3>2 DEF Holder
    <2> QED BY <2>1, <2>2
  <1> QED BY <1>3, <1>4

LEMMA NextClaims == Typed /\ OneClaim /\ [Next]_vars => [Claims!Next]_(Holder(link))
  <1> SUFFICES ASSUME Typed, OneClaim, [Next]_vars PROVE [Claims!Next]_(Holder(link))
    OBVIOUS
  <1>1. OneClaim'
    BY NextOneClaim
  <1>2. CASE UNCHANGED link
    BY <1>2
  <1>3. CASE Claims!Next \/ Holder(link') = Holder(link)
    BY <1>3
  <1> QED BY <1>1, <1>2, <1>3, ClaimStep, LinkChanges

\* The relations implement ClaimBook: however invitations, answers, links,
\* status changes and the sweep race, no agency takes a client from another.
THEOREM Refinement == Spec => ImplementsClaimBook
  <1>1. Init => Claims!Init
    <2> SUFFICES ASSUME Init PROVE Claims!Init
      OBVIOUS
    <2>1. \A c \in Clients : Holder(link)[c] = None
      BY HolderNone DEF Init, Claimed
    <2>2. Holder(link) \in [Clients -> Agencies \cup {None}]
      BY <2>1 DEF Holder
    <2> QED BY <2>2 DEF Claims!Init
  <1> QED BY <1>1, InitTyped, NextTyped, InitOneClaim, NextOneClaim, NextClaims, PTL
         DEF Spec, ImplementsClaimBook, Claims!Spec

-----------------------------------------------------------------------------
(* Claims are of companies with an owner.                                  *)

\* Whoever is about to write a claim writes about a company with an owner.
WritersKnowOwned ==
    \A p \in Procs : proc[p].pc \in {"link", "result", "claim", "accept", "status"}
                       => company[proc[p].client] = "owned"

Owned == ClaimedIsOwned /\ WritersKnowOwned

LEMMA InitOwned == Init => Owned
  BY DEF Init, Owned, ClaimedIsOwned, ClaimedBy, WritersKnowOwned, Claimed, ProcIdle

\* A company with an owner keeps it.
LEMMA OwnedStays ==
    ASSUME Typed, [Next]_vars, NEW c \in Clients, company[c] = "owned"
    PROVE  company'[c] = "owned"
  <1>1. CASE UNCHANGED company
    BY <1>1
  <1>2. ASSUME NEW p \in Procs, CreateOwner(p) PROVE company'[c] = "owned"
    BY <1>2 DEF CreateOwner, Typed, TypeOK
  <1>3. ASSUME NEW p \in Procs, NEW d \in Clients, CreateCompany(p, d) PROVE company'[c] = "owned"
    BY <1>3 DEF CreateCompany, Typed, TypeOK
  <1>4. CASE UNCHANGED vars
    BY <1>4 DEF vars
  <1>5. CASE Next /\ ~(\E p \in Procs : CreateOwner(p) \/ \E d \in Clients : CreateCompany(p, d))
    <2>1. UNCHANGED company
      BY <1>5, StepCases DEF AddClient, StartInvite, SweepLists, Respond, ChangeStatus,
         CheckEmail, LinkClient, WriteStatus, RecordResult, ReadClaim, Dies, AcceptLink,
         GenerateLink, LinkExpires, RevokeLink
    <2> QED BY <2>1
  <1> QED BY <1>2, <1>3, <1>4, <1>5

\* What an invocation knows after a step.
LEMMA NextWriters == Typed /\ Owned /\ [Next]_vars => WritersKnowOwned'
  <1> SUFFICES ASSUME Typed, Owned, [Next]_vars,
                      NEW q \in Procs,
                      proc'[q].pc \in {"link", "result", "claim", "accept", "status"}
               PROVE  company'[proc'[q].client] = "owned"
    BY DEF WritersKnowOwned
  <1>0. Typed'
    BY NextTyped
  <1>1. CASE /\ proc[q].pc \in {"link", "result", "claim", "accept", "status"}
             /\ proc'[q].client = proc[q].client
    <2>1. company[proc[q].client] = "owned" /\ proc[q].client \in Clients
      BY <1>1 DEF Owned, WritersKnowOwned, Typed, ProcTyped
    <2> QED BY <1>1, <2>1, OwnedStays
  <1>2. CASE proc' = proc
    BY <1>1, <1>2
  <1>4. ASSUME proc' = [proc EXCEPT ![q] = ProcIdle] PROVE FALSE
    BY <1>4 DEF ProcIdle, Typed, TypeOK
  <1>5. ASSUME NEW a \in Agencies, NEW c \in Clients,
               \/ StartInvite(q, a, c) \/ SweepLists(q, a, c)
               \/ \E accept \in BOOLEAN : Respond(q, a, c, accept)
               \/ \E status \in LinkStatuses : ChangeStatus(q, a, c, status)
        PROVE  company'[proc'[q].client] = "owned"
    <2>1. company[c] = "owned"
      BY <1>5 DEF StartInvite, SweepLists, Respond, ChangeStatus, Owned, ClaimedIsOwned,
                  ClaimedBy, Claimed
    <2>2. PICK row : row.client = c /\ proc' = [proc EXCEPT ![q] = row]
      BY <1>5 DEF StartInvite, SweepLists, Respond, ChangeStatus, ProcIdle
    <2>3. proc'[q].client = c
      BY <2>2 DEF Typed, TypeOK
    <2> QED BY <2>1, <2>3, OwnedStays
  <1>6. ASSUME NEW pc, Goto(q, pc), proc[q].pc \in {"link", "claim"}
        PROVE  company'[proc'[q].client] = "owned"
    <2>1. proc'[q].client = proc[q].client
      BY <1>6 DEF Goto, Typed, TypeOK, ProcState
    <2> QED BY <1>1, <1>6, <2>1
  <1>7. ASSUME CreateOwner(q) PROVE company'[proc'[q].client] = "owned"
    <2>1. CASE Finish(q)
      BY <2>1, <1>4 DEF Finish
    <2>2. CASE /\ company' = [company EXCEPT ![proc[q].client] = "owned"]
               /\ proc' = [proc EXCEPT ![q].pc = "link", ![q].email = None]
      <3>1. proc[q] \in ProcState /\ proc[q].client \in Clients
        BY <1>7 DEF CreateOwner, At, Typed, TypeOK, ProcTyped
      <3>2. proc'[q].client = proc[q].client
        BY <2>2, <3>1 DEF Typed, TypeOK, ProcState
      <3> QED BY <2>2, <3>1, <3>2 DEF Typed, TypeOK
    <2> QED BY <1>7, <2>1, <2>2 DEF CreateOwner
  <1>8. ASSUME NEW c \in Clients, CreateCompany(q, c) PROVE FALSE
    BY <1>8 DEF CreateCompany, Typed, TypeOK
  <1>9. ASSUME \/ CheckEmail(q)
               \/ \E e, a, i : AddClient(q, a, e) \/ AcceptLink(q, i, e)
        PROVE  FALSE
    <2>1. CASE CheckEmail(q)
      <3>1. CASE Finish(q)
        BY <3>1, <1>4 DEF Finish
      <3>2. CASE Goto(q, "company")
        <4>1. proc'[q].pc = "company"
          BY <3>2 DEF Goto, Typed, TypeOK, ProcState
        <4> QED BY <4>1
      <3> QED BY <2>1, <3>1, <3>2 DEF CheckEmail
    <2>2. ASSUME NEW a, NEW e, NEW i, AddClient(q, a, e) \/ AcceptLink(q, i, e)
          PROVE  FALSE
      <3>1. PICK row : row.pc = "email" /\ proc' = [proc EXCEPT ![q] = row]
        BY <2>2 DEF AddClient, AcceptLink, ProcIdle
      <3> QED BY <3>1 DEF Typed, TypeOK
    <2> QED BY <1>9, <2>1, <2>2
  <1>10. ASSUME LinkClient(q) \/ ReadClaim(q) PROVE company'[proc'[q].client] = "owned"
    BY <1>10, <1>4, <1>6 DEF LinkClient, ReadClaim, At, Finish
  <1>11. ASSUME RecordResult(q) \/ WriteStatus(q) \/ Dies(q) PROVE FALSE
    BY <1>11, <1>4 DEF RecordResult, WriteStatus, Dies, Finish
  <1> DEFINE Own == \/ \E a \in Agencies, e \in Emails : AddClient(q, a, e)
                    \/ \E a \in Agencies, c \in Clients :
                          \/ StartInvite(q, a, c) \/ SweepLists(q, a, c)
                          \/ \E accept \in BOOLEAN : Respond(q, a, c, accept)
                          \/ \E status \in {"active", "suspended", "removed"} :
                                ChangeStatus(q, a, c, status)
                    \/ CheckEmail(q) \/ CreateOwner(q) \/ LinkClient(q) \/ RecordResult(q)
                    \/ \E c \in Clients : CreateCompany(q, c)
                    \/ ReadClaim(q) \/ WriteStatus(q) \/ Dies(q)
                    \/ \E i \in Invitations, e \in Emails : AcceptLink(q, i, e)
  <1>12. CASE Own
    <2>1. {"active", "suspended", "removed"} \subseteq LinkStatuses
      BY DEF LinkStatuses, Claimed
    <2> QED BY <1>12, <2>1, <1>5, <1>7, <1>8, <1>9, <1>10, <1>11
  <1>13. CASE Next /\ ~Own
    <2>1. ASSUME NEW p \in Procs \ {q}, NEW a \in Agencies, NEW e \in Emails, AddClient(p, a, e)
          PROVE  proc'[q] = proc[q]
      BY <2>1 DEF AddClient, Typed, TypeOK
    <2>2. ASSUME NEW p \in Procs \ {q}, NEW i \in Invitations, NEW e \in Emails, AcceptLink(p, i, e)
          PROVE  proc'[q] = proc[q]
      BY <2>2 DEF AcceptLink, Typed, TypeOK
    <2>3. ASSUME NEW p \in Procs \ {q}, NEW a \in Agencies, NEW c \in Clients,
                 \/ StartInvite(p, a, c) \/ SweepLists(p, a, c)
                 \/ \E accept \in BOOLEAN : Respond(p, a, c, accept)
                 \/ \E status \in {"active", "suspended", "removed"} : ChangeStatus(p, a, c, status)
          PROVE  proc'[q] = proc[q]
      BY <2>3 DEF StartInvite, SweepLists, Respond, ChangeStatus, Typed, TypeOK
    <2>4. ASSUME NEW p \in Procs \ {q},
                 \/ CheckEmail(p) \/ LinkClient(p) \/ RecordResult(p) \/ CreateOwner(p)
                 \/ \E c \in Clients : CreateCompany(p, c)
                 \/ ReadClaim(p) \/ WriteStatus(p) \/ Dies(p)
          PROVE  proc'[q] = proc[q]
      BY <2>4 DEF CheckEmail, LinkClient, RecordResult, CreateOwner, CreateCompany, ReadClaim,
                  WriteStatus, Dies, Finish, Goto, Typed, TypeOK
    <2>5. ASSUME \/ \E a \in Agencies, e \in Emails, i \in Invitations : GenerateLink(a, e, i)
                 \/ \E i \in Invitations : LinkExpires(i) \/ RevokeLink(i)
          PROVE  proc' = proc
      BY <2>5 DEF GenerateLink, LinkExpires, RevokeLink
    <2>6. proc'[q] = proc[q]
      <3>1. CASE \E p \in Procs, a \in Agencies, e \in Emails : AddClient(p, a, e)
        BY <1>13, <3>1, <2>1
      <3>2. CASE \E p \in Procs, a \in Agencies, c \in Clients :
                    StartInvite(p, a, c) \/ SweepLists(p, a, c)
        BY <1>13, <3>2, <2>3
      <3>3. CASE \E p \in Procs, a \in Agencies, c \in Clients, accept \in BOOLEAN :
                    Respond(p, a, c, accept)
        BY <1>13, <3>3, <2>3
      <3>4. CASE \E p \in Procs, a \in Agencies, c \in Clients,
                    status \in {"active", "suspended", "removed"} : ChangeStatus(p, a, c, status)
        BY <1>13, <3>4, <2>3
      <3>5. CASE \E p \in Procs : CheckEmail(p) \/ CreateOwner(p) \/ LinkClient(p) \/ RecordResult(p)
        <4>1. PICK p \in Procs : CheckEmail(p) \/ CreateOwner(p) \/ LinkClient(p) \/ RecordResult(p)
          BY <3>5
        <4>2. CASE p = q
          BY <1>13, <4>1, <4>2
        <4>3. CASE p # q
          BY <2>4, <4>1, <4>3
        <4> QED BY <4>2, <4>3
      <3>6. CASE \E p \in Procs, c \in Clients : CreateCompany(p, c)
        <4>1. PICK p \in Procs : \E c \in Clients : CreateCompany(p, c)
          BY <3>6
        <4>2. CASE p = q
          BY <1>13, <4>1, <4>2
        <4>3. CASE p # q
          BY <2>4, <4>1, <4>3
        <4> QED BY <4>2, <4>3
      <3>7. CASE \E p \in Procs : ReadClaim(p) \/ WriteStatus(p) \/ Dies(p)
        <4>1. PICK p \in Procs : ReadClaim(p) \/ WriteStatus(p) \/ Dies(p)
          BY <3>7
        <4>2. CASE p = q
          BY <1>13, <4>1, <4>2
        <4>3. CASE p # q
          BY <2>4, <4>1, <4>3
        <4> QED BY <4>2, <4>3
      <3>8. CASE \E p \in Procs, i \in Invitations, e \in Emails : AcceptLink(p, i, e)
        BY <1>13, <3>8, <2>2
      <3> QED BY <1>13, <2>5, <3>1, <3>2, <3>3, <3>4, <3>5, <3>6, <3>7, <3>8, StepCases
    <2> QED BY <1>1, <2>6
  <1>14. CASE UNCHANGED vars
    BY <1>14, <1>2 DEF vars
  <1> QED BY <1>12, <1>13, <1>14

LEMMA NextClaimedIsOwned == Typed /\ Owned /\ [Next]_vars => ClaimedIsOwned'
  <1> SUFFICES ASSUME Typed, Owned, [Next]_vars,
                      NEW b \in Agencies, NEW d \in Clients, link'[b][d] \in Claimed
               PROVE  company'[d] = "owned"
    BY DEF ClaimedIsOwned, ClaimedBy
  <1>1. CASE link[b][d] \in Claimed
    BY <1>1, OwnedStays DEF Owned, ClaimedIsOwned, ClaimedBy
  <1>2. ASSUME NEW p \in Procs, proc[p].pc \in {"link", "accept", "status"},
               proc[p].agency \in Agencies, proc[p].client \in Clients,
               link' = [link EXCEPT ![proc[p].agency][proc[p].client] = proc[p].status]
        PROVE  company'[d] = "owned"
    <2>1. company[proc[p].client] = "owned"
      BY <1>2 DEF Owned, WritersKnowOwned
    <2>2. CASE d = proc[p].client
      BY <2>1, <2>2, OwnedStays
    <2>3. CASE d # proc[p].client
      BY <1>1, <1>2, <2>3, LinkAfter
    <2> QED BY <2>2, <2>3
  <1> QED BY <1>1, <1>2, LinkChanges

\* An agency manages companies that have an owner, whatever died or failed
\* between creating the company, its owner and the claim.
THEOREM ClaimedOwned == Spec => []ClaimedIsOwned
  <1>1. Typed /\ Owned /\ [Next]_vars => Owned'
    BY NextWriters, NextClaimedIsOwned DEF Owned
  <1>2. Owned => ClaimedIsOwned
    BY DEF Owned
  <1> QED BY <1>1, <1>2, InitTyped, NextTyped, InitOwned, PTL DEF Spec

-----------------------------------------------------------------------------
(* What one step does to one invocation.                                   *)

\* It goes on with what it knows.
Advances(q) ==
    /\ \A r \in Procs \ {q} : proc'[r] = proc[r]
    /\ proc'[q].agency = proc[q].agency
    /\ proc'[q].status = proc[q].status /\ proc'[q].via = proc[q].via
    /\ \/ proc[q].pc = "email" /\ proc'[q].pc = "company" /\ UNCHANGED <<origin, invitation>>
       \/ proc[q].pc = "company" /\ proc'[q].pc = "owner" /\ CreateCompany(q, proc'[q].client)
       \/ /\ <<proc[q].pc, proc'[q].pc>> \in {<<"owner", "link">>, <<"claim", "link">>, <<"link", "result">>}
          /\ proc'[q].client = proc[q].client
          /\ UNCHANGED <<origin, invitation>>

\* It starts from a link, from room in the plan, or from a claim it read.
Starts(q) ==
    /\ proc[q].pc = "idle"
    /\ \/ \E i \in Invitations, e \in Emails : AcceptLink(q, i, e) /\ proc'[q].via = i
       \/ /\ proc'[q].via = None /\ HasRoom(proc'[q].agency)
          /\ \/ proc'[q].pc = "email"
             \/ proc'[q].pc = "claim" /\ proc'[q].client \in Clients /\ company[proc'[q].client] = "owned"
          /\ UNCHANGED <<link, origin, invitation>>
       \/ /\ proc'[q].via = None /\ proc'[q].pc \in {"accept", "status"}
          /\ proc'[q].agency \in Agencies /\ proc'[q].client \in Clients
          /\ link[proc'[q].agency][proc'[q].client] \in Claimed
          /\ UNCHANGED <<origin, invitation>>

LEMMA Moves ==
    ASSUME Typed, [Next]_vars, NEW q \in Procs
    PROVE  proc'[q] = proc[q] \/ proc'[q] = ProcIdle \/ Advances(q) \/ Starts(q)
  <1> DEFINE Goal == proc'[q] = proc[q] \/ proc'[q] = ProcIdle \/ Advances(q) \/ Starts(q)
  <1>0. proc \in [Procs -> ProcState] /\ proc[q] \in ProcState
    BY DEF Typed, TypeOK
  <1>a. ASSUME NEW p \in Procs, NEW row, proc' = [proc EXCEPT ![p] = row], p # q PROVE Goal
    BY <1>a, <1>0
  <1>b. ASSUME NEW row, proc' = [proc EXCEPT ![q] = row]
        PROVE  proc'[q] = row /\ \A r \in Procs \ {q} : proc'[r] = proc[r]
    BY <1>b, <1>0
  <1>1. ASSUME NEW p \in Procs, NEW a \in Agencies, NEW e \in Emails, AddClient(p, a, e) PROVE Goal
    <2>1. CASE p = q
      <3>1. proc'[q] = [ProcIdle EXCEPT !.pc = "email", !.agency = a, !.status = "active", !.email = e]
        BY <1>1, <2>1, <1>b DEF AddClient
      <3>2. proc'[q].pc = "email" /\ proc'[q].agency = a /\ proc'[q].via = None
        BY <3>1 DEF ProcIdle
      <3> QED BY <1>1, <2>1, <3>2 DEF AddClient, Starts, At
    <2> QED BY <1>1, <1>a, <2>1 DEF AddClient
  <1>2. ASSUME NEW p \in Procs, NEW a \in Agencies, NEW c \in Clients, StartInvite(p, a, c) PROVE Goal
    <2>1. CASE p = q
      <3>1. proc'[q] = [ProcIdle EXCEPT !.pc = "claim", !.agency = a, !.client = c, !.status = "invited"]
        BY <1>2, <2>1, <1>b DEF StartInvite
      <3>2. /\ proc'[q].pc = "claim" /\ proc'[q].agency = a /\ proc'[q].via = None
            /\ proc'[q].client = c
        BY <3>1 DEF ProcIdle
      <3> QED BY <1>2, <2>1, <3>2 DEF StartInvite, Starts, At
    <2> QED BY <1>2, <1>a, <2>1 DEF StartInvite
  <1>3. ASSUME NEW p \in Procs, NEW a \in Agencies, NEW c \in Clients, NEW s,
               NEW pc \in {"accept", "status"}, At(p, "idle"), link[a][c] \in Claimed,
               proc' = [proc EXCEPT ![p] = [ProcIdle EXCEPT
                           !.pc = pc, !.agency = a, !.client = c, !.status = s]],
               UNCHANGED <<origin, invitation>>
        PROVE  Goal
    <2>1. CASE p = q
      <3>1. proc'[q] = [ProcIdle EXCEPT !.pc = pc, !.agency = a, !.client = c, !.status = s]
        BY <1>3, <2>1, <1>b
      <3>2. /\ proc'[q].pc = pc /\ proc'[q].agency = a /\ proc'[q].via = None
            /\ proc'[q].client = c
        BY <3>1 DEF ProcIdle
      <3> QED BY <1>3, <2>1, <3>2 DEF Starts, At
    <2> QED BY <1>3, <1>a, <2>1
  <1>4. ASSUME NEW p \in Procs, NEW a \in Agencies, NEW c \in Clients,
               \/ SweepLists(p, a, c)
               \/ \E accept \in BOOLEAN : Respond(p, a, c, accept)
               \/ \E status \in {"active", "suspended", "removed"} : ChangeStatus(p, a, c, status)
        PROVE  Goal
    <2>1. CASE SweepLists(p, a, c)
      BY <2>1, <1>3 DEF SweepLists, Claimed
    <2>2. ASSUME NEW accept \in BOOLEAN, Respond(p, a, c, accept) PROVE Goal
      BY <2>2, <1>3 DEF Respond, Claimed
    <2>3. ASSUME NEW s, ChangeStatus(p, a, c, s) PROVE Goal
      BY <2>3, <1>3 DEF ChangeStatus
    <2> QED BY <1>4, <2>1, <2>2, <2>3
  <1>5. ASSUME NEW p \in Procs, Finish(p) PROVE Goal
    BY <1>5, <1>a, <1>b DEF Finish
  <1>6. ASSUME NEW p \in Procs, NEW pc, Goto(p, pc), UNCHANGED <<origin, invitation>>,
               <<proc[p].pc, pc>> \in {<<"email", "company">>, <<"claim", "link">>, <<"link", "result">>}
        PROVE  Goal
    <2>1. CASE p = q
      <3>1. proc' = [proc EXCEPT ![q] = [proc[q] EXCEPT !.pc = pc]]
        BY <1>6, <2>1 DEF Goto
      <3>2. /\ proc'[q] = [proc[q] EXCEPT !.pc = pc]
            /\ \A r \in Procs \ {q} : proc'[r] = proc[r]
        BY <3>1, <1>b
      <3>3. /\ proc'[q].pc = pc /\ proc'[q].agency = proc[q].agency
            /\ proc'[q].client = proc[q].client /\ proc'[q].status = proc[q].status
            /\ proc'[q].via = proc[q].via
        BY <3>2, <1>0 DEF ProcState
      <3> QED BY <1>6, <2>1, <3>2, <3>3 DEF Advances
    <2> QED BY <1>6, <1>a, <2>1 DEF Goto
  <1>7. ASSUME NEW p \in Procs, CreateOwner(p) PROVE Goal
    <2>1. CASE p = q /\ ~Finish(p)
      <3>1. /\ proc[q].pc = "owner" /\ UNCHANGED <<origin, invitation>>
            /\ proc' = [proc EXCEPT ![q] = [proc[q] EXCEPT !.pc = "link", !.email = None]]
        BY <1>7, <2>1 DEF CreateOwner, At
      <3>2. /\ proc'[q] = [proc[q] EXCEPT !.pc = "link", !.email = None]
            /\ \A r \in Procs \ {q} : proc'[r] = proc[r]
        BY <3>1, <1>b
      <3>3. /\ proc'[q].pc = "link" /\ proc'[q].agency = proc[q].agency
            /\ proc'[q].client = proc[q].client /\ proc'[q].status = proc[q].status
            /\ proc'[q].via = proc[q].via
        BY <3>2, <1>0 DEF ProcState
      <3> QED BY <3>1, <3>2, <3>3 DEF Advances
    <2>2. CASE p # q /\ ~Finish(p)
      BY <1>7, <1>a, <2>2 DEF CreateOwner
    <2> QED BY <1>5, <2>1, <2>2
  <1>8. ASSUME NEW p \in Procs, NEW c \in Clients, CreateCompany(p, c) PROVE Goal
    <2>1. CASE p = q
      <3>1. /\ proc[q].pc = "company"
            /\ proc' = [proc EXCEPT ![q] = [proc[q] EXCEPT !.pc = "owner", !.client = c]]
        BY <1>8, <2>1 DEF CreateCompany, At
      <3>2. /\ proc'[q] = [proc[q] EXCEPT !.pc = "owner", !.client = c]
            /\ \A r \in Procs \ {q} : proc'[r] = proc[r]
        BY <3>1, <1>b
      <3>3. /\ proc'[q].pc = "owner" /\ proc'[q].agency = proc[q].agency
            /\ proc'[q].client = c /\ proc'[q].status = proc[q].status
            /\ proc'[q].via = proc[q].via
        BY <3>2, <1>0 DEF ProcState
      <3>4. CreateCompany(q, proc'[q].client)
        BY <1>8, <2>1, <3>3
      <3> QED BY <3>1, <3>2, <3>3, <3>4 DEF Advances
    <2>2. proc' = [proc EXCEPT ![p] = [proc[p] EXCEPT !.pc = "owner", !.client = c]]
      BY <1>8 DEF CreateCompany
    <2> QED BY <1>a, <2>1, <2>2
  <1>9. ASSUME NEW p \in Procs, NEW i \in Invitations, NEW e \in Emails, AcceptLink(p, i, e)
        PROVE  Goal
    <2>1. CASE p = q
      <3>1. proc'[q] = [ProcIdle EXCEPT !.pc = "email", !.agency = invitation[i].agency,
                                        !.status = "active", !.email = e, !.via = i]
        BY <1>9, <2>1, <1>b DEF AcceptLink
      <3>2. proc'[q].via = i
        BY <3>1 DEF ProcIdle
      <3> QED BY <1>9, <2>1, <3>2 DEF AcceptLink, Starts, At
    <2> QED BY <1>9, <1>a, <2>1 DEF AcceptLink
  <1>10. ASSUME NEW p \in Procs,
                \/ CheckEmail(p) \/ LinkClient(p) \/ RecordResult(p)
                \/ ReadClaim(p) \/ WriteStatus(p) \/ Dies(p)
         PROVE  Goal
    <2>1. CASE CheckEmail(p)
      BY <2>1, <1>5, <1>6 DEF CheckEmail, At
    <2>2. CASE LinkClient(p)
      BY <2>2, <1>5, <1>6 DEF LinkClient, At
    <2>3. CASE ReadClaim(p)
      BY <2>3, <1>5, <1>6 DEF ReadClaim, At
    <2>4. CASE RecordResult(p) \/ WriteStatus(p) \/ Dies(p)
      BY <2>4, <1>5 DEF RecordResult, WriteStatus, Dies
    <2> QED BY <1>10, <2>1, <2>2, <2>3, <2>4
  <1>11. ASSUME proc' = proc PROVE Goal
    BY <1>11
  <1>12. ASSUME UNCHANGED vars PROVE Goal
    BY <1>12, <1>11 DEF vars
  <1>13. ASSUME \/ \E a \in Agencies, e \in Emails, i \in Invitations : GenerateLink(a, e, i)
                \/ \E i \in Invitations : LinkExpires(i) \/ RevokeLink(i)
         PROVE  Goal
    BY <1>13, <1>11 DEF GenerateLink, LinkExpires, RevokeLink
  <1> HIDE DEF Goal
  <1>14. ASSUME NEW p \in Procs, Start(p) PROVE Goal
    BY <1>14, <1>1, <1>2, <1>4, Zenon DEF Start
  <1>15. ASSUME NEW p \in Procs, Step(p) PROVE Goal
    BY <1>15, <1>7, <1>8, <1>10, Zenon DEF Step
  <1>16. ASSUME Next PROVE Goal
    BY <1>16, <1>9, <1>13, <1>14, <1>15, Zenon DEF Next
  <1>17. Goal
    BY <1>12, <1>16
  <1> QED BY <1>17 DEF Goal

\* A company's link is set when the company is created, and never again.
LEMMA OriginChanges ==
    ASSUME Typed, [Next]_vars
    PROVE  UNCHANGED origin \/ \E p \in Procs, c \in Clients : CreateCompany(p, c)
  BY StepCases DEF vars, AddClient, StartInvite, SweepLists, Respond, ChangeStatus,
     CheckEmail, CreateOwner, LinkClient, RecordResult, ReadClaim, WriteStatus, Dies,
     AcceptLink, GenerateLink, LinkExpires, RevokeLink

LEMMA OriginAfter ==
    ASSUME Typed, NEW p \in Procs, NEW c \in Clients, CreateCompany(p, c)
    PROVE  /\ proc[p].pc = "company" /\ company[c] = "none"
           /\ \A d \in Clients : origin'[d] = IF d = c THEN proc[p].via ELSE origin[d]
           /\ proc'[p].pc = "owner"
           /\ UNCHANGED invitation
  <1>1. proc[p].pc = "company" /\ company[c] = "none" /\ UNCHANGED invitation
    BY DEF CreateCompany, At
  <1>2. \A d \in Clients : origin'[d] = IF d = c THEN proc[p].via ELSE origin[d]
    BY DEF CreateCompany, Typed, TypeOK
  <1>3. proc'[p].pc = "owner"
    BY DEF CreateCompany, Typed, TypeOK, ProcState
  <1> QED BY <1>1, <1>2, <1>3

-----------------------------------------------------------------------------
(* Every link makes at most one client.                                    *)

\* An invocation that has accepted a link and not yet created its company.
Opens(p) == proc[p].pc \in {"email", "company"} /\ proc[p].via # None

\* An accepted link is never free or pending again; one invocation at most
\* works for it, and only while it has made no company.
AcceptedIsSpent ==
    \A i \in Invitations : invitation[i].accepted => invitation[i].st \notin {"free", "PENDING"}
OpenersHoldLinks ==
    \A p \in Procs : Opens(p) => /\ invitation[proc[p].via].accepted
                                 /\ \A c \in Clients : origin[c] # proc[p].via
OneOpener == \A p, q \in Procs : Opens(p) /\ Opens(q) /\ proc[p].via = proc[q].via => p = q
LinkInv == AcceptedIsSpent /\ OpenersHoldLinks /\ OneOpener /\ LinkMakesOneClient

LEMMA InitLink == Init => LinkInv
  BY DEF Init, LinkInv, AcceptedIsSpent, OpenersHoldLinks, OneOpener, Opens,
         LinkMakesOneClient, NoInvitation, ProcIdle

\* What a step makes of a link.
LEMMA InvitationChanges ==
    ASSUME Typed, [Next]_vars
    PROVE  \/ UNCHANGED invitation
           \/ \E i \in Invitations :
                 /\ \A j \in Invitations \ {i} : invitation'[j] = invitation[j]
                 /\ \/ invitation[i].st = "free" /\ ~invitation'[i].accepted
                    \/ /\ invitation'[i].accepted = invitation[i].accepted
                       /\ invitation'[i].st \in {invitation[i].st, "REVOKED"}
                    \/ invitation'[i].accepted /\ invitation'[i].st = "ACCEPTED"
  <1> DEFINE Goal ==
        \/ UNCHANGED invitation
        \/ \E i \in Invitations :
              /\ \A j \in Invitations \ {i} : invitation'[j] = invitation[j]
              /\ \/ invitation[i].st = "free" /\ ~invitation'[i].accepted
                 \/ /\ invitation'[i].accepted = invitation[i].accepted
                    /\ invitation'[i].st \in {invitation[i].st, "REVOKED"}
                 \/ invitation'[i].accepted /\ invitation'[i].st = "ACCEPTED"
  <1>0. \A i \in Invitations : invitation[i] \in InvitationState
    BY DEF Typed, TypeOK
  <1>1. ASSUME NEW i \in Invitations, NEW row, invitation' = [invitation EXCEPT ![i] = row]
        PROVE  invitation'[i] = row /\ \A j \in Invitations \ {i} : invitation'[j] = invitation[j]
    BY <1>1 DEF Typed, TypeOK
  <1>2. ASSUME NEW a \in Agencies, NEW e \in Emails, NEW i \in Invitations, GenerateLink(a, e, i)
        PROVE  Goal
    <2>1. /\ invitation'[i] = [NoInvitation EXCEPT !.st = "PENDING", !.agency = a, !.email = e]
          /\ \A j \in Invitations \ {i} : invitation'[j] = invitation[j]
          /\ invitation[i].st = "free"
      BY <1>1, <1>2 DEF GenerateLink
    <2>2. ~invitation'[i].accepted
      BY <2>1 DEF NoInvitation
    <2> QED BY <2>1, <2>2
  <1>3. ASSUME NEW i \in Invitations, LinkExpires(i) PROVE Goal
    <2>1. invitation' = [invitation EXCEPT ![i] = [invitation[i] EXCEPT !.expired = TRUE]]
      BY <1>3 DEF LinkExpires
    <2>2. /\ invitation'[i] = [invitation[i] EXCEPT !.expired = TRUE]
          /\ \A j \in Invitations \ {i} : invitation'[j] = invitation[j]
      BY <1>1, <2>1
    <2>3. invitation'[i].accepted = invitation[i].accepted /\ invitation'[i].st = invitation[i].st
      BY <1>0, <2>2 DEF InvitationState
    <2> QED BY <2>2, <2>3
  <1>4. ASSUME NEW i \in Invitations, RevokeLink(i) PROVE Goal
    <2>1. invitation' = [invitation EXCEPT ![i] = [invitation[i] EXCEPT !.st = "REVOKED"]]
      BY <1>4 DEF RevokeLink
    <2>2. /\ invitation'[i] = [invitation[i] EXCEPT !.st = "REVOKED"]
          /\ \A j \in Invitations \ {i} : invitation'[j] = invitation[j]
      BY <1>1, <2>1
    <2>3. invitation'[i].accepted = invitation[i].accepted /\ invitation'[i].st = "REVOKED"
      BY <1>0, <2>2 DEF InvitationState
    <2> QED BY <2>2, <2>3
  <1>5. ASSUME NEW p \in Procs, NEW i \in Invitations, NEW e \in Emails, AcceptLink(p, i, e)
        PROVE  Goal
    <2>1. invitation' = [invitation EXCEPT ![i] =
                            [invitation[i] EXCEPT !.st = "ACCEPTED", !.accepted = TRUE]]
      BY <1>5 DEF AcceptLink
    <2>2. /\ invitation'[i] = [invitation[i] EXCEPT !.st = "ACCEPTED", !.accepted = TRUE]
          /\ \A j \in Invitations \ {i} : invitation'[j] = invitation[j]
      BY <1>1, <2>1
    <2>3. invitation'[i].accepted /\ invitation'[i].st = "ACCEPTED"
      BY <1>0, <2>2 DEF InvitationState
    <2> QED BY <2>2, <2>3
  <1>6. ASSUME NEW p \in Procs, RecordResult(p) PROVE Goal
    <2>0. PICK i \in Invitations : i = proc[p].via
      BY <1>6 DEF RecordResult, At, Typed, ProcTyped
    <2>1. invitation' = [invitation EXCEPT ![i] = [invitation[i] EXCEPT !.result = proc[p].client]]
      BY <1>6, <2>0 DEF RecordResult
    <2>2. /\ invitation'[i] = [invitation[i] EXCEPT !.result = proc[p].client]
          /\ \A j \in Invitations \ {i} : invitation'[j] = invitation[j]
      BY <1>1, <2>1
    <2>3. invitation'[i].accepted = invitation[i].accepted /\ invitation'[i].st = invitation[i].st
      BY <1>0, <2>2 DEF InvitationState
    <2> QED BY <2>2, <2>3
  <1>7. UNCHANGED invitation => Goal
    OBVIOUS
  <1> HIDE DEF Goal
  <1>8. Goal
    BY <1>2, <1>3, <1>4, <1>5, <1>6, <1>7, StepCases
       DEF vars, AddClient, StartInvite, SweepLists, Respond, ChangeStatus, CheckEmail,
           CreateOwner, LinkClient, CreateCompany, ReadClaim, WriteStatus, Dies
  <1> QED BY <1>8 DEF Goal

LEMMA AcceptedStays ==
    ASSUME Typed, AcceptedIsSpent, [Next]_vars
    PROVE  /\ AcceptedIsSpent'
           /\ \A i \in Invitations : invitation[i].accepted => invitation'[i].accepted
  BY InvitationChanges DEF AcceptedIsSpent

\* Whoever works for a link after a step did before it, or accepts it now.
LEMMA OpensBecause ==
    ASSUME Typed, [Next]_vars, NEW q \in Procs, Opens(q)'
    PROVE  \/ Opens(q) /\ proc'[q].via = proc[q].via
           \/ \E i \in Invitations, e \in Emails : AcceptLink(q, i, e) /\ proc'[q].via = i
  <1>1. proc'[q].pc \in {"email", "company"} /\ proc'[q].via # None
    BY DEF Opens
  <1>2. CASE proc'[q] = proc[q]
    BY <1>2 DEF Opens
  <1>3. CASE proc'[q] = ProcIdle
    BY <1>1, <1>3 DEF ProcIdle
  <1>4. CASE Advances(q)
    BY <1>1, <1>4 DEF Advances, Opens
  <1>5. CASE Starts(q)
    BY <1>1, <1>5 DEF Starts
  <1> QED BY <1>2, <1>3, <1>4, <1>5, Moves

LEMMA AcceptLinkFacts ==
    ASSUME Typed, NEW p \in Procs, NEW i \in Invitations, NEW e \in Emails, AcceptLink(p, i, e)
    PROVE  /\ invitation[i].st = "PENDING" /\ invitation'[i].accepted
           /\ UNCHANGED origin
           /\ \A q \in Procs \ {p} : proc'[q] = proc[q]
           /\ proc[p].pc = "idle" /\ proc'[p].pc = "email"
  <1>1. invitation[i] \in InvitationState
    BY DEF Typed, TypeOK
  <1>2. invitation' = [invitation EXCEPT ![i] =
                            [invitation[i] EXCEPT !.st = "ACCEPTED", !.accepted = TRUE]]
    BY DEF AcceptLink
  <1>3. invitation'[i].accepted
    BY <1>1, <1>2 DEF Typed, TypeOK, InvitationState
  <1>4. \A q \in Procs \ {p} : proc'[q] = proc[q]
    BY DEF AcceptLink, Typed, TypeOK
  <1>5. proc'[p] = [ProcIdle EXCEPT !.pc = "email", !.agency = invitation[i].agency,
                                    !.status = "active", !.email = e, !.via = i]
    BY DEF AcceptLink, Typed, TypeOK
  <1>6. proc'[p].pc = "email"
    BY <1>5 DEF ProcIdle
  <1> QED BY <1>3, <1>4, <1>6 DEF AcceptLink, At

LEMMA NextLink == Typed /\ LinkInv /\ [Next]_vars => LinkInv'
  <1> SUFFICES ASSUME Typed, LinkInv, [Next]_vars PROVE LinkInv'
    OBVIOUS
  <1>1. /\ AcceptedIsSpent'
        /\ \A i \in Invitations : invitation[i].accepted => invitation'[i].accepted
    BY AcceptedStays DEF LinkInv
  <1>2. OneOpener'
    <2> SUFFICES ASSUME NEW p \in Procs, NEW q \in Procs, Opens(p)', Opens(q)',
                        proc'[p].via = proc'[q].via, p # q
                 PROVE  FALSE
      BY DEF OneOpener
    <2>1. ASSUME NEW r \in Procs, NEW s \in Procs, r # s, Opens(r)', Opens(s)',
                 proc'[r].via = proc'[s].via,
                 NEW i \in Invitations, NEW e \in Emails, AcceptLink(r, i, e), proc'[r].via = i
          PROVE  FALSE
      <3>1. proc'[s] = proc[s] /\ ~invitation[i].accepted
        BY <2>1, AcceptLinkFacts DEF LinkInv, AcceptedIsSpent
      <3>2. Opens(s) /\ proc[s].via = i
        BY <3>1, <2>1 DEF Opens
      <3> QED BY <3>1, <3>2 DEF LinkInv, OpenersHoldLinks
    <2>2. Opens(p) /\ Opens(q) /\ proc[p].via = proc[q].via
      BY <2>1, OpensBecause
    <2> QED BY <2>2 DEF LinkInv, OneOpener
  <1>3. OpenersHoldLinks'
    <2> SUFFICES ASSUME NEW q \in Procs, Opens(q)'
                 PROVE  /\ invitation'[proc'[q].via].accepted
                        /\ \A c \in Clients : origin'[c] # proc'[q].via
      BY DEF OpenersHoldLinks
    <2>1. CASE Opens(q) /\ proc'[q].via = proc[q].via
      <3>1. /\ invitation[proc[q].via].accepted /\ proc[q].via \in Invitations
            /\ \A c \in Clients : origin[c] # proc[q].via
        BY <2>1 DEF LinkInv, OpenersHoldLinks, Typed, TypeOK, ProcState, Opens
      <3>2. ASSUME NEW p \in Procs, NEW c \in Clients, CreateCompany(p, c)
            PROVE  \A d \in Clients : origin'[d] # proc[q].via
        <4>1. p # q
          BY <3>2, OriginAfter DEF Opens
        <4>2. proc[p].via # proc[q].via
          BY <2>1, <3>2, <4>1, OriginAfter DEF LinkInv, OneOpener, Opens
        <4> QED BY <3>1, <3>2, <4>2, OriginAfter
      <3> QED BY <1>1, <2>1, <3>1, <3>2, OriginChanges
    <2>2. ASSUME NEW i \in Invitations, NEW e \in Emails, AcceptLink(q, i, e), proc'[q].via = i
          PROVE  /\ invitation'[proc'[q].via].accepted
                 /\ \A c \in Clients : origin'[c] # proc'[q].via
      <3>1. ~invitation[i].accepted /\ UNCHANGED origin /\ invitation'[i].accepted
        BY <2>2, AcceptLinkFacts DEF LinkInv, AcceptedIsSpent
      <3>2. \A c \in Clients : origin[c] # i
        BY <3>1 DEF LinkInv, LinkMakesOneClient
      <3> QED BY <2>2, <3>1, <3>2
    <2> QED BY <2>1, <2>2, OpensBecause
  <1>4. LinkMakesOneClient'
    <2>0. origin \in [Clients -> Invitations \cup {None}]
      BY DEF Typed, TypeOK
    <2>1. CASE UNCHANGED origin
      BY <1>1, <2>0, <2>1 DEF LinkInv, LinkMakesOneClient
    <2>2. ASSUME NEW p \in Procs, NEW c \in Clients, CreateCompany(p, c)
          PROVE  LinkMakesOneClient'
      <3>1. CASE proc[p].via = None
        BY <3>1, <2>0, <2>2, <1>1, OriginAfter DEF LinkInv, LinkMakesOneClient
      <3>2. CASE proc[p].via # None
        <4>1. /\ invitation[proc[p].via].accepted /\ proc[p].via \in Invitations
              /\ \A d \in Clients : origin[d] # proc[p].via
          BY <3>2, <2>2, OriginAfter
             DEF LinkInv, OpenersHoldLinks, Opens, Typed, TypeOK, ProcState
        <4> QED BY <3>2, <4>1, <2>0, <2>2, <1>1, OriginAfter DEF LinkInv, LinkMakesOneClient
      <3> QED BY <3>1, <3>2
    <2> QED BY <2>1, <2>2, OriginChanges
  <1> QED BY <1>1, <1>2, <1>3, <1>4 DEF LinkInv

\* However often a link is opened, and whatever revocation or expiry races it,
\* at most one company comes of it, and none unless it was accepted.
THEOREM OneClientPerLink == Spec => []LinkMakesOneClient
  <1>1. LinkInv => LinkMakesOneClient
    BY DEF LinkInv
  <1> QED BY <1>1, InitTyped, NextTyped, InitLink, NextLink, PTL DEF Spec

-----------------------------------------------------------------------------
(* The client limit.                                                       *)

Limited(a) == {c \in ClaimedBy(a) : origin[c] = None}

\* An invocation that may yet claim a client the limit counts: one that makes
\* a company stands for that company, one that has a client for the client.
Creates(p) == proc[p].pc \in {"email", "company", "owner"}
Pending(p) ==
    \/ Creates(p) /\ proc[p].via = None
    \/ /\ proc[p].pc \in {"claim", "link", "accept", "status"}
       /\ proc[p].status \in Claimed /\ origin[proc[p].client] = None
Token(p) == IF Creates(p) THEN <<"proc", p>> ELSE <<"client", proc[p].client>>
ClientTokens(S) == {<<"client", c>> : c \in S}
ProcTokens(S) == {Token(p) : p \in S}
Tokens(a) == ClientTokens(Limited(a)) \cup
             ProcTokens({p \in Procs : proc[p].agency = a /\ Pending(p)})

\* The claims an agency has and those under way together stay below the limit
\* and the invocations: each found room when it started.
TokensBounded ==
    \A a \in Agencies :
        Tokens(a) # {} => Cardinality(Tokens(a)) < ClientLimit[a] + Cardinality(Procs)

\* A company made for a link is known to be so for as long as it is claimed.
FromLink ==
    \A p \in Procs :
        /\ proc[p].pc = "owner" => company[proc[p].client] # "none"
        /\ proc[p].pc \in {"owner", "link"} /\ proc[p].via # None
             => origin[proc[p].client] # None
        /\ proc[p].pc = "claim" => proc[p].via = None

LEMMA ClientTokensCard ==
    ASSUME NEW S, IsFiniteSet(S)
    PROVE  IsFiniteSet(ClientTokens(S)) /\ Cardinality(ClientTokens(S)) <= Cardinality(S)
  <1> DEFINE f == [c \in S |-> <<"client", c>>]
  <1>1. f \in Surjection(S, ClientTokens(S))
    BY DEF Surjection, ClientTokens
  <1> QED BY <1>1, FS_Surjection

LEMMA ProcTokensCard ==
    ASSUME NEW S \in SUBSET Procs
    PROVE  IsFiniteSet(ProcTokens(S)) /\ Cardinality(ProcTokens(S)) <= Cardinality(Procs)
  <1> DEFINE f == [p \in S |-> Token(p)]
  <1> HIDE DEF Token
  <1>1. f \in Surjection(S, ProcTokens(S))
    BY DEF Surjection, ProcTokens
  <1>2. IsFiniteSet(S) /\ Cardinality(S) <= Cardinality(Procs)
    BY FiniteAssumption, FS_Subset
  <1>3. IsFiniteSet(ProcTokens(S)) /\ Cardinality(ProcTokens(S)) <= Cardinality(S)
    BY <1>1, <1>2, FS_Surjection
  <1>4. Cardinality(S) \in Nat /\ Cardinality(Procs) \in Nat /\ Cardinality(ProcTokens(S)) \in Nat
    BY <1>2, <1>3, FiniteAssumption, FS_CardinalityType
  <1> QED BY <1>2, <1>3, <1>4

LEMMA ClaimedByFinite ==
    ASSUME NEW a \in Agencies
    PROVE  IsFiniteSet(ClaimedBy(a)) /\ IsFiniteSet(Limited(a))
  <1>1. IsFiniteSet(Clients)
    BY FiniteAssumption, FS_Union DEF Clients
  <1>2. ClaimedBy(a) \subseteq Clients /\ Limited(a) \subseteq Clients
    BY DEF ClaimedBy, Limited
  <1> QED BY <1>1, <1>2, FS_Subset

LEMMA TokensFinite ==
    ASSUME NEW a \in Agencies PROVE IsFiniteSet(Tokens(a)) /\ Cardinality(Tokens(a)) \in Nat
  <1>1. IsFiniteSet(ClientTokens(Limited(a)))
    BY ClaimedByFinite, ClientTokensCard
  <1>2. IsFiniteSet(ProcTokens({p \in Procs : proc[p].agency = a /\ Pending(p)}))
    BY ProcTokensCard
  <1>3. IsFiniteSet(Tokens(a))
    BY <1>1, <1>2, FS_Union DEF Tokens
  <1> QED BY <1>3, FS_CardinalityType

\* The link of a company, once there, does not change.
LEMMA OriginStays ==
    ASSUME Typed, [Next]_vars, NEW c \in Clients, company[c] # "none"
    PROVE  origin'[c] = origin[c]
  BY OriginChanges, OriginAfter

LEMMA CompanyStays ==
    ASSUME Typed, [Next]_vars, NEW c \in Clients, company[c] # "none"
    PROVE  company'[c] # "none"
  <1>1. CASE UNCHANGED company
    BY <1>1
  <1>2. ASSUME NEW p \in Procs, CreateOwner(p) PROVE company'[c] # "none"
    BY <1>2 DEF CreateOwner, Typed, TypeOK
  <1>3. ASSUME NEW p \in Procs, NEW d \in Clients, CreateCompany(p, d) PROVE company'[c] # "none"
    BY <1>3 DEF CreateCompany, Typed, TypeOK
  <1>4. CASE UNCHANGED vars
    BY <1>4 DEF vars
  <1>5. CASE Next /\ ~(\E p \in Procs : CreateOwner(p) \/ \E d \in Clients : CreateCompany(p, d))
    <2>1. UNCHANGED company
      BY <1>5, StepCases DEF AddClient, StartInvite, SweepLists, Respond, ChangeStatus,
         CheckEmail, LinkClient, WriteStatus, RecordResult, ReadClaim, Dies, AcceptLink,
         GenerateLink, LinkExpires, RevokeLink
    <2> QED BY <2>1
  <1> QED BY <1>2, <1>3, <1>4, <1>5

LEMMA InitFromLink == Init => FromLink
  BY DEF Init, FromLink, ProcIdle

LEMMA NextFromLink == Typed /\ Owned /\ FromLink /\ [Next]_vars => FromLink'
  <1> SUFFICES ASSUME Typed, Owned, FromLink, [Next]_vars, NEW q \in Procs
               PROVE  /\ proc'[q].pc = "owner" => company'[proc'[q].client] # "none"
                      /\ proc'[q].pc \in {"owner", "link"} /\ proc'[q].via # None
                           => origin'[proc'[q].client] # None
                      /\ proc'[q].pc = "claim" => proc'[q].via = None
    BY DEF FromLink
  <1>1. proc[q].pc \in {"owner", "link", "claim"} =>
           /\ proc[q].client \in Clients /\ company[proc[q].client] # "none"
           /\ company'[proc[q].client] # "none"
           /\ origin'[proc[q].client] = origin[proc[q].client]
    BY CompanyStays, OriginStays DEF Typed, ProcTyped, FromLink, Owned, WritersKnowOwned
  <1>2. CASE proc'[q] = proc[q]
    BY <1>1, <1>2 DEF FromLink
  <1>3. CASE proc'[q] = ProcIdle
    BY <1>3 DEF ProcIdle
  <1>4. CASE Advances(q)
    <2>1. CASE proc'[q].pc = "owner"
      <3>1. proc[q].pc = "company" /\ CreateCompany(q, proc'[q].client)
        BY <1>4, <2>1 DEF Advances
      <3>2. proc'[q].client \in Clients
        BY <3>1 DEF CreateCompany, Clients
      <3>3. origin'[proc'[q].client] = proc[q].via
        BY <3>1, <3>2, OriginAfter
      <3>4. company'[proc'[q].client] = "ownerless"
        BY <3>1, <3>2 DEF CreateCompany, Typed, TypeOK
      <3> QED BY <1>4, <2>1, <3>3, <3>4 DEF Advances
    <2>2. CASE proc'[q].pc = "link"
      BY <1>1, <1>4, <2>2 DEF Advances, FromLink
    <2> QED BY <1>4, <2>1, <2>2 DEF Advances
  <1>5. CASE Starts(q)
    BY <1>5, AcceptLinkFacts DEF Starts
  <1> QED BY <1>2, <1>3, <1>4, <1>5, Moves

\* A client an agency has after a step is one it had, or one that an
\* invocation was about to claim for it.
LEMMA LimitedBecause ==
    ASSUME Typed, Owned, [Next]_vars, NEW a \in Agencies, NEW c \in Clients, c \in Limited(a)'
    PROVE  <<"client", c>> \in Tokens(a)
  <1>1. link'[a][c] \in Claimed /\ origin'[c] = None
    BY DEF Limited, ClaimedBy
  <1>2. CASE link[a][c] \in Claimed
    <2>1. company[c] = "owned"
      BY <1>2 DEF Owned, ClaimedIsOwned, ClaimedBy
    <2>2. c \in Limited(a)
      BY <1>1, <1>2, <2>1, OriginStays DEF Limited, ClaimedBy
    <2> QED BY <2>2 DEF Tokens, ClientTokens
  <1>3. CASE link[a][c] \notin Claimed
    <2>1. PICK p \in Procs :
             /\ proc[p].pc \in {"link", "accept", "status"}
             /\ proc[p].agency \in Agencies /\ proc[p].client \in Clients
             /\ link' = [link EXCEPT ![proc[p].agency][proc[p].client] = proc[p].status]
      BY <1>1, <1>3, LinkChanges
    <2>2. proc[p].agency = a /\ proc[p].client = c /\ proc[p].status \in Claimed
      BY <1>1, <1>3, <2>1, LinkAfter
    <2>3. origin[c] = None
      BY <1>1, <2>1, <2>2, OriginStays DEF Owned, WritersKnowOwned
    <2>4. Pending(p) /\ Token(p) = <<"client", c>>
      BY <2>1, <2>2, <2>3 DEF Pending, Token, Creates
    <2> QED BY <2>2, <2>4 DEF Tokens, ProcTokens
  <1> QED BY <1>2, <1>3

\* What an invocation may claim after a step it might have claimed before, or
\* it has just found room for it, or it had stood for a company to be made.
LEMMA PendingBecause ==
    ASSUME Typed, Owned, FromLink, [Next]_vars, NEW a \in Agencies, NEW q \in Procs,
           proc'[q].agency = a, Pending(q)'
    PROVE  \/ Token(q)' \in Tokens(a)
           \/ HasRoom(a) /\ UNCHANGED <<link, origin>>
           \/ Advances(q) /\ proc[q].pc = "owner" /\ <<"proc", q>> \in Tokens(a)
  <1>1. proc[q].pc \in {"claim", "link", "accept", "status", "owner"} =>
           origin'[proc[q].client] = origin[proc[q].client]
    BY OriginStays DEF Typed, ProcTyped, FromLink, Owned, WritersKnowOwned
  <1>a. \/ proc'[q].pc \in {"email", "company", "owner"} /\ proc'[q].via = None
        \/ /\ proc'[q].pc \in {"claim", "link", "accept", "status"}
           /\ proc'[q].status \in Claimed /\ origin'[proc'[q].client] = None
    BY DEF Pending, Creates
  <1>b. Token(q)' = IF proc'[q].pc \in {"email", "company", "owner"}
                    THEN <<"proc", q>> ELSE <<"client", proc'[q].client>>
    BY DEF Token, Creates
  <1>c. proc[q].agency = a /\ Pending(q) => Token(q) \in Tokens(a)
    BY DEF Tokens, ProcTokens
  <1>2. CASE proc'[q] = proc[q]
    <2>1. Pending(q)
      BY <1>1, <1>2, <1>a DEF Pending, Creates
    <2>2. Token(q)' = Token(q)
      BY <1>2, <1>b DEF Token, Creates
    <2> QED BY <1>2, <1>c, <2>1, <2>2
  <1>3. CASE proc'[q] = ProcIdle
    BY <1>3, <1>a DEF ProcIdle
  <1>4. CASE Advances(q)
    <2>0. proc[q].agency = a /\ proc'[q].status = proc[q].status /\ proc'[q].via = proc[q].via
      BY <1>4 DEF Advances
    <2>1. CASE proc[q].pc \in {"email", "company"}
      <3>1. Pending(q) /\ Token(q) = <<"proc", q>> /\ Token(q)' = <<"proc", q>>
        BY <1>4, <1>a, <1>b, <2>0, <2>1 DEF Advances, Pending, Creates, Token
      <3> QED BY <1>c, <2>0, <3>1
    <2>2. CASE proc[q].pc = "owner"
      <3>1. proc[q].via = None
        BY <1>1, <1>4, <1>a, <2>0, <2>2 DEF Advances, FromLink
      <3>2. Pending(q) /\ Token(q) = <<"proc", q>>
        BY <2>2, <3>1 DEF Pending, Creates, Token
      <3> QED BY <1>4, <1>c, <2>0, <2>2, <3>2
    <2>3. CASE proc[q].pc \in {"claim", "link"}
      <3>1. /\ proc'[q].client = proc[q].client
            /\ proc'[q].pc \in {"link", "result"}
        BY <1>4, <2>3 DEF Advances
      <3>2. Pending(q)
        BY <1>1, <1>a, <2>0, <2>3, <3>1 DEF Pending
      <3>3. Token(q)' = Token(q)
        BY <1>b, <2>3, <3>1 DEF Token, Creates
      <3> QED BY <1>c, <2>0, <3>2, <3>3
    <2> QED BY <1>4, <2>1, <2>2, <2>3 DEF Advances
  <1>5. CASE Starts(q)
    <2>1. ASSUME NEW i \in Invitations, NEW e \in Emails, AcceptLink(q, i, e), proc'[q].via = i
          PROVE  FALSE
      BY <2>1, <1>a, AcceptLinkFacts
    <2>2. CASE /\ proc'[q].pc \in {"accept", "status"} /\ proc'[q].client \in Clients
               /\ link[a][proc'[q].client] \in Claimed /\ UNCHANGED origin
      <3>1. proc'[q].client \in Limited(a)
        BY <1>a, <2>2 DEF Limited, ClaimedBy
      <3>2. Token(q)' = <<"client", proc'[q].client>>
        BY <1>b, <2>2
      <3> QED BY <3>1, <3>2 DEF Tokens, ClientTokens
    <2> QED BY <1>5, <2>1, <2>2 DEF Starts
  <1> QED BY <1>2, <1>3, <1>4, <1>5, Moves

LEMMA TokensAfter ==
    ASSUME Typed, Owned, FromLink, [Next]_vars, NEW a \in Agencies, NEW t \in Tokens(a)'
    PROVE  \/ t \in Tokens(a)
           \/ \E q \in Procs :
                 /\ t = Token(q)' /\ proc'[q].agency = a /\ Pending(q)'
                 /\ \/ HasRoom(a) /\ UNCHANGED <<link, origin>>
                    \/ Advances(q) /\ proc[q].pc = "owner" /\ <<"proc", q>> \in Tokens(a)
  <1>1. CASE t \in ClientTokens(Limited(a))'
    <2>1. PICK c \in Limited(a)' : t = <<"client", c>>
      BY <1>1 DEF ClientTokens
    <2>2. c \in Clients
      BY <2>1 DEF Limited, ClaimedBy
    <2> QED BY <2>1, <2>2, LimitedBecause
  <1>2. CASE t \in ProcTokens({p \in Procs : proc[p].agency = a /\ Pending(p)})'
    <2>1. PICK q \in Procs : t = Token(q)' /\ proc'[q].agency = a /\ Pending(q)'
      BY <1>2 DEF ProcTokens
    <2> QED BY <2>1, PendingBecause
  <1> QED BY <1>1, <1>2 DEF Tokens

LEMMA InitTokens == Init => TokensBounded
  <1> SUFFICES ASSUME Init, NEW a \in Agencies PROVE Tokens(a) = {}
    BY DEF TokensBounded
  <1>1. Limited(a) = {}
    BY DEF Init, Limited, ClaimedBy, Claimed
  <1>2. \A p \in Procs : ~Pending(p)
    BY DEF Init, Pending, Creates, ProcIdle
  <1> QED BY <1>1, <1>2 DEF Tokens, ClientTokens, ProcTokens

LEMMA NextTokens == Typed /\ Owned /\ FromLink /\ TokensBounded /\ [Next]_vars => TokensBounded'
  <1> SUFFICES ASSUME Typed, Owned, FromLink, TokensBounded, [Next]_vars, NEW a \in Agencies,
                      Tokens(a)' # {}
               PROVE  Cardinality(Tokens(a)') < ClientLimit[a] + Cardinality(Procs)
    BY DEF TokensBounded
  <1>0. /\ ClientLimit[a] \in Nat /\ Cardinality(Procs) \in Nat
        /\ IsFiniteSet(Tokens(a)) /\ Cardinality(Tokens(a)) \in Nat
        /\ Tokens(a) # {} => Cardinality(Tokens(a)) < ClientLimit[a] + Cardinality(Procs)
    BY LimitAssumption, FiniteAssumption, TokensFinite, FS_CardinalityType DEF TokensBounded
  <1>1. CASE Tokens(a)' \subseteq Tokens(a)
    <2>1. IsFiniteSet(Tokens(a)') /\ Cardinality(Tokens(a)') <= Cardinality(Tokens(a))
      BY <1>0, <1>1, FS_Subset
    <2>2. Cardinality(Tokens(a)') \in Nat
      BY <2>1, FS_CardinalityType
    <2> QED BY <1>0, <1>1, <2>1, <2>2
  <1>2. CASE HasRoom(a) /\ UNCHANGED <<link, origin>>
    <2> DEFINE T == {p \in Procs : proc[p].agency = a /\ Pending(p)}
               old == ClientTokens(Limited(a))
               new == ProcTokens(T)'
    <2>1. Limited(a)' = Limited(a)
      BY <1>2 DEF Limited, ClaimedBy
    <2>2. Tokens(a)' = old \cup new
      BY <2>1 DEF Tokens, ClientTokens
    <2>3. IsFiniteSet(new) /\ Cardinality(new) <= Cardinality(Procs)
      <3> DEFINE S == T'
                 f == [p \in S |-> Token(p)']
      <3>1. new = {Token(p)' : p \in S}
        BY DEF ProcTokens
      <3>2. f \in Surjection(S, new)
        BY <3>1 DEF Surjection
      <3>3. S \in SUBSET Procs
        OBVIOUS
      <3> HIDE DEF S, f, new
      <3>4. IsFiniteSet(S) /\ Cardinality(S) <= Cardinality(Procs)
        BY <3>3, FiniteAssumption, FS_Subset
      <3>5. IsFiniteSet(new) /\ Cardinality(new) <= Cardinality(S)
        BY <3>2, <3>4, FS_Surjection
      <3>6. Cardinality(S) \in Nat /\ Cardinality(new) \in Nat
        BY <3>4, <3>5, FS_CardinalityType
      <3> QED BY <1>0, <3>4, <3>5, <3>6
    <2>4. /\ IsFiniteSet(old) /\ Cardinality(old) <= Cardinality(Limited(a))
          /\ IsFiniteSet(Limited(a)) /\ IsFiniteSet(ClaimedBy(a))
      BY ClaimedByFinite, ClientTokensCard
    <2>5. Cardinality(Limited(a)) <= Cardinality(ClaimedBy(a))
      <3>1. Limited(a) \in SUBSET ClaimedBy(a)
        BY DEF Limited
      <3> QED BY <2>4, <3>1, FS_Subset
    <2>6. Cardinality(ClaimedBy(a)) < ClientLimit[a]
      BY <1>2 DEF HasRoom
    <2> HIDE DEF old, new
    <2>7. Cardinality(old \cup new) <= Cardinality(old) + Cardinality(new)
      <3>1. Cardinality(old \cup new) =
               Cardinality(old) + Cardinality(new) - Cardinality(old \cap new)
        BY <2>3, <2>4, FS_Union
      <3>2. old \cap new \in SUBSET old
        OBVIOUS
      <3>3. IsFiniteSet(old \cap new)
        BY <2>4, <3>2, FS_Subset
      <3>4. /\ Cardinality(old \cap new) \in Nat
            /\ Cardinality(old) \in Nat /\ Cardinality(new) \in Nat
        BY <2>3, <2>4, <3>3, FS_CardinalityType
      <3> QED BY <3>1, <3>4
    <2>8. /\ Cardinality(old) \in Nat /\ Cardinality(new) \in Nat
          /\ Cardinality(Limited(a)) \in Nat /\ Cardinality(ClaimedBy(a)) \in Nat
      BY <2>3, <2>4, FS_CardinalityType
    <2>9. Cardinality(old \cup new) \in Nat
      BY <2>3, <2>4, FS_Union, FS_CardinalityType
    <2> QED BY <1>0, <2>2, <2>3, <2>4, <2>5, <2>6, <2>7, <2>8, <2>9
  <1>3. ASSUME ~(HasRoom(a) /\ UNCHANGED <<link, origin>>),
               NEW q \in Procs, Advances(q), proc[q].pc = "owner", <<"proc", q>> \in Tokens(a)
        PROVE  Cardinality(Tokens(a)') < ClientLimit[a] + Cardinality(Procs)
    <2> DEFINE x == <<"proc", q>>
               y == Token(q)'
    <2>1. y = <<"client", proc'[q].client>>
      BY <1>3 DEF Advances, Token, Creates
    <2>2. ASSUME NEW r \in Procs \ {q}, Token(r)' = x PROVE FALSE
      BY <2>2 DEF Token
    <2>3. ASSUME NEW t \in Tokens(a)', t = x PROVE FALSE
      <3>1. CASE t \in ClientTokens(Limited(a))'
        BY <2>3, <3>1 DEF ClientTokens
      <3>2. CASE t \in ProcTokens({p \in Procs : proc[p].agency = a /\ Pending(p)})'
        <4>1. PICK r \in Procs : t = Token(r)'
          BY <3>2 DEF ProcTokens
        <4>2. r = q
          BY <2>2, <2>3, <4>1
        <4> QED BY <2>1, <2>3, <4>1, <4>2
      <3> QED BY <3>1, <3>2 DEF Tokens
    <2>4. ASSUME NEW t \in Tokens(a)' PROVE t \in (Tokens(a) \ {x}) \cup {y}
      <3>1. CASE t \in Tokens(a)
        BY <2>3, <3>1
      <3>2. ASSUME NEW r \in Procs, t = Token(r)', Advances(r), proc[r].pc = "owner"
            PROVE  t = y
        <4>1. proc'[r].pc # proc[r].pc
          BY <3>2 DEF Advances
        <4>2. r = q
          BY <4>1, <1>3 DEF Advances
        <4> QED BY <3>2, <4>2
      <3> QED BY <1>3, <3>1, <3>2, TokensAfter
    <2> HIDE DEF x, y
    <2>5. IsFiniteSet(Tokens(a) \ {x}) /\ Cardinality(Tokens(a) \ {x}) = Cardinality(Tokens(a)) - 1
      BY <1>0, <1>3, FS_RemoveElement DEF x
    <2> DEFINE U == (Tokens(a) \ {x}) \cup {y}
    <2>6. IsFiniteSet(U) /\ Cardinality(U) <= Cardinality(Tokens(a))
      BY <1>0, <2>5, FS_AddElement
    <2>7. Tokens(a)' \in SUBSET U
      BY <2>4
    <2> HIDE DEF U
    <2>8. IsFiniteSet(Tokens(a)') /\ Cardinality(Tokens(a)') <= Cardinality(U)
      BY <2>6, <2>7, FS_Subset
    <2>9. Cardinality(Tokens(a)') \in Nat /\ Cardinality(U) \in Nat
      BY <2>6, <2>8, FS_CardinalityType
    <2> QED BY <1>0, <1>3, <2>6, <2>8, <2>9
  <1> QED BY <1>1, <1>2, <1>3, TokensAfter

\* Invocations race past the client limit by less than there are of them.
THEOREM LimitOverrun == Spec => []LimitOverrunIsBounded
  <1>1. TokensBounded => LimitOverrunIsBounded
    <2> SUFFICES ASSUME TokensBounded, NEW a \in Agencies, Limited(a) # {}
                 PROVE  Cardinality(Limited(a)) < ClientLimit[a] + Cardinality(Procs)
      BY DEF LimitOverrunIsBounded, Limited
    <2> DEFINE T == ClientTokens(Limited(a))
               f == [c \in Limited(a) |-> <<"client", c>>]
    <2>1. T \in SUBSET Tokens(a) /\ T # {}
      BY DEF Tokens, ClientTokens
    <2>2. f \in Injection(Limited(a), T)
      BY DEF Injection, IsInjective, ClientTokens
    <2>3. IsFiniteSet(Tokens(a)) /\ Cardinality(Tokens(a)) \in Nat
      BY TokensFinite
    <2> HIDE DEF T, f
    <2>4. IsFiniteSet(T) /\ Cardinality(T) <= Cardinality(Tokens(a))
      BY <2>1, <2>3, FS_Subset
    <2>5. IsFiniteSet(Limited(a)) /\ Cardinality(Limited(a)) <= Cardinality(T)
      BY <2>2, <2>4, FS_Injection
    <2>6. Cardinality(T) \in Nat /\ Cardinality(Limited(a)) \in Nat /\ Cardinality(Procs) \in Nat
      BY <2>4, <2>5, FiniteAssumption, FS_CardinalityType
    <2>7. Cardinality(Tokens(a)) < ClientLimit[a] + Cardinality(Procs) /\ ClientLimit[a] \in Nat
      BY <2>1, LimitAssumption DEF TokensBounded
    <2> QED BY <2>3, <2>4, <2>5, <2>6, <2>7
  <1>2. Typed /\ Owned /\ [Next]_vars => Owned'
    BY NextWriters, NextClaimedIsOwned DEF Owned
  <1> QED BY <1>1, <1>2, InitTyped, NextTyped, InitOwned, InitFromLink, NextFromLink,
             InitTokens, NextTokens, PTL DEF Spec
=============================================================================
