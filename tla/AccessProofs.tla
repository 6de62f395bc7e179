----------------------------- MODULE AccessProofs -----------------------------
(* Theorems of Access, for any number of users, roles, sessions and         *)
(* invocations.                                                            *)
EXTENDS Access, TLAPS

USE OwnerAssumption, NoneAssumption

LEMMA StepCases ==
    ASSUME Next
    PROVE  \/ \E p \in Procs : ReadUser(p) \/ Rotate(p) \/ Burn(p) \/ Logout(p)
           \/ \E p \in Procs : SetPassword(p) \/ Purge(p) \/ CheckOthers(p) \/ UpdateUser(p) \/ Dies(p)
           \/ \E p \in Procs, s \in Sessions : OpenSession(p, s) \/ Present(p, s) \/ StartLogout(p, s)
           \/ \E p \in Procs, u \in Users : StartLogin(p, u) \/ StartChange(p, u)
           \/ \E p \in Procs, u \in Users, r \in Roles \cup {None}, status \in Statuses :
                 StartPatch(p, u, r, status)
           \/ \E s \in Sessions : Expire(s)
           \/ \E u \in Users, r \in Roles : AddUser(u, r)
           \/ \E r \in Roles : EditRole(r)
  BY Zenon DEF Next, Step

-----------------------------------------------------------------------------
(* Types. An invocation at work has a user who exists, one that renews or    *)
(* ends a session has that user's session, one that changes a user has read  *)
(* the role.                                                               *)

Exists(u) == u \in Users /\ user[u].status # "none"
Held(s) == s \in Sessions /\ session[s].st # "free"

Knows(q) ==
    /\ q.pc \in Opening \cup {"burn", "password", "purge", "count", "update"} => Exists(q.user)
    /\ q.pc \in {"user", "revoke", "insert", "logout"} => Held(q.session)
    /\ q.pc \in {"user", "revoke", "insert"} => session[q.session].user = q.user
    /\ q.pc \in {"count", "update"} => q.held \in Roles

RowOK(s) ==
    session[s].st # "free" =>
        session[s].user \in Users /\ session[s].family \in Sessions /\ user[session[s].user].status # "none"

FreeOK(s) == session[s].st = "free" => session[s].user = None

Typed ==
    /\ TypeOK
    /\ \A p \in Procs : Knows(proc[p])
    /\ \A s \in Sessions : FreeOK(s)

LEMMA InitTyped == Init => Typed
  <1> SUFFICES ASSUME Init PROVE Typed
    OBVIOUS
  <1>1. user \in [Users -> UserRow] /\ manages \in [Roles -> BOOLEAN]
    BY DEF Init, UserRow, Statuses
  <1>2. session \in [Sessions -> SessionRow] /\ \A s \in Sessions : session[s] = NoSession
    BY DEF Init, NoSession, SessionRow
  <1>3. proc \in [Procs -> ProcState] /\ \A p \in Procs : proc[p].pc = "idle"
    BY DEF Init, ProcIdle, ProcState, Statuses
  <1>4. abandoned \subseteq Users /\ raced \in BOOLEAN /\ skipped \in BOOLEAN
    BY DEF Init
  <1> QED BY <1>1, <1>2, <1>3, <1>4 DEF Typed, TypeOK, Knows, Opening, FreeOK, NoSession

\* Users who exist go on to, rows that are used stay so and keep their user
\* and their login.
Stays ==
    /\ user' \in [Users -> UserRow]
    /\ session' \in [Sessions -> SessionRow]
    /\ \A u \in Users : user[u].status # "none" => user'[u].status # "none"
    /\ \A s \in Sessions : session[s].st # "free" =>
          /\ session'[s].st # "free"
          /\ session'[s].user = session[s].user
          /\ session'[s].family = session[s].family
          /\ session'[s].late = session[s].late

\* An invocation that another one's step touches keeps its place and its data.
Touched(q) ==
    /\ proc'[q].pc = proc[q].pc /\ proc'[q].user = proc[q].user
    /\ proc'[q].session = proc[q].session /\ proc'[q].held = proc[q].held
    /\ proc'[q].role = proc[q].role /\ proc'[q].status = proc[q].status
    /\ proc[q].late => proc'[q].late

OthersTouched(p) == \A q \in Procs \ {p} : Touched(q)

LEMMA TouchedKnows ==
    ASSUME Typed, Stays, NEW q \in Procs, Touched(q)
    PROVE  Knows(proc[q])'
  <1>1. Knows(proc[q])
    BY DEF Typed
  <1>2. ASSUME Exists(proc[q].user)
        PROVE  proc'[q].user \in Users /\ user'[proc'[q].user].status # "none"
    BY <1>2 DEF Exists, Stays, Touched
  <1>3. ASSUME Held(proc[q].session)
        PROVE  /\ proc'[q].session \in Sessions /\ session'[proc'[q].session].st # "free"
               /\ session'[proc'[q].session].user = session[proc[q].session].user
    BY <1>3 DEF Held, Stays, Touched
  <1> QED BY <1>1, <1>2, <1>3 DEF Knows, Touched, Exists, Held

LEMMA RowsStay ==
    ASSUME Typed, Stays, NEW s \in Sessions, session[s].st # "free"
    PROVE  RowOK(s)'
  BY DEF Typed, TypeOK, Stays, RowOK

\* What a step must leave for the state to stay typed: p goes to a state of its
\* own, the others are touched at most, and new rows are sound.
LEMMA TypedAfter ==
    ASSUME Typed, Stays, manages' \in [Roles -> BOOLEAN], abandoned' \subseteq Users,
           raced' \in BOOLEAN, skipped' \in BOOLEAN, proc' \in [Procs -> ProcState], NEW p \in Procs, OthersTouched(p),
           Knows(proc[p])', \A s \in Sessions : session[s].st = "free" => RowOK(s)' /\ FreeOK(s)'
    PROVE  Typed'
  <1>1. \A q \in Procs : Knows(proc[q])'
    BY TouchedKnows DEF OthersTouched
  <1>2. \A s \in Sessions : RowOK(s)' /\ FreeOK(s)'
    BY RowsStay DEF Stays, FreeOK
  <1> QED BY <1>1, <1>2 DEF Typed, TypeOK, Stays, RowOK

\* The steps that change the invocation p alone.
Steps(p, q) ==
    /\ proc' = [proc EXCEPT ![p] = q]
    /\ q \in ProcState

LEMMA StepsIs ==
    ASSUME Typed, NEW p \in Procs, NEW q, Steps(p, q)
    PROVE  /\ proc' \in [Procs -> ProcState] /\ proc'[p] = q
           /\ \A x \in Procs \ {p} : proc'[x] = proc[x]
           /\ OthersTouched(p)
  BY DEF Steps, Typed, TypeOK, OthersTouched, Touched

LEMMA IdleTyped == ProcIdle \in ProcState /\ ProcIdle.pc = "idle"
  BY DEF ProcIdle, ProcState, Statuses

LEMMA FinishIs ==
    ASSUME NEW p \in Procs, Finish(p)
    PROVE  Steps(p, ProcIdle)
  BY IdleTyped DEF Finish, Steps

LEMMA GotoIs ==
    ASSUME Typed, NEW p \in Procs, NEW pc, Goto(p, pc), pc \in {"revoke", "insert", "update"}
    PROVE  Steps(p, [proc[p] EXCEPT !.pc = pc])
  BY DEF Goto, Steps, Typed, TypeOK, ProcState, Opening

LEMMA NothingStays ==
    ASSUME Typed, UNCHANGED <<user, session>>
    PROVE  Stays /\ \A s \in Sessions : session[s].st = "free" => RowOK(s)' /\ FreeOK(s)'
  BY DEF Typed, TypeOK, Stays, RowOK, FreeOK

LEMMA LateTyped ==
    ASSUME NEW q \in ProcState
    PROVE  /\ [q EXCEPT !.late = TRUE] \in ProcState
           /\ [q EXCEPT !.old = TRUE] \in ProcState
           /\ [q EXCEPT !.shut = FALSE] \in ProcState
           /\ [q EXCEPT !.stale = TRUE] \in ProcState
  BY Zenon DEF ProcState

\* An observation made of an invocation leaves the rest of it.
LEMMA LateIs ==
    ASSUME NEW q \in ProcState, NEW cond \in BOOLEAN
    PROVE  /\ LateIf(q, cond) \in ProcState
           /\ LateIf(q, cond).pc = q.pc /\ LateIf(q, cond).user = q.user
           /\ LateIf(q, cond).session = q.session /\ LateIf(q, cond).held = q.held
           /\ LateIf(q, cond).role = q.role /\ LateIf(q, cond).status = q.status
           /\ LateIf(q, cond).old = q.old /\ LateIf(q, cond).shut = q.shut
           /\ LateIf(q, cond).stale = q.stale
           /\ LateIf(q, cond).late <=> q.late \/ cond
  <1>1. LateIf(q, cond) \in ProcState
    BY LateTyped DEF LateIf
  <1>2. CASE cond
    BY <1>2 DEF LateIf, ProcState
  <1>3. CASE ~cond
    BY <1>3 DEF LateIf, ProcState
  <1> QED BY <1>1, <1>2, <1>3

LEMMA RevokeIs ==
    ASSUME Typed, NEW p \in Procs, NEW s \in Sessions, NEW next \in ProcState, Revoke(p, s, next)
    PROVE  /\ proc' \in [Procs -> ProcState] /\ proc'[p] = next
           /\ \A q \in Procs \ {p} :
                 proc'[q] = LateIf(proc[q], proc[q].pc \in Opening /\ proc[q].session = s)
           /\ OthersTouched(p)
           /\ session' \in [Sessions -> SessionRow]
           /\ \A t \in Sessions :
                 session'[t] = IF t = s THEN [session[s] EXCEPT !.st = "revoked"] ELSE session[t]
  <1>1. session \in [Sessions -> SessionRow] /\ proc \in [Procs -> ProcState]
    BY DEF Typed, TypeOK
  <1>2. [session[s] EXCEPT !.st = "revoked"] \in SessionRow
    BY <1>1 DEF SessionRow
  <1>3. session' = [session EXCEPT ![s] = [session[s] EXCEPT !.st = "revoked"]]
    BY DEF Revoke
  <1>4. \A q \in Procs : LateIf(proc[q], proc[q].pc \in Opening /\ proc[q].session = s) \in ProcState
    BY <1>1, LateIs
  <1>5. /\ proc'[p] = next
        /\ \A q \in Procs \ {p} :
              proc'[q] = LateIf(proc[q], proc[q].pc \in Opening /\ proc[q].session = s)
    BY DEF Revoke
  <1>6. proc' \in [Procs -> ProcState]
    BY <1>4 DEF Revoke
  <1>7. ASSUME NEW q \in Procs \ {p} PROVE Touched(q)
    <2> DEFINE cond == proc[q].pc \in Opening /\ proc[q].session = s
    <2>1. proc[q] \in ProcState /\ cond \in BOOLEAN
      BY <1>1
    <2>2. proc'[q] = LateIf(proc[q], cond)
      BY <1>5
    <2> HIDE DEF cond
    <2> QED BY <2>1, <2>2, LateIs DEF Touched
  <1> QED BY <1>1, <1>2, <1>3, <1>5, <1>6, <1>7 DEF OthersTouched

LEMMA RevokeAllIs ==
    ASSUME Typed, NEW p \in Procs, NEW u \in Users, RevokeAll(p, u)
    PROVE  /\ proc' \in [Procs -> ProcState] /\ proc'[p] = ProcIdle
           /\ \A q \in Procs \ {p} :
                 proc'[q] = LateIf(proc[q], proc[q].pc \in Opening /\ proc[q].user = u)
           /\ OthersTouched(p)
           /\ session' \in [Sessions -> SessionRow]
           /\ \A t \in Sessions :
                 session'[t] = IF session[t].user = u THEN [session[t] EXCEPT !.st = "revoked"]
                               ELSE session[t]
           /\ abandoned' = abandoned \ {u}
  <1>1. session \in [Sessions -> SessionRow] /\ proc \in [Procs -> ProcState]
    BY DEF Typed, TypeOK
  <1>2. \A t \in Sessions : [session[t] EXCEPT !.st = "revoked"] \in SessionRow
    BY <1>1 DEF SessionRow
  <1>3. \A q \in Procs : LateIf(proc[q], proc[q].pc \in Opening /\ proc[q].user = u) \in ProcState
    BY <1>1, LateIs
  <1>4. session' \in [Sessions -> SessionRow]
    BY <1>1, <1>2 DEF RevokeAll
  <1>5. /\ proc'[p] = ProcIdle
        /\ \A q \in Procs \ {p} :
              proc'[q] = LateIf(proc[q], proc[q].pc \in Opening /\ proc[q].user = u)
    BY DEF RevokeAll
  <1>6. proc' \in [Procs -> ProcState]
    BY <1>3, IdleTyped DEF RevokeAll
  <1>7. ASSUME NEW q \in Procs \ {p} PROVE Touched(q)
    <2> DEFINE cond == proc[q].pc \in Opening /\ proc[q].user = u
    <2>1. proc[q] \in ProcState /\ cond \in BOOLEAN
      BY <1>1
    <2>2. proc'[q] = LateIf(proc[q], cond)
      BY <1>5
    <2> HIDE DEF cond
    <2> QED BY <2>1, <2>2, LateIs DEF Touched
  <1> QED BY <1>4, <1>5, <1>6, <1>7 DEF RevokeAll, OthersTouched

LEMMA RevokedStays ==
    ASSUME Typed, NEW S \in SUBSET Sessions, UNCHANGED user, session' \in [Sessions -> SessionRow],
           \A t \in S : session[t].st # "free",
           \A t \in Sessions :
              session'[t] = IF t \in S THEN [session[t] EXCEPT !.st = "revoked"] ELSE session[t]
    PROVE  Stays /\ \A s \in Sessions : session[s].st = "free" => RowOK(s)' /\ FreeOK(s)'
  <1>1. \A s \in Sessions : session[s].st = "free" => session'[s] = session[s]
    OBVIOUS
  <1>2. Stays
    BY DEF Typed, TypeOK, Stays, SessionRow
  <1> QED BY <1>1, <1>2 DEF RowOK, FreeOK, Typed

LEMMA ProcIs ==
    ASSUME Typed, NEW p \in Procs
    PROVE  proc[p] \in ProcState /\ Knows(proc[p])
  BY DEF Typed, TypeOK

\* A step of p alone.
LEMMA StepsTyped ==
    ASSUME Typed, NEW p \in Procs, NEW q, Steps(p, q), UNCHANGED <<user, manages, session, raced, skipped>>,
           abandoned' \subseteq Users, Knows(q)
    PROVE  Typed'
  <1>1. /\ proc' \in [Procs -> ProcState] /\ proc'[p] = q /\ OthersTouched(p)
    BY StepsIs
  <1>2. Stays /\ \A s \in Sessions : session[s].st = "free" => RowOK(s)' /\ FreeOK(s)'
    BY NothingStays
  <1>3. Knows(proc[p])'
    BY <1>1 DEF Knows, Exists, Held
  <1>4. manages' \in [Roles -> BOOLEAN] /\ raced' \in BOOLEAN /\ skipped' \in BOOLEAN
    BY Zenon DEF Typed, TypeOK
  <1> QED BY <1>1, <1>2, <1>3, <1>4, TypedAfter

LEMMA IdleKnows == Knows(ProcIdle)
  BY DEF Knows, ProcIdle, Opening

\* What SetPassword and UpdateUser do to the others.
LEMMA SetPasswordIs ==
    ASSUME Typed, NEW p \in Procs, SetPassword(p)
    PROVE  /\ proc' \in [Procs -> ProcState]
           /\ proc'[p] = [proc[p] EXCEPT !.pc = "purge"] /\ proc'[p] \in ProcState
           /\ \A q \in Procs \ {p} :
                 /\ Touched(q) /\ proc'[q].late = proc[q].late /\ proc'[q].shut = proc[q].shut
                 /\ proc'[q].stale = proc[q].stale
                 /\ proc'[q].old => proc[q].old \/ (proc[q].pc \in Opening /\ proc[q].user = proc[p].user)
           /\ session' \in [Sessions -> SessionRow]
           /\ \A s \in Sessions :
                 /\ session'[s].st = session[s].st /\ session'[s].user = session[s].user
                 /\ session'[s].family = session[s].family /\ session'[s].late = session[s].late
                 /\ session'[s].shut = session[s].shut
                 /\ session'[s].old => session[s].old \/ session[s].user = proc[p].user
  <1>1. session \in [Sessions -> SessionRow] /\ proc \in [Procs -> ProcState]
    BY DEF Typed, TypeOK
  <1>2. \A q \in Procs : [proc[q] EXCEPT !.old = TRUE] \in ProcState
    BY <1>1, LateTyped
  <1>3. [proc[p] EXCEPT !.pc = "purge"] \in ProcState
    BY <1>1 DEF ProcState
  <1>4. proc' = [q \in Procs |->
                  IF q = p THEN [proc[q] EXCEPT !.pc = "purge"]
                  ELSE IF proc[q].pc \in Opening /\ proc[q].user = proc[p].user
                       THEN [proc[q] EXCEPT !.old = TRUE]
                       ELSE proc[q]]
    BY DEF SetPassword
  <1>5. proc' \in [Procs -> ProcState]
    BY <1>1, <1>2, <1>3, <1>4
  <1>6. ASSUME NEW q \in Procs \ {p}
        PROVE  /\ Touched(q) /\ proc'[q].late = proc[q].late /\ proc'[q].shut = proc[q].shut
               /\ proc'[q].stale = proc[q].stale
               /\ proc'[q].old => proc[q].old \/ (proc[q].pc \in Opening /\ proc[q].user = proc[p].user)
    <2>1. proc[q] \in ProcState
      BY <1>1
    <2>2. CASE proc[q].pc \in Opening /\ proc[q].user = proc[p].user
      <3>1. proc'[q] = [proc[q] EXCEPT !.old = TRUE]
        BY <1>4, <2>2
      <3> QED BY <2>1, <2>2, <3>1 DEF Touched, ProcState
    <2>3. CASE ~(proc[q].pc \in Opening /\ proc[q].user = proc[p].user)
      <3>1. proc'[q] = proc[q]
        BY <1>4, <2>3
      <3> QED BY <3>1 DEF Touched
    <2> QED BY <2>2, <2>3
  <1>7. \A s \in Sessions : [session[s] EXCEPT !.old = TRUE] \in SessionRow
    <2>1. \A r \in SessionRow : [r EXCEPT !.old = TRUE] \in SessionRow
      BY Zenon DEF SessionRow
    <2> QED BY <1>1, <2>1
  <1>8. session' = [s \in Sessions |->
                     IF session[s].user = proc[p].user THEN [session[s] EXCEPT !.old = TRUE]
                     ELSE session[s]]
    BY DEF SetPassword
  <1>9. session' \in [Sessions -> SessionRow]
    BY <1>1, <1>7, <1>8
  <1>10. ASSUME NEW s \in Sessions
         PROVE  /\ session'[s].st = session[s].st /\ session'[s].user = session[s].user
                /\ session'[s].family = session[s].family /\ session'[s].late = session[s].late
                /\ session'[s].shut = session[s].shut
                /\ session'[s].old => session[s].old \/ session[s].user = proc[p].user
    BY <1>1, <1>8 DEF SessionRow
  <1> QED BY <1>3, <1>4, <1>5, <1>6, <1>9, <1>10

NewUser(p) ==
    LET q == proc[p] IN
    [role |-> IF q.role = None THEN user[q.user].role ELSE q.role,
     status |-> IF q.status = "none" THEN user[q.user].status ELSE q.status]

\* What the patch asked about, and what it should have asked about.
Removes(q) == Checked(q.role, q.status)
Unasked(p) ==
    LET u == proc[p].user IN
    /\ ~Removes(proc[p]) /\ NewUser(p).status # "active"
    /\ IsManager(u) /\ Others(u, user[u].role) = {}

LEMMA UpdateUserIs ==
    ASSUME Typed, NEW p \in Procs, UpdateUser(p)
    PROVE  /\ proc' \in [Procs -> ProcState] /\ proc'[p] = ProcIdle
           /\ \A q \in Procs \ {p} :
                 /\ Touched(q) /\ proc'[q].late = proc[q].late /\ proc'[q].old = proc[q].old
                 /\ proc[q].pc \in {"count", "update"} => proc'[q].stale
                 /\ proc'[q].shut =>
                      /\ proc[q].shut
                      /\ proc[q].pc \in {"count", "update"}
                           \/ proc[q].user # proc[p].user \/ NewUser(p).status # "active"
           /\ user' = [user EXCEPT ![proc[p].user] = NewUser(p)]
           /\ NewUser(p) \in UserRow /\ NewUser(p).status # "none"
           /\ raced' = (raced \/ (proc[p].stale /\ Removes(proc[p]))) /\ raced' \in BOOLEAN
           /\ skipped' = (skipped \/ Unasked(p)) /\ skipped' \in BOOLEAN
  <1>1. proc \in [Procs -> ProcState] /\ user \in [Users -> UserRow] /\ proc[p].pc = "update"
    BY DEF Typed, TypeOK, UpdateUser, At
  <1>2. Exists(proc[p].user)
    BY <1>1, ProcIs DEF Knows
  <1>3. NewUser(p) \in UserRow /\ NewUser(p).status # "none"
    BY <1>1, <1>2 DEF NewUser, UserRow, Exists, ProcState
  <1>4. user' = [user EXCEPT ![proc[p].user] = NewUser(p)]
    BY DEF UpdateUser, NewUser
  <1>5. proc' = [x \in Procs |->
                  IF x = p THEN ProcIdle
                  ELSE IF proc[x].pc \in {"count", "update"} THEN [proc[x] EXCEPT !.stale = TRUE]
                  ELSE IF proc[x].user = proc[p].user /\ NewUser(p).status = "active"
                       THEN [proc[x] EXCEPT !.shut = FALSE]
                  ELSE proc[x]]
    BY DEF UpdateUser, NewUser
  <1>6. proc' \in [Procs -> ProcState]
    BY <1>1, <1>5, LateTyped, IdleTyped
  <1>7. ASSUME NEW q \in Procs \ {p}
        PROVE  /\ Touched(q) /\ proc'[q].late = proc[q].late /\ proc'[q].old = proc[q].old
               /\ proc[q].pc \in {"count", "update"} => proc'[q].stale
               /\ proc'[q].shut =>
                    /\ proc[q].shut
                    /\ proc[q].pc \in {"count", "update"}
                         \/ proc[q].user # proc[p].user \/ NewUser(p).status # "active"
    <2>1. proc[q] \in ProcState
      BY <1>1
    <2>2. CASE proc[q].pc \in {"count", "update"}
      <3>1. proc'[q] = [proc[q] EXCEPT !.stale = TRUE]
        BY <1>5, <2>2
      <3> QED BY <2>1, <2>2, <3>1 DEF Touched, ProcState
    <2>3. CASE /\ proc[q].pc \notin {"count", "update"}
               /\ proc[q].user = proc[p].user /\ NewUser(p).status = "active"
      <3>1. proc'[q] = [proc[q] EXCEPT !.shut = FALSE]
        BY <1>5, <2>3
      <3> QED BY <2>1, <2>3, <3>1 DEF Touched, ProcState
    <2>4. CASE /\ proc[q].pc \notin {"count", "update"}
               /\ ~(proc[q].user = proc[p].user /\ NewUser(p).status = "active")
      <3>1. proc'[q] = proc[q]
        BY <1>5, <2>4
      <3> QED BY <2>4, <3>1 DEF Touched
    <2> QED BY <2>2, <2>3, <2>4
  <1>8. raced' = (raced \/ (proc[p].stale /\ Removes(proc[p]))) /\ raced' \in BOOLEAN
    <2>1. raced \in BOOLEAN /\ proc[p].stale \in BOOLEAN /\ Removes(proc[p]) \in BOOLEAN
      BY <1>1 DEF Removes, Checked, ProcState, Typed, TypeOK
    <2>2. raced' = (raced \/ (proc[p].stale /\ Removes(proc[p])))
      BY DEF UpdateUser, Removes
    <2> QED BY Zenon, <2>1, <2>2
  <1>9. skipped' = (skipped \/ Unasked(p)) /\ skipped' \in BOOLEAN
    <2>1. skipped \in BOOLEAN /\ Unasked(p) \in BOOLEAN
      BY Zenon DEF Unasked, Typed, TypeOK
    <2>2. skipped' = (skipped \/ Unasked(p))
      BY DEF UpdateUser, Unasked, Removes, NewUser
    <2> QED BY Zenon, <2>1, <2>2
  <1> QED BY <1>3, <1>4, <1>5, <1>6, <1>7, <1>8, <1>9

NewRow(p, s) ==
    LET q == proc[p] IN
    [st |-> "live", user |-> q.user,
     family |-> IF q.pc = "login" THEN s ELSE session[q.session].family,
     old |-> q.old, late |-> q.late, shut |-> q.shut]

LEMMA OpenSessionIs ==
    ASSUME Typed, NEW p \in Procs, NEW s \in Sessions, OpenSession(p, s)
    PROVE  /\ Steps(p, ProcIdle)
           /\ session[s].st = "free" /\ proc[p].pc \in {"login", "insert"}
           /\ NewRow(p, s) \in SessionRow
           /\ session' = [session EXCEPT ![s] = NewRow(p, s)]
           /\ NewRow(p, s).family \in Sessions
           /\ Exists(NewRow(p, s).user)
  <1>1. proc[p] \in ProcState /\ Knows(proc[p])
    BY ProcIs
  <1>2. Steps(p, ProcIdle)
    BY FinishIs DEF OpenSession
  <1>3. proc[p].pc \in {"login", "insert"} /\ session[s].st = "free"
    BY DEF OpenSession
  <1>4. NewRow(p, s).family \in Sessions
    <2>1. CASE proc[p].pc = "login"
      BY <2>1 DEF NewRow
    <2>2. CASE proc[p].pc = "insert"
      <3>1. Held(proc[p].session)
        BY <1>1, <2>2 DEF Knows
      <3> QED BY <2>2, <3>1 DEF NewRow, Held, Typed, TypeOK
    <2> QED BY <1>3, <2>1, <2>2
  <1>5. Exists(NewRow(p, s).user)
    BY <1>1, <1>3 DEF Knows, NewRow, Opening
  <1>6. NewRow(p, s) \in SessionRow
    <2>1. proc[p].old \in BOOLEAN /\ proc[p].late \in BOOLEAN /\ proc[p].shut \in BOOLEAN
      BY <1>1 DEF ProcState
    <2>2. proc[p].user \in Users
      BY <1>5 DEF Exists, NewRow
    <2>3. (IF proc[p].pc = "login" THEN s ELSE session[proc[p].session].family) \in Sessions
      BY <1>4 DEF NewRow
    <2> QED BY <2>1, <2>2, <2>3 DEF NewRow, SessionRow
  <1>7. session' = [session EXCEPT ![s] = NewRow(p, s)]
    BY DEF OpenSession, NewRow
  <1> QED BY <1>2, <1>3, <1>4, <1>5, <1>6, <1>7

LEMMA StateTypes ==
    ASSUME Typed
    PROVE  /\ manages \in [Roles -> BOOLEAN] /\ raced \in BOOLEAN /\ skipped \in BOOLEAN /\ abandoned \subseteq Users
           /\ user \in [Users -> UserRow] /\ session \in [Sessions -> SessionRow]
           /\ proc \in [Procs -> ProcState]
  BY Zenon DEF Typed, TypeOK

LEMMA NextTyped == Typed /\ [Next]_vars => Typed'
  <1> SUFFICES ASSUME Typed, [Next]_vars PROVE Typed'
    OBVIOUS
  <1> USE DEF At
  <1>0. /\ manages \in [Roles -> BOOLEAN] /\ raced \in BOOLEAN /\ skipped \in BOOLEAN /\ abandoned \subseteq Users
        /\ user \in [Users -> UserRow] /\ session \in [Sessions -> SessionRow]
        /\ proc \in [Procs -> ProcState]
    BY StateTypes
  <1>1. ASSUME NEW p \in Procs, ReadUser(p) PROVE Typed'
    <2>1. CASE Finish(p)
      BY <1>0, <1>1, <2>1, FinishIs, IdleKnows, StepsTyped DEF ReadUser
    <2>2. CASE Goto(p, "revoke")
      <3>1. Steps(p, [proc[p] EXCEPT !.pc = "revoke"])
        BY <2>2, GotoIs
      <3>2. Knows([proc[p] EXCEPT !.pc = "revoke"])
        BY <1>1, ProcIs DEF ReadUser, Knows, ProcState, Opening
      <3> QED BY <1>0, <1>1, <3>1, <3>2, StepsTyped DEF ReadUser
    <2> QED BY <1>1, <2>1, <2>2 DEF ReadUser
  <1>2. ASSUME NEW p \in Procs, Rotate(p) PROVE Typed'
    <2>1. Knows(proc[p]) /\ proc[p] \in ProcState /\ proc[p].pc = "revoke"
      BY <1>2, ProcIs DEF Rotate
    <2>2. Held(proc[p].session)
      BY <2>1 DEF Knows
    <2>3. [proc[p] EXCEPT !.pc = "insert"] \in ProcState /\ proc[p].session \in Sessions
      BY <2>1, <2>2 DEF ProcState, Opening, Held
    <2>4. /\ proc' \in [Procs -> ProcState] /\ proc'[p] = [proc[p] EXCEPT !.pc = "insert"]
          /\ OthersTouched(p) /\ session' \in [Sessions -> SessionRow]
          /\ \A t \in Sessions :
               session'[t] = IF t \in {proc[p].session} THEN [session[t] EXCEPT !.st = "revoked"]
                             ELSE session[t]
      <3> DEFINE s == proc[p].session
                 n == [proc[p] EXCEPT !.pc = "insert"]
      <3>1. Revoke(p, s, n) /\ s \in Sessions /\ n \in ProcState
        BY <1>2, <2>3 DEF Rotate
      <3> HIDE DEF s, n
      <3>2. /\ proc' \in [Procs -> ProcState] /\ proc'[p] = n
            /\ OthersTouched(p) /\ session' \in [Sessions -> SessionRow]
            /\ \A t \in Sessions :
                 session'[t] = IF t = s THEN [session[s] EXCEPT !.st = "revoked"] ELSE session[t]
        BY <3>1, RevokeIs
      <3> QED BY <3>2 DEF s, n
    <2>5. Stays /\ \A s \in Sessions : session[s].st = "free" => RowOK(s)' /\ FreeOK(s)'
      BY <1>2, <2>2, <2>4, RevokedStays DEF Rotate, Held
    <2>6. Knows(proc[p])'
      BY <2>1, <2>2, <2>4, <2>5 DEF Knows, Exists, Held, Stays, ProcState, Opening
    <2> QED BY <1>0, <1>2, <2>4, <2>5, <2>6, TypedAfter DEF Rotate
  <1>3. ASSUME NEW p \in Procs, Logout(p) PROVE Typed'
    <2>1. Held(proc[p].session)
      BY <1>3, ProcIs DEF Logout, Knows
    <2>2. /\ proc' \in [Procs -> ProcState] /\ proc'[p] = ProcIdle
          /\ OthersTouched(p) /\ session' \in [Sessions -> SessionRow]
          /\ \A t \in Sessions :
               session'[t] = IF t \in {proc[p].session} THEN [session[t] EXCEPT !.st = "revoked"]
                             ELSE session[t]
      <3> DEFINE s == proc[p].session
      <3>1. Revoke(p, s, ProcIdle) /\ s \in Sessions /\ ProcIdle \in ProcState
        BY <1>3, <2>1, IdleTyped DEF Logout, Held
      <3> HIDE DEF s
      <3>2. /\ proc' \in [Procs -> ProcState] /\ proc'[p] = ProcIdle
            /\ OthersTouched(p) /\ session' \in [Sessions -> SessionRow]
            /\ \A t \in Sessions :
                 session'[t] = IF t = s THEN [session[s] EXCEPT !.st = "revoked"] ELSE session[t]
        BY <3>1, RevokeIs
      <3> QED BY <3>2 DEF s
    <2>3. Stays /\ \A s \in Sessions : session[s].st = "free" => RowOK(s)' /\ FreeOK(s)'
      BY <1>3, <2>1, <2>2, RevokedStays DEF Logout, Held
    <2>4. Knows(proc[p])'
      BY <2>2 DEF Knows, ProcIdle, Opening
    <2> QED BY <1>0, <1>3, <2>2, <2>3, <2>4, TypedAfter DEF Logout
  <1>4. ASSUME NEW p \in Procs, Burn(p) \/ Purge(p) PROVE Typed'
    <2>1. Exists(proc[p].user)
      BY <1>4, ProcIs DEF Burn, Purge, Knows
    <2> DEFINE S == {t \in Sessions : session[t].user = proc[p].user}
    <2>2. /\ proc' \in [Procs -> ProcState] /\ proc'[p] = ProcIdle
          /\ OthersTouched(p) /\ session' \in [Sessions -> SessionRow]
          /\ \A t \in Sessions :
               session'[t] = IF t \in S THEN [session[t] EXCEPT !.st = "revoked"] ELSE session[t]
          /\ abandoned' \subseteq abandoned
      BY <1>4, <2>1, RevokeAllIs DEF Burn, Purge, Exists
    <2>3. S \in SUBSET Sessions /\ \A t \in S : session[t].st # "free"
      BY <2>1 DEF Typed, FreeOK, Exists
    <2>4. Stays /\ \A s \in Sessions : session[s].st = "free" => RowOK(s)' /\ FreeOK(s)'
      <3> HIDE DEF S
      <3> QED BY <1>4, <2>2, <2>3, RevokedStays DEF Burn, Purge
    <2>5. Knows(proc[p])'
      BY <2>2 DEF Knows, ProcIdle, Opening
    <2> QED BY <1>0, <1>4, <2>2, <2>4, <2>5, TypedAfter DEF Burn, Purge
  <1>5. ASSUME NEW p \in Procs, SetPassword(p) PROVE Typed'
    <2>1. Exists(proc[p].user)
      BY <1>5, ProcIs DEF SetPassword, Knows
    <2>2. /\ proc' \in [Procs -> ProcState] /\ proc'[p] = [proc[p] EXCEPT !.pc = "purge"]
          /\ OthersTouched(p) /\ session' \in [Sessions -> SessionRow]
      BY <1>5, SetPasswordIs DEF OthersTouched
    <2>3. \A s \in Sessions :
             /\ session'[s].st = session[s].st /\ session'[s].user = session[s].user
             /\ session'[s].family = session[s].family /\ session'[s].late = session[s].late
      BY <1>5, SetPasswordIs
    <2>4. Stays /\ \A s \in Sessions : session[s].st = "free" => RowOK(s)' /\ FreeOK(s)'
      BY <1>0, <1>5, <2>2, <2>3 DEF SetPassword, Stays, RowOK, FreeOK, Typed
    <2>5. Knows(proc[p])'
      BY <1>0, <1>5, <2>1, <2>2 DEF SetPassword, Knows, Exists, ProcState, Opening
    <2> QED BY <1>0, <1>5, <2>2, <2>4, <2>5, TypedAfter DEF SetPassword
  <1>6. ASSUME NEW p \in Procs, CheckOthers(p) PROVE Typed'
    <2>1. CASE Finish(p)
      BY <1>0, <1>6, <2>1, FinishIs, IdleKnows, StepsTyped DEF CheckOthers
    <2>2. CASE Goto(p, "update")
      <3>1. Steps(p, [proc[p] EXCEPT !.pc = "update"])
        BY <2>2, GotoIs
      <3>2. Knows([proc[p] EXCEPT !.pc = "update"])
        BY <1>6, ProcIs DEF CheckOthers, Knows, ProcState, Opening
      <3> QED BY <1>0, <1>6, <3>1, <3>2, StepsTyped DEF CheckOthers
    <2> QED BY <1>6, <2>1, <2>2 DEF CheckOthers
  <1>7. ASSUME NEW p \in Procs, UpdateUser(p) PROVE Typed'
    <2>1. /\ proc' \in [Procs -> ProcState] /\ proc'[p] = ProcIdle /\ OthersTouched(p)
          /\ user' = [user EXCEPT ![proc[p].user] = NewUser(p)]
          /\ NewUser(p) \in UserRow /\ NewUser(p).status # "none"
      BY <1>7, UpdateUserIs DEF OthersTouched
    <2>2. Stays
      BY <1>0, <1>7, <2>1 DEF UpdateUser, Stays
    <2>3. \A s \in Sessions : session[s].st = "free" => RowOK(s)' /\ FreeOK(s)'
      BY <1>7 DEF UpdateUser, RowOK, FreeOK, Typed
    <2>4. Knows(proc[p])'
      BY <2>1 DEF Knows, ProcIdle, Opening
    <2>5. raced' \in BOOLEAN /\ skipped' \in BOOLEAN
      BY <1>7, UpdateUserIs
    <2> QED BY <1>0, <1>7, <2>1, <2>2, <2>3, <2>4, <2>5, TypedAfter DEF UpdateUser
  <1>8. ASSUME NEW p \in Procs, Dies(p) PROVE Typed'
    <2>1. abandoned' \subseteq Users
      <3>1. proc[p].pc = "purge" => proc[p].user \in Users
        BY ProcIs DEF Knows, Exists
      <3> QED BY <1>0, <1>8, <3>1 DEF Dies
    <2> QED BY <1>8, <2>1, FinishIs, IdleKnows, StepsTyped DEF Dies
  <1>9. ASSUME NEW p \in Procs, NEW s \in Sessions, OpenSession(p, s) PROVE Typed'
    <2>1. /\ proc' \in [Procs -> ProcState] /\ proc'[p] = ProcIdle /\ OthersTouched(p)
      BY <1>9, OpenSessionIs, StepsIs
    <2>2. /\ session[s].st = "free" /\ NewRow(p, s) \in SessionRow
          /\ session' = [session EXCEPT ![s] = NewRow(p, s)]
          /\ NewRow(p, s).family \in Sessions /\ Exists(NewRow(p, s).user)
          /\ NewRow(p, s).st = "live"
      BY <1>9, OpenSessionIs DEF NewRow
    <2>3. Stays
      BY <1>0, <1>9, <2>2 DEF OpenSession, Stays
    <2>4. ASSUME NEW t \in Sessions, session[t].st = "free" PROVE RowOK(t)' /\ FreeOK(t)'
      <3>1. CASE t = s
        BY <1>0, <1>9, <2>2, <3>1 DEF OpenSession, RowOK, FreeOK, Exists
      <3>2. CASE t # s
        BY <1>0, <1>9, <2>2, <2>4, <3>2 DEF OpenSession, RowOK, FreeOK, Typed
      <3> QED BY <3>1, <3>2
    <2>5. Knows(proc[p])'
      BY <2>1 DEF Knows, ProcIdle, Opening
    <2> QED BY <1>0, <1>9, <2>1, <2>3, <2>4, <2>5, TypedAfter DEF OpenSession
  <1>10. ASSUME NEW p \in Procs, NEW s \in Sessions, Present(p, s) PROVE Typed'
    <2> DEFINE q == proc'[p]
               r == session[s]
    <2>1. Held(s) /\ r \in SessionRow /\ Exists(r.user)
      BY <1>0, <1>10 DEF Present, Held, Exists, Typed, TypeOK
    <2>2. CASE r.st = "live"
      <3> DEFINE n == [ProcIdle EXCEPT !.pc = "user", !.user = r.user, !.session = s,
                           !.old = r.old, !.late = r.late, !.shut = Disabled(r.user)]
      <3>1. n \in ProcState
        <4>1. /\ r.old \in BOOLEAN /\ r.late \in BOOLEAN /\ Disabled(r.user) \in BOOLEAN
              /\ r.user \in Users
          BY <2>1 DEF SessionRow, Disabled, Exists
        <4> QED BY <4>1 DEF ProcIdle, ProcState, Statuses, Opening
      <3>2. Knows(n)
        BY <2>1 DEF Knows, ProcIdle, Opening
      <3>3. Steps(p, n)
        BY <1>10, <2>2, <3>1 DEF Present, Steps
      <3> HIDE DEF n
      <3> QED BY <1>0, <1>10, <3>2, <3>3, StepsTyped DEF Present
    <2>3. CASE r.st # "live"
      <3> DEFINE n == [ProcIdle EXCEPT !.pc = "burn", !.user = r.user]
      <3>1. n \in ProcState /\ Knows(n)
        BY <2>1 DEF ProcIdle, ProcState, Statuses, Knows, Opening, Exists
      <3>2. Steps(p, n)
        BY <1>10, <2>3, <3>1 DEF Present, Steps
      <3> HIDE DEF n
      <3> QED BY <1>0, <1>10, <3>1, <3>2, StepsTyped DEF Present
    <2> QED BY <2>2, <2>3
  <1>11. ASSUME NEW p \in Procs, NEW s \in Sessions, StartLogout(p, s) PROVE Typed'
    <2> DEFINE n == [ProcIdle EXCEPT !.pc = "logout", !.session = s]
    <2>1. n \in ProcState /\ Knows(n) /\ Steps(p, n)
      BY <1>11 DEF StartLogout, Steps, ProcIdle, ProcState, Statuses, Knows, Opening, Held
    <2> HIDE DEF n
    <2> QED BY <1>0, <1>11, <2>1, StepsTyped DEF StartLogout
  <1>12. ASSUME NEW p \in Procs, NEW u \in Users, StartLogin(p, u) PROVE Typed'
    <2> DEFINE n == [ProcIdle EXCEPT !.pc = "login", !.user = u]
    <2>1. n \in ProcState /\ Knows(n) /\ Steps(p, n)
      BY <1>12 DEF StartLogin, Steps, ProcIdle, ProcState, Statuses, Knows, Opening, Exists
    <2> HIDE DEF n
    <2> QED BY <1>0, <1>12, <2>1, StepsTyped DEF StartLogin
  <1>13. ASSUME NEW p \in Procs, NEW u \in Users, StartChange(p, u) PROVE Typed'
    <2> DEFINE n == [ProcIdle EXCEPT !.pc = "password", !.user = u]
    <2>1. n \in ProcState /\ Knows(n) /\ Steps(p, n)
      BY <1>13 DEF StartChange, Steps, ProcIdle, ProcState, Statuses, Knows, Opening, Exists
    <2> HIDE DEF n
    <2> QED BY <1>0, <1>13, <2>1, StepsTyped DEF StartChange
  <1>14. ASSUME NEW p \in Procs, NEW u \in Users, NEW r \in Roles \cup {None},
                NEW status \in Statuses, StartPatch(p, u, r, status)
         PROVE  Typed'
    <2> DEFINE n == [ProcIdle EXCEPT
                       !.pc = IF Checked(r, status) THEN "count" ELSE "update",
                       !.user = u, !.held = user[u].role, !.role = r, !.status = status]
    <2>1. user[u].role \in Roles
      BY <1>0 DEF UserRow
    <2>2. n \in ProcState /\ Knows(n) /\ Steps(p, n)
      BY <1>14, <2>1 DEF StartPatch, Steps, ProcIdle, ProcState, Statuses, Knows, Opening, Exists
    <2> HIDE DEF n
    <2> QED BY <1>0, <1>14, <2>2, StepsTyped DEF StartPatch
  <1>15. ASSUME NEW s \in Sessions, Expire(s) PROVE Typed'
    <2>1. [session[s] EXCEPT !.st = "expired"] \in SessionRow
      BY <1>0 DEF SessionRow
    <2>2. session' = [session EXCEPT ![s] = [session[s] EXCEPT !.st = "expired"]]
      BY <1>15 DEF Expire
    <2>3. Stays /\ session[s].st = "live"
      BY <1>0, <1>15, <2>1, <2>2 DEF Expire, Stays, SessionRow
    <2>4. \A t \in Sessions : RowOK(t)' /\ FreeOK(t)'
      BY <1>0, <1>15, <2>2, <2>3 DEF Expire, RowOK, FreeOK, Typed, TypeOK, SessionRow
    <2>5. UNCHANGED <<manages, raced, skipped, abandoned, proc>>
      BY <1>15 DEF Expire
    <2>6. \A q \in Procs : Touched(q)
      BY <2>5 DEF Touched
    <2>7. \A q \in Procs : Knows(proc[q])'
      BY <2>3, <2>6, TouchedKnows
    <2> QED BY <1>0, <2>3, <2>4, <2>5, <2>7 DEF Typed, TypeOK, Stays, RowOK
  <1>16. ASSUME NEW u \in Users, NEW r \in Roles, AddUser(u, r) PROVE Typed'
    <2>1. Stays
      BY <1>0, <1>16 DEF AddUser, Stays, UserRow, Statuses
    <2>2. \A t \in Sessions : RowOK(t)' /\ FreeOK(t)'
      BY <1>0, <1>16, <2>1 DEF AddUser, RowOK, FreeOK, Typed, TypeOK, Stays
    <2>3. UNCHANGED <<manages, raced, skipped, abandoned, proc>>
      BY <1>16 DEF AddUser
    <2>4. \A q \in Procs : Touched(q)
      BY <2>3 DEF Touched
    <2>5. \A q \in Procs : Knows(proc[q])'
      BY <2>1, <2>4, TouchedKnows
    <2> QED BY <1>0, <2>1, <2>2, <2>3, <2>5 DEF Typed, TypeOK, Stays, RowOK
  <1>17. ASSUME NEW r \in Roles, EditRole(r) PROVE Typed'
    <2>1. manages' \in [Roles -> BOOLEAN]
      BY Zenon, <1>0, <1>17 DEF EditRole
    <2>2. UNCHANGED <<user, session, proc, abandoned, raced, skipped>>
      BY <1>17 DEF EditRole
    <2> QED BY <2>1, <2>2 DEF Typed, TypeOK, Knows, FreeOK, Exists, Held
  <1>18. CASE UNCHANGED vars
    BY <1>18 DEF vars, Typed, TypeOK, Knows, FreeOK, Exists, Held
  <1> QED
    BY <1>1, <1>2, <1>3, <1>4, <1>5, <1>6, <1>7, <1>8, <1>9, <1>10, <1>11, <1>12, <1>13, <1>14,
       <1>15, <1>16, <1>17, <1>18, StepCases

\* For any number of users, sessions and invocations the tables hold what they
\* may, and every session has a user who exists and a login.
THEOREM TypeCorrect == Spec => []TypeOK
  <1>1. Typed => TypeOK
    BY DEF Typed
  <1> QED BY <1>1, InitTyped, NextTyped, PTL DEF Spec

-----------------------------------------------------------------------------
(* Somebody can manage the users. As long as no user was changed on a check  *)
(* that was overtaken, and no last one was put out unasked: an active owner  *)
(* exists, and a patch that asked before it takes the owner's role or status *)
(* from somebody knows of another owner.                                     *)

ActiveOwner == [role |-> Owner, status |-> "active"]
Guarded(q) ==
    q.pc \in {"count", "update"} /\ ~q.stale =>
        /\ user[q.user].role = q.held
        /\ q.pc = "update" /\ Removes(q) /\ q.held = Owner => Others(q.user, Owner) # {}

LockInv ==
    /\ manages[Owner]
    /\ \/ raced \/ skipped
       \/ /\ \E u \in Users : user[u] = ActiveOwner
          /\ \A p \in Procs : Guarded(proc[p])

LEMMA InitLock == Init => LockInv
  BY DEF Init, LockInv, ActiveOwner, Guarded, ProcIdle

\* The steps that change neither users nor roles, nor a patch.
CalmUsers ==
    /\ UNCHANGED <<user, manages, raced, skipped>>
    /\ \A q \in Procs : proc'[q].pc \in {"count", "update"} =>
          /\ proc'[q].pc = proc[q].pc /\ proc'[q].user = proc[q].user /\ proc'[q].held = proc[q].held
          /\ proc'[q].role = proc[q].role /\ proc'[q].status = proc[q].status
          /\ proc'[q].stale = proc[q].stale

LEMMA CalmAlone ==
    ASSUME Typed, NEW p \in Procs, NEW q, Steps(p, q), q.pc \notin {"count", "update"},
           UNCHANGED <<user, manages, raced, skipped>>
    PROVE  CalmUsers
  BY StepsIs DEF CalmUsers

LEMMA FinishCalm ==
    ASSUME Typed, NEW p \in Procs, Finish(p), UNCHANGED <<user, manages, raced, skipped>>
    PROVE  CalmUsers
  BY FinishIs, IdleTyped, CalmAlone

LEMMA LateCalm ==
    ASSUME Typed, NEW p \in Procs, proc'[p].pc \notin {"count", "update"},
           UNCHANGED <<user, manages, raced, skipped>>,
           \A q \in Procs \ {p} : \E cond \in BOOLEAN : proc'[q] = LateIf(proc[q], cond)
    PROVE  CalmUsers
  <1>1. \A q \in Procs : proc[q] \in ProcState
    BY StateTypes
  <1> QED BY <1>1, LateIs DEF CalmUsers

LEMMA UserSteps ==
    ASSUME Typed, [Next]_vars
    PROVE  \/ CalmUsers
           \/ \E p \in Procs : CheckOthers(p) \/ UpdateUser(p)
           \/ \E p \in Procs, u \in Users, r \in Roles \cup {None}, status \in Statuses :
                 StartPatch(p, u, r, status)
           \/ \E u \in Users, r \in Roles : AddUser(u, r)
           \/ \E r \in Roles : EditRole(r)
  <1> USE DEF At
  <1>1. ASSUME NEW p \in Procs, ReadUser(p) PROVE CalmUsers
    <2>1. CASE Goto(p, "revoke")
      <3>1. Steps(p, [proc[p] EXCEPT !.pc = "revoke"])
        BY <2>1, GotoIs
      <3>2. [proc[p] EXCEPT !.pc = "revoke"].pc = "revoke"
        BY ProcIs DEF ProcState
      <3> QED BY <1>1, <3>1, <3>2, CalmAlone DEF ReadUser
    <2> QED BY <1>1, <2>1, FinishCalm DEF ReadUser
  <1>2. ASSUME NEW p \in Procs, Rotate(p) \/ Logout(p) PROVE CalmUsers
    <2>1. \A q \in Procs \ {p} : \E cond \in BOOLEAN : proc'[q] = LateIf(proc[q], cond)
      BY <1>2 DEF Rotate, Logout, Revoke
    <2>2. proc'[p].pc \in {"insert", "idle"}
      <3>1. [proc[p] EXCEPT !.pc = "insert"].pc = "insert"
        BY ProcIs DEF ProcState
      <3> QED BY <1>2, <3>1, IdleTyped DEF Rotate, Logout, Revoke
    <2> QED BY <1>2, <2>1, <2>2, LateCalm DEF Rotate, Logout
  <1>3. ASSUME NEW p \in Procs, Burn(p) \/ Purge(p) PROVE CalmUsers
    <2>1. \A q \in Procs \ {p} : \E cond \in BOOLEAN : proc'[q] = LateIf(proc[q], cond)
      BY <1>3 DEF Burn, Purge, RevokeAll
    <2>2. proc'[p].pc = "idle"
      BY <1>3, IdleTyped DEF Burn, Purge, RevokeAll
    <2> QED BY <1>3, <2>1, <2>2, LateCalm DEF Burn, Purge
  <1>4. ASSUME NEW p \in Procs, SetPassword(p) PROVE CalmUsers
    <2>1. proc'[p].pc = "purge"
      <3>1. [proc[p] EXCEPT !.pc = "purge"].pc = "purge"
        BY ProcIs DEF ProcState
      <3> QED BY <1>4, <3>1, SetPasswordIs
    <2>2. \A q \in Procs \ {p} : Touched(q) /\ proc'[q].stale = proc[q].stale
      BY <1>4, SetPasswordIs
    <2> QED BY <1>4, <2>1, <2>2 DEF SetPassword, CalmUsers, Touched
  <1>5. ASSUME NEW p \in Procs, Dies(p) PROVE CalmUsers
    BY <1>5, FinishCalm DEF Dies
  <1>6. ASSUME NEW p \in Procs, NEW s \in Sessions, OpenSession(p, s) PROVE CalmUsers
    BY <1>6, FinishCalm DEF OpenSession
  <1>7. ASSUME NEW p \in Procs, NEW s \in Sessions, Present(p, s) \/ StartLogout(p, s) PROVE CalmUsers
    <2>1. proc'[p].pc \in {"user", "burn", "logout"} /\ \A q \in Procs \ {p} : proc'[q] = proc[q]
      <3>1. CASE Present(p, s)
        <4>1. CASE session[s].st = "live"
          BY <3>1, <4>1, StateTypes DEF Present, ProcIdle
        <4>2. CASE session[s].st # "live"
          BY <3>1, <4>2, StateTypes DEF Present, ProcIdle
        <4> QED BY <4>1, <4>2
      <3>2. CASE StartLogout(p, s)
        BY <3>2, StateTypes DEF StartLogout, ProcIdle
      <3> QED BY <1>7, <3>1, <3>2
    <2> QED BY <1>7, <2>1 DEF Present, StartLogout, CalmUsers
  <1>8. ASSUME NEW p \in Procs, NEW u \in Users, StartLogin(p, u) \/ StartChange(p, u) PROVE CalmUsers
    <2>1. proc'[p].pc \in {"login", "password"} /\ \A q \in Procs \ {p} : proc'[q] = proc[q]
      BY <1>8, StateTypes DEF StartLogin, StartChange, ProcIdle
    <2> QED BY <1>8, <2>1 DEF StartLogin, StartChange, CalmUsers
  <1>9. ASSUME NEW s \in Sessions, Expire(s) PROVE CalmUsers
    BY <1>9 DEF Expire, CalmUsers
  <1>10. CASE UNCHANGED vars
    BY <1>10 DEF vars, CalmUsers
  <1> QED BY <1>1, <1>2, <1>3, <1>4, <1>5, <1>6, <1>7, <1>8, <1>9, <1>10, StepCases

LEMMA NextLock == Typed /\ LockInv /\ [Next]_vars => LockInv'
  <1> SUFFICES ASSUME Typed, LockInv, [Next]_vars PROVE LockInv'
    OBVIOUS
  <1> USE DEF At
  <1>0. /\ user \in [Users -> UserRow] /\ proc \in [Procs -> ProcState]
        /\ manages \in [Roles -> BOOLEAN] /\ raced \in BOOLEAN /\ skipped \in BOOLEAN
    BY StateTypes
  <1>1. CASE CalmUsers
    <2>1. \A q \in Procs : Guarded(proc[q]) => Guarded(proc[q])'
      BY <1>1 DEF CalmUsers, Guarded, Others, Removes
    <2> QED BY <1>1, <2>1 DEF CalmUsers, LockInv, ActiveOwner
  <1>2. ASSUME NEW p \in Procs, CheckOthers(p) PROVE LockInv'
    <2>1. UNCHANGED <<user, manages, raced, skipped>> /\ proc[p].pc = "count"
      BY <1>2 DEF CheckOthers
    <2>2. CASE Finish(p)
      <3>1. CalmUsers
        BY <2>1, <2>2, FinishCalm
      <3> QED BY <1>1, <3>1
    <2>3. CASE /\ Goto(p, "update")
               /\ ~(Others(proc[p].user, proc[p].held) = {} /\ manages[proc[p].held])
      <3>1. /\ proc'[p] = [proc[p] EXCEPT !.pc = "update"]
            /\ \A q \in Procs \ {p} : proc'[q] = proc[q]
        BY <2>3, GotoIs, StepsIs
      <3>2. ASSUME \A q \in Procs : Guarded(proc[q]), manages[Owner] PROVE Guarded(proc[p])'
        BY <1>0, <2>1, <2>3, <3>1, <3>2 DEF Guarded, Others, ProcState, Removes
      <3>3. \A q \in Procs \ {p} : Guarded(proc[q]) => Guarded(proc[q])'
        BY <2>1, <3>1 DEF Guarded, Others, Removes
      <3> QED BY <2>1, <3>2, <3>3 DEF LockInv, ActiveOwner
    <2> QED BY <1>2, <2>2, <2>3 DEF CheckOthers
  <1>3. ASSUME NEW p \in Procs, UpdateUser(p) PROVE LockInv'
    <2> DEFINE q == proc[p]
    <2>1. /\ manages' = manages /\ q.pc = "update"
          /\ raced' = (raced \/ (q.stale /\ Removes(q)))
          /\ skipped' = (skipped \/ Unasked(p))
      BY <1>3, UpdateUserIs DEF UpdateUser
    <2>2. CASE raced \/ skipped \/ (q.stale /\ Removes(q)) \/ Unasked(p)
      BY <2>1, <2>2 DEF LockInv
    <2>3. CASE ~raced /\ ~skipped /\ ~(q.stale /\ Removes(q)) /\ ~Unasked(p)
      <3>1. /\ user' = [user EXCEPT ![q.user] = NewUser(p)] /\ q.user \in Users
            /\ proc'[p] = ProcIdle
        BY <1>3, <2>1, UpdateUserIs, ProcIs DEF Knows, Exists
      <3>2. \A x \in Procs \ {p} : Touched(x) /\ (proc[x].pc \in {"count", "update"} => proc'[x].stale)
        BY <1>3, UpdateUserIs
      <3>3. \A x \in Procs : Guarded(proc[x])'
        BY <3>1, <3>2 DEF Guarded, Touched, ProcIdle
      <3>4. Removes(q) =>
               /\ user[q.user].role = q.held
               /\ q.held = Owner => Others(q.user, Owner) # {}
        BY <2>1, <2>3 DEF LockInv, Guarded
      <3>5. \E u \in Users : user'[u] = ActiveOwner
        <4>1. CASE Others(q.user, Owner) # {}
          <5>1. PICK v \in Others(q.user, Owner) : TRUE
            BY <4>1
          <5> QED BY <1>0, <3>1, <5>1 DEF Others, ActiveOwner
        <4>2. CASE Others(q.user, Owner) = {}
          <5>1. PICK v \in Users : user[v] = ActiveOwner
            BY <2>3 DEF LockInv
          <5>2. v = q.user => ~Removes(q)
            BY <3>4, <4>2, <5>1 DEF ActiveOwner
          <5>3. CASE v = q.user
            <6>1. IsManager(q.user)
              BY <5>1, <5>3 DEF IsManager, ActiveOwner, LockInv
            <6>2. NewUser(p).status = "active"
              BY <2>3, <4>2, <5>1, <5>2, <5>3, <6>1 DEF Unasked, ActiveOwner
            <6>3. NewUser(p).role = Owner
              BY <5>1, <5>2, <5>3 DEF NewUser, Removes, Checked, ActiveOwner
            <6>4. NewUser(p) = ActiveOwner
              BY <6>2, <6>3 DEF NewUser, ActiveOwner
            <6> QED BY <1>0, <3>1, <6>4
          <5>4. CASE v # q.user
            BY <1>0, <3>1, <5>1, <5>4
          <5> QED BY <5>3, <5>4
        <4> QED BY <4>1, <4>2
      <3> QED BY <2>1, <3>3, <3>5 DEF LockInv, ActiveOwner
    <2> QED BY <2>2, <2>3
  <1>4. ASSUME NEW p \in Procs, NEW u \in Users, NEW r \in Roles \cup {None},
               NEW status \in Statuses, StartPatch(p, u, r, status)
        PROVE  LockInv'
    <2>1. UNCHANGED <<user, manages, raced, skipped>>
      BY <1>4 DEF StartPatch
    <2>2. /\ \A q \in Procs \ {p} : proc'[q] = proc[q]
          /\ proc'[p].user = u /\ proc'[p].held = user[u].role
          /\ proc'[p].role = r /\ proc'[p].status = status
          /\ proc'[p].pc = IF Checked(r, status) THEN "count" ELSE "update"
      BY <1>0, <1>4 DEF StartPatch, ProcIdle
    <2>3. Guarded(proc[p])'
      BY <2>1, <2>2 DEF Guarded, Removes
    <2>4. \A q \in Procs \ {p} : Guarded(proc[q]) => Guarded(proc[q])'
      BY <2>1, <2>2 DEF Guarded, Others, Removes
    <2> QED BY <2>1, <2>3, <2>4 DEF LockInv, ActiveOwner
  <1>5. ASSUME NEW u \in Users, NEW r \in Roles, AddUser(u, r) PROVE LockInv'
    <2>1. /\ user[u].status = "none" /\ user' = [user EXCEPT ![u] = [role |-> r, status |-> "active"]]
          /\ UNCHANGED <<manages, proc, raced, skipped>>
      BY <1>5 DEF AddUser
    <2>2. ASSUME NEW q \in Procs, Guarded(proc[q]) PROVE Guarded(proc[q])'
      <3>1. proc[q].pc \in {"count", "update"} => proc[q].user \in Users /\ proc[q].user # u
        BY <2>1, ProcIs DEF Knows, Exists
      <3>2. Others(proc[q].user, Owner) \subseteq Others(proc[q].user, Owner)'
        BY <1>0, <2>1 DEF Others, UserRow
      <3> QED BY <1>0, <2>1, <2>2, <3>1, <3>2 DEF Guarded, Removes
    <2>3. ASSUME NEW v \in Users, user[v] = ActiveOwner PROVE user'[v] = ActiveOwner
      BY <1>0, <2>1, <2>3 DEF ActiveOwner
    <2> QED BY <2>1, <2>2, <2>3 DEF LockInv, ActiveOwner
  <1>6. ASSUME NEW r \in Roles, EditRole(r) PROVE LockInv'
    <2>1. UNCHANGED <<user, proc, raced, skipped>> /\ (manages'[Owner] <=> manages[Owner])
      BY <1>0, <1>6 DEF EditRole
    <2> QED BY <2>1 DEF LockInv, ActiveOwner, Guarded, Others, Removes
  <1> QED BY <1>1, <1>2, <1>3, <1>4, <1>5, <1>6, UserSteps

LEMMA InvLock == Typed /\ LockInv => NoLockout
  <1> SUFFICES ASSUME Typed, LockInv, ~raced, ~skipped PROVE \E u \in Users : IsManager(u)
    BY DEF NoLockout
  <1>1. PICK u \in Users : user[u] = ActiveOwner
    BY DEF LockInv
  <1> QED BY <1>1 DEF IsManager, ActiveOwner, LockInv

\* A company keeps somebody who manages its users, however users and roles
\* are changed, if no change of a user was made on an overtaken check and no
\* last holder of a managing role was given a status the guard does not know.
THEOREM NobodyLockedOut == Spec => []NoLockout
  <1>1. Init => Typed /\ LockInv
    BY InitTyped, InitLock
  <1>2. Typed /\ LockInv /\ [Next]_vars => (Typed /\ LockInv)'
    BY NextTyped, NextLock
  <1> QED BY <1>1, <1>2, InvLock, PTL DEF Spec

-----------------------------------------------------------------------------
(* Sessions. Most steps leave the sessions and the invocations that open     *)
(* them or purge alone; the others are taken one by one.                     *)

Same(q) ==
    /\ proc'[q].pc = proc[q].pc /\ proc'[q].user = proc[q].user
    /\ proc'[q].session = proc[q].session
    /\ proc'[q].old = proc[q].old /\ proc'[q].late = proc[q].late
    /\ proc'[q].shut =>
          /\ proc[q].shut
          /\ Disabled(proc[q].user) => user'[proc[q].user].status # "active"

Quiet ==
    /\ session' = session
    /\ abandoned \subseteq abandoned'
    /\ \A q \in Procs :
          /\ proc'[q].pc \in Opening \cup {"purge"} => Same(q)
          /\ proc[q].pc = "purge" => proc'[q].pc = "purge" \/ proc[q].user \in abandoned'

LEMMA QuietAlone ==
    ASSUME Typed, NEW p \in Procs, NEW q, Steps(p, q), q.pc \notin Opening \cup {"purge"},
           UNCHANGED <<user, session>>, abandoned \subseteq abandoned',
           proc[p].pc = "purge" => proc[p].user \in abandoned'
    PROVE  Quiet
  BY StepsIs DEF Quiet, Same, Disabled

LEMMA FinishQuiet ==
    ASSUME Typed, NEW p \in Procs, Finish(p), UNCHANGED <<user, session>>,
           abandoned \subseteq abandoned',
           proc[p].pc = "purge" => proc[p].user \in abandoned'
    PROVE  Quiet
  BY FinishIs, IdleTyped, QuietAlone DEF Opening

\* What a refresh remembers of the session it renews.
Renews(s, u, old, late, shut) ==
    [ProcIdle EXCEPT !.pc = "user", !.user = u, !.session = s,
                     !.old = old, !.late = late, !.shut = shut]
Renewal(r, s) == Renews(s, r.user, r.old, r.late, Disabled(r.user))

LEMMA RenewsIs ==
    ASSUME NEW s \in Sessions, NEW u \in Users,
           NEW old \in BOOLEAN, NEW late \in BOOLEAN, NEW shut \in BOOLEAN
    PROVE  /\ Renews(s, u, old, late, shut) \in ProcState
           /\ Renews(s, u, old, late, shut).pc = "user"
           /\ Renews(s, u, old, late, shut).user = u
           /\ Renews(s, u, old, late, shut).session = s
           /\ Renews(s, u, old, late, shut).old = old
           /\ Renews(s, u, old, late, shut).late = late
           /\ Renews(s, u, old, late, shut).shut = shut
  BY DEF Renews, ProcIdle, ProcState, Statuses, Opening

LEMMA RenewalIs ==
    ASSUME Typed, NEW s \in Sessions, session[s].st = "live"
    PROVE  /\ Renewal(session[s], s) \in ProcState
           /\ Renewal(session[s], s).pc = "user"
           /\ Renewal(session[s], s).user = session[s].user
           /\ Renewal(session[s], s).session = s
           /\ Renewal(session[s], s).old = session[s].old
           /\ Renewal(session[s], s).late = session[s].late
           /\ Renewal(session[s], s).shut = Disabled(session[s].user)
  <1> DEFINE u == session[s].user
             old == session[s].old
             late == session[s].late
             shut == Disabled(session[s].user)
  <1>1. session[s] \in SessionRow /\ u \in Users
    BY DEF Typed, TypeOK
  <1>2. old \in BOOLEAN /\ late \in BOOLEAN /\ shut \in BOOLEAN
    BY <1>1 DEF SessionRow, Disabled
  <1>3. Renewal(session[s], s) = Renews(s, u, old, late, shut)
    BY DEF Renewal
  <1> HIDE DEF u, old, late, shut
  <1>4. /\ Renewal(session[s], s) \in ProcState
        /\ Renewal(session[s], s).pc = "user" /\ Renewal(session[s], s).user = u
        /\ Renewal(session[s], s).session = s /\ Renewal(session[s], s).old = old
        /\ Renewal(session[s], s).late = late /\ Renewal(session[s], s).shut = shut
    BY <1>1, <1>2, <1>3, RenewsIs
  <1> QED BY Zenon, <1>4 DEF u, old, late, shut

LoginOf(u) == [ProcIdle EXCEPT !.pc = "login", !.user = u]

LEMMA LoginIs ==
    ASSUME NEW u \in Users
    PROVE  /\ LoginOf(u) \in ProcState /\ LoginOf(u).pc = "login" /\ LoginOf(u).user = u
           /\ ~LoginOf(u).old /\ ~LoginOf(u).late /\ ~LoginOf(u).shut
  BY DEF LoginOf, ProcIdle, ProcState, Statuses, Opening

LEMMA SessionSteps ==
    ASSUME Typed, [Next]_vars
    PROVE  \/ Quiet
           \/ \E p \in Procs : Rotate(p) \/ Logout(p) \/ Burn(p) \/ Purge(p) \/ SetPassword(p)
           \/ \E p \in Procs : /\ proc[p].pc = "user" /\ ~Disabled(proc[p].user)
                               /\ Steps(p, [proc[p] EXCEPT !.pc = "revoke"])
                               /\ UNCHANGED <<user, session, abandoned>>
           \/ \E p \in Procs, u \in Users : /\ proc[p].pc = "idle" /\ Steps(p, LoginOf(u))
                                            /\ UNCHANGED <<user, session, abandoned>>
           \/ \E p \in Procs, s \in Sessions : /\ proc[p].pc = "idle" /\ session[s].st = "live"
                                               /\ Steps(p, Renewal(session[s], s))
                                               /\ UNCHANGED <<user, session, abandoned>>
           \/ \E p \in Procs, s \in Sessions : OpenSession(p, s)
           \/ \E s \in Sessions : Expire(s)
  <1> USE DEF At
  <1>0. /\ user \in [Users -> UserRow] /\ proc \in [Procs -> ProcState]
    BY StateTypes
  <1>1. ASSUME NEW p \in Procs, ReadUser(p)
        PROVE  \/ Quiet
               \/ /\ proc[p].pc = "user" /\ ~Disabled(proc[p].user)
                  /\ Steps(p, [proc[p] EXCEPT !.pc = "revoke"])
                  /\ UNCHANGED <<user, session, abandoned>>
    <2>1. UNCHANGED <<user, session, abandoned>> /\ proc[p].pc = "user"
      BY <1>1 DEF ReadUser
    <2>2. CASE Disabled(proc[p].user)
      BY <1>1, <2>1, <2>2, FinishQuiet DEF ReadUser
    <2>3. CASE ~Disabled(proc[p].user)
      BY <1>1, <2>1, <2>3, GotoIs DEF ReadUser
    <2> QED BY <2>2, <2>3
  <1>2. ASSUME NEW p \in Procs, CheckOthers(p) PROVE Quiet
    <2>1. UNCHANGED <<user, session, abandoned>> /\ proc[p].pc = "count"
      BY <1>2 DEF CheckOthers
    <2>2. CASE Finish(p)
      BY <2>1, <2>2, FinishQuiet
    <2>3. CASE Goto(p, "update")
      <3>1. Steps(p, [proc[p] EXCEPT !.pc = "update"])
        BY <2>3, GotoIs
      <3>2. [proc[p] EXCEPT !.pc = "update"].pc = "update"
        BY ProcIs DEF ProcState
      <3> QED BY <2>1, <3>1, <3>2, QuietAlone DEF Opening
    <2> QED BY <1>2, <2>2, <2>3 DEF CheckOthers
  <1>3. ASSUME NEW p \in Procs, UpdateUser(p) PROVE Quiet
    <2>1. session' = session /\ abandoned' = abandoned /\ proc[p].pc = "update"
      BY <1>3 DEF UpdateUser
    <2>2. proc'[p].pc = "idle"
      BY <1>3, UpdateUserIs, IdleTyped
    <2>3. ASSUME NEW q \in Procs \ {p} PROVE Touched(q) /\ proc'[q].late = proc[q].late /\ proc'[q].old = proc[q].old
      BY <1>3, UpdateUserIs
    <2>4. ASSUME NEW q \in Procs \ {p}, proc'[q].pc \in Opening, proc'[q].shut
          PROVE  proc[q].shut /\ (Disabled(proc[q].user) => user'[proc[q].user].status # "active")
      <3>1. /\ proc[q].shut
            /\ proc[q].user # proc[p].user \/ NewUser(p).status # "active"
        BY <1>3, <2>3, <2>4, UpdateUserIs DEF Touched, Opening
      <3>2. user' = [user EXCEPT ![proc[p].user] = NewUser(p)]
        BY <1>3, UpdateUserIs
      <3>3. proc[q].user \in Users
        BY <2>3, <2>4, ProcIs DEF Knows, Exists, Touched
      <3> QED BY <1>0, <3>1, <3>2, <3>3 DEF Disabled
    <2>5. ASSUME NEW q \in Procs \ {p}, proc'[q].pc = "purge", proc'[q].shut
          PROVE  proc[q].shut /\ (Disabled(proc[q].user) => user'[proc[q].user].status # "active")
      <3>1. /\ proc[q].shut
            /\ proc[q].user # proc[p].user \/ NewUser(p).status # "active"
        BY <1>3, <2>3, <2>5, UpdateUserIs DEF Touched, Opening
      <3>2. user' = [user EXCEPT ![proc[p].user] = NewUser(p)]
        BY <1>3, UpdateUserIs
      <3>3. proc[q].user \in Users
        BY <2>3, <2>5, ProcIs DEF Knows, Exists, Touched
      <3> QED BY <1>0, <3>1, <3>2, <3>3 DEF Disabled
    <2> QED BY <2>1, <2>2, <2>3, <2>4, <2>5 DEF Quiet, Same, Touched, Opening
  <1>4. ASSUME NEW p \in Procs, Dies(p) PROVE Quiet
    <2>1. /\ UNCHANGED <<user, session>> /\ Finish(p) /\ abandoned \subseteq abandoned'
          /\ proc[p].pc = "purge" => proc[p].user \in abandoned'
      BY <1>4 DEF Dies
    <2> QED BY <2>1, FinishQuiet
  <1>5. ASSUME NEW p \in Procs, NEW s \in Sessions, Present(p, s)
        PROVE  \/ Quiet
               \/ /\ proc[p].pc = "idle" /\ session[s].st = "live"
                  /\ Steps(p, Renewal(session[s], s))
                  /\ UNCHANGED <<user, session, abandoned>>
    <2>1. UNCHANGED <<user, session, abandoned>> /\ proc[p].pc = "idle"
      BY <1>5 DEF Present
    <2>2. CASE session[s].st = "live"
      <3>1. proc' = [proc EXCEPT ![p] = Renewal(session[s], s)]
        BY <1>5, <2>2 DEF Present, Renewal, Renews
      <3> QED BY <2>1, <2>2, <3>1, RenewalIs DEF Steps
    <2>3. CASE session[s].st # "live"
      <3>1. /\ proc'[p].pc = "burn" /\ \A q \in Procs \ {p} : proc'[q] = proc[q]
        BY <1>0, <1>5, <2>3 DEF Present, ProcIdle
      <3> QED BY <2>1, <3>1 DEF Quiet, Same, Opening, Disabled
    <2> QED BY <2>2, <2>3
  <1>6. ASSUME NEW p \in Procs, NEW s \in Sessions, StartLogout(p, s) PROVE Quiet
    <2>1. UNCHANGED <<user, session, abandoned>> /\ proc[p].pc = "idle"
      BY <1>6 DEF StartLogout
    <2>2. /\ proc'[p].pc = "logout" /\ \A q \in Procs \ {p} : proc'[q] = proc[q]
      BY <1>0, <1>6 DEF StartLogout, ProcIdle
    <2> QED BY <2>1, <2>2 DEF Quiet, Same, Opening, Disabled
  <1>7. ASSUME NEW p \in Procs, NEW u \in Users, StartLogin(p, u)
        PROVE  /\ proc[p].pc = "idle" /\ Steps(p, LoginOf(u))
               /\ UNCHANGED <<user, session, abandoned>>
    BY <1>7, LoginIs DEF StartLogin, Steps, LoginOf
  <1>8. ASSUME NEW p \in Procs, NEW u \in Users, StartChange(p, u) PROVE Quiet
    <2>1. UNCHANGED <<user, session, abandoned>> /\ proc[p].pc = "idle"
      BY <1>8 DEF StartChange
    <2>2. /\ proc'[p].pc = "password" /\ \A q \in Procs \ {p} : proc'[q] = proc[q]
      BY <1>0, <1>8 DEF StartChange, ProcIdle
    <2> QED BY <2>1, <2>2 DEF Quiet, Same, Opening, Disabled
  <1>9. ASSUME NEW p \in Procs, NEW u \in Users, NEW r \in Roles \cup {None},
               NEW status \in Statuses, StartPatch(p, u, r, status)
        PROVE  Quiet
    <2>1. UNCHANGED <<user, session, abandoned>> /\ proc[p].pc = "idle"
      BY <1>9 DEF StartPatch
    <2>2. /\ proc'[p].pc \in {"update", "count"} /\ \A q \in Procs \ {p} : proc'[q] = proc[q]
      BY <1>0, <1>9 DEF StartPatch, ProcIdle
    <2> QED BY <2>1, <2>2 DEF Quiet, Same, Opening, Disabled
  <1>10. ASSUME NEW u \in Users, NEW r \in Roles, AddUser(u, r) PROVE Quiet
    <2>1. /\ UNCHANGED <<proc, session, abandoned>> /\ user[u].status = "none"
          /\ user' = [user EXCEPT ![u] = [role |-> r, status |-> "active"]]
      BY <1>10 DEF AddUser
    <2>2. ASSUME NEW q \in Procs, proc[q].pc \in Opening \cup {"purge"} PROVE Same(q)
      <3>1. proc[q].user \in Users /\ proc[q].user # u
        BY <2>1, <2>2, ProcIs DEF Knows, Exists
      <3> QED BY <1>0, <2>1, <3>1 DEF Same, Disabled
    <2> QED BY <2>1, <2>2 DEF Quiet
  <1>11. ASSUME NEW r \in Roles, EditRole(r) PROVE Quiet
    BY <1>11 DEF EditRole, Quiet, Same, Disabled
  <1>12. CASE UNCHANGED vars
    BY <1>12 DEF vars, Quiet, Same, Disabled
  <1> QED
    BY <1>1, <1>2, <1>3, <1>4, <1>5, <1>6, <1>7, <1>8, <1>9, <1>10, <1>11, <1>12, StepCases

\* The fields of a revoked row, and of an invocation that was overtaken.
LEMMA RevokedIs ==
    ASSUME Typed, NEW s \in Sessions
    PROVE  LET r == [session[s] EXCEPT !.st = "revoked"] IN
           /\ r.st = "revoked" /\ r.user = session[s].user /\ r.family = session[s].family
           /\ r.old = session[s].old /\ r.late = session[s].late /\ r.shut = session[s].shut
  BY StateTypes DEF SessionRow

Renewing == {"user", "revoke", "insert"}

\* Some sessions are revoked, the invocations that open others may be late.
Ends(p, S) ==
    /\ \A s \in Sessions :
          /\ session'[s].user = session[s].user /\ session'[s].family = session[s].family
          /\ session'[s].old = session[s].old /\ session'[s].late = session[s].late
          /\ session'[s].shut = session[s].shut
          /\ session'[s].st = IF s \in S THEN "revoked" ELSE session[s].st
    /\ \A q \in Procs \ {p} :
          /\ proc'[q].pc = proc[q].pc /\ proc'[q].user = proc[q].user
          /\ proc'[q].session = proc[q].session
          /\ proc'[q].old = proc[q].old /\ proc'[q].shut = proc[q].shut
          /\ proc[q].late => proc'[q].late
          /\ proc[q].pc \in Renewing /\ proc[q].session \in S => proc'[q].late
    /\ UNCHANGED user

LEMMA LateFrame ==
    ASSUME Typed, NEW q \in Procs, NEW cond \in BOOLEAN, proc'[q] = LateIf(proc[q], cond)
    PROVE  /\ proc'[q].pc = proc[q].pc /\ proc'[q].user = proc[q].user
           /\ proc'[q].session = proc[q].session
           /\ proc'[q].old = proc[q].old /\ proc'[q].shut = proc[q].shut
           /\ proc[q].late => proc'[q].late
           /\ cond => proc'[q].late
  BY ProcIs, LateIs

LEMMA RevokedFrame ==
    ASSUME Typed, NEW s \in Sessions, NEW cond \in BOOLEAN,
           session'[s] = IF cond THEN [session[s] EXCEPT !.st = "revoked"] ELSE session[s]
    PROVE  /\ session'[s].user = session[s].user /\ session'[s].family = session[s].family
           /\ session'[s].old = session[s].old /\ session'[s].late = session[s].late
           /\ session'[s].shut = session[s].shut
           /\ session'[s].st = IF cond THEN "revoked" ELSE session[s].st
  BY RevokedIs

LEMMA RevokeEnds ==
    ASSUME Typed, NEW p \in Procs, NEW s \in Sessions, NEW next \in ProcState, Revoke(p, s, next),
           UNCHANGED user
    PROVE  Ends(p, {s}) /\ proc'[p] = next
  <1>1. /\ proc'[p] = next
        /\ \A q \in Procs \ {p} :
              proc'[q] = LateIf(proc[q], proc[q].pc \in Opening /\ proc[q].session = s)
        /\ \A t \in Sessions :
              session'[t] = IF t = s THEN [session[s] EXCEPT !.st = "revoked"] ELSE session[t]
    BY RevokeIs
  <1>2. ASSUME NEW t \in Sessions
        PROVE  /\ session'[t].user = session[t].user /\ session'[t].family = session[t].family
               /\ session'[t].old = session[t].old /\ session'[t].late = session[t].late
               /\ session'[t].shut = session[t].shut
               /\ session'[t].st = IF t = s THEN "revoked" ELSE session[t].st
    <2> DEFINE cond == t = s
    <2>1. cond \in BOOLEAN /\ session'[t] = IF cond THEN [session[t] EXCEPT !.st = "revoked"] ELSE session[t]
      BY <1>1
    <2> HIDE DEF cond
    <2>2. /\ session'[t].user = session[t].user /\ session'[t].family = session[t].family
          /\ session'[t].old = session[t].old /\ session'[t].late = session[t].late
          /\ session'[t].shut = session[t].shut
          /\ session'[t].st = IF cond THEN "revoked" ELSE session[t].st
      BY <2>1, RevokedFrame
    <2> QED BY <2>2 DEF cond
  <1>3. ASSUME NEW q \in Procs \ {p}
        PROVE  /\ proc'[q].pc = proc[q].pc /\ proc'[q].user = proc[q].user
               /\ proc'[q].session = proc[q].session
               /\ proc'[q].old = proc[q].old /\ proc'[q].shut = proc[q].shut
               /\ proc[q].late => proc'[q].late
               /\ proc[q].pc \in Renewing /\ proc[q].session \in {s} => proc'[q].late
    <2> DEFINE cond == proc[q].pc \in Opening /\ proc[q].session = s
    <2>1. cond \in BOOLEAN /\ proc'[q] = LateIf(proc[q], cond)
      BY <1>1
    <2>2. proc[q].pc \in Renewing /\ proc[q].session \in {s} => cond
      BY DEF Renewing, Opening
    <2> HIDE DEF cond
    <2> QED BY <2>1, <2>2, LateFrame
  <1> QED BY <1>1, <1>2, <1>3 DEF Ends

LEMMA RotateEnds ==
    ASSUME Typed, NEW p \in Procs, Rotate(p)
    PROVE  /\ Ends(p, {proc[p].session}) /\ abandoned' = abandoned
           /\ proc[p].pc = "revoke" /\ proc'[p].pc = "insert"
           /\ proc'[p].session = proc[p].session
           /\ proc'[p].user = proc[p].user /\ proc'[p].old = proc[p].old
           /\ proc'[p].late = proc[p].late /\ proc'[p].shut = proc[p].shut
           /\ proc[p].session \in Sessions /\ session[proc[p].session].st # "free"
  <1> DEFINE s == proc[p].session
             n == [proc[p] EXCEPT !.pc = "insert"]
  <1>1. /\ proc[p].pc = "revoke" /\ Revoke(p, s, n) /\ UNCHANGED <<user, abandoned>>
    BY DEF Rotate, At
  <1>2. s \in Sessions /\ session[s].st # "free"
    BY <1>1, ProcIs DEF Knows, Held
  <1>3. /\ n \in ProcState /\ n.pc = "insert" /\ n.session = s /\ n.user = proc[p].user
        /\ n.old = proc[p].old /\ n.late = proc[p].late /\ n.shut = proc[p].shut
    BY ProcIs DEF ProcState, Opening
  <1> HIDE DEF n, s
  <1>4. Ends(p, {s}) /\ proc'[p] = n
    BY <1>1, <1>2, <1>3, RevokeEnds
  <1> QED BY <1>1, <1>2, <1>3, <1>4 DEF s

LEMMA LogoutEnds ==
    ASSUME Typed, NEW p \in Procs, Logout(p)
    PROVE  /\ Ends(p, {proc[p].session}) /\ abandoned' = abandoned
           /\ proc[p].pc = "logout" /\ proc'[p].pc = "idle"
           /\ proc[p].session \in Sessions /\ session[proc[p].session].st # "free"
  <1> DEFINE s == proc[p].session
  <1>1. /\ proc[p].pc = "logout" /\ Revoke(p, s, ProcIdle) /\ UNCHANGED <<user, abandoned>>
    BY DEF Logout, At
  <1>2. s \in Sessions /\ session[s].st # "free"
    BY <1>1, ProcIs DEF Knows, Held
  <1> HIDE DEF s
  <1>3. Ends(p, {s}) /\ proc'[p] = ProcIdle
    BY <1>1, <1>2, IdleTyped, RevokeEnds
  <1> QED BY <1>1, <1>2, <1>3, IdleTyped DEF s

Of(u) == {s \in Sessions : session[s].user = u}

LEMMA AllEnd ==
    ASSUME Typed, NEW p \in Procs, Burn(p) \/ Purge(p)
    PROVE  /\ Ends(p, Of(proc[p].user)) /\ abandoned' = abandoned \ {proc[p].user}
           /\ proc[p].pc \in {"burn", "purge"} /\ proc'[p].pc = "idle"
           /\ proc[p].user \in Users
           /\ \A q \in Procs \ {p} :
                 proc[q].pc \in Opening /\ proc[q].user = proc[p].user => proc'[q].late
  <1> DEFINE u == proc[p].user
  <1>1. proc[p].pc \in {"burn", "purge"} /\ RevokeAll(p, u) /\ UNCHANGED user
    BY DEF Burn, Purge, At
  <1>2. u \in Users
    BY <1>1, ProcIs DEF Knows, Exists
  <1>3. \A q \in Procs : Knows(proc[q])
    BY ProcIs
  <1> HIDE DEF u
  <1>4. /\ \A q \in Procs \ {p} : proc'[q] = LateIf(proc[q], proc[q].pc \in Opening /\ proc[q].user = u)
        /\ \A t \in Sessions :
              session'[t] = IF session[t].user = u THEN [session[t] EXCEPT !.st = "revoked"]
                            ELSE session[t]
        /\ proc'[p] = ProcIdle /\ abandoned' = abandoned \ {u}
    BY <1>1, <1>2, RevokeAllIs
  <1>5. ASSUME NEW q \in Procs \ {p}
        PROVE  /\ proc'[q].pc = proc[q].pc /\ proc'[q].user = proc[q].user
               /\ proc'[q].session = proc[q].session
               /\ proc'[q].old = proc[q].old /\ proc'[q].shut = proc[q].shut
               /\ proc[q].late => proc'[q].late
               /\ proc[q].pc \in Opening /\ proc[q].user = u => proc'[q].late
    <2> DEFINE cond == proc[q].pc \in Opening /\ proc[q].user = u
    <2>1. cond \in BOOLEAN /\ proc'[q] = LateIf(proc[q], cond)
      BY <1>4
    <2>2. proc[q].pc \in Opening /\ proc[q].user = u => cond
      OBVIOUS
    <2> HIDE DEF cond
    <2> QED BY <2>1, <2>2, LateFrame
  <1>6. ASSUME NEW t \in Sessions
        PROVE  /\ session'[t].user = session[t].user /\ session'[t].family = session[t].family
               /\ session'[t].old = session[t].old /\ session'[t].late = session[t].late
               /\ session'[t].shut = session[t].shut
               /\ session'[t].st = IF session[t].user = u THEN "revoked" ELSE session[t].st
    <2> DEFINE cond == session[t].user = u
    <2>1. cond \in BOOLEAN /\ session'[t] = IF cond THEN [session[t] EXCEPT !.st = "revoked"] ELSE session[t]
      BY <1>4
    <2> HIDE DEF cond
    <2>2. /\ session'[t].user = session[t].user /\ session'[t].family = session[t].family
          /\ session'[t].old = session[t].old /\ session'[t].late = session[t].late
          /\ session'[t].shut = session[t].shut
          /\ session'[t].st = IF cond THEN "revoked" ELSE session[t].st
      BY <2>1, RevokedFrame
    <2> QED BY <2>2 DEF cond
  <1>7. \A q \in Procs : proc[q].pc \in Renewing /\ proc[q].session \in Of(u)
                            => proc[q].pc \in Opening /\ proc[q].user = u
    BY <1>3 DEF Knows, Of, Opening, Renewing
  <1>8. Ends(p, Of(u))
    BY <1>1, <1>5, <1>6, <1>7 DEF Ends, Of
  <1> QED BY <1>1, <1>2, <1>4, <1>5, <1>8, IdleTyped DEF u

LEMMA ExpireIs ==
    ASSUME Typed, NEW s \in Sessions, Expire(s)
    PROVE  /\ \A t \in Sessions :
                 /\ session'[t].user = session[t].user /\ session'[t].family = session[t].family
                 /\ session'[t].old = session[t].old /\ session'[t].late = session[t].late
                 /\ session'[t].shut = session[t].shut
                 /\ session'[t].st = IF t = s THEN "expired" ELSE session[t].st
           /\ session[s].st = "live" /\ UNCHANGED <<user, proc, abandoned>>
  <1>1. session' = [session EXCEPT ![s] = [session[s] EXCEPT !.st = "expired"]]
        /\ session[s].st = "live" /\ UNCHANGED <<user, proc, abandoned>>
    BY DEF Expire
  <1>2. session \in [Sessions -> SessionRow]
    BY StateTypes
  <1>3. LET r == [session[s] EXCEPT !.st = "expired"] IN
        /\ r.st = "expired" /\ r.user = session[s].user /\ r.family = session[s].family
        /\ r.old = session[s].old /\ r.late = session[s].late /\ r.shut = session[s].shut
    BY <1>2 DEF SessionRow
  <1> QED BY <1>1, <1>2, <1>3

\* The new row, and nothing else.
Opens(p, s) ==
    /\ session[s].st = "free"
    /\ session'[s].st = "live" /\ session'[s].user = proc[p].user
    /\ session'[s].old = proc[p].old /\ session'[s].late = proc[p].late
    /\ session'[s].shut = proc[p].shut
    /\ session'[s].family = IF proc[p].pc = "login" THEN s ELSE session[proc[p].session].family
    /\ \A t \in Sessions \ {s} : session'[t] = session[t]
    /\ proc'[p].pc = "idle" /\ \A q \in Procs \ {p} : proc'[q] = proc[q]
    /\ UNCHANGED <<user, abandoned>>

LEMMA OpenIs ==
    ASSUME Typed, NEW p \in Procs, NEW s \in Sessions, OpenSession(p, s)
    PROVE  Opens(p, s) /\ proc[p].pc \in {"login", "insert"}
  <1>1. session \in [Sessions -> SessionRow]
    BY StateTypes
  <1>2. /\ Steps(p, ProcIdle) /\ session[s].st = "free" /\ proc[p].pc \in {"login", "insert"}
        /\ session' = [session EXCEPT ![s] = NewRow(p, s)]
    BY OpenSessionIs
  <1>3. proc'[p].pc = "idle" /\ \A q \in Procs \ {p} : proc'[q] = proc[q]
    BY <1>2, StepsIs, IdleTyped
  <1>4. session'[s] = NewRow(p, s) /\ \A t \in Sessions \ {s} : session'[t] = session[t]
    BY <1>1, <1>2
  <1>5. UNCHANGED <<user, abandoned>>
    BY DEF OpenSession
  <1> QED BY <1>2, <1>3, <1>4, <1>5 DEF Opens, NewRow

-----------------------------------------------------------------------------
(* A refresh that found its user disabled at its first read cannot have got  *)
(* past the second one, unless he was enabled in between.                   *)

ShutInv ==
    /\ DisabledOpensNothing
    /\ \A p \in Procs : proc[p].pc \in Opening /\ proc[p].shut =>
          proc[p].pc = "user" /\ Disabled(proc[p].user)

LEMMA InitShut == Init => ShutInv
  BY DEF Init, ShutInv, DisabledOpensNothing, NoSession, ProcIdle, Opening

LEMMA NextShut == Typed /\ ShutInv /\ [Next]_vars => ShutInv'
  <1> SUFFICES ASSUME Typed, ShutInv, [Next]_vars PROVE ShutInv'
    OBVIOUS
  <1> USE DEF ShutInv, DisabledOpensNothing, Disabled
  <1>1. CASE Quiet
    BY <1>1 DEF Quiet, Same
  <1>2. ASSUME NEW p \in Procs, Rotate(p) PROVE ShutInv'
    BY <1>2, RotateEnds DEF Ends, Opening
  <1>3. ASSUME NEW p \in Procs, Logout(p) PROVE ShutInv'
    BY <1>3, LogoutEnds DEF Ends, Opening
  <1>4. ASSUME NEW p \in Procs, Burn(p) \/ Purge(p) PROVE ShutInv'
    BY <1>4, AllEnd DEF Ends, Opening
  <1>5. ASSUME NEW p \in Procs, SetPassword(p) PROVE ShutInv'
    <2>1. proc'[p].pc = "purge"
      <3>1. [proc[p] EXCEPT !.pc = "purge"].pc = "purge"
        BY ProcIs DEF ProcState
      <3> QED BY <1>5, <3>1, SetPasswordIs
    <2>2. user' = user
      BY <1>5 DEF SetPassword
    <2>3. /\ \A q \in Procs \ {p} :
                /\ proc'[q].pc = proc[q].pc /\ proc'[q].user = proc[q].user
                /\ proc'[q].shut = proc[q].shut
          /\ \A s \in Sessions : session'[s].shut = session[s].shut
      <3> HIDE DEF ShutInv, DisabledOpensNothing, Disabled
      <3>1. ASSUME NEW q \in Procs \ {p} PROVE Touched(q) /\ proc'[q].shut = proc[q].shut
        BY <1>5, SetPasswordIs
      <3>2. ASSUME NEW s \in Sessions PROVE session'[s].shut = session[s].shut
        BY <1>5, SetPasswordIs
      <3> QED BY <3>1, <3>2 DEF Touched
    <2> QED BY <2>1, <2>2, <2>3 DEF Opening
  <1>6. ASSUME NEW p \in Procs, proc[p].pc = "user", ~Disabled(proc[p].user),
               Steps(p, [proc[p] EXCEPT !.pc = "revoke"]), UNCHANGED <<user, session, abandoned>>
        PROVE  ShutInv'
    <2>1. [proc[p] EXCEPT !.pc = "revoke"].shut = proc[p].shut
      BY ProcIs DEF ProcState
    <2>2. proc'[p].shut = proc[p].shut /\ \A q \in Procs \ {p} : proc'[q] = proc[q]
      BY <1>6, <2>1, StepsIs
    <2> QED BY <1>6, <2>2 DEF Opening
  <1>7. ASSUME NEW p \in Procs, NEW u \in Users, Steps(p, LoginOf(u)),
               UNCHANGED <<user, session, abandoned>>
        PROVE  ShutInv'
    BY <1>7, LoginIs, StepsIs
  <1>8. ASSUME NEW p \in Procs, NEW s \in Sessions, session[s].st = "live",
               Steps(p, Renewal(session[s], s)), UNCHANGED <<user, session, abandoned>>
        PROVE  ShutInv'
    <2>1. /\ proc'[p].pc = "user" /\ proc'[p].user = session[s].user
          /\ proc'[p].shut => Disabled(session[s].user)
          /\ \A q \in Procs \ {p} : proc'[q] = proc[q]
      <3> HIDE DEF Disabled
      <3> QED BY <1>8, RenewalIs, StepsIs
    <2>2. Disabled(session[s].user) => proc'[p].pc = "user" /\ Disabled(proc'[p].user)
      BY <2>1
    <2> QED BY <1>8, <2>1, <2>2
  <1>9. ASSUME NEW p \in Procs, NEW s \in Sessions, OpenSession(p, s) PROVE ShutInv'
    BY <1>9, OpenIs DEF Opens, Opening
  <1>10. ASSUME NEW s \in Sessions, Expire(s) PROVE ShutInv'
    BY <1>10, ExpireIs
  <1> QED BY <1>1, <1>2, <1>3, <1>4, <1>5, <1>6, <1>7, <1>8, <1>9, <1>10, SessionSteps

\* No session is ever opened by a refresh that began after its user was
\* disabled and during which nobody enabled him: what a disabled user's
\* refresh reads last is his status.
THEOREM DisabledOpenNothing == Spec => []DisabledOpensNothing
  <1>1. Init => Typed /\ ShutInv
    BY InitTyped, InitShut
  <1>2. Typed /\ ShutInv /\ [Next]_vars => (Typed /\ ShutInv)'
    BY NextTyped, NextShut
  <1>3. Typed /\ ShutInv => DisabledOpensNothing
    BY DEF ShutInv
  <1> QED BY <1>1, <1>2, <1>3, PTL DEF Spec

-----------------------------------------------------------------------------
(* An old password. A session opened with it that is still good, and an      *)
(* invocation about to open one, have a purge before them, one that died, or *)
(* are late.                                                               *)

Escapes(u) == u \in abandoned \/ \E p \in Procs : proc[p].pc = "purge" /\ proc[p].user = u

OldInv ==
    /\ \A s \in Sessions : session[s].st = "live" /\ session[s].old /\ ~session[s].late =>
          Escapes(session[s].user)
    /\ \A p \in Procs : proc[p].pc \in Opening /\ proc[p].old /\ ~proc[p].late =>
          Escapes(proc[p].user)

LEMMA InitOld == Init => OldInv
  BY DEF Init, OldInv, NoSession, ProcIdle, Opening

LEMMA NextOld == Typed /\ OldInv /\ [Next]_vars => OldInv'
  <1> SUFFICES ASSUME Typed, OldInv, [Next]_vars PROVE OldInv'
    OBVIOUS
  <1>1. CASE Quiet
    <2>1. ASSUME NEW u, Escapes(u) PROVE Escapes(u)'
      BY <1>1, <2>1 DEF Quiet, Same, Escapes
    <2> QED BY <1>1, <2>1 DEF Quiet, Same, OldInv
  <1>2. ASSUME NEW p \in Procs, Rotate(p) \/ Logout(p) PROVE OldInv'
    <2>1. /\ Ends(p, {proc[p].session}) /\ abandoned' = abandoned /\ proc[p].pc # "purge"
          /\ \/ proc'[p].pc = "idle"
             \/ /\ proc[p].pc \in Opening /\ proc'[p].user = proc[p].user
                /\ proc'[p].old = proc[p].old /\ proc'[p].late = proc[p].late
      BY <1>2, RotateEnds, LogoutEnds DEF Opening
    <2>2. ASSUME NEW u, Escapes(u) PROVE Escapes(u)'
      BY <2>1, <2>2 DEF Ends, Escapes
    <2>3. ASSUME NEW s \in Sessions, session'[s].st = "live", session'[s].old, ~session'[s].late
          PROVE  Escapes(session[s].user) /\ session'[s].user = session[s].user
      BY <2>1, <2>3 DEF Ends, OldInv
    <2>4. ASSUME NEW q \in Procs, proc'[q].pc \in Opening, proc'[q].old, ~proc'[q].late
          PROVE  Escapes(proc[q].user) /\ proc'[q].user = proc[q].user
      BY <2>1, <2>4 DEF Ends, OldInv, Opening
    <2> QED BY <2>2, <2>3, <2>4 DEF OldInv
  <1>3. ASSUME NEW p \in Procs, Burn(p) \/ Purge(p) PROVE OldInv'
    <2>1. /\ Ends(p, Of(proc[p].user)) /\ abandoned' = abandoned \ {proc[p].user}
          /\ proc'[p].pc = "idle"
          /\ \A q \in Procs \ {p} :
                 proc[q].pc \in Opening /\ proc[q].user = proc[p].user => proc'[q].late
      BY <1>3, AllEnd
    <2>2. ASSUME NEW u, Escapes(u), u # proc[p].user PROVE Escapes(u)'
      BY <2>1, <2>2 DEF Ends, Escapes
    <2>3. ASSUME NEW s \in Sessions, session'[s].st = "live", session'[s].old, ~session'[s].late
          PROVE  /\ Escapes(session[s].user) /\ session'[s].user = session[s].user
                 /\ session[s].user # proc[p].user
      BY <2>1, <2>3 DEF Ends, OldInv, Of
    <2>4. ASSUME NEW q \in Procs, proc'[q].pc \in Opening, proc'[q].old, ~proc'[q].late
          PROVE  /\ Escapes(proc[q].user) /\ proc'[q].user = proc[q].user
                 /\ proc[q].user # proc[p].user
      BY <2>1, <2>4 DEF Ends, OldInv, Opening
    <2> QED BY <2>2, <2>3, <2>4 DEF OldInv
  <1>4. ASSUME NEW p \in Procs, SetPassword(p) PROVE OldInv'
    <2>1. abandoned' = abandoned /\ proc[p].pc = "password"
      BY <1>4 DEF SetPassword, At
    <2>2. proc'[p].pc = "purge" /\ proc'[p].user = proc[p].user
      <3>1. [proc[p] EXCEPT !.pc = "purge"].pc = "purge"
            /\ [proc[p] EXCEPT !.pc = "purge"].user = proc[p].user
        BY ProcIs DEF ProcState
      <3> QED BY <1>4, <3>1, SetPasswordIs
    <2>3. \A q \in Procs \ {p} :
             /\ proc'[q].pc = proc[q].pc /\ proc'[q].user = proc[q].user
             /\ proc'[q].late = proc[q].late
             /\ proc'[q].old => proc[q].old \/ proc[q].user = proc[p].user
      BY <1>4, SetPasswordIs DEF Touched
    <2>4. \A s \in Sessions :
             /\ session'[s].st = session[s].st /\ session'[s].user = session[s].user
             /\ session'[s].late = session[s].late
             /\ session'[s].old => session[s].old \/ session[s].user = proc[p].user
      BY <1>4, SetPasswordIs
    <2>5. Escapes(proc[p].user)'
      BY <2>2 DEF Escapes
    <2>6. ASSUME NEW u, Escapes(u) PROVE Escapes(u)'
      BY <2>1, <2>3, <2>6 DEF Escapes
    <2>7. \A s \in Sessions : session'[s].st = "live" /\ session'[s].old /\ ~session'[s].late =>
             Escapes(session[s].user) \/ session[s].user = proc[p].user
      BY <2>4 DEF OldInv
    <2>8. \A q \in Procs : proc'[q].pc \in Opening /\ proc'[q].old /\ ~proc'[q].late =>
             q # p /\ (Escapes(proc[q].user) \/ proc[q].user = proc[p].user)
      BY <2>2, <2>3 DEF OldInv, Opening
    <2> QED BY <2>2, <2>3, <2>4, <2>5, <2>6, <2>7, <2>8 DEF OldInv
  <1>5. ASSUME NEW p \in Procs, proc[p].pc = "user",
               Steps(p, [proc[p] EXCEPT !.pc = "revoke"]), UNCHANGED <<user, session, abandoned>>
        PROVE  OldInv'
    <2>1. LET n == [proc[p] EXCEPT !.pc = "revoke"] IN
          n.pc = "revoke" /\ n.user = proc[p].user /\ n.old = proc[p].old /\ n.late = proc[p].late
      BY ProcIs DEF ProcState
    <2>2. /\ proc'[p].user = proc[p].user /\ proc'[p].old = proc[p].old
          /\ proc'[p].late = proc[p].late /\ proc'[p].pc = "revoke"
          /\ \A q \in Procs \ {p} : proc'[q] = proc[q]
      BY <1>5, <2>1, StepsIs
    <2>3. ASSUME NEW u, Escapes(u) PROVE Escapes(u)'
      BY <1>5, <2>2, <2>3 DEF Escapes
    <2> QED BY <1>5, <2>2, <2>3 DEF OldInv, Opening
  <1>6. ASSUME NEW p \in Procs, NEW u \in Users, proc[p].pc = "idle", Steps(p, LoginOf(u)),
               UNCHANGED <<user, session, abandoned>>
        PROVE  OldInv'
    <2>1. ~proc'[p].old /\ \A q \in Procs \ {p} : proc'[q] = proc[q]
      BY <1>6, LoginIs, StepsIs
    <2>2. ASSUME NEW v, Escapes(v) PROVE Escapes(v)'
      BY <1>6, <2>1, <2>2 DEF Escapes
    <2> QED BY <1>6, <2>1, <2>2 DEF OldInv
  <1>7. ASSUME NEW p \in Procs, NEW s \in Sessions, proc[p].pc = "idle", session[s].st = "live",
               Steps(p, Renewal(session[s], s)), UNCHANGED <<user, session, abandoned>>
        PROVE  OldInv'
    <2>1. /\ proc'[p].user = session[s].user /\ proc'[p].old = session[s].old
          /\ proc'[p].late = session[s].late
          /\ \A q \in Procs \ {p} : proc'[q] = proc[q]
      BY <1>7, RenewalIs, StepsIs
    <2>2. ASSUME NEW v, Escapes(v) PROVE Escapes(v)'
      BY <1>7, <2>1, <2>2 DEF Escapes
    <2> QED BY <1>7, <2>1, <2>2 DEF OldInv
  <1>8. ASSUME NEW p \in Procs, NEW s \in Sessions, OpenSession(p, s) PROVE OldInv'
    <2>1. Opens(p, s) /\ proc[p].pc \in {"login", "insert"}
      BY <1>8, OpenIs
    <2>2. ASSUME NEW v, Escapes(v) PROVE Escapes(v)'
      BY <2>1, <2>2 DEF Opens, Escapes
    <2> QED BY <2>1, <2>2 DEF Opens, OldInv, Opening
  <1>9. ASSUME NEW s \in Sessions, Expire(s) PROVE OldInv'
    <2>1. ASSUME NEW v, Escapes(v) PROVE Escapes(v)'
      BY <1>9, <2>1, ExpireIs DEF Escapes
    <2> QED BY <1>9, <2>1, ExpireIs DEF OldInv
  <1> QED BY <1>1, <1>2, <1>3, <1>4, <1>5, <1>6, <1>7, <1>8, <1>9, SessionSteps

\* A change of the password ends every session opened with the old one, but
\* for a purge that has not come yet or died, and sessions opened meanwhile.
THEOREM OldPasswordEnds == Spec => []OldPasswordIsOut
  <1>1. Init => Typed /\ OldInv
    BY InitTyped, InitOld
  <1>2. Typed /\ OldInv /\ [Next]_vars => (Typed /\ OldInv)'
    BY NextTyped, NextOld
  <1>3. Typed /\ OldInv => OldPasswordIsOut
    BY DEF OldInv, OldPasswordIsOut, Escapes, Live, At
  <1> QED BY <1>1, <1>2, <1>3, PTL DEF Spec

-----------------------------------------------------------------------------
(* One session per login. Of a login's sessions at most one is not used up;  *)
(* when a refresh has used it up, that refresh alone may open the next one.  *)
(* A refresh that another one overtook is late, and left out.               *)

Good(s) == session[s].st \in {"live", "expired"} /\ ~session[s].late
Inserting(p) == proc[p].pc = "insert" /\ ~proc[p].late
LoginOfProc(p) == session[proc[p].session].family

OneInv ==
    /\ \A s, t \in Sessions : Good(s) /\ Good(t) /\ session[s].family = session[t].family => s = t
    /\ \A p \in Procs, s \in Sessions : Inserting(p) /\ Good(s) => session[s].family # LoginOfProc(p)
    /\ \A p, q \in Procs : Inserting(p) /\ Inserting(q) /\ LoginOfProc(p) = LoginOfProc(q) => p = q
    /\ \A p \in Procs : proc[p].pc \in {"user", "revoke"} /\ ~proc[p].late => Good(proc[p].session)
    /\ \A s \in Sessions : session[s].st # "free" => session[session[s].family].st # "free"

LEMMA InitOne == Init => OneInv
  BY DEF Init, OneInv, NoSession, ProcIdle, Good, Inserting

\* What the proof needs of a step that opens no session: no row becomes good, none
\* is freed, and an invocation that goes on keeps its session, which no other
\* invocation has used up.
Keeps ==
    /\ \A s \in Sessions :
          /\ session'[s].family = session[s].family
          /\ session'[s].st # "free" <=> session[s].st # "free"
          /\ Good(s)' => Good(s)
    /\ \A q \in Procs : Inserting(q)' => Inserting(q) /\ proc'[q].session = proc[q].session
    /\ \A q \in Procs : proc'[q].pc \in {"user", "revoke"} /\ ~proc'[q].late => Good(proc[q].session)'

LEMMA KeepsOne ==
    ASSUME Typed, OneInv, Keeps
    PROVE  OneInv'
  <1>1. \A s \in Sessions : session[s].st # "free" => session[s].family \in Sessions
    BY DEF Typed, TypeOK
  <1>2. ASSUME NEW q \in Procs, Inserting(q)
        PROVE  proc[q].session \in Sessions
    BY <1>2, ProcIs DEF Inserting, Knows, Held
  <1>3. ASSUME NEW q \in Procs, Inserting(q)' PROVE Inserting(q) /\ LoginOfProc(q)' = LoginOfProc(q)
    BY <1>2, <1>3 DEF Keeps, LoginOfProc
  <1>4. \A s, t \in Sessions : Good(s)' /\ Good(t)' /\ session'[s].family = session'[t].family => s = t
    BY DEF OneInv, Keeps
  <1>5. \A p \in Procs, s \in Sessions : Inserting(p)' /\ Good(s)' => session'[s].family # LoginOfProc(p)'
    BY <1>3 DEF OneInv, Keeps
  <1>6. \A p, q \in Procs : Inserting(p)' /\ Inserting(q)' /\ LoginOfProc(p)' = LoginOfProc(q)' => p = q
    BY <1>3 DEF OneInv
  <1>7. \A s \in Sessions : session'[s].st # "free" => session'[session'[s].family].st # "free"
    BY <1>1 DEF OneInv, Keeps
  <1> QED BY <1>4, <1>5, <1>6, <1>7 DEF OneInv, Keeps

LEMMA EndsKeeps ==
    ASSUME Typed, OneInv, NEW p \in Procs, NEW S \in SUBSET Sessions, Ends(p, S),
           \A s \in S : session[s].st # "free", proc'[p].pc = "idle"
    PROVE  Keeps
  <1>1. \A s \in Sessions :
          /\ session'[s].family = session[s].family
          /\ session'[s].st # "free" <=> session[s].st # "free"
          /\ Good(s)' => Good(s)
    BY DEF Ends, Good
  <1>2. \A q \in Procs : Inserting(q)' => Inserting(q) /\ proc'[q].session = proc[q].session
    BY DEF Ends, Inserting
  <1>3. ASSUME NEW q \in Procs, proc'[q].pc \in {"user", "revoke"}, ~proc'[q].late
        PROVE  Good(proc[q].session)'
    <2>1. /\ q # p /\ proc'[q].session = proc[q].session /\ proc[q].session \notin S
          /\ proc[q].pc \in {"user", "revoke"} /\ ~proc[q].late
      BY <1>3 DEF Ends, Renewing
    <2>2. Good(proc[q].session) /\ proc[q].session \in Sessions
      BY <2>1, ProcIs DEF OneInv, Knows, Held
    <2> QED BY <2>1, <2>2 DEF Ends, Good
  <1> QED BY <1>1, <1>2, <1>3 DEF Keeps

LEMMA NextOne == Typed /\ OneInv /\ [Next]_vars => OneInv'
  <1> SUFFICES ASSUME Typed, OneInv, [Next]_vars PROVE OneInv'
    OBVIOUS
  <1>1. CASE Quiet
    <2>1. Keeps
      BY <1>1 DEF Quiet, Same, Keeps, OneInv, Good, Inserting, Opening
    <2> QED BY <2>1, KeepsOne
  <1>2. ASSUME NEW p \in Procs, Logout(p) PROVE OneInv'
    <2>1. /\ Ends(p, {proc[p].session}) /\ proc'[p].pc = "idle"
          /\ proc[p].session \in Sessions /\ session[proc[p].session].st # "free"
      BY <1>2, LogoutEnds
    <2>2. Keeps
      BY <2>1, EndsKeeps
    <2> QED BY <2>2, KeepsOne
  <1>3. ASSUME NEW p \in Procs, Burn(p) \/ Purge(p) PROVE OneInv'
    <2>1. Ends(p, Of(proc[p].user)) /\ proc'[p].pc = "idle" /\ proc[p].user \in Users
      BY <1>3, AllEnd
    <2>2. \A s \in Of(proc[p].user) : session[s].st # "free"
      BY <2>1 DEF Typed, FreeOK, Of
    <2>3. Keeps
      BY <2>1, <2>2, EndsKeeps DEF Of
    <2> QED BY <2>3, KeepsOne
  <1>4. ASSUME NEW p \in Procs, SetPassword(p) PROVE OneInv'
    <2>1. proc'[p].pc = "purge"
      <3>1. [proc[p] EXCEPT !.pc = "purge"].pc = "purge"
        BY ProcIs DEF ProcState
      <3> QED BY <1>4, <3>1, SetPasswordIs
    <2>2. \A q \in Procs \ {p} :
             /\ proc'[q].pc = proc[q].pc /\ proc'[q].session = proc[q].session
             /\ proc'[q].late = proc[q].late
      BY <1>4, SetPasswordIs DEF Touched
    <2>3. \A s \in Sessions :
             /\ session'[s].st = session[s].st /\ session'[s].family = session[s].family
             /\ session'[s].late = session[s].late
      BY <1>4, SetPasswordIs
    <2>4. \A q \in Procs : proc[q].pc \in {"user", "revoke"} => proc[q].session \in Sessions
      BY ProcIs DEF Knows, Held
    <2>5. Keeps
      BY <2>1, <2>2, <2>3, <2>4 DEF Keeps, OneInv, Good, Inserting
    <2> QED BY <2>5, KeepsOne
  <1>5. ASSUME NEW p \in Procs, proc[p].pc = "user",
               Steps(p, [proc[p] EXCEPT !.pc = "revoke"]), UNCHANGED <<user, session, abandoned>>
        PROVE  OneInv'
    <2>1. LET n == [proc[p] EXCEPT !.pc = "revoke"] IN
          n.pc = "revoke" /\ n.session = proc[p].session /\ n.late = proc[p].late
      BY ProcIs DEF ProcState
    <2>2. /\ proc'[p].session = proc[p].session /\ proc'[p].late = proc[p].late
          /\ proc'[p].pc = "revoke" /\ \A q \in Procs \ {p} : proc'[q] = proc[q]
      BY <1>5, <2>1, StepsIs
    <2>3. Keeps
      BY <1>5, <2>2 DEF Keeps, OneInv, Good, Inserting
    <2> QED BY <2>3, KeepsOne
  <1>6. ASSUME NEW p \in Procs, NEW u \in Users, Steps(p, LoginOf(u)),
               UNCHANGED <<user, session, abandoned>>
        PROVE  OneInv'
    <2>1. proc'[p].pc = "login" /\ \A q \in Procs \ {p} : proc'[q] = proc[q]
      BY <1>6, LoginIs, StepsIs
    <2>2. Keeps
      BY <1>6, <2>1 DEF Keeps, OneInv, Good, Inserting
    <2> QED BY <2>2, KeepsOne
  <1>7. ASSUME NEW p \in Procs, NEW s \in Sessions, session[s].st = "live",
               Steps(p, Renewal(session[s], s)), UNCHANGED <<user, session, abandoned>>
        PROVE  OneInv'
    <2>1. /\ proc'[p].pc = "user" /\ proc'[p].session = s /\ proc'[p].late = session[s].late
          /\ \A q \in Procs \ {p} : proc'[q] = proc[q]
      BY <1>7, RenewalIs, StepsIs
    <2>2. Keeps
      BY <1>7, <2>1 DEF Keeps, OneInv, Good, Inserting
    <2> QED BY <2>2, KeepsOne
  <1>8. ASSUME NEW s \in Sessions, Expire(s) PROVE OneInv'
    <2>1. \A q \in Procs : proc[q].pc \in {"user", "revoke"} => proc[q].session \in Sessions
      BY ProcIs DEF Knows, Held
    <2>2. Keeps
      BY <1>8, <2>1, ExpireIs DEF Keeps, OneInv, Good, Inserting
    <2> QED BY <2>2, KeepsOne
  <1>9. ASSUME NEW p \in Procs, Rotate(p) PROVE OneInv'
    <2> DEFINE s == proc[p].session
    <2>1. /\ Ends(p, {s}) /\ proc[p].pc = "revoke" /\ proc'[p].pc = "insert"
          /\ proc'[p].session = s /\ proc'[p].late = proc[p].late
          /\ s \in Sessions /\ session[s].st # "free"
      BY <1>9, RotateEnds
    <2>2. \A t \in Sessions :
             /\ session'[t].family = session[t].family
             /\ session'[t].st # "free" <=> session[t].st # "free"
             /\ Good(t)' => Good(t) /\ t # s
      BY <2>1 DEF Ends, Good
    <2>3. \A q \in Procs \ {p} :
             /\ proc'[q].pc = proc[q].pc /\ proc'[q].session = proc[q].session
             /\ proc[q].late => proc'[q].late
             /\ proc[q].pc \in Renewing /\ proc[q].session = s => proc'[q].late
      BY <2>1 DEF Ends
    <2>4. \A q \in Procs : proc[q].pc \in Renewing => proc[q].session \in Sessions
      BY ProcIs DEF Knows, Held, Renewing
    <2>5. \A q \in Procs : Inserting(q)' =>
             proc[q].session \in Sessions /\ LoginOfProc(q)' = LoginOfProc(q) /\ (q # p => Inserting(q))
      BY <2>1, <2>2, <2>3, <2>4 DEF Inserting, LoginOfProc, Renewing
    <2>6. Inserting(p)' => Good(s)
      BY <2>1 DEF OneInv, Inserting
    <2>7. \A q \in Procs, t \in Sessions : Inserting(q)' /\ Good(t)' => session'[t].family # LoginOfProc(q)'
      <3>1. ASSUME NEW t \in Sessions, Inserting(p)', Good(t)'
            PROVE  session'[t].family # LoginOfProc(p)'
        BY <2>1, <2>2, <2>5, <2>6, <3>1 DEF OneInv, LoginOfProc
      <3>2. ASSUME NEW q \in Procs \ {p}, NEW t \in Sessions, Inserting(q)', Good(t)'
            PROVE  session'[t].family # LoginOfProc(q)'
        BY <2>2, <2>5, <3>2 DEF OneInv
      <3> QED BY <3>1, <3>2
    <2>8. \A q, r \in Procs : Inserting(q)' /\ Inserting(r)' /\ LoginOfProc(q)' = LoginOfProc(r)' => q = r
      <3>1. ASSUME NEW q \in Procs \ {p}, Inserting(q)', Inserting(p)', LoginOfProc(q)' = LoginOfProc(p)'
            PROVE  FALSE
        BY <2>1, <2>5, <2>6, <3>1 DEF OneInv, LoginOfProc
      <3>2. ASSUME NEW q \in Procs \ {p}, NEW r \in Procs \ {p}, Inserting(q)', Inserting(r)',
                   LoginOfProc(q)' = LoginOfProc(r)'
            PROVE  q = r
        BY <2>5, <3>2 DEF OneInv
      <3> QED BY <3>1, <3>2
    <2>9. \A q \in Procs : proc'[q].pc \in {"user", "revoke"} /\ ~proc'[q].late => Good(proc[q].session)'
      BY <2>1, <2>3, <2>4 DEF OneInv, Good, Ends, Renewing
    <2>10. \A t \in Sessions : session'[t].st # "free" => session'[session'[t].family].st # "free"
      <3>1. \A t \in Sessions : session[t].st # "free" => session[t].family \in Sessions
        BY DEF Typed, TypeOK
      <3> QED BY <2>2, <3>1 DEF OneInv
    <2>11. \A t, w \in Sessions : Good(t)' /\ Good(w)' /\ session'[t].family = session'[w].family => t = w
      BY <2>2 DEF OneInv
    <2> QED BY <2>7, <2>8, <2>9, <2>10, <2>11 DEF OneInv
  <1>10. ASSUME NEW p \in Procs, NEW s \in Sessions, OpenSession(p, s) PROVE OneInv'
    <2>1. Opens(p, s) /\ proc[p].pc \in {"login", "insert"}
      BY <1>10, OpenIs
    <2>2. /\ \A t \in Sessions : session[t].st # "free" => session[t].family \in Sessions
          /\ \A q \in Procs : proc[q].pc \in Renewing =>
                proc[q].session \in Sessions /\ session[proc[q].session].st # "free"
      BY ProcIs DEF Typed, TypeOK, Knows, Held, Renewing
    <2>3. ASSUME NEW t \in Sessions, Good(t)' PROVE t = s \/ Good(t)
      BY <2>1, <2>3 DEF Opens, Good
    <2>4. \A q \in Procs : Inserting(q)' =>
             /\ q # p /\ Inserting(q) /\ LoginOfProc(q)' = LoginOfProc(q)
             /\ proc[q].session \in Sessions /\ session[proc[q].session].st # "free"
      BY <2>1, <2>2 DEF Opens, Inserting, LoginOfProc, Renewing
    <2>5. ASSUME NEW t \in Sessions, t # s, Good(t)
          PROVE  Good(s)' => session'[t].family # session'[s].family
      <3>1. session'[t].family = session[t].family
        BY <2>1, <2>5 DEF Opens
      <3>2. CASE proc[p].pc = "login"
        <4>1. session[session[t].family].st # "free"
          BY <2>5 DEF OneInv, Good
        <4> QED BY <2>1, <3>1, <3>2, <4>1 DEF Opens
      <3>3. CASE proc[p].pc = "insert"
        <4>1. Good(s)' => Inserting(p)
          BY <2>1, <3>3 DEF Opens, Good, Inserting
        <4> QED BY <2>1, <2>5, <3>1, <3>3, <4>1 DEF Opens, OneInv, LoginOfProc
      <3> QED BY <2>1, <3>2, <3>3
    <2>6. \A t, w \in Sessions : Good(t)' /\ Good(w)' /\ session'[t].family = session'[w].family => t = w
      <3>1. \A t \in Sessions \ {s} : session'[t].family = session[t].family
        BY <2>1 DEF Opens
      <3> QED BY <2>3, <2>5, <3>1 DEF OneInv
    <2>7. ASSUME NEW q \in Procs, NEW t \in Sessions, Inserting(q)', Good(t)'
          PROVE  session'[t].family # LoginOfProc(q)'
      <3>1. CASE t # s
        BY <2>1, <2>3, <2>4, <2>7, <3>1 DEF Opens, OneInv
      <3>2. CASE t = s /\ proc[p].pc = "login"
        <4>1. session[LoginOfProc(q)].st # "free"
          BY <2>4, <2>7 DEF OneInv, LoginOfProc
        <4> QED BY <2>1, <2>4, <2>7, <3>2, <4>1 DEF Opens
      <3>3. CASE t = s /\ proc[p].pc = "insert"
        <4>1. Inserting(p)
          BY <2>1, <2>7, <3>3 DEF Opens, Good, Inserting
        <4>2. session'[s].family = LoginOfProc(p)
          BY <2>1, <3>3 DEF Opens, LoginOfProc
        <4> QED BY <2>4, <2>7, <3>3, <4>1, <4>2 DEF OneInv
      <3> QED BY <2>1, <3>1, <3>2, <3>3
    <2>8. \A q, r \in Procs : Inserting(q)' /\ Inserting(r)' /\ LoginOfProc(q)' = LoginOfProc(r)' => q = r
      BY <2>4 DEF OneInv
    <2>9. \A q \in Procs : proc'[q].pc \in {"user", "revoke"} /\ ~proc'[q].late => Good(proc[q].session)'
      BY <2>1, <2>2 DEF Opens, OneInv, Good, Renewing
    <2>10. ASSUME NEW t \in Sessions, session'[t].st # "free"
           PROVE  session'[session'[t].family].st # "free"
      <3>1. CASE t # s
        <4>1. session'[t] = session[t] /\ session[session[t].family].st # "free"
          BY <2>1, <2>10, <3>1 DEF Opens, OneInv
        <4> QED BY <2>1, <2>2, <2>10, <3>1, <4>1 DEF Opens
      <3>2. CASE t = s /\ proc[p].pc = "login"
        BY <2>1, <3>2 DEF Opens
      <3>3. CASE t = s /\ proc[p].pc = "insert"
        <4> DEFINE f == LoginOfProc(p)
        <4>1. session'[s].family = f
          BY <2>1, <3>3 DEF Opens, LoginOfProc
        <4>2. f \in Sessions /\ session[f].st # "free"
          BY <2>2, <3>3 DEF OneInv, LoginOfProc, Renewing
        <4>3. session'[f].st # "free"
          BY <2>1, <4>2 DEF Opens
        <4> QED BY <3>3, <4>1, <4>3
      <3> QED BY <2>1, <3>1, <3>2, <3>3
    <2> QED BY <2>6, <2>7, <2>8, <2>9, <2>10 DEF OneInv
  <1> QED BY <1>1, <1>2, <1>3, <1>4, <1>5, <1>6, <1>7, <1>8, <1>9, <1>10, SessionSteps

\* However often the tokens of a login are presented, and by whomever, one of
\* its sessions is live at most, refreshes that were overtaken excepted.
THEOREM OneSessionPerLogin == Spec => []OneLivePerLogin
  <1>1. Init => Typed /\ OneInv
    BY InitTyped, InitOne
  <1>2. Typed /\ OneInv /\ [Next]_vars => (Typed /\ OneInv)'
    BY NextTyped, NextOne
  <1>3. Typed /\ OneInv => OneLivePerLogin
    BY DEF OneInv, OneLivePerLogin, Good, Live
  <1> QED BY <1>1, <1>2, <1>3, PTL DEF Spec

=============================================================================
