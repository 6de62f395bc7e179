------------------------------- MODULE Access -------------------------------
(***************************************************************************)
(* Who may log in to a company and for how long (application/auth.ts, the  *)
(* password change of api/auth/handler.ts and the changes of users and     *)
(* roles of api/admin):                                                    *)
(*   - a login opens a session, a refresh retires its token and opens a    *)
(*     successor, a retired token that comes back ends every session of    *)
(*     its user, and so does a change of the password;                     *)
(*   - administrators add, disable, enable and re-role users and edit      *)
(*     roles, and the last one of them must not be lost.                   *)
(* An invocation is a sequence of statements without a transaction; any    *)
(* two interleave, and any may die between two statements.                 *)
(* Permissions are read from the access token, issued minutes earlier: an  *)
(* administrator's request is possible whatever became of his role.        *)
(***************************************************************************)
EXTENDS Naturals, FiniteSets

CONSTANTS
    Users,     \* the users of one company, the ones still to be added included
    Roles,     \* its roles
    Owner,     \* the system role: full access, never edited
    Sessions,  \* rows of crm.sessions; bounds how many are ever opened
    Procs,     \* concurrent invocations
    None

ASSUME OwnerAssumption == Owner \in Roles
ASSUME NoneAssumption == None \notin Users \cup Roles \cup Sessions

VARIABLES
    user,       \* crm.users: role and status ("none": no such user yet)
    manages,    \* crm.roles: does a role include users.manage
    session,    \* crm.sessions
    proc,       \* the invocations
    abandoned,  \* observer: users whose password changed and the purge died
    raced,      \* observer: a user was changed on a check that another change overtook
    skipped     \* observer: a last one was put out of office without a check

vars == <<user, manages, session, proc, abandoned, raced, skipped>>

ProcIdle == [pc |-> "idle", user |-> None, session |-> None,
             held |-> None, role |-> None, status |-> "none",
             old |-> FALSE, late |-> FALSE, shut |-> FALSE, stale |-> FALSE]
NoSession == [st |-> "free", user |-> None, family |-> None,
              old |-> FALSE, late |-> FALSE, shut |-> FALSE]

IsManager(u) == user[u].status = "active" /\ manages[user[u].role]

Init ==
    /\ user \in [Users -> [role : Roles, status : {"none", "active"}]]
    /\ \E u \in Users : user[u] = [role |-> Owner, status |-> "active"]
    /\ manages \in [Roles -> BOOLEAN]
    /\ manages[Owner]
    /\ session = [s \in Sessions |-> NoSession]
    /\ proc = [p \in Procs |-> ProcIdle]
    /\ abandoned = {}
    /\ raced = FALSE /\ skipped = FALSE

At(p, pc) == proc[p].pc = pc
Goto(p, pc) == proc' = [proc EXCEPT ![p].pc = pc]
Finish(p) == proc' = [proc EXCEPT ![p] = ProcIdle]
Disabled(u) == user[u].status # "active"

-----------------------------------------------------------------------------
(* Sessions. An invocation is late when somebody else retired the session  *)
(* it renews, or ended the sessions of the user it logs in, after its      *)
(* first read; what it opens is late, and so is all that comes of that.    *)

Opening == {"login", "user", "revoke", "insert"}
LateIf(q, cond) == IF cond THEN [q EXCEPT !.late = TRUE] ELSE q

\* revokeSession: an UPDATE by id, whatever the row holds.
Revoke(p, s, next) ==
    /\ session' = [session EXCEPT ![s].st = "revoked"]
    /\ proc' = [q \in Procs |->
                  IF q = p THEN next
                  ELSE LateIf(proc[q], proc[q].pc \in Opening /\ proc[q].session = s)]

\* revokeAllSessionsForUser.
RevokeAll(p, u) ==
    /\ session' = [s \in Sessions |->
                     IF session[s].user = u THEN [session[s] EXCEPT !.st = "revoked"]
                     ELSE session[s]]
    /\ proc' = [q \in Procs |->
                  IF q = p THEN ProcIdle
                  ELSE LateIf(proc[q], proc[q].pc \in Opening /\ proc[q].user = u)]
    /\ abandoned' = abandoned \ {u}

\* Broken variant: that nobody has the address is not noticed.
StartLoginUnknown(p, u) ==
    /\ At(p, "idle")
    /\ user[u].status # "disabled"
    /\ proc' = [proc EXCEPT ![p] = [ProcIdle EXCEPT !.pc = "login", !.user = u]]
    /\ UNCHANGED <<user, manages, session, abandoned, raced, skipped>>

\* login, up to the insert: password and status are read in one row.
StartLogin(p, u) ==
    /\ At(p, "idle")
    /\ user[u].status = "active"
    /\ proc' = [proc EXCEPT ![p] = [ProcIdle EXCEPT !.pc = "login", !.user = u]]
    /\ UNCHANGED <<user, manages, session, abandoned, raced, skipped>>

\* createSession: a login's, and a refresh's in the family of its parent.
OpenSession(p, s) ==
    LET q == proc[p] IN
    /\ q.pc \in {"login", "insert"}
    /\ session[s].st = "free"
    /\ session' = [session EXCEPT ![s] =
                      [st |-> "live", user |-> q.user,
                       family |-> IF q.pc = "login" THEN s ELSE session[q.session].family,
                       old |-> q.old, late |-> q.late, shut |-> q.shut]]
    /\ Finish(p)
    /\ UNCHANGED <<user, manages, abandoned, raced, skipped>>

\* Broken variant: revoked rows are not told from live ones.
PresentRevoked(p, s) ==
    LET r == session[s] IN
    /\ At(p, "idle")
    /\ r.st \in {"live", "revoked"}
    /\ proc' = [proc EXCEPT ![p] =
                  [ProcIdle EXCEPT !.pc = "user", !.user = r.user, !.session = s,
                      !.old = r.old, !.late = r.late, !.shut = Disabled(r.user)]]
    /\ UNCHANGED <<user, manages, session, abandoned, raced, skipped>>

\* refresh reads the session of the token: a live one is renewed, a revoked
\* one was used before; an expired one is refused.
Present(p, s) ==
    LET r == session[s] IN
    /\ At(p, "idle")
    /\ r.st \in {"live", "revoked"}
    /\ proc' = [proc EXCEPT ![p] =
                  IF r.st = "live"
                  THEN [ProcIdle EXCEPT !.pc = "user", !.user = r.user, !.session = s,
                           !.old = r.old, !.late = r.late, !.shut = Disabled(r.user)]
                  ELSE [ProcIdle EXCEPT !.pc = "burn", !.user = r.user]]
    /\ UNCHANGED <<user, manages, session, abandoned, raced, skipped>>

\* Reuse detected: the session family of the user ends.
Burn(p) ==
    /\ At(p, "burn")
    /\ RevokeAll(p, proc[p].user)
    /\ UNCHANGED <<user, manages, raced, skipped>>

\* Broken variant: the user's status is not looked at.
ReadUserOnly(p) ==
    /\ At(p, "user")
    /\ Goto(p, "revoke")
    /\ UNCHANGED <<user, manages, session, abandoned, raced, skipped>>

\* getUserById: 401 for a user not active any more, whose session stays as it is.
ReadUser(p) ==
    /\ At(p, "user")
    /\ IF Disabled(proc[p].user) THEN Finish(p) ELSE Goto(p, "revoke")
    /\ UNCHANGED <<user, manages, session, abandoned, raced, skipped>>

\* Broken variant: the used token stays valid.
RotateKeeping(p) ==
    /\ At(p, "revoke")
    /\ Goto(p, "insert")
    /\ UNCHANGED <<user, manages, session, abandoned, raced, skipped>>

Rotate(p) ==
    /\ At(p, "revoke")
    /\ Revoke(p, proc[p].session, [proc[p] EXCEPT !.pc = "insert"])
    /\ UNCHANGED <<user, manages, abandoned, raced, skipped>>

StartLogout(p, s) ==
    /\ At(p, "idle")
    /\ session[s].st = "live"
    /\ proc' = [proc EXCEPT ![p] = [ProcIdle EXCEPT !.pc = "logout", !.session = s]]
    /\ UNCHANGED <<user, manages, session, abandoned, raced, skipped>>

Logout(p) ==
    /\ At(p, "logout")
    /\ Revoke(p, proc[p].session, ProcIdle)
    /\ UNCHANGED <<user, manages, abandoned, raced, skipped>>

\* The expiry of a revoked row tells nothing: it is asked for revokedAt first.
Expire(s) ==
    /\ session[s].st = "live"
    /\ session' = [session EXCEPT ![s].st = "expired"]
    /\ UNCHANGED <<user, manages, proc, abandoned, raced, skipped>>

-----------------------------------------------------------------------------
(* A change of the password: the new hash, then the end of all sessions.   *)
(* A session is old when the password it was opened with was replaced.     *)

StartChange(p, u) ==
    /\ At(p, "idle")
    /\ user[u].status # "none"
    /\ proc' = [proc EXCEPT ![p] = [ProcIdle EXCEPT !.pc = "password", !.user = u]]
    /\ UNCHANGED <<user, manages, session, abandoned, raced, skipped>>

SetPassword(p) ==
    LET u == proc[p].user IN
    /\ At(p, "password")
    /\ session' = [s \in Sessions |->
                     IF session[s].user = u THEN [session[s] EXCEPT !.old = TRUE]
                     ELSE session[s]]
    /\ proc' = [q \in Procs |->
                  IF q = p THEN [proc[q] EXCEPT !.pc = "purge"]
                  ELSE IF proc[q].pc \in Opening /\ proc[q].user = u
                       THEN [proc[q] EXCEPT !.old = TRUE]
                       ELSE proc[q]]
    /\ UNCHANGED <<user, manages, abandoned, raced, skipped>>

Purge(p) ==
    /\ At(p, "purge")
    /\ RevokeAll(p, proc[p].user)
    /\ UNCHANGED <<user, manages, raced, skipped>>

-----------------------------------------------------------------------------
(* Users and roles.                                                        *)

AddUser(u, r) ==
    /\ user[u].status = "none"
    /\ user' = [user EXCEPT ![u] = [role |-> r, status |-> "active"]]
    /\ UNCHANGED <<manages, session, proc, abandoned, raced, skipped>>

EditRole(r) ==
    /\ r # Owner
    /\ manages' = [manages EXCEPT ![r] = ~@]
    /\ UNCHANGED <<user, session, proc, abandoned, raced, skipped>>

\* A status is any text; "other" is any but the two the schema names.
Statuses == {"none", "active", "disabled", "other"}

\* Broken variant: to give a user another role, nobody else is needed.
ChecksDisabling(role, status) == status = "disabled"

\* A change asks for others first if it re-roles or writes "disabled"; any
\* other status puts a user out as well, and is written unasked.
Checked(role, status) == role # None \/ status = "disabled"

\* PATCH of a user reads him: a new role, a new status or both.
StartPatch(p, u, role, status) ==
    /\ At(p, "idle")
    /\ user[u].status # "none"
    /\ role # None \/ status # "none"
    /\ proc' = [proc EXCEPT ![p] = [ProcIdle EXCEPT
                   !.pc = IF Checked(role, status) THEN "count" ELSE "update",
                   !.user = u, !.held = user[u].role, !.role = role, !.status = status]]
    /\ UNCHANGED <<user, manages, session, abandoned, raced, skipped>>

\* countOtherActiveUsersWithRole, of the role he had when he was read.
Others(u, r) == {v \in Users \ {u} : user[v] = [role |-> r, status |-> "active"]}

\* The last holder of a role that manages users is neither disabled nor
\* re-roled; the role is read after the count.
CheckOthers(p) ==
    LET r == proc[p].held IN
    /\ At(p, "count")
    /\ IF Others(proc[p].user, r) = {} /\ manages[r] THEN Finish(p) ELSE Goto(p, "update")
    /\ UNCHANGED <<user, manages, session, abandoned, raced, skipped>>

\* updateUser. Sessions are left alone. (Observers: the other patches work on
\* a check that this one overtook; a status written unasked may have been one
\* the check refuses; an enabled user's refreshes are none of a disabled one's.)
UpdateUser(p) ==
    LET q == proc[p]
        u == q.user
        to == [role |-> IF q.role = None THEN user[u].role ELSE q.role,
               status |-> IF q.status = "none" THEN user[u].status ELSE q.status]
    IN
    /\ At(p, "update")
    /\ user' = [user EXCEPT ![u] = to]
    /\ raced' = (raced \/ (q.stale /\ Checked(q.role, q.status)))
    /\ skipped' = (skipped \/ /\ ~Checked(q.role, q.status) /\ to.status # "active"
                              /\ IsManager(u) /\ Others(u, user[u].role) = {})
    /\ proc' = [x \in Procs |->
                  IF x = p THEN ProcIdle
                  ELSE IF proc[x].pc \in {"count", "update"} THEN [proc[x] EXCEPT !.stale = TRUE]
                  ELSE IF proc[x].user = u /\ to.status = "active" THEN [proc[x] EXCEPT !.shut = FALSE]
                  ELSE proc[x]]
    /\ UNCHANGED <<manages, session, abandoned>>

-----------------------------------------------------------------------------

\* The platform kills an invocation, or a statement fails.
Dies(p) ==
    /\ ~At(p, "idle")
    /\ Finish(p)
    /\ abandoned' = IF At(p, "purge") THEN abandoned \cup {proc[p].user} ELSE abandoned
    /\ UNCHANGED <<user, manages, session, raced, skipped>>

Step(p) ==
    \/ ReadUser(p) \/ Rotate(p) \/ Burn(p) \/ Logout(p)
    \/ SetPassword(p) \/ Purge(p) \/ CheckOthers(p) \/ UpdateUser(p) \/ Dies(p)
    \/ \E s \in Sessions : OpenSession(p, s) \/ Present(p, s) \/ StartLogout(p, s)
    \/ \E u \in Users :
          \/ StartLogin(p, u) \/ StartChange(p, u)
          \/ \E r \in Roles \cup {None}, status \in Statuses : StartPatch(p, u, r, status)

Next ==
    \/ \E p \in Procs : Step(p)
    \/ \E s \in Sessions : Expire(s)
    \/ \E u \in Users, r \in Roles : AddUser(u, r)
    \/ \E r \in Roles : EditRole(r)

Spec == Init /\ [][Next]_vars

-----------------------------------------------------------------------------
(* Properties.                                                             *)

UserRow == [role : Roles, status : Statuses]
SessionRow ==
    [st : {"free", "live", "expired", "revoked"}, user : Users \cup {None},
     family : Sessions \cup {None}, old : BOOLEAN, late : BOOLEAN, shut : BOOLEAN]
ProcState ==
    [pc : Opening \cup {"idle", "burn", "logout", "password", "purge", "count", "update"},
     user : Users \cup {None}, session : Sessions \cup {None}, held : Roles \cup {None}, role : Roles \cup {None},
     status : Statuses,
     old : BOOLEAN, late : BOOLEAN, shut : BOOLEAN, stale : BOOLEAN]

\* What the tables hold; a session has a user who exists and a login it
\* descends from.
TypeOK ==
    /\ user \in [Users -> UserRow]
    /\ manages \in [Roles -> BOOLEAN]
    /\ session \in [Sessions -> SessionRow]
    /\ proc \in [Procs -> ProcState]
    /\ abandoned \subseteq Users
    /\ raced \in BOOLEAN /\ skipped \in BOOLEAN
    /\ \A s \in Sessions : session[s].st # "free" =>
          /\ session[s].user \in Users
          /\ session[s].family \in Sessions
          /\ user[session[s].user].status # "none"

Live(s) == session[s].st = "live"

\* A token is good for one successor: a login has one live session at most,
\* however often its tokens are presented, refreshes that overlapped excepted.
OneLivePerLogin ==
    \A s, t \in Sessions :
        (/\ Live(s) /\ Live(t) /\ session[s].family = session[t].family
         /\ ~session[s].late /\ ~session[t].late) => s = t

\* A password change ends every session opened with the old password, unless
\* its purge is still to come or died, or the session was being opened then.
OldPasswordIsOut ==
    \A s \in Sessions :
        Live(s) /\ session[s].old =>
            \/ session[s].late
            \/ session[s].user \in abandoned
            \/ \E p \in Procs : At(p, "purge") /\ proc[p].user = session[s].user

\* No session is opened for a user who is not active from the first read to the
\* last, although disabling leaves his sessions alone.
DisabledOpensNothing == \A s \in Sessions : ~session[s].shut

\* Somebody can always manage the users of the company, unless a user was
\* changed on a check that another change had overtaken, or the last holder of
\* a managing role was given a status, other than "disabled", that the guard
\* does not ask about. Both happen in the code: they are the only two ways.
NoLockout == raced \/ skipped \/ \E u \in Users : IsManager(u)
=============================================================================
