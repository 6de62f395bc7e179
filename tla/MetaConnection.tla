--------------------------- MODULE MetaConnection ---------------------------
(***************************************************************************)
(* A tenant's connection to Meta (application/metaOAuth.ts, the services   *)
(* of application/metaSync and repositories/metaIntegration.ts):           *)
(*   - a grant retires the connection on file and inserts a new one, then  *)
(*     loads its assets; the tenant disconnects, and selects a Page;       *)
(*   - synchronisations, subscriptions and lead workers use the token, and *)
(*     an answer that it is no longer good flags the connection;           *)
(*   - the sweep renews tokens that expire soon.                           *)
(* No two statements share a transaction: any two invocations interleave,  *)
(* and any may die between two statements.                                 *)
(***************************************************************************)
EXTENDS Naturals, FiniteSets

CONSTANTS
    Conns,      \* rows of meta_connections; bounds the grants
    Pages,      \* rows of meta_pages
    Procs,      \* concurrent requests and workers
    Sweeper,    \* the token sweep
    Life,       \* sweeps from the issue of a long-lived token to its expiry
    Window,     \* sweeps before the expiry in which the token is renewed
    MaxFaults,  \* bounds the sweeps that fail
    None

Actors == Procs \cup {Sweeper}

ASSUME SweeperAssumption == Sweeper \notin Procs
ASSUME NoneAssumption == None \notin Conns \cup Pages
ASSUME WindowAssumption == /\ Life \in Nat /\ Window \in Nat /\ MaxFaults \in Nat
                           /\ MaxFaults < Window /\ Window < Life

VARIABLES
    conn,      \* meta_connections.status
    left,      \* sweeps until the token of the active connection expires
    long,      \* is it a long-lived token
    dated,     \* did Meta say when it expires (token_expires_at is not NULL)
    selected,  \* the Pages selected (meta_pages.is_selected)
    proc,      \* the invocations and the sweep
    todo,      \* the connections the sweep listed and has not come to
    swept,     \* has the sweep run since time last passed
    faults,    \* sweeps' failures so far
    excused,   \* observer: connections a rejection may be held against
    quit,      \* observer: the tenant disconnected and did not connect again
    quiet,     \* observer: ... with nothing else amiss then
    dropped,   \* observer: a grant died between retiring and inserting
    chosen,    \* observer: a Page was selected
    unchosen   \* observer: a selection died half-way

token == <<left, long, dated>>
pages == <<selected, chosen, unchosen>>
sweep == <<todo, swept, faults>>
acts == <<quit, quiet, dropped>>
vars == <<conn, token, pages, proc, sweep, excused, acts>>

Idle == [pc |-> "idle", conn |-> None, page |-> None]

Init ==
    /\ conn = [c \in Conns |-> "free"]
    /\ left = 0 /\ long = FALSE /\ dated = FALSE
    /\ excused = {}
    /\ selected = {}
    /\ proc = [p \in Actors |-> Idle]
    /\ todo = {}
    /\ swept = FALSE
    /\ faults = 0
    /\ quit = FALSE /\ quiet = FALSE /\ dropped = FALSE
    /\ chosen = FALSE /\ unchosen = FALSE

At(p, pc) == proc[p].pc = pc
Active == {c \in Conns : conn[c] = "active"}
Granted == {c \in Conns : conn[c] # "free"}
Troubled == {c \in Conns : conn[c] \in {"needs_reauth", "error"}}

Goto(p, pc) == proc' = [proc EXCEPT ![p].pc = pc]
GotoWith(p, pc, c) == proc' = [proc EXCEPT ![p].pc = pc, ![p].conn = c]
Finish(p) == proc' = [proc EXCEPT ![p] = Idle]

\* The token of a retired connection is not followed: Meta may reject it.
SetStatus(c, st) == conn' = [conn EXCEPT ![c] = st] /\ UNCHANGED token

-----------------------------------------------------------------------------
(* A grant: completeMetaConnection and upsertMetaConnection.               *)

\* Permissions are validated before anything is written; the connection to
\* retire is read.
StartConnect(p) ==
    /\ At(p, "idle")
    /\ IF Active = {} THEN Goto(p, "insert")
       ELSE \E c \in Active : GotoWith(p, "retire", c)
    /\ UNCHANGED <<conn, token, pages, sweep, excused, acts>>

Retire(p) ==
    /\ At(p, "retire")
    /\ SetStatus(proc[p].conn, "revoked")
    /\ Goto(p, "insert")
    /\ UNCHANGED <<pages, sweep, excused, acts>>

\* One active row per tenant, by the partial unique index: a grant that comes
\* second fails. Without the exchange for a long-lived token the short-lived
\* one is stored; without expires_in in Meta's answer, no expiry.
\* (Observer: was any other call to Meta under way?)
Insert(p, c, isLong, isDated) ==
    /\ At(p, "insert")
    /\ conn[c] = "free"
    /\ IF Active # {}
       THEN Finish(p) /\ UNCHANGED <<conn, token, excused, acts>>
       ELSE /\ conn' = [conn EXCEPT ![c] = "active"]
            /\ left' = IF isLong THEN Life ELSE 1
            /\ long' = isLong /\ dated' = isDated
            /\ excused' = IF \E q \in Actors : proc[q].pc \in {"call", "exchange", "flag"}
                          THEN excused \cup {c} ELSE excused
            /\ GotoWith(p, "assets", c)
            /\ quit' = FALSE /\ quiet' = FALSE /\ dropped' = FALSE
    /\ UNCHANGED <<pages, sweep>>

\* Broken variant: a grant whose assets fail counts as withdrawn.
LoadAssetsOrRevoke(p) ==
    /\ At(p, "assets")
    /\ \/ UNCHANGED <<conn, token>>
       \/ SetStatus(proc[p].conn, "revoked")
    /\ Finish(p)
    /\ UNCHANGED <<pages, sweep, excused, acts>>

\* Pages, ad accounts and the rest; a failure puts the row at "error",
\* whatever became of it meanwhile.
LoadAssets(p) ==
    /\ At(p, "assets")
    /\ \/ UNCHANGED <<conn, token>>
       \/ SetStatus(proc[p].conn, "error")
    /\ Finish(p)
    /\ UNCHANGED <<pages, sweep, excused, acts>>

\* disconnectActiveMetaConnection, one UPDATE.
Disconnect ==
    /\ \E c \in Active : SetStatus(c, "revoked")
    /\ quit' = TRUE
    /\ quiet' = (Troubled = {} /\ \A p \in Actors : proc[p].pc \notin {"assets", "mark"})
    /\ UNCHANGED <<pages, proc, sweep, excused, dropped>>

-----------------------------------------------------------------------------
(* Calls to Meta and what an authorisation error does. Meta may reject a    *)
(* token at any time: a password, a permission or a Page was taken away.   *)

\* A token that has expired is always rejected.
Accepted(c) == c \notin Active \/ left > 0

\* getConnectionForSync.
StartSync(p) ==
    /\ At(p, "idle")
    /\ \E c \in Active : GotoWith(p, "call", c)
    /\ UNCHANGED <<conn, token, pages, sweep, excused, acts>>

\* Broken variant: any failure is taken for an authorisation error.
CallFlaggingAll(p) ==
    LET c == proc[p].conn IN
    /\ At(p, "call")
    /\ \/ Accepted(c) /\ Finish(p) /\ UNCHANGED excused
       \/ Goto(p, "flag") /\ excused' = excused \cup {c}
       \/ Goto(p, "flag") /\ UNCHANGED excused
    /\ UNCHANGED <<conn, token, pages, sweep, acts>>

\* A step of the synchronisation is done, or fails for a reason of its own,
\* or is rejected. (What the screen is told of it is not modelled.)
Call(p) ==
    LET c == proc[p].conn IN
    /\ At(p, "call")
    /\ \/ Accepted(c) /\ Finish(p) /\ UNCHANGED excused
       \/ Goto(p, "flag") /\ excused' = excused \cup {c}
    /\ UNCHANGED <<conn, token, pages, sweep, acts>>

\* A lead worker, a form's recent leads or a subscription: a Page's own token
\* is rejected, which is held against the tenant's connection.
PageRejected(p) ==
    /\ proc[p].pc \in {"idle", "subscribe"}
    /\ excused' = excused \cup Active
    /\ Goto(p, "flag")
    /\ UNCHANGED <<conn, token, pages, sweep, acts>>

Resume(p) == IF p = Sweeper /\ todo # {} THEN Goto(p, "exchange") ELSE Finish(p)

\* Broken variant: a connection is flagged, active or not.
ReadForFlagAny(p) ==
    /\ At(p, "flag")
    /\ IF Granted = {} THEN Resume(p) ELSE \E c \in Granted : GotoWith(p, "mark", c)
    /\ UNCHANGED <<conn, token, pages, sweep, excused, acts>>

\* Broken variant: that no connection is active is not noticed.
ReadForFlagBlind(p) ==
    /\ At(p, "flag")
    /\ IF Active = {} THEN Goto(p, "mark") ELSE \E c \in Active : GotoWith(p, "mark", c)
    /\ UNCHANGED <<conn, token, pages, sweep, excused, acts>>

\* flagConnectionIfAuthError reads the connection that is active now, not the
\* one whose token was rejected ...
ReadForFlag(p) ==
    /\ At(p, "flag")
    /\ IF Active = {} THEN Resume(p) ELSE \E c \in Active : GotoWith(p, "mark", c)
    /\ UNCHANGED <<conn, token, pages, sweep, excused, acts>>

\* ... and marks it by id, whatever became of it meanwhile.
Mark(p) ==
    /\ At(p, "mark")
    /\ SetStatus(proc[p].conn, "needs_reauth")
    /\ Resume(p)
    /\ UNCHANGED <<pages, sweep, excused, acts>>

-----------------------------------------------------------------------------
(* refreshExpiringMetaTokens, once per sweep, and the time between sweeps. *)

\* Broken variant: a token is renewed in its last sweep only.
ExpiringLast == {c \in Active : dated /\ left <= 1}

\* listActiveMetaConnectionsExpiringBefore: a token without an expiry on file
\* is left out for good.
Expiring == {c \in Active : dated /\ left <= Window}

SweepList ==
    /\ At(Sweeper, "idle") /\ ~swept
    /\ swept' = TRUE
    /\ todo' = Expiring
    /\ IF Expiring = {} THEN Finish(Sweeper) ELSE Goto(Sweeper, "exchange")
    /\ UNCHANGED <<conn, token, pages, faults, excused, acts>>

\* exchangeForLongLivedToken: done, rejected, or failed for another reason,
\* which ends nothing.
Exchange(c) ==
    /\ At(Sweeper, "exchange")
    /\ c \in todo
    /\ todo' = todo \ {c}
    /\ \/ Accepted(c) /\ GotoWith(Sweeper, "renew", c) /\ UNCHANGED <<excused, faults>>
       \/ GotoWith(Sweeper, "flag", c) /\ excused' = excused \cup {c} /\ UNCHANGED faults
       \/ /\ faults < MaxFaults
          /\ faults' = faults + 1
          /\ IF todo = {c} THEN Finish(Sweeper) ELSE UNCHANGED proc
          /\ UNCHANGED excused
    /\ UNCHANGED <<conn, token, pages, swept, acts>>

\* Broken variant: a renewed connection is a healthy one.
RenewReviving ==
    /\ At(Sweeper, "renew")
    /\ conn' = [conn EXCEPT ![proc[Sweeper].conn] = "active"]
    /\ left' = Life /\ long' = TRUE /\ dated' \in BOOLEAN
    /\ Resume(Sweeper)
    /\ UNCHANGED <<pages, sweep, excused, acts>>

\* updateMetaConnectionToken, by id: the status stays what it became. Meta's
\* answer may leave the new expiry out.
Renew ==
    /\ At(Sweeper, "renew")
    /\ IF proc[Sweeper].conn \in Active
       THEN left' = Life /\ long' = TRUE /\ dated' \in BOOLEAN
       ELSE UNCHANGED token
    /\ Resume(Sweeper)
    /\ UNCHANGED <<conn, pages, sweep, excused, acts>>

\* Time passes between sweeps.
Tick ==
    /\ swept /\ At(Sweeper, "idle")
    /\ swept' = FALSE
    /\ left' = IF left > 0 THEN left - 1 ELSE 0
    /\ UNCHANGED <<conn, long, dated, pages, proc, todo, faults, excused, acts>>

-----------------------------------------------------------------------------
(* selectMetaPage: unselect all, select one; then selectPage subscribes it. *)

StartSelect(p, g) ==
    /\ At(p, "idle")
    /\ proc' = [proc EXCEPT ![p] = [Idle EXCEPT !.pc = "unselect", !.page = g]]
    /\ UNCHANGED <<conn, token, pages, sweep, excused, acts>>

Unselect(p) ==
    /\ At(p, "unselect")
    /\ selected' = {}
    /\ Goto(p, "select")
    /\ UNCHANGED <<conn, token, chosen, unchosen, sweep, excused, acts>>

\* Broken variant: no index keeps a second Page from being selected.
SelectBoth(p) ==
    /\ At(p, "select")
    /\ selected' = selected \cup {proc[p].page}
    /\ Goto(p, "subscribe")
    /\ chosen' = TRUE /\ unchosen' = FALSE
    /\ UNCHANGED <<conn, token, sweep, excused, acts>>

\* One selected Page per tenant, by the partial unique index: of two
\* selections that race, the second fails.
Select(p) ==
    /\ At(p, "select")
    /\ IF selected \subseteq {proc[p].page}
       THEN /\ selected' = {proc[p].page}
            /\ Goto(p, "subscribe")
            /\ chosen' = TRUE /\ unchosen' = FALSE
       ELSE Finish(p) /\ UNCHANGED pages
    /\ UNCHANGED <<conn, token, sweep, excused, acts>>

\* subscribePageWebhook, but for the rejection (PageRejected): its result is
\* written on the Page's row.
Subscribe(p) ==
    /\ At(p, "subscribe")
    /\ Finish(p)
    /\ UNCHANGED <<conn, token, pages, sweep, excused, acts>>

-----------------------------------------------------------------------------

\* The platform kills an invocation, or a statement fails; one of the sweep
\* costs a sweep.
Dies(p) ==
    /\ ~At(p, "idle")
    /\ Finish(p)
    /\ IF p = Sweeper
       THEN faults < MaxFaults /\ faults' = faults + 1 /\ todo' = {}
       ELSE UNCHANGED <<faults, todo>>
    /\ dropped' = (dropped \/ At(p, "insert"))
    /\ unchosen' = (unchosen \/ At(p, "select"))
    /\ UNCHANGED <<conn, token, selected, chosen, swept, excused, quit, quiet>>

Step(p) ==
    \/ StartConnect(p) \/ Retire(p) \/ LoadAssets(p)
    \/ \E c \in Conns, isLong, isDated \in BOOLEAN : Insert(p, c, isLong, isDated)
    \/ StartSync(p) \/ Call(p) \/ PageRejected(p)
    \/ \E g \in Pages : StartSelect(p, g)
    \/ Unselect(p) \/ Select(p) \/ Subscribe(p)

Next ==
    \/ \E p \in Procs : Step(p)
    \/ \E p \in Actors : ReadForFlag(p) \/ Mark(p) \/ Dies(p)
    \/ SweepList \/ Renew \/ Tick \/ Disconnect
    \/ \E c \in Conns : Exchange(c)

Spec == Init /\ [][Next]_vars

-----------------------------------------------------------------------------
(* Properties.                                                             *)

Statuses == {"free", "active", "revoked", "needs_reauth", "error"}
ActorState ==
    [pc : {"idle", "retire", "insert", "assets", "call", "flag", "mark", "exchange", "renew",
           "unselect", "select", "subscribe"},
     conn : Conns \cup {None}, page : Pages \cup {None}]

\* What the tables hold; whoever writes to a connection by id has one.
TypeOK ==
    /\ conn \in [Conns -> Statuses]
    /\ left \in 0..Life /\ long \in BOOLEAN /\ dated \in BOOLEAN
    /\ excused \subseteq Conns
    /\ selected \subseteq Pages
    /\ proc \in [Actors -> ActorState]
    /\ todo \subseteq Conns
    /\ faults \in 0..MaxFaults
    /\ swept \in BOOLEAN /\ quit \in BOOLEAN /\ quiet \in BOOLEAN
    /\ dropped \in BOOLEAN /\ chosen \in BOOLEAN /\ unchosen \in BOOLEAN
    /\ \A p \in Actors : proc[p].pc \in {"retire", "assets", "call", "mark", "renew"} =>
          proc[p].conn \in Conns /\ conn[proc[p].conn] # "free"

\* One connection at a time, each grant a new one, and no late write by id
\* brings an old one back.
Current == IF Active = {} THEN None ELSE CHOOSE c \in Active : TRUE
Connections == INSTANCE ConnectionBook WITH current <- Current, granted <- Granted
ImplementsConnectionBook == Connections!Spec

\* A connection is flagged only if Meta rejected a call on its behalf, or if
\* it was granted while calls of an earlier one were still under way.
FlagIsJustified ==
    \A c \in Conns : conn[c] = "needs_reauth" => c \in excused

\* A tenant that disconnected is shown as not connected, neither as connected
\* nor as in need of attention, unless an earlier connection had ended in
\* trouble or a write was under way.
DisconnectIsQuiet == quiet => Active \cup Troubled = {}

\* A tenant that connected is not silently left without a connection: it is
\* connected, or sees what is wrong, or disconnected, or a grant that was to
\* replace the connection is under way or died.
NeverSilentlyLost ==
    Granted # {} =>
        \/ Active \cup Troubled # {}
        \/ quit \/ dropped
        \/ \E p \in Procs : At(p, "insert")

\* As long as fewer sweeps fail than the window has, no long-lived token of an
\* active connection expires, if Meta said at its issue when it would. (One
\* without an expiry on file is never renewed, and expires.)
TokenInTime == Active # {} /\ long /\ dated => left > 0

\* A tenant that selected a Page keeps exactly one selected, unless a
\* selection is between its statements or died there.
SelectionKept ==
    /\ Cardinality(selected) <= 1
    /\ chosen /\ selected = {} => unchosen \/ \E p \in Procs : At(p, "select")
=============================================================================
