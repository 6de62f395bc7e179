------------------------ MODULE MetaConnectionProofs ------------------------
(* Theorems of MetaConnection, for any number of connections, Pages and     *)
(* invocations, and any life and window of a token.                        *)
EXTENDS MetaConnection, FiniteSetTheorems, TLAPS

USE NoneAssumption, SweeperAssumption, WindowAssumption

LEMMA StepCases ==
    ASSUME Next
    PROVE  \/ \E p \in Procs : StartConnect(p) \/ Retire(p) \/ LoadAssets(p)
           \/ \E p \in Procs, c \in Conns, isLong, isDated \in BOOLEAN :
                 Insert(p, c, isLong, isDated)
           \/ \E p \in Procs : StartSync(p) \/ Call(p) \/ PageRejected(p)
           \/ \E p \in Procs, g \in Pages : StartSelect(p, g)
           \/ \E p \in Procs : Unselect(p) \/ Select(p) \/ Subscribe(p)
           \/ \E p \in Actors : ReadForFlag(p) \/ Mark(p) \/ Dies(p)
           \/ SweepList \/ Renew \/ Tick \/ Disconnect
           \/ \E c \in Conns : Exchange(c)
  BY Zenon DEF Next, Step

-----------------------------------------------------------------------------
(* Types. Who is about to select a Page knows it, and the sweep lists       *)
(* connections that were granted.                                          *)

PageKnown ==
    \A p \in Actors : proc[p].pc \in {"unselect", "select"} => proc[p].page \in Pages

Typed == TypeOK /\ PageKnown /\ todo \subseteq Granted

LEMMA InitTyped == Init => Typed
  <1> SUFFICES ASSUME Init PROVE Typed
    OBVIOUS
  <1>1. conn \in [Conns -> Statuses] /\ left \in 0..Life /\ faults \in 0..MaxFaults
    BY DEF Init, Statuses
  <1>2. /\ proc \in [Actors -> ActorState]
        /\ \A p \in Actors : proc[p].pc = "idle"
    BY DEF Init, ActorState, Idle
  <1>3. /\ long \in BOOLEAN /\ dated \in BOOLEAN
        /\ swept \in BOOLEAN /\ quit \in BOOLEAN /\ quiet \in BOOLEAN
        /\ dropped \in BOOLEAN /\ chosen \in BOOLEAN /\ unchosen \in BOOLEAN
    BY Zenon DEF Init
  <1>4. excused \subseteq Conns /\ selected \subseteq Pages /\ todo \subseteq Conns
        /\ todo \subseteq Granted
    BY DEF Init
  <1> QED BY <1>1, <1>2, <1>3, <1>4 DEF Typed, TypeOK, PageKnown

\* A connection changes its status in one of three ways: it stays as it is, it
\* is granted while no other is active, or one that was granted ends or is
\* flagged.
Keeps == conn' = conn
Grants == \E c \in Conns : /\ conn[c] = "free" /\ Active = {}
                           /\ conn' = [conn EXCEPT ![c] = "active"]
Marks == \E c \in Conns, st \in {"revoked", "needs_reauth", "error"} :
            conn[c] # "free" /\ conn' = [conn EXCEPT ![c] = st]

LEMMA ConnSteps ==
    ASSUME Typed, [Next]_vars
    PROVE  Keeps \/ Grants \/ Marks
  <1> SUFFICES ASSUME Next PROVE Keeps \/ Grants \/ Marks
    BY DEF vars, Keeps
  <1> USE DEF Keeps, Grants, Marks
  <1>1. CASE \E p \in Procs : StartConnect(p) \/ Retire(p) \/ LoadAssets(p)
    <2>1. PICK p \in Procs : StartConnect(p) \/ Retire(p) \/ LoadAssets(p)
      BY <1>1
    <2>2. CASE StartConnect(p)
      BY <2>2 DEF StartConnect
    <2>3. CASE Retire(p) \/ LoadAssets(p)
      <3>1. proc[p].conn \in Conns /\ conn[proc[p].conn] # "free"
        BY <2>3 DEF Retire, LoadAssets, At, Typed, TypeOK, Actors
      <3> QED BY <2>3, <3>1 DEF Retire, LoadAssets, SetStatus
    <2> QED BY <2>1, <2>2, <2>3
  <1>2. CASE \E p \in Procs, c \in Conns, isLong, isDated \in BOOLEAN :
                 Insert(p, c, isLong, isDated)
    BY <1>2 DEF Insert
  <1>3. CASE \E p \in Procs : StartSync(p) \/ Call(p) \/ PageRejected(p)
    BY <1>3 DEF StartSync, Call, PageRejected
  <1>4. CASE \E p \in Procs, g \in Pages : StartSelect(p, g)
    BY <1>4 DEF StartSelect
  <1>5. CASE \E p \in Procs : Unselect(p) \/ Select(p) \/ Subscribe(p)
    BY <1>5 DEF Unselect, Select, Subscribe
  <1>6. CASE \E p \in Actors : ReadForFlag(p) \/ Mark(p) \/ Dies(p)
    <2>1. PICK p \in Actors : ReadForFlag(p) \/ Mark(p) \/ Dies(p)
      BY <1>6
    <2>2. CASE Mark(p)
      <3>1. proc[p].conn \in Conns /\ conn[proc[p].conn] # "free"
        BY <2>2 DEF Mark, At, Typed, TypeOK
      <3> QED BY <2>2, <3>1 DEF Mark, SetStatus
    <2> QED BY <2>1, <2>2 DEF ReadForFlag, Dies
  <1>7. CASE SweepList \/ Renew \/ Tick
    BY <1>7 DEF SweepList, Renew, Tick
  <1>8. CASE Disconnect
    BY <1>8 DEF Disconnect, SetStatus, Active
  <1>9. CASE \E c \in Conns : Exchange(c)
    BY <1>9 DEF Exchange
  <1> QED BY <1>1, <1>2, <1>3, <1>4, <1>5, <1>6, <1>7, <1>8, <1>9, StepCases

\* What was granted stays granted.
LEMMA GrantedGrows ==
    ASSUME Typed, [Next]_vars
    PROVE  /\ conn' \in [Conns -> Statuses]
           /\ \A c \in Conns : conn[c] # "free" => conn'[c] # "free"
  BY ConnSteps DEF Typed, TypeOK, Keeps, Grants, Marks, Statuses

\* A step that moves one actor to a state that is typed.
Moves(p, q) ==
    /\ proc' = [proc EXCEPT ![p] = q]
    /\ q \in ActorState
    /\ q.pc \in {"retire", "assets", "call", "mark", "renew"}
         => q.conn \in Conns /\ conn'[q.conn] # "free"
    /\ q.pc \in {"unselect", "select"} => q.page \in Pages

LEMMA MovesTyped ==
    ASSUME Typed, [Next]_vars, NEW p \in Actors, NEW q, Moves(p, q)
    PROVE  /\ proc' \in [Actors -> ActorState]
           /\ \A x \in Actors : proc'[x].pc \in {"retire", "assets", "call", "mark", "renew"} =>
                 proc'[x].conn \in Conns /\ conn'[proc'[x].conn] # "free"
           /\ PageKnown'
  <1>1. proc \in [Actors -> ActorState]
    BY DEF Typed, TypeOK
  <1>2. proc' \in [Actors -> ActorState]
    BY <1>1 DEF Moves
  <1>3. \A x \in Actors : proc'[x] = IF x = p THEN q ELSE proc[x]
    BY <1>1 DEF Moves
  <1>4. ASSUME NEW x \in Actors, proc'[x].pc \in {"retire", "assets", "call", "mark", "renew"}
        PROVE  proc'[x].conn \in Conns /\ conn'[proc'[x].conn] # "free"
    <2>1. CASE x = p
      BY <1>3, <1>4, <2>1 DEF Moves
    <2>2. CASE x # p
      BY <1>3, <1>4, <2>2, GrantedGrows DEF Typed, TypeOK
    <2> QED BY <2>1, <2>2
  <1>5. PageKnown'
    BY <1>3 DEF PageKnown, Moves, Typed
  <1> QED BY <1>2, <1>4, <1>5

\* The rest of the state.
Rest ==
    /\ left \in 0..Life /\ long \in BOOLEAN /\ dated \in BOOLEAN
    /\ excused \subseteq Conns
    /\ selected \subseteq Pages
    /\ todo \subseteq Granted
    /\ faults \in 0..MaxFaults
    /\ swept \in BOOLEAN /\ quit \in BOOLEAN /\ quiet \in BOOLEAN
    /\ dropped \in BOOLEAN /\ chosen \in BOOLEAN /\ unchosen \in BOOLEAN

LEMMA TypedRest == Typed => Rest
  BY Zenon DEF Typed, TypeOK, Rest

LEMMA MovesAllTyped ==
    ASSUME Typed, [Next]_vars, Rest', NEW p \in Actors, NEW q, Moves(p, q)
    PROVE  Typed'
  <1>1. todo' \subseteq Conns
    BY DEF Rest, Granted
  <1> QED BY <1>1, MovesTyped, GrantedGrows DEF Rest, Typed, TypeOK

LEMMA ListKept ==
    ASSUME Typed, [Next]_vars, todo' \subseteq todo
    PROVE  todo' \subseteq Granted'
  BY GrantedGrows DEF Typed, TypeOK, Granted

LEMMA RowKnown ==
    ASSUME Typed, NEW p \in Actors, proc[p].pc \in {"retire", "assets", "call", "mark", "renew"}
    PROVE  proc[p].conn \in Conns /\ conn[proc[p].conn] # "free"
  BY DEF Typed, TypeOK

LEMMA MoveTo ==
    ASSUME Typed, [Next]_vars, Rest', NEW p \in Actors, NEW pc,
           proc' = [proc EXCEPT ![p] = [proc[p] EXCEPT !.pc = pc]],
           pc \in {"insert", "flag", "exchange", "select", "subscribe"},
           pc = "select" => proc[p].page \in Pages
    PROVE  Typed'
  <1>1. [proc[p] EXCEPT !.pc = pc] \in ActorState
    BY DEF Typed, TypeOK, ActorState
  <1>2. [proc[p] EXCEPT !.pc = pc].pc = pc /\ [proc[p] EXCEPT !.pc = pc].page = proc[p].page
    BY DEF Typed, TypeOK, ActorState
  <1>3. Moves(p, [proc[p] EXCEPT !.pc = pc])
    BY <1>1, <1>2 DEF Moves
  <1> QED BY <1>3, MovesAllTyped

LEMMA MoveWith ==
    ASSUME Typed, [Next]_vars, Rest', NEW p \in Actors, NEW pc, NEW c \in Conns, GotoWith(p, pc, c),
           pc \in {"retire", "assets", "call", "mark", "renew", "flag"}, conn'[c] # "free"
    PROVE  Typed'
  <1>1. proc' = [proc EXCEPT ![p] = [proc[p] EXCEPT !.pc = pc, !.conn = c]]
    BY DEF GotoWith, Typed, TypeOK, ActorState
  <1>2. [proc[p] EXCEPT !.pc = pc, !.conn = c] \in ActorState
    BY DEF Typed, TypeOK, ActorState
  <1>3. /\ [proc[p] EXCEPT !.pc = pc, !.conn = c].pc = pc
        /\ [proc[p] EXCEPT !.pc = pc, !.conn = c].conn = c
    BY DEF Typed, TypeOK, ActorState
  <1>4. Moves(p, [proc[p] EXCEPT !.pc = pc, !.conn = c])
    BY <1>1, <1>2, <1>3 DEF Moves
  <1> QED BY <1>4, MovesAllTyped

LEMMA MoveDone ==
    ASSUME Typed, [Next]_vars, Rest', NEW p \in Actors, Finish(p)
    PROVE  Typed'
  <1>1. Moves(p, Idle)
    BY DEF Moves, Finish, Idle, ActorState
  <1> QED BY <1>1, MovesAllTyped

LEMMA MoveOn ==
    ASSUME Typed, [Next]_vars, Rest', NEW p \in Actors, Resume(p)
    PROVE  Typed'
  <1>1. CASE Finish(p)
    BY <1>1, MoveDone
  <1>2. CASE Goto(p, "exchange")
    BY <1>2, MoveTo DEF Goto
  <1> QED BY <1>1, <1>2 DEF Resume

\* A step that leaves the actors alone.
LEMMA StayTyped ==
    ASSUME Typed, [Next]_vars, Rest', UNCHANGED proc
    PROVE  Typed'
  <1>1. todo' \subseteq Conns
    BY DEF Rest, Granted
  <1> QED BY <1>1, GrantedGrows DEF Rest, Typed, TypeOK, PageKnown

LEMMA RestUnchanged ==
    ASSUME Typed, [Next]_vars, UNCHANGED <<token, pages, sweep, acts>>, excused' \subseteq Conns
    PROVE  Rest'
  <1>1. todo' \subseteq Granted'
    BY ListKept DEF sweep
  <1> QED BY <1>1, TypedRest DEF Rest, token, pages, sweep, acts

LEMMA NextTyped == Typed /\ [Next]_vars => Typed'
  <1> SUFFICES ASSUME Typed, [Next]_vars PROVE Typed'
    OBVIOUS
  <1>0. Rest /\ excused \subseteq Conns
    BY TypedRest DEF Rest
  <1>1. ASSUME NEW p \in Procs, StartConnect(p) PROVE Typed'
    <2>1. Rest' /\ p \in Actors
      BY <1>0, <1>1, RestUnchanged DEF StartConnect, Actors
    <2>2. CASE Goto(p, "insert")
      BY <2>1, <2>2, MoveTo DEF Goto
    <2>3. ASSUME NEW c \in Active, GotoWith(p, "retire", c) PROVE Typed'
      BY <1>1, <2>1, <2>3, MoveWith DEF StartConnect, Active
    <2> QED BY <1>1, <2>2, <2>3 DEF StartConnect
  <1>2. ASSUME NEW p \in Procs, Retire(p) PROVE Typed'
    <2>1. Rest' /\ p \in Actors
      BY <1>0, <1>2, RestUnchanged DEF Retire, SetStatus, Actors
    <2> QED BY <1>2, <2>1, MoveTo DEF Retire, Goto
  <1>3. ASSUME NEW p \in Procs, LoadAssets(p) PROVE Typed'
    <2>1. Rest' /\ p \in Actors
      BY <1>0, <1>3, RestUnchanged DEF LoadAssets, SetStatus, Actors
    <2> QED BY <1>3, <2>1, MoveDone DEF LoadAssets
  <1>4. ASSUME NEW p \in Procs, NEW c \in Conns, NEW isLong \in BOOLEAN,
               NEW isDated \in BOOLEAN, Insert(p, c, isLong, isDated)
        PROVE  Typed'
    <2> p \in Actors
      BY DEF Actors
    <2>1. CASE Active # {}
      <3>1. Rest'
        BY <1>0, <1>4, <2>1, RestUnchanged DEF Insert
      <3> QED BY <1>4, <2>1, <3>1, MoveDone DEF Insert
    <2>2. CASE Active = {}
      <3>1. todo' \subseteq Granted'
        BY <1>4, ListKept DEF Insert, sweep
      <3>2. left' \in 0..Life
        BY <1>4, <2>2 DEF Insert
      <3>3. excused' \subseteq Conns
        BY <1>0, <1>4, <2>2 DEF Insert
      <3>4. /\ long' \in BOOLEAN /\ dated' \in BOOLEAN /\ quit' \in BOOLEAN /\ quiet' \in BOOLEAN /\ dropped' \in BOOLEAN
            /\ UNCHANGED <<pages, sweep>>
        BY Zenon, <1>4, <2>2 DEF Insert
      <3>5. Rest'
        BY <1>0, <3>1, <3>2, <3>3, <3>4 DEF Rest, pages, sweep
      <3>6. GotoWith(p, "assets", c) /\ conn'[c] # "free"
        BY <1>4, <2>2 DEF Insert, Typed, TypeOK
      <3> QED BY <3>5, <3>6, MoveWith
    <2> QED BY <2>1, <2>2
  <1>5. ASSUME Disconnect PROVE Typed'
    <2>1. todo' \subseteq Granted'
      BY <1>5, ListKept DEF Disconnect, sweep
    <2>2. quit' \in BOOLEAN /\ quiet' \in BOOLEAN
      BY Zenon, <1>5 DEF Disconnect
    <2>3. UNCHANGED <<token, pages, sweep, excused, dropped, proc>>
      BY <1>5 DEF Disconnect, SetStatus
    <2>4. Rest'
      BY <1>0, <2>1, <2>2, <2>3 DEF Rest, token, pages, sweep
    <2> QED BY <2>3, <2>4, StayTyped
  <1>6. ASSUME NEW p \in Procs, StartSync(p) PROVE Typed'
    <2>1. Rest' /\ p \in Actors
      BY <1>0, <1>6, RestUnchanged DEF StartSync, Actors
    <2>2. PICK c \in Active : GotoWith(p, "call", c)
      BY <1>6 DEF StartSync
    <2> QED BY <1>6, <2>1, <2>2, MoveWith DEF StartSync, Active
  <1>7. ASSUME NEW p \in Procs, Call(p) PROVE Typed'
    <2>1. p \in Actors /\ proc[p].conn \in Conns
      BY <1>7, RowKnown DEF Call, At, Actors
    <2>2. Rest'
      BY <1>0, <1>7, <2>1, RestUnchanged DEF Call
    <2>3. CASE Finish(p)
      BY <2>1, <2>2, <2>3, MoveDone
    <2>4. CASE Goto(p, "flag")
      BY <2>1, <2>2, <2>4, MoveTo DEF Goto
    <2> QED BY <1>7, <2>3, <2>4 DEF Call
  <1>8. ASSUME NEW p \in Procs, PageRejected(p) PROVE Typed'
    <2>1. Rest' /\ p \in Actors
      BY <1>0, <1>8, RestUnchanged DEF PageRejected, Active, Actors
    <2> QED BY <1>8, <2>1, MoveTo DEF PageRejected, Goto
  <1>9. ASSUME NEW p \in Actors, ReadForFlag(p) PROVE Typed'
    <2>1. Rest'
      BY <1>0, <1>9, RestUnchanged DEF ReadForFlag
    <2>2. CASE Resume(p)
      BY <2>1, <2>2, MoveOn
    <2>3. ASSUME NEW c \in Active, GotoWith(p, "mark", c) PROVE Typed'
      BY <1>9, <2>1, <2>3, MoveWith DEF ReadForFlag, Active
    <2> QED BY <1>9, <2>2, <2>3 DEF ReadForFlag
  <1>10. ASSUME NEW p \in Actors, Mark(p) PROVE Typed'
    <2>1. Rest'
      BY <1>0, <1>10, RestUnchanged DEF Mark, SetStatus
    <2> QED BY <1>10, <2>1, MoveOn DEF Mark
  <1>11. ASSUME SweepList PROVE Typed'
    <2>1. todo' = Expiring /\ Expiring \subseteq Granted
      BY <1>11 DEF SweepList, Expiring, Active, Granted
    <2>2. todo' \subseteq Granted'
      BY <1>11, <2>1 DEF SweepList, Granted
    <2>3. UNCHANGED <<token, pages, faults, excused, acts>> /\ swept' \in BOOLEAN
      BY Zenon, <1>11 DEF SweepList
    <2>4. Rest' /\ Sweeper \in Actors
      BY <1>0, <2>2, <2>3 DEF Rest, token, pages, acts, Actors
    <2>5. CASE Finish(Sweeper)
      BY <2>4, <2>5, MoveDone
    <2>6. CASE Goto(Sweeper, "exchange")
      BY <2>4, <2>6, MoveTo DEF Goto
    <2> QED BY <1>11, <2>5, <2>6 DEF SweepList
  <1>12. ASSUME NEW c \in Conns, Exchange(c) PROVE Typed'
    <2>1. todo' \subseteq Granted'
      BY <1>12, ListKept DEF Exchange
    <2>2. excused' \subseteq Conns /\ faults' \in 0..MaxFaults
      BY <1>0, <1>12 DEF Exchange, Rest
    <2>3. UNCHANGED <<token, pages, swept, acts>>
      BY <1>12 DEF Exchange
    <2>4. Rest' /\ Sweeper \in Actors
      BY <1>0, <2>1, <2>2, <2>3 DEF Rest, token, pages, acts, Actors
    <2>5. conn'[c] # "free"
      BY <1>12 DEF Exchange, Typed, Granted
    <2>6. CASE GotoWith(Sweeper, "renew", c) \/ GotoWith(Sweeper, "flag", c)
      BY <2>4, <2>5, <2>6, MoveWith
    <2>7. CASE Finish(Sweeper)
      BY <2>4, <2>7, MoveDone
    <2>8. CASE UNCHANGED proc
      BY <2>4, <2>8, StayTyped
    <2> QED BY <1>12, <2>6, <2>7, <2>8 DEF Exchange
  <1>13. ASSUME Renew PROVE Typed'
    <2>1. todo' \subseteq Granted'
      BY <1>13, ListKept DEF Renew, sweep
    <2>2. left' \in 0..Life
      BY <1>0, <1>13 DEF Renew, Rest, token
    <2>3. long' \in BOOLEAN /\ dated' \in BOOLEAN /\ UNCHANGED <<pages, sweep, excused, acts>>
      BY Zenon, <1>0, <1>13 DEF Renew, Rest, token
    <2>4. Rest' /\ Sweeper \in Actors
      BY <1>0, <2>1, <2>2, <2>3 DEF Rest, pages, sweep, acts, Actors
    <2> QED BY <1>13, <2>4, MoveOn DEF Renew
  <1>14. ASSUME Tick PROVE Typed'
    <2>1. left' \in 0..Life
      BY <1>0, <1>14 DEF Tick, Rest
    <2>2. swept' \in BOOLEAN /\ UNCHANGED <<conn, long, dated, pages, proc, todo, faults, excused, acts>>
      BY Zenon, <1>14 DEF Tick
    <2>3. todo' \subseteq Granted'
      BY <2>2, ListKept
    <2>4. Rest'
      BY <1>0, <2>1, <2>2, <2>3 DEF Rest, pages, acts
    <2> QED BY <2>2, <2>4, StayTyped
  <1>15. ASSUME NEW p \in Procs, NEW g \in Pages, StartSelect(p, g) PROVE Typed'
    <2>1. Rest' /\ p \in Actors
      BY <1>0, <1>15, RestUnchanged DEF StartSelect, Actors
    <2>2. Moves(p, [Idle EXCEPT !.pc = "unselect", !.page = g])
      BY <1>15 DEF StartSelect, Moves, Idle, ActorState
    <2> QED BY <2>1, <2>2, MovesAllTyped
  <1>16. ASSUME NEW p \in Procs, Unselect(p) PROVE Typed'
    <2>1. todo' \subseteq Granted' /\ p \in Actors
      BY <1>16, ListKept DEF Unselect, sweep, Actors
    <2>2. Rest'
      BY <1>0, <1>16, <2>1 DEF Unselect, Rest, token, sweep, acts
    <2>3. proc[p].page \in Pages
      BY <1>16, <2>1 DEF Unselect, At, Typed, PageKnown
    <2> QED BY <1>16, <2>1, <2>2, <2>3, MoveTo DEF Unselect, Goto
  <1>17. ASSUME NEW p \in Procs, Select(p) PROVE Typed'
    <2>1. todo' \subseteq Granted' /\ p \in Actors
      BY <1>17, ListKept DEF Select, sweep, Actors
    <2>2. proc[p].page \in Pages
      BY <1>17, <2>1 DEF Select, At, Typed, PageKnown
    <2>3. selected' \subseteq Pages /\ UNCHANGED <<token, sweep, excused, acts>>
      BY <1>0, <1>17, <2>2 DEF Select, Rest, pages
    <2>4. chosen' \in BOOLEAN /\ unchosen' \in BOOLEAN
      BY Zenon, <1>0, <1>17 DEF Select, Rest, pages
    <2>5. Rest'
      BY <1>0, <2>1, <2>3, <2>4 DEF Rest, token, sweep, acts
    <2>6. CASE Goto(p, "subscribe")
      BY <2>1, <2>5, <2>6, MoveTo DEF Goto
    <2>7. CASE Finish(p)
      BY <2>1, <2>5, <2>7, MoveDone
    <2> QED BY <1>17, <2>6, <2>7 DEF Select
  <1>18. ASSUME NEW p \in Procs, Subscribe(p) PROVE Typed'
    <2>1. Rest' /\ p \in Actors
      BY <1>0, <1>18, RestUnchanged DEF Subscribe, Actors
    <2> QED BY <1>18, <2>1, MoveDone DEF Subscribe
  <1>19. ASSUME NEW p \in Actors, Dies(p) PROVE Typed'
    <2>1. todo' \subseteq todo /\ faults' \in 0..MaxFaults
      BY <1>0, <1>19 DEF Dies, Rest
    <2>2. todo' \subseteq Granted'
      BY <2>1, ListKept
    <2>3. /\ dropped' \in BOOLEAN /\ unchosen' \in BOOLEAN
          /\ UNCHANGED <<token, selected, chosen, swept, excused, quit, quiet>>
      BY Zenon, <1>0, <1>19 DEF Dies, Rest
    <2>4. Rest'
      BY <1>0, <2>1, <2>2, <2>3 DEF Rest, token
    <2> QED BY <1>19, <2>4, MoveDone DEF Dies
  <1>20. CASE UNCHANGED vars
    <2>1. Rest' /\ UNCHANGED proc
      BY <1>0, <1>20, RestUnchanged DEF vars
    <2> QED BY <2>1, StayTyped
  <1> QED
    BY <1>1, <1>2, <1>3, <1>4, <1>5, <1>6, <1>7, <1>8, <1>9, <1>10, <1>11, <1>12, <1>13, <1>14,
       <1>15, <1>16, <1>17, <1>18, <1>19, <1>20, StepCases

\* For any number of connections and invocations the tables hold what they
\* may, and a write by id names a connection that was granted.
THEOREM TypeCorrect == Spec => []TypeOK
  <1>1. Typed => TypeOK
    BY DEF Typed
  <1> QED BY <1>1, InitTyped, NextTyped, PTL DEF Spec

-----------------------------------------------------------------------------
(* One connection at a time.                                               *)

Single == \A c, d \in Active : c = d

LEMMA InitSingle == Init => Single
  BY DEF Init, Single, Active

\* The active connections after a step, by the kind of the step.
LEMMA ActiveAfter ==
    ASSUME Typed, [Next]_vars
    PROVE  \/ Active' = Active /\ Granted' = Granted
           \/ \E c \in Conns : /\ Active = {} /\ c \notin Granted
                              /\ Active' = {c} /\ Granted' = Granted \cup {c}
           \/ \E c \in Granted : Active' = Active \ {c} /\ Granted' = Granted
  <1>0. conn \in [Conns -> Statuses]
    BY DEF Typed, TypeOK
  <1>1. CASE Keeps
    BY <1>1 DEF Keeps, Active, Granted
  <1>2. CASE Grants
    <2>1. PICK c \in Conns : /\ conn[c] = "free" /\ Active = {}
                             /\ conn' = [conn EXCEPT ![c] = "active"]
      BY <1>2 DEF Grants
    <2>2. Active' = {c} /\ Granted' = Granted \cup {c} /\ c \notin Granted
      BY <1>0, <2>1 DEF Active, Granted
    <2> QED BY <2>1, <2>2
  <1>3. CASE Marks
    <2>1. PICK c \in Conns, st \in {"revoked", "needs_reauth", "error"} :
                conn[c] # "free" /\ conn' = [conn EXCEPT ![c] = st]
      BY <1>3 DEF Marks
    <2>2. Active' = Active \ {c} /\ Granted' = Granted /\ c \in Granted
      BY <1>0, <2>1 DEF Active, Granted
    <2> QED BY <2>2
  <1> QED BY <1>1, <1>2, <1>3, ConnSteps

LEMMA NextSingle == Typed /\ Single /\ [Next]_vars => Single'
  BY ActiveAfter DEF Single

LEMMA CurrentIs ==
    /\ Active = {} => Current = None
    /\ Single => \A c \in Active : Current = c /\ Current # None
  BY DEF Current, Single, Active

LEMMA StepRefines ==
    ASSUME Typed, Single, [Next]_vars
    PROVE  [Connections!Next]_<<Current, Granted>>
  <1>0. Single'
    BY NextSingle
  <1>1. /\ Active' = {} => Current' = None
        /\ \A c \in Active' : Current' = c /\ Current' # None
    BY <1>0 DEF Current, Single, Active
  <1>2. ASSUME Active' = Active, Granted' = Granted
        PROVE  UNCHANGED <<Current, Granted>>
    BY <1>2 DEF Current
  <1>3. ASSUME NEW c \in Conns, Active = {}, c \notin Granted, Active' = {c}, Granted' = Granted \cup {c}
        PROVE  Connections!Connect(c)
    BY <1>1, <1>3, CurrentIs DEF Connections!Connect
  <1>4. ASSUME NEW c \in Granted, Active' = Active \ {c}, Granted' = Granted
        PROVE  Connections!End \/ UNCHANGED <<Current, Granted>>
    <2>1. CASE c \in Active
      <3>1. Active' = {} /\ Current = c /\ Current # None
        BY <1>4, <2>1, CurrentIs DEF Single
      <3> QED BY <1>1, <1>4, <3>1 DEF Connections!End
    <2>2. CASE c \notin Active
      <3>1. Active' = Active
        BY <1>4, <2>2
      <3>2. Current' = Current
        BY <3>1 DEF Current
      <3> QED BY <1>4, <3>2
    <2> QED BY <2>1, <2>2
  <1> QED BY <1>2, <1>3, <1>4, ActiveAfter DEF Connections!Next

\* Grants, disconnections, flags and renewals of all invocations together
\* implement ConnectionBook: one connection at a time, each grant a new one.
THEOREM Refinement == Spec => ImplementsConnectionBook
  <1>1. Init => Connections!Init
    BY DEF Init, Connections!Init, Current, Active, Granted
  <1>2. Init => Typed /\ Single
    BY InitTyped, InitSingle
  <1>3. Typed /\ Single /\ [Next]_vars => (Typed /\ Single)' /\ [Connections!Next]_<<Current, Granted>>
    BY NextTyped, NextSingle, StepRefines
  <1> QED BY <1>1, <1>2, <1>3, PTL DEF Spec, ImplementsConnectionBook, Connections!Spec

-----------------------------------------------------------------------------
(* Where the actors are after a step.                                      *)

OnlyMoves(p) == \A q \in Actors \ {p} : proc'[q] = proc[q]

LEMMA GotoIs ==
    ASSUME Typed, NEW p \in Actors, NEW pc, Goto(p, pc)
    PROVE  proc'[p].pc = pc /\ proc'[p].conn = proc[p].conn /\ OnlyMoves(p)
  BY DEF Goto, OnlyMoves, Typed, TypeOK, ActorState

LEMMA GotoWithIs ==
    ASSUME Typed, NEW p \in Actors, NEW pc, NEW c, GotoWith(p, pc, c)
    PROVE  proc'[p].pc = pc /\ proc'[p].conn = c /\ OnlyMoves(p)
  BY DEF GotoWith, OnlyMoves, Typed, TypeOK, ActorState

LEMMA FinishIs ==
    ASSUME Typed, NEW p \in Actors, Finish(p)
    PROVE  proc'[p].pc = "idle" /\ OnlyMoves(p)
  BY DEF Finish, OnlyMoves, Typed, TypeOK, Idle

LEMMA ResumeIs ==
    ASSUME Typed, NEW p \in Actors, Resume(p)
    PROVE  /\ proc'[p].pc \in {"idle", "exchange"}
           /\ proc'[p].pc = IF p = Sweeper /\ todo # {} THEN "exchange" ELSE "idle"
           /\ OnlyMoves(p)
  BY GotoIs, FinishIs DEF Resume

\* The steps that write to no connection and keep what the observers saw.
Calm(p) ==
    /\ UNCHANGED <<conn, acts>>
    /\ OnlyMoves(p)
    /\ proc[p].pc # "insert"
    /\ proc'[p].pc # "assets"
    /\ proc'[p].pc = "mark" => Active # {}

LEMMA CalmSteps ==
    ASSUME Typed, [Next]_vars
    PROVE  \/ \E p \in Procs : Retire(p) \/ LoadAssets(p)
           \/ \E p \in Procs, c \in Conns, isLong, isDated \in BOOLEAN :
                 Insert(p, c, isLong, isDated)
           \/ \E p \in Actors : Mark(p) \/ Dies(p)
           \/ Disconnect
           \/ UNCHANGED <<conn, acts, proc>>
           \/ \E p \in Actors : Calm(p)
  <1> USE DEF Calm, At
  <1>1. ASSUME NEW p \in Procs, StartConnect(p) PROVE Calm(p)
    BY <1>1, GotoIs, GotoWithIs DEF StartConnect, Actors
  <1>2. ASSUME NEW p \in Procs, StartSync(p) PROVE Calm(p)
    BY <1>2, GotoWithIs DEF StartSync, Actors
  <1>3. ASSUME NEW p \in Procs, Call(p) PROVE Calm(p)
    BY <1>3, GotoIs, FinishIs DEF Call, Actors
  <1>4. ASSUME NEW p \in Procs, PageRejected(p) PROVE Calm(p)
    BY <1>4, GotoIs DEF PageRejected, Actors
  <1>5. ASSUME NEW p \in Procs, NEW g \in Pages, StartSelect(p, g) PROVE Calm(p)
    BY <1>5 DEF StartSelect, Actors, Typed, TypeOK, Idle, OnlyMoves
  <1>6. ASSUME NEW p \in Procs, Unselect(p) \/ Select(p) \/ Subscribe(p) PROVE Calm(p)
    BY <1>6, GotoIs, FinishIs DEF Unselect, Select, Subscribe, Actors
  <1>7. ASSUME NEW p \in Actors, ReadForFlag(p) PROVE Calm(p)
    BY <1>7, ResumeIs, GotoWithIs DEF ReadForFlag
  <1>8. ASSUME SweepList PROVE Calm(Sweeper)
    BY <1>8, GotoIs, FinishIs DEF SweepList, Actors
  <1>9. ASSUME NEW c \in Conns, Exchange(c) PROVE Calm(Sweeper) \/ UNCHANGED <<conn, acts, proc>>
    <2>1. UNCHANGED <<conn, acts>> /\ proc[Sweeper].pc # "insert" /\ Sweeper \in Actors
      BY <1>9 DEF Exchange, Actors
    <2>2. \/ GotoWith(Sweeper, "renew", c) \/ GotoWith(Sweeper, "flag", c)
          \/ Finish(Sweeper) \/ UNCHANGED proc
      BY <1>9 DEF Exchange
    <2> QED BY <2>1, <2>2, GotoWithIs, FinishIs
  <1>10. ASSUME Renew PROVE Calm(Sweeper)
    BY <1>10, ResumeIs DEF Renew, Actors
  <1>11. CASE Tick \/ UNCHANGED vars
    BY <1>11 DEF Tick, vars
  <1> Sweeper \in Actors /\ Procs \subseteq Actors
    BY DEF Actors
  <1> QED
    BY <1>1, <1>2, <1>3, <1>4, <1>5, <1>6, <1>7, <1>8, <1>9, <1>10, <1>11, StepCases

-----------------------------------------------------------------------------
(* A disconnected tenant is shown as not connected. While it is, nothing     *)
(* that could still write to a connection is under way.                     *)

QuietInv ==
    quiet => Active \cup Troubled = {} /\ \A p \in Actors : proc[p].pc \notin {"assets", "mark"}

LEMMA InitQuiet == Init => QuietInv
  BY DEF Init, QuietInv

LEMMA NextQuiet == Typed /\ Single /\ QuietInv /\ [Next]_vars => QuietInv'
  <1> SUFFICES ASSUME Typed, Single, QuietInv, [Next]_vars PROVE QuietInv'
    OBVIOUS
  <1> USE DEF QuietInv, At
  <1>0. conn \in [Conns -> Statuses] /\ Procs \subseteq Actors
    BY DEF Typed, TypeOK, Actors
  <1>1. ASSUME NEW p \in Procs, Retire(p) PROVE QuietInv'
    <2>1. proc[p].conn \in Conns /\ proc'[p].pc = "insert" /\ OnlyMoves(p)
      BY <1>0, <1>1, RowKnown, GotoIs DEF Retire
    <2>2. Active' \cup Troubled' \subseteq Active \cup Troubled /\ quiet' = quiet
      BY <1>0, <1>1, <2>1 DEF Retire, SetStatus, Active, Troubled, acts
    <2> QED BY <1>0, <2>1, <2>2 DEF OnlyMoves
  <1>2. ASSUME NEW p \in Procs, LoadAssets(p) PROVE QuietInv'
    <2>1. ~quiet /\ quiet' = quiet
      BY <1>0, <1>2 DEF LoadAssets, acts
    <2> QED BY <2>1
  <1>3. ASSUME NEW p \in Procs, NEW c \in Conns, NEW isLong \in BOOLEAN,
               NEW isDated \in BOOLEAN, Insert(p, c, isLong, isDated)
        PROVE  QuietInv'
    <2>1. CASE Active = {}
      BY <1>3, <2>1 DEF Insert
    <2>2. CASE Active # {}
      BY <1>3, <2>2 DEF Insert, acts
    <2> QED BY <2>1, <2>2
  <1>4. ASSUME NEW p \in Actors, Mark(p) PROVE QuietInv'
    <2>1. ~quiet /\ quiet' = quiet
      BY <1>4 DEF Mark, acts
    <2> QED BY <2>1
  <1>5. ASSUME NEW p \in Actors, Dies(p) PROVE QuietInv'
    <2>1. conn' = conn /\ quiet' = quiet /\ proc'[p].pc = "idle" /\ OnlyMoves(p)
      BY <1>5, FinishIs DEF Dies
    <2> QED BY <2>1 DEF Active, Troubled, OnlyMoves
  <1>6. ASSUME Disconnect PROVE QuietInv'
    <2>1. PICK c \in Active : SetStatus(c, "revoked")
      BY <1>6 DEF Disconnect
    <2>2. Active' = {} /\ Troubled' = Troubled
      BY <1>0, <2>1 DEF SetStatus, Active, Troubled, Single
    <2> QED BY <1>6, <2>2 DEF Disconnect
  <1>7. ASSUME UNCHANGED <<conn, acts, proc>> PROVE QuietInv'
    BY <1>7 DEF acts, Active, Troubled
  <1>8. ASSUME NEW p \in Actors, Calm(p) PROVE QuietInv'
    BY <1>8 DEF Calm, acts, Active, Troubled, OnlyMoves
  <1> QED BY <1>1, <1>2, <1>3, <1>4, <1>5, <1>6, <1>7, <1>8, CalmSteps

\* After a disconnection that found nothing amiss, no late call, renewal or
\* selection ever shows the tenant anything but "not connected".
THEOREM DisconnectQuiet == Spec => []DisconnectIsQuiet
  <1>1. Init => Typed /\ Single /\ QuietInv
    BY InitTyped, InitSingle, InitQuiet
  <1>2. Typed /\ Single /\ QuietInv /\ [Next]_vars => (Typed /\ Single /\ QuietInv)'
    BY NextTyped, NextSingle, NextQuiet
  <1>3. QuietInv => DisconnectIsQuiet
    BY DEF QuietInv, DisconnectIsQuiet
  <1> QED BY <1>1, <1>2, <1>3, PTL DEF Spec

-----------------------------------------------------------------------------
(* A connection is not silently lost.                                      *)

LEMMA InitLost == Init => NeverSilentlyLost
  BY DEF Init, NeverSilentlyLost, Granted

LEMMA NextLost == Typed /\ NeverSilentlyLost /\ [Next]_vars => NeverSilentlyLost'
  <1> SUFFICES ASSUME Typed, NeverSilentlyLost, [Next]_vars PROVE NeverSilentlyLost'
    OBVIOUS
  <1> USE DEF NeverSilentlyLost, At
  <1>0. conn \in [Conns -> Statuses] /\ Procs \subseteq Actors
    BY DEF Typed, TypeOK, Actors
  <1>1. ASSUME NEW p \in Procs, Retire(p) PROVE NeverSilentlyLost'
    <2>1. proc'[p].pc = "insert"
      BY <1>0, <1>1, GotoIs DEF Retire
    <2> QED BY <2>1
  <1>2. ASSUME NEW p \in Procs, LoadAssets(p) PROVE NeverSilentlyLost'
    <2>1. proc[p].pc = "assets" /\ proc[p].conn \in Conns /\ OnlyMoves(p)
      BY <1>0, <1>2, RowKnown, FinishIs DEF LoadAssets
    <2>2. CASE conn' = conn
      BY <1>0, <1>2, <2>1, <2>2 DEF LoadAssets, acts, Active, Troubled, Granted, OnlyMoves
    <2>3. CASE SetStatus(proc[p].conn, "error")
      <3>1. proc[p].conn \in Troubled'
        BY <1>0, <2>1, <2>3 DEF SetStatus, Troubled
      <3> QED BY <3>1
    <2> QED BY <1>2, <2>2, <2>3 DEF LoadAssets
  <1>3. ASSUME NEW p \in Procs, NEW c \in Conns, NEW isLong \in BOOLEAN,
               NEW isDated \in BOOLEAN, Insert(p, c, isLong, isDated)
        PROVE  NeverSilentlyLost'
    <2>1. Active' # {}
      BY <1>0, <1>3 DEF Insert, Active
    <2> QED BY <2>1
  <1>4. ASSUME NEW p \in Actors, Mark(p) PROVE NeverSilentlyLost'
    <2>1. proc[p].conn \in Troubled'
      BY <1>0, <1>4, RowKnown DEF Mark, SetStatus, Troubled
    <2> QED BY <2>1
  <1>5. ASSUME NEW p \in Actors, Dies(p) PROVE NeverSilentlyLost'
    <2>1. conn' = conn /\ quit' = quit /\ OnlyMoves(p) /\ (dropped \/ proc[p].pc = "insert" => dropped')
      BY <1>5, FinishIs DEF Dies
    <2> QED BY <1>0, <2>1 DEF Active, Troubled, Granted, OnlyMoves
  <1>6. ASSUME Disconnect PROVE NeverSilentlyLost'
    BY <1>6 DEF Disconnect
  <1>7. ASSUME UNCHANGED <<conn, acts, proc>> PROVE NeverSilentlyLost'
    BY <1>7 DEF acts, Active, Troubled, Granted
  <1>8. ASSUME NEW p \in Actors, Calm(p) PROVE NeverSilentlyLost'
    BY <1>0, <1>8 DEF Calm, acts, Active, Troubled, Granted, OnlyMoves
  <1> QED BY <1>1, <1>2, <1>3, <1>4, <1>5, <1>6, <1>7, <1>8, CalmSteps

\* A tenant that connected stays connected, or can see why not: only a grant
\* that died between its two statements leaves neither.
THEOREM NotLost == Spec => []NeverSilentlyLost
  <1>1. Init => Typed /\ NeverSilentlyLost
    BY InitTyped, InitLost
  <1>2. Typed /\ NeverSilentlyLost /\ [Next]_vars => (Typed /\ NeverSilentlyLost)'
    BY NextTyped, NextLost
  <1> QED BY <1>1, <1>2, PTL DEF Spec

-----------------------------------------------------------------------------
(* The selected Page.                                                      *)

OneSelected == \A g, h \in selected : g = h
SelectionInv ==
    /\ OneSelected
    /\ chosen /\ selected = {} => unchosen \/ \E p \in Procs : At(p, "select")

LEMMA SelectionSteps ==
    ASSUME Typed, [Next]_vars
    PROVE  \/ \E p \in Procs : Unselect(p) \/ Select(p)
           \/ \E p \in Actors : Dies(p)
           \/ UNCHANGED pages /\ \A p \in Procs : At(p, "select") => At(p, "select")'
  <1>0. Procs \subseteq Actors /\ Sweeper \in Actors /\ Sweeper \notin Procs
    BY DEF Actors
  <1> DEFINE Same == UNCHANGED pages /\ \A p \in Procs : At(p, "select") => At(p, "select")'
  <1>a. ASSUME NEW p \in Actors, OnlyMoves(p), ~At(p, "select"), UNCHANGED pages PROVE Same
    BY <1>0, <1>a DEF At, OnlyMoves
  <1>1. ASSUME NEW p \in Procs, StartConnect(p) \/ Retire(p) \/ LoadAssets(p) PROVE Same
    BY <1>0, <1>1, <1>a, GotoIs, GotoWithIs, FinishIs DEF StartConnect, Retire, LoadAssets, At
  <1>2. ASSUME NEW p \in Procs, NEW c \in Conns, NEW isLong \in BOOLEAN,
               NEW isDated \in BOOLEAN, Insert(p, c, isLong, isDated) PROVE Same
    BY <1>0, <1>2, <1>a, GotoWithIs, FinishIs DEF Insert, At
  <1>3. ASSUME NEW p \in Procs, StartSync(p) \/ Call(p) \/ PageRejected(p) PROVE Same
    BY <1>0, <1>3, <1>a, GotoIs, GotoWithIs, FinishIs DEF StartSync, Call, PageRejected, At
  <1>4. ASSUME NEW p \in Procs, NEW g \in Pages, StartSelect(p, g) PROVE Same
    <2>1. OnlyMoves(p)
      BY <1>4 DEF StartSelect, OnlyMoves, Typed, TypeOK
    <2> QED BY <1>0, <1>4, <2>1, <1>a DEF StartSelect, At
  <1>5. ASSUME NEW p \in Procs, Subscribe(p) PROVE Same
    BY <1>0, <1>5, <1>a, FinishIs DEF Subscribe, At
  <1>6. ASSUME NEW p \in Actors, ReadForFlag(p) \/ Mark(p) PROVE Same
    BY <1>6, <1>a, GotoWithIs, ResumeIs DEF ReadForFlag, Mark, At
  <1>7. CASE SweepList
    BY <1>0, <1>7, <1>a, GotoIs, FinishIs DEF SweepList, At
  <1>8. CASE Renew
    BY <1>0, <1>8, <1>a, ResumeIs DEF Renew, At
  <1>9. CASE Tick \/ Disconnect \/ UNCHANGED vars
    BY <1>9 DEF Tick, Disconnect, vars, At
  <1>10. ASSUME NEW c \in Conns, Exchange(c) PROVE Same
    <2>1. \/ OnlyMoves(Sweeper)
          \/ UNCHANGED proc
      BY <1>0, <1>10, GotoWithIs, FinishIs DEF Exchange
    <2>2. UNCHANGED pages /\ ~At(Sweeper, "select")
      BY <1>10 DEF Exchange, At
    <2> QED BY <1>0, <2>1, <2>2, <1>a DEF At
  <1> QED
    BY <1>1, <1>2, <1>3, <1>4, <1>5, <1>6, <1>7, <1>8, <1>9, <1>10, StepCases

LEMMA NextSelection == Typed /\ SelectionInv /\ [Next]_vars => SelectionInv'
  <1> SUFFICES ASSUME Typed, SelectionInv, [Next]_vars PROVE SelectionInv'
    OBVIOUS
  <1> USE DEF SelectionInv, OneSelected
  <1>0. Procs \subseteq Actors
    BY DEF Actors
  <1>1. ASSUME NEW p \in Procs, Unselect(p) PROVE SelectionInv'
    <2>1. proc'[p].pc = "select"
      BY <1>0, <1>1, GotoIs DEF Unselect
    <2> QED BY <1>1, <2>1 DEF Unselect, At
  <1>2. ASSUME NEW p \in Procs, Select(p) PROVE SelectionInv'
    <2>1. CASE selected \subseteq {proc[p].page}
      BY <1>2, <2>1 DEF Select
    <2>2. CASE ~(selected \subseteq {proc[p].page})
      BY <1>2, <2>2 DEF Select, pages
    <2> QED BY <2>1, <2>2
  <1>3. ASSUME NEW p \in Actors, Dies(p) PROVE SelectionInv'
    <2>1. /\ UNCHANGED <<selected, chosen>> /\ OnlyMoves(p)
          /\ unchosen \/ proc[p].pc = "select" => unchosen'
      BY <1>3, FinishIs DEF Dies, At
    <2> QED BY <1>0, <2>1 DEF At, OnlyMoves
  <1>4. CASE UNCHANGED pages /\ \A p \in Procs : At(p, "select") => At(p, "select")'
    BY <1>4 DEF pages
  <1> QED BY <1>1, <1>2, <1>3, <1>4, SelectionSteps

LEMMA InvSelection == SelectionInv => SelectionKept
  <1> SUFFICES ASSUME SelectionInv PROVE SelectionKept
    OBVIOUS
  <1>1. Cardinality(selected) <= 1
    <2>1. CASE selected = {}
      BY <2>1, FS_EmptySet
    <2>2. ASSUME NEW g \in selected PROVE Cardinality(selected) <= 1
      <3>1. selected = {g}
        BY DEF SelectionInv, OneSelected
      <3>2. Cardinality({g}) = 1
        BY FS_Singleton
      <3> QED BY <3>1, <3>2
    <2> QED BY <2>1, <2>2
  <1> QED BY <1>1 DEF SelectionInv, SelectionKept

\* Two selections that race leave one Page selected, and only one that died
\* between its two statements leaves none.
THEOREM OnePageSelected == Spec => []SelectionKept
  <1>1. Init => Typed /\ SelectionInv
    BY InitTyped DEF Init, SelectionInv, OneSelected
  <1>2. Typed /\ SelectionInv /\ [Next]_vars => (Typed /\ SelectionInv)'
    BY NextTyped, NextSelection
  <1> QED BY <1>1, <1>2, InvSelection, PTL DEF Spec

-----------------------------------------------------------------------------
(* The sweep works on one connection, and on none but while it exchanges.   *)

ListInv ==
    /\ \A c, d \in todo : c = d
    /\ proc[Sweeper].pc # "exchange" => todo = {}

\* What others do leaves the sweep and the token alone and activates nothing.
Aside == UNCHANGED <<token, sweep>> /\ Active' \subseteq Active /\ proc'[Sweeper] = proc[Sweeper]

LEMMA SweepSteps ==
    ASSUME Typed, [Next]_vars
    PROVE  \/ Aside
           \/ \E p \in Procs, c \in Conns, isLong, isDated \in BOOLEAN :
                 Insert(p, c, isLong, isDated)
           \/ ReadForFlag(Sweeper) \/ Mark(Sweeper) \/ Dies(Sweeper)
           \/ SweepList \/ Renew \/ Tick
           \/ \E c \in Conns : Exchange(c)
  <1>0. Procs \subseteq Actors /\ Sweeper \in Actors /\ Sweeper \notin Procs
    BY DEF Actors
  <1>a. ASSUME NEW p \in Procs, OnlyMoves(p), UNCHANGED <<conn, token, sweep>> PROVE Aside
    BY <1>0, <1>a DEF Aside, OnlyMoves, Active
  <1>b. ASSUME NEW p \in Procs, NEW c, NEW st, OnlyMoves(p), SetStatus(c, st), st # "active",
               UNCHANGED sweep
        PROVE  Aside
    <2>1. Active' \subseteq Active
      BY <1>b DEF SetStatus, Active, Typed, TypeOK
    <2> QED BY <1>0, <1>b, <2>1 DEF Aside, OnlyMoves, SetStatus
  <1>1. ASSUME NEW p \in Procs, StartConnect(p) PROVE Aside
    BY <1>0, <1>1, <1>a, GotoIs, GotoWithIs DEF StartConnect
  <1>2. ASSUME NEW p \in Procs, Retire(p) PROVE Aside
    BY <1>0, <1>2, <1>b, GotoIs DEF Retire
  <1>3. ASSUME NEW p \in Procs, LoadAssets(p) PROVE Aside
    <2>1. OnlyMoves(p) /\ UNCHANGED sweep
      BY <1>0, <1>3, FinishIs DEF LoadAssets
    <2>2. CASE UNCHANGED <<conn, token>>
      BY <2>1, <2>2, <1>a
    <2>3. CASE SetStatus(proc[p].conn, "error")
      BY <2>1, <2>3, <1>b
    <2> QED BY <1>3, <2>2, <2>3 DEF LoadAssets
  <1>4. ASSUME NEW p \in Procs, StartSync(p) \/ Call(p) \/ PageRejected(p) PROVE Aside
    BY <1>0, <1>4, <1>a, GotoIs, GotoWithIs, FinishIs DEF StartSync, Call, PageRejected
  <1>5. ASSUME NEW p \in Procs, NEW g \in Pages, StartSelect(p, g) PROVE Aside
    <2>1. OnlyMoves(p)
      BY <1>5 DEF StartSelect, OnlyMoves, Typed, TypeOK
    <2> QED BY <1>5, <2>1, <1>a DEF StartSelect
  <1>6. ASSUME NEW p \in Procs, Unselect(p) \/ Select(p) \/ Subscribe(p) PROVE Aside
    BY <1>0, <1>6, <1>a, GotoIs, FinishIs DEF Unselect, Select, Subscribe
  <1>7. ASSUME NEW p \in Procs, ReadForFlag(p) PROVE Aside
    BY <1>0, <1>7, <1>a, GotoWithIs, ResumeIs DEF ReadForFlag
  <1>8. ASSUME NEW p \in Procs, Mark(p) PROVE Aside
    BY <1>0, <1>8, <1>b, ResumeIs DEF Mark
  <1>9. ASSUME NEW p \in Procs, Dies(p) PROVE Aside
    BY <1>0, <1>9, <1>a, FinishIs DEF Dies, sweep
  <1>10. CASE Disconnect
    <2>1. PICK c \in Active : SetStatus(c, "revoked")
      BY <1>10 DEF Disconnect
    <2>2. Active' \subseteq Active
      BY <2>1 DEF SetStatus, Active, Typed, TypeOK
    <2> QED BY <1>10, <2>1, <2>2 DEF Disconnect, SetStatus, Aside
  <1>11. CASE UNCHANGED vars
    BY <1>11 DEF vars, Aside, Active
  <1>12. ASSUME NEW p \in Actors, ReadForFlag(p) \/ Mark(p) \/ Dies(p)
         PROVE  Aside \/ ReadForFlag(Sweeper) \/ Mark(Sweeper) \/ Dies(Sweeper)
    BY <1>7, <1>8, <1>9, <1>12 DEF Actors
  <1> QED
    BY <1>1, <1>2, <1>3, <1>4, <1>5, <1>6, <1>10, <1>11, <1>12, StepCases

LEMMA InsertIs ==
    ASSUME Typed, NEW p \in Procs, NEW c \in Conns, NEW isLong \in BOOLEAN,
               NEW isDated \in BOOLEAN, Insert(p, c, isLong, isDated)
    PROVE  /\ UNCHANGED sweep /\ OnlyMoves(p) /\ proc'[p].pc \in {"idle", "assets"}
           /\ proc'[Sweeper] = proc[Sweeper]
           /\ \/ Active # {} /\ UNCHANGED <<conn, token, excused>>
              \/ /\ Active = {} /\ conn[c] = "free" /\ conn' = [conn EXCEPT ![c] = "active"]
                 /\ left' = IF isLong THEN Life ELSE 1
                 /\ long' = isLong /\ dated' = isDated
                 /\ excused' = IF \E q \in Actors : proc[q].pc \in {"call", "exchange", "flag"}
                               THEN excused \cup {c} ELSE excused
  <1>1. p \in Actors /\ Sweeper \in Actors /\ p # Sweeper
    BY DEF Actors
  <1>2. OnlyMoves(p) /\ proc'[p].pc \in {"idle", "assets"}
    BY <1>1, GotoWithIs, FinishIs DEF Insert
  <1> QED BY <1>1, <1>2 DEF Insert, OnlyMoves

LEMMA NextList == Typed /\ Single /\ ListInv /\ [Next]_vars => ListInv'
  <1> SUFFICES ASSUME Typed, Single, ListInv, [Next]_vars PROVE ListInv'
    OBVIOUS
  <1> USE DEF ListInv, At
  <1>0. Sweeper \in Actors
    BY DEF Actors
  <1>1. CASE Aside
    BY <1>1 DEF Aside, sweep
  <1>2. ASSUME NEW p \in Procs, NEW c \in Conns, NEW isLong \in BOOLEAN,
               NEW isDated \in BOOLEAN, Insert(p, c, isLong, isDated)
        PROVE  ListInv'
    BY <1>2, InsertIs DEF sweep
  <1>3. CASE ReadForFlag(Sweeper) \/ Mark(Sweeper) \/ Renew
    <2>1. todo' = todo /\ todo = {}
      BY <1>3 DEF ReadForFlag, Mark, Renew, sweep
    <2> QED BY <2>1
  <1>4. CASE Dies(Sweeper)
    BY <1>4 DEF Dies
  <1>5. CASE SweepList
    <2>1. todo' = Expiring /\ Expiring \subseteq Active
      BY <1>5 DEF SweepList, Expiring
    <2>2. Expiring # {} => proc'[Sweeper].pc = "exchange"
      BY <1>0, <1>5, GotoIs DEF SweepList
    <2> QED BY <2>1, <2>2 DEF Single
  <1>6. CASE Tick
    BY <1>6 DEF Tick
  <1>7. ASSUME NEW c \in Conns, Exchange(c) PROVE ListInv'
    BY <1>7 DEF Exchange
  <1> QED BY <1>1, <1>2, <1>3, <1>4, <1>5, <1>6, <1>7, SweepSteps

-----------------------------------------------------------------------------
(* Dated tokens are renewed in time. Between two sweeps that of the active   *)
(* connection has as many sweeps left as the window has, but for one per     *)
(* failure so far; after a sweep one more, unless the sweep has still to     *)
(* renew it or to learn that Meta rejects it.                                *)

Pending(c) ==
    LET s == proc[Sweeper] IN
    \/ s.pc = "exchange" /\ c \in todo
    \/ s.pc = "flag"
    \/ s.pc \in {"renew", "mark"} /\ s.conn = c

TimeInv ==
    \A c \in Active : long /\ dated =>
        /\ left + faults >= Window
        /\ swept => left + faults > Window \/ Pending(c)

LEMMA NextTime == Typed /\ Single /\ ListInv /\ TimeInv /\ [Next]_vars => TimeInv'
  <1> SUFFICES ASSUME Typed, Single, ListInv, TimeInv, [Next]_vars PROVE TimeInv'
    OBVIOUS
  <1> USE DEF TimeInv
  <1>0. Sweeper \in Actors /\ left \in 0..Life /\ faults \in 0..MaxFaults
    BY DEF Actors, Typed, TypeOK
  <1>1. CASE Aside
    <2>1. \A c : Pending(c)' <=> Pending(c)
      BY <1>1 DEF Aside, sweep, Pending
    <2> QED BY <1>1, <2>1 DEF Aside, token, sweep
  <1>2. ASSUME NEW p \in Procs, NEW c \in Conns, NEW isLong \in BOOLEAN,
               NEW isDated \in BOOLEAN, Insert(p, c, isLong, isDated)
        PROVE  TimeInv'
    <2>1. UNCHANGED sweep /\ proc'[Sweeper] = proc[Sweeper]
      BY <1>2, InsertIs
    <2>2. CASE UNCHANGED <<conn, token>>
      <3>1. \A d : Pending(d)' <=> Pending(d)
        BY <2>1 DEF sweep, Pending
      <3> QED BY <2>1, <2>2, <3>1 DEF Active, token, sweep
    <2>3. CASE left' = (IF isLong THEN Life ELSE 1) /\ long' = isLong /\ dated' = isDated
      BY <1>0, <2>1, <2>3 DEF sweep
    <2>4. \/ UNCHANGED <<conn, token, excused>>
          \/ left' = (IF isLong THEN Life ELSE 1) /\ long' = isLong /\ dated' = isDated
      BY <1>2, InsertIs
    <2> QED BY <2>2, <2>3, <2>4
  <1>3. CASE ReadForFlag(Sweeper)
    <2>1. UNCHANGED <<conn, token, sweep>>
      BY <1>3 DEF ReadForFlag
    <2>2. \A c \in Active : proc'[Sweeper].pc = "mark" /\ proc'[Sweeper].conn = c
      BY <1>0, <1>3, GotoWithIs DEF ReadForFlag, Single
    <2> QED BY <2>1, <2>2 DEF token, sweep, Active, Pending
  <1>4. CASE Mark(Sweeper)
    <2>1. /\ conn' = [conn EXCEPT ![proc[Sweeper].conn] = "needs_reauth"]
          /\ UNCHANGED <<token, sweep>>
      BY <1>4 DEF Mark, SetStatus
    <2>2. \A c \in Active' : c \in Active /\ c # proc[Sweeper].conn
      BY <2>1 DEF Active, Typed, TypeOK
    <2>3. \A c \in Active' : ~Pending(c)
      BY <1>4, <2>2 DEF Mark, At, Pending
    <2> QED BY <2>1, <2>2, <2>3 DEF token, sweep
  <1>5. CASE Dies(Sweeper)
    <2>1. faults' = faults + 1 /\ UNCHANGED <<conn, token, swept>>
      BY <1>5 DEF Dies
    <2> QED BY <1>0, <2>1 DEF token, Active
  <1>6. CASE SweepList
    <2>1. todo' = Expiring /\ UNCHANGED <<conn, token, faults>>
      BY <1>6 DEF SweepList
    <2>2. ASSUME NEW c \in Active, dated, left <= Window PROVE proc'[Sweeper].pc = "exchange" /\ c \in Expiring
      BY <1>0, <1>6, <2>2, GotoIs DEF SweepList, Expiring
    <2> QED BY <1>0, <2>1, <2>2 DEF token, Active, Pending
  <1>7. CASE Renew
    <2>1. UNCHANGED <<conn, sweep>> /\ proc[Sweeper].pc = "renew"
      BY <1>7 DEF Renew, At
    <2>2. CASE left' = Life
      BY <1>0, <2>1, <2>2 DEF sweep
    <2>3. CASE proc[Sweeper].conn \notin Active
      <3>1. UNCHANGED token /\ \A c \in Active : ~Pending(c)
        BY <1>7, <2>1, <2>3 DEF Renew, Pending
      <3> QED BY <2>1, <3>1 DEF token, sweep, Active
    <2> QED BY <1>7, <2>2, <2>3 DEF Renew
  <1>8. CASE Tick
    <2>1. /\ UNCHANGED <<conn, long, dated, faults>> /\ ~swept' /\ swept /\ proc[Sweeper].pc = "idle"
          /\ left' = IF left > 0 THEN left - 1 ELSE 0
      BY <1>8 DEF Tick, At
    <2>2. \A c : ~Pending(c)
      BY <2>1 DEF Pending
    <2> QED BY <1>0, <2>1, <2>2 DEF Active
  <1>9. ASSUME NEW c \in Conns, Exchange(c) PROVE TimeInv'
    <2>1. UNCHANGED <<conn, token, swept>> /\ todo = {c} /\ proc[Sweeper].pc = "exchange"
      BY <1>9 DEF Exchange, ListInv, At
    <2>2. \A d \in Active : Pending(d) => d = c
      BY <2>1 DEF Pending
    <2>3. CASE /\ GotoWith(Sweeper, "renew", c) \/ GotoWith(Sweeper, "flag", c)
               /\ UNCHANGED faults
      <3>1. Pending(c)'
        BY <1>0, <2>3, GotoWithIs DEF Pending
      <3> QED BY <2>1, <2>2, <2>3, <3>1 DEF token, Active
    <2>4. CASE faults' = faults + 1
      BY <1>0, <2>1, <2>4 DEF token, Active
    <2> QED BY <1>9, <2>3, <2>4 DEF Exchange
  <1> QED BY <1>1, <1>2, <1>3, <1>4, <1>5, <1>6, <1>7, <1>8, <1>9, SweepSteps

LEMMA InvTime == Typed /\ TimeInv => TokenInTime
  BY DEF Typed, TypeOK, TimeInv, TokenInTime

\* Whatever the life of a token and the window, fewer failed sweeps than the
\* window has never let a long-lived token of an active connection expire whose
\* expiry is on file.
THEOREM TokensInTime == Spec => []TokenInTime
  <1>1. Init => Typed /\ Single /\ ListInv /\ TimeInv
    BY InitTyped, InitSingle DEF Init, ListInv, TimeInv
  <1>2. Typed /\ Single /\ ListInv /\ TimeInv /\ [Next]_vars
          => (Typed /\ Single /\ ListInv /\ TimeInv)'
    BY NextTyped, NextSingle, NextList, NextTime
  <1> QED BY <1>1, <1>2, InvTime, PTL DEF Spec

-----------------------------------------------------------------------------
(* Flags are justified. Whoever calls Meta with a token, or is about to flag *)
(* what is active, holds a connection that is still the active one, or the   *)
(* active one was granted while the call was under way.                     *)

ActorFlags(p) ==
    /\ proc[p].pc = "call" => Active \subseteq {proc[p].conn} \cup excused
    /\ p = Sweeper /\ proc[p].pc = "exchange" => Active \subseteq todo \cup excused
    /\ proc[p].pc = "flag" => Active \subseteq excused
    /\ proc[p].pc = "mark" => proc[p].conn \in excused

FlagInv == FlagIsJustified /\ \A p \in Actors : ActorFlags(p)

LEMMA InitFlags == Init => FlagInv
  BY DEF Init, FlagInv, FlagIsJustified, ActorFlags, Idle

\* What does not activate a connection and forgives none leaves the other
\* actors as they are.
LEMMA FlagsOf ==
    ASSUME FlagInv, NEW p \in Actors, OnlyMoves(p), ActorFlags(p)', FlagIsJustified',
           Active' \subseteq Active, excused \subseteq excused', p # Sweeper => todo' = todo
    PROVE  FlagInv'
  <1>1. ASSUME NEW q \in Actors \ {p} PROVE ActorFlags(q)'
    <2>1. proc'[q] = proc[q] /\ ActorFlags(q) /\ (q = Sweeper => todo' = todo)
      BY DEF OnlyMoves, FlagInv
    <2> QED BY <2>1 DEF ActorFlags
  <1> QED BY <1>1 DEF FlagInv

\* Steps that end in a state in which nothing can be flagged by their actor.
LEMMA FlagsDone ==
    ASSUME Typed, FlagInv, NEW p \in Actors, OnlyMoves(p), UNCHANGED excused,
           proc'[p].pc \notin {"call", "exchange", "flag", "mark"},
           p # Sweeper => todo' = todo, Active' \subseteq Active, FlagIsJustified'
    PROVE  FlagInv'
  <1>1. ActorFlags(p)'
    BY DEF ActorFlags
  <1> QED BY <1>1, FlagsOf

LEMMA JustifiedStays ==
    ASSUME FlagInv, UNCHANGED conn, excused \subseteq excused'
    PROVE  FlagIsJustified' /\ Active' = Active
  BY DEF FlagInv, FlagIsJustified, Active

LEMMA StatusSet ==
    ASSUME Typed, FlagInv, NEW c \in Conns, NEW st \in {"revoked", "error", "needs_reauth"},
           SetStatus(c, st), UNCHANGED excused, st = "needs_reauth" => c \in excused
    PROVE  FlagIsJustified' /\ Active' \subseteq Active
  BY DEF SetStatus, FlagInv, FlagIsJustified, Active, Typed, TypeOK

LEMMA NextFlags == Typed /\ Single /\ ListInv /\ FlagInv /\ [Next]_vars => FlagInv'
  <1> SUFFICES ASSUME Typed, Single, ListInv, FlagInv, [Next]_vars PROVE FlagInv'
    OBVIOUS
  <1> USE DEF At
  <1>0. /\ Procs \subseteq Actors /\ Sweeper \in Actors /\ Sweeper \notin Procs
        /\ excused \subseteq Conns
    BY DEF Actors, Typed, TypeOK
  <1>1. ASSUME NEW p \in Procs, StartConnect(p) PROVE FlagInv'
    <2>1. OnlyMoves(p) /\ proc'[p].pc \in {"insert", "retire"} /\ UNCHANGED <<conn, sweep, excused>>
      BY <1>0, <1>1, GotoIs, GotoWithIs DEF StartConnect
    <2> QED BY <1>0, <2>1, FlagsDone, JustifiedStays DEF sweep
  <1>2. ASSUME NEW p \in Procs, Retire(p) PROVE FlagInv'
    <2>1. /\ OnlyMoves(p) /\ proc'[p].pc = "insert" /\ UNCHANGED <<sweep, excused>>
          /\ proc[p].conn \in Conns /\ SetStatus(proc[p].conn, "revoked")
      BY <1>0, <1>2, GotoIs, RowKnown DEF Retire
    <2> QED BY <1>0, <2>1, FlagsDone, StatusSet DEF sweep
  <1>3. ASSUME NEW p \in Procs, LoadAssets(p) PROVE FlagInv'
    <2>1. /\ OnlyMoves(p) /\ proc'[p].pc = "idle" /\ UNCHANGED <<sweep, excused>>
          /\ proc[p].conn \in Conns
      BY <1>0, <1>3, FinishIs, RowKnown DEF LoadAssets
    <2>2. CASE UNCHANGED conn
      BY <1>0, <2>1, <2>2, FlagsDone, JustifiedStays DEF sweep
    <2>3. CASE SetStatus(proc[p].conn, "error")
      BY <1>0, <2>1, <2>3, FlagsDone, StatusSet DEF sweep
    <2> QED BY <1>3, <2>2, <2>3 DEF LoadAssets
  <1>4. ASSUME NEW p \in Procs, NEW c \in Conns, NEW isLong \in BOOLEAN,
               NEW isDated \in BOOLEAN, Insert(p, c, isLong, isDated)
        PROVE  FlagInv'
    <2>1. OnlyMoves(p) /\ proc'[p].pc \in {"idle", "assets"} /\ UNCHANGED sweep
      BY <1>4, InsertIs
    <2>2. CASE UNCHANGED <<conn, token, excused>>
      BY <1>0, <2>1, <2>2, FlagsDone, JustifiedStays DEF sweep
    <2>3. CASE /\ Active = {} /\ conn[c] = "free" /\ conn' = [conn EXCEPT ![c] = "active"]
               /\ excused' = IF \E q \in Actors : proc[q].pc \in {"call", "exchange", "flag"}
                             THEN excused \cup {c} ELSE excused
      <3>1. Active' = {c} /\ FlagIsJustified'
        BY <2>3 DEF Active, FlagInv, FlagIsJustified, Typed, TypeOK
      <3>2. ASSUME NEW q \in Actors PROVE ActorFlags(q)'
        <4>1. CASE q = p
          BY <2>1, <4>1 DEF ActorFlags
        <4>2. CASE q # p
          <5>1. proc'[q] = proc[q] /\ ActorFlags(q)
            BY <2>1, <4>2 DEF OnlyMoves, FlagInv
          <5>2. CASE proc[q].pc \in {"call", "exchange", "flag"}
            <6>1. c \in excused'
              BY <2>3, <5>2
            <6> QED BY <3>1, <5>1, <5>2, <6>1 DEF ActorFlags
          <5>3. CASE proc[q].pc \notin {"call", "exchange", "flag"}
            BY <2>3, <5>1, <5>3 DEF ActorFlags
          <5> QED BY <5>2, <5>3
        <4> QED BY <4>1, <4>2
      <3> QED BY <3>1, <3>2 DEF FlagInv
    <2>4. \/ UNCHANGED <<conn, token, excused>>
          \/ /\ Active = {} /\ conn[c] = "free" /\ conn' = [conn EXCEPT ![c] = "active"]
             /\ excused' = IF \E q \in Actors : proc[q].pc \in {"call", "exchange", "flag"}
                           THEN excused \cup {c} ELSE excused
      BY <1>4, InsertIs
    <2> QED BY <2>2, <2>3, <2>4
  <1>5. ASSUME NEW p \in Procs, StartSync(p) PROVE FlagInv'
    <2>1. PICK c \in Active : GotoWith(p, "call", c)
      BY <1>5 DEF StartSync
    <2>2. OnlyMoves(p) /\ proc'[p].pc = "call" /\ proc'[p].conn = c /\ UNCHANGED <<conn, sweep, excused>>
      BY <1>0, <1>5, <2>1, GotoWithIs DEF StartSync
    <2>3. FlagIsJustified' /\ Active' = Active /\ Active \subseteq {c}
      BY <2>2, JustifiedStays DEF Single
    <2>4. ActorFlags(p)'
      BY <2>2, <2>3 DEF ActorFlags
    <2> QED BY <1>0, <2>2, <2>3, <2>4, FlagsOf DEF sweep
  <1>6. ASSUME NEW p \in Procs, Call(p) PROVE FlagInv'
    <2>1. UNCHANGED <<conn, sweep>> /\ proc[p].pc = "call"
      BY <1>6 DEF Call
    <2>2. CASE Finish(p) /\ UNCHANGED excused
      BY <1>0, <2>1, <2>2, FinishIs, FlagsDone, JustifiedStays DEF sweep
    <2>3. CASE Goto(p, "flag") /\ excused' = excused \cup {proc[p].conn}
      <3>1. FlagIsJustified' /\ Active' = Active /\ excused \subseteq excused'
        BY <2>1, <2>3, JustifiedStays
      <3>2. OnlyMoves(p) /\ proc'[p].pc = "flag" /\ ActorFlags(p)
        BY <1>0, <2>3, GotoIs DEF FlagInv
      <3>3. ActorFlags(p)'
        BY <1>0, <2>1, <2>3, <3>1, <3>2 DEF ActorFlags
      <3> QED BY <1>0, <2>1, <3>1, <3>2, <3>3, FlagsOf DEF sweep
    <2> QED BY <1>6, <2>2, <2>3 DEF Call
  <1>7. ASSUME NEW p \in Procs, PageRejected(p) PROVE FlagInv'
    <2>1. UNCHANGED <<conn, sweep>> /\ excused' = excused \cup Active /\ Goto(p, "flag")
      BY <1>7 DEF PageRejected
    <2>2. FlagIsJustified' /\ Active' = Active /\ excused \subseteq excused'
      BY <2>1, JustifiedStays
    <2>3. OnlyMoves(p) /\ proc'[p].pc = "flag"
      BY <1>0, <2>1, GotoIs
    <2>4. ActorFlags(p)'
      BY <1>0, <2>1, <2>2, <2>3 DEF ActorFlags
    <2> QED BY <1>0, <2>1, <2>2, <2>3, <2>4, FlagsOf DEF sweep
  <1>8. ASSUME NEW p \in Actors, ReadForFlag(p) PROVE FlagInv'
    <2>1. UNCHANGED <<conn, sweep, excused>> /\ proc[p].pc = "flag" /\ ActorFlags(p)
      BY <1>8 DEF ReadForFlag, FlagInv
    <2>2. FlagIsJustified' /\ Active' = Active
      BY <2>1, JustifiedStays
    <2>3. CASE Resume(p)
      <3>1. OnlyMoves(p) /\ proc'[p].pc = "idle"
        BY <2>1, <2>3, ResumeIs DEF ListInv
      <3> QED BY <2>1, <2>2, <3>1, FlagsDone DEF sweep
    <2>4. ASSUME NEW c \in Active, GotoWith(p, "mark", c) PROVE FlagInv'
      <3>1. OnlyMoves(p) /\ proc'[p].pc = "mark" /\ proc'[p].conn = c
        BY <2>4, GotoWithIs
      <3>2. ActorFlags(p)'
        BY <2>1, <3>1 DEF ActorFlags
      <3> QED BY <2>1, <2>2, <3>1, <3>2, FlagsOf DEF sweep
    <2> QED BY <1>8, <2>3, <2>4 DEF ReadForFlag
  <1>9. ASSUME NEW p \in Actors, Mark(p) PROVE FlagInv'
    <2>1. /\ proc[p].pc = "mark" /\ ActorFlags(p) /\ UNCHANGED <<sweep, excused>>
          /\ SetStatus(proc[p].conn, "needs_reauth") /\ proc[p].conn \in Conns
      BY <1>9, RowKnown DEF Mark, FlagInv
    <2>2. FlagIsJustified' /\ Active' \subseteq Active
      BY <2>1, StatusSet DEF ActorFlags
    <2>3. OnlyMoves(p) /\ proc'[p].pc = "idle"
      BY <1>9, <2>1, ResumeIs DEF Mark, ListInv
    <2> QED BY <2>1, <2>2, <2>3, FlagsDone DEF sweep
  <1>10. ASSUME NEW p \in Actors, Dies(p) PROVE FlagInv'
    <2>1. OnlyMoves(p) /\ proc'[p].pc = "idle" /\ UNCHANGED <<conn, excused>>
      BY <1>10, FinishIs DEF Dies
    <2>2. p # Sweeper => todo' = todo
      BY <1>10 DEF Dies
    <2> QED BY <2>1, <2>2, FlagsDone, JustifiedStays
  <1>11. CASE SweepList
    <2>1. UNCHANGED <<conn, excused>> /\ todo' = Expiring /\ Expiring \subseteq Active
      BY <1>11 DEF SweepList, Expiring
    <2>2. FlagIsJustified' /\ Active' = Active
      BY <2>1, JustifiedStays
    <2>3. CASE Finish(Sweeper)
      BY <1>0, <2>1, <2>2, <2>3, FinishIs, FlagsDone
    <2>4. CASE Goto(Sweeper, "exchange") /\ Expiring # {}
      <3>1. OnlyMoves(Sweeper) /\ proc'[Sweeper].pc = "exchange"
        BY <1>0, <2>4, GotoIs
      <3>2. Active \subseteq todo'
        BY <2>1, <2>4 DEF Single
      <3>3. ActorFlags(Sweeper)'
        BY <2>2, <3>1, <3>2 DEF ActorFlags
      <3> QED BY <1>0, <2>1, <2>2, <3>1, <3>3, FlagsOf
    <2> QED BY <1>11, <2>3, <2>4 DEF SweepList
  <1>12. ASSUME NEW c \in Conns, Exchange(c) PROVE FlagInv'
    <2>1. /\ UNCHANGED conn /\ excused \subseteq excused' /\ todo = {c}
          /\ proc[Sweeper].pc = "exchange" /\ ActorFlags(Sweeper)
      BY <1>0, <1>12 DEF Exchange, ListInv, FlagInv
    <2>2. FlagIsJustified' /\ Active' = Active
      BY <2>1, JustifiedStays
    <2>3. CASE UNCHANGED excused /\ (GotoWith(Sweeper, "renew", c) \/ Finish(Sweeper))
      BY <1>0, <2>1, <2>2, <2>3, GotoWithIs, FinishIs, FlagsDone
    <2>4. CASE GotoWith(Sweeper, "flag", c) /\ excused' = excused \cup {c}
      <3>1. OnlyMoves(Sweeper) /\ proc'[Sweeper].pc = "flag"
        BY <1>0, <2>4, GotoWithIs
      <3>2. ActorFlags(Sweeper)'
        BY <2>1, <2>2, <2>4, <3>1 DEF ActorFlags
      <3> QED BY <1>0, <2>1, <2>2, <3>1, <3>2, FlagsOf
    <2> QED BY <1>12, <2>1, <2>3, <2>4 DEF Exchange
  <1>13. CASE Renew
    <2>1. OnlyMoves(Sweeper) /\ proc'[Sweeper].pc = "idle" /\ UNCHANGED <<conn, excused>>
      BY <1>0, <1>13, ResumeIs DEF Renew, ListInv
    <2> QED BY <1>0, <2>1, FlagsDone, JustifiedStays
  <1>14. ASSUME NEW p \in Procs, NEW g \in Pages, StartSelect(p, g) PROVE FlagInv'
    <2>1. OnlyMoves(p) /\ proc'[p].pc = "unselect" /\ UNCHANGED <<conn, sweep, excused>>
      BY <1>0, <1>14 DEF StartSelect, OnlyMoves, Typed, TypeOK, Idle
    <2> QED BY <1>0, <2>1, FlagsDone, JustifiedStays DEF sweep
  <1>15. ASSUME NEW p \in Procs, Unselect(p) \/ Select(p) \/ Subscribe(p) PROVE FlagInv'
    <2>1. /\ OnlyMoves(p) /\ proc'[p].pc \in {"select", "subscribe", "idle"}
          /\ UNCHANGED <<conn, sweep, excused>>
      BY <1>0, <1>15, GotoIs, FinishIs DEF Unselect, Select, Subscribe
    <2> QED BY <1>0, <2>1, FlagsDone, JustifiedStays DEF sweep
  <1>16. CASE Tick \/ UNCHANGED vars
    <2>1. UNCHANGED <<conn, proc, todo, excused>>
      BY <1>16 DEF Tick, vars, sweep
    <2> QED BY <2>1 DEF FlagInv, FlagIsJustified, ActorFlags, Active
  <1>17. CASE Disconnect
    <2>1. PICK c \in Active : SetStatus(c, "revoked")
      BY <1>17 DEF Disconnect
    <2>2. UNCHANGED <<proc, sweep, excused>> /\ c \in Conns
      BY <1>17, <2>1 DEF Disconnect, Active
    <2>3. FlagIsJustified' /\ Active' \subseteq Active
      BY <2>1, <2>2, StatusSet
    <2> QED BY <2>2, <2>3 DEF FlagInv, ActorFlags, sweep
  <1> QED
    BY <1>1, <1>2, <1>3, <1>4, <1>5, <1>6, <1>7, <1>8, <1>9, <1>10, <1>11, <1>12, <1>13, <1>14,
       <1>15, <1>16, <1>17, StepCases

\* No connection is flagged for what Meta said of another one, those granted
\* while such a call was under way excepted.
THEOREM FlagsJustified == Spec => []FlagIsJustified
  <1>1. Init => Typed /\ Single /\ ListInv /\ FlagInv
    BY InitTyped, InitSingle, InitFlags DEF Init, ListInv
  <1>2. Typed /\ Single /\ ListInv /\ FlagInv /\ [Next]_vars
          => (Typed /\ Single /\ ListInv /\ FlagInv)'
    BY NextTyped, NextSingle, NextList, NextFlags
  <1>3. FlagInv => FlagIsJustified
    BY DEF FlagInv
  <1> QED BY <1>1, <1>2, <1>3, PTL DEF Spec

=============================================================================
