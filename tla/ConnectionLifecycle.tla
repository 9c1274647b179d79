------------------------ MODULE ConnectionLifecycle ------------------------
(***************************************************************************)
(* One IRC connection and everything that starts, stops, moves or deletes  *)
(* it: its row in Postgres (config and liercd column), the two liercd      *)
(* instances that may run it, and the programs that work on it with no     *)
(* lock between them - the stream server's recreate-on-open                *)
(* (internal/liercd), the Perl API (lib/API/Controller/Connection.pm) and  *)
(* the lctl commands (internal/lctl).                                      *)
(*                                                                         *)
(* Each actor makes one request or command.  One step is one query or one  *)
(* liercd request; a routed request is two steps, the lookup of the column *)
(* (liercd.go base, Liercd.pm liercd_url) and the request itself.  liercd  *)
(* is external.  A config is abstracted to the settings liercd connects    *)
(* with (Connection.pm server_key).                                        *)
(***************************************************************************)
EXTENDS Naturals, FiniteSets

CONSTANTS
  Actors,     \* requests and commands that work on the connection
  Teams,      \* the assignments of a kind to each actor that are considered
  MaxConfig,  \* bound: configs are 1..MaxConfig
  Env         \* what goes wrong, a subset of EnvKinds

\* down: liercd or its lookup can't be reached; refuse: liercd answers with
\* another status; lost: liercd does it but the reply is lost; db: a query
\* fails; crash: a liercd restarts and runs nothing; slow: anything may happen
\* between a request's column lookup and the request.
EnvKinds == {"down", "refuse", "lost", "db", "crash", "slow"}

Kinds == {"recreate", "revive", "start", "delete", "wipe", "edit",
          "reconnect", "move", "stop"}

Configs   == 1..MaxConfig
Instances == {"main", "next"}
NoRow     == 0   \* no saved config
Idle      == 0   \* an instance does not run the connection
Unrouted  == "none"

\* A connection is started once: its id is made for the start.
ASSUME LifecycleAssumption ==
  /\ Teams \subseteq [Actors -> Kinds]
  /\ \A team \in Teams : \A p, q \in Actors :
       team[p] = "start" /\ team[q] = "start" => p = q
  /\ MaxConfig \in Nat \ {0}
  /\ Env \subseteq EnvKinds

VARIABLES
  row,     \* the saved config, NoRow if the connection has no row
  column,  \* connection.liercd, its default while there is no row
  runs,    \* external: the config each instance runs the connection with
  kind,    \* what each actor is; never changes
  pc,      \* each actor's next step
  cfg,     \* the config each actor holds
  to,      \* the instance each actor's next request goes to
  found,   \* a move's running and slippedIn
  stray,   \* history: a create has landed on an instance that is not the
           \* column's and that no move will clean up any more
  fresh    \* history: the actors that had not begun at the last crash

vars == <<row, column, runs, kind, pc, cfg, to, found, stray,
          fresh>>

database == <<row, column>>
liercd   == <<runs, stray, fresh>>

Calls ==   \* requests routed by the column
  {"ask", "create", "confirm", "revive ask", "revive create", "start create",
   "delete destroy", "wipe destroy", "edit destroy", "edit create",
   "reconnect destroy", "reconnect create"}
Pinned ==  \* requests to a given instance
  {"probe", "leave", "again", "arrive", "stop destroy"}
Queries == {"delete row", "wipe row", "edit save", "edit update", "start undo",
            "locate", "set"}
Ends == {"ok", "failed", "unsure"}

TypeOK ==
  /\ row \in {NoRow} \cup Configs
  /\ column \in Instances
  /\ runs \in [Instances -> {Idle} \cup Configs]
  /\ kind \in Teams
  /\ pc \in [Actors -> {"begin"} \cup Calls \cup Pinned \cup Queries \cup Ends]
  /\ cfg \in [Actors -> {NoRow} \cup Configs]
  /\ to \in [Actors -> Instances \cup {Unrouted}]
  /\ found \in [Actors -> SUBSET {"running", "slippedIn"}]
  /\ stray \in BOOLEAN
  /\ fresh \subseteq Actors

\* A connection that is about to be started has no row yet.
Init ==
  /\ kind \in Teams
  /\ row = IF \E p \in Actors : kind[p] = "start" THEN NoRow ELSE 1
  /\ column \in Instances
  /\ runs \in {[i \in Instances |-> Idle],
               [i \in Instances |-> IF i = column THEN row ELSE Idle]}
  /\ pc = [p \in Actors |-> "begin"]
  /\ cfg = [p \in Actors |-> NoRow]
  /\ to = [p \in Actors |-> Unrouted]
  /\ found = [p \in Actors |-> {}]
  /\ stray = FALSE
  /\ fresh = Actors

-----------------------------------------------------------------------------
(***************************************************************************)
(* Routing, and the requests liercd answers.                               *)
(***************************************************************************)

Other(i) == CHOOSE j \in Instances : j # i

\* Without a row requests go to main.
Route == IF row = NoRow THEN "main" ELSE column

Goto(p, step) == pc' = [pc EXCEPT ![p] = step]

\* The column is looked up for p's next request.
LookUp(p) ==
  /\ "slow" \in Env
  /\ pc[p] \in Calls
  /\ to[p] = Unrouted
  /\ to' = [to EXCEPT ![p] = Route]
  /\ UNCHANGED <<database, liercd, kind, pc, cfg, found>>

\* Where p's routed request at this step goes.
Addressed(p, step, i) ==
  /\ pc[p] = step
  /\ i = IF "slow" \in Env THEN to[p] ELSE Route
  /\ i \in Instances

Replies == {"ok", "missing", "refused", "error"}

\* liercd does nothing, and says so or does not answer.
Fails(r) ==
  /\ \/ r = "refused" /\ "refuse" \in Env
     \/ r = "error" /\ "down" \in Env
  /\ UNCHANGED liercd

\* What is heard of a request whose reply is lost.
Lost == IF "lost" \in Env THEN {"error"} ELSE {}

\* Its answer about a connection: 200 or 404.
State(i) == IF runs[i] # Idle THEN "ok" ELSE "missing"

Status(i, r) == (r = State(i) /\ UNCHANGED liercd) \/ Fails(r)

Destroy(i, r) ==
  \/ /\ r \in {State(i)} \cup Lost
     /\ runs' = [runs EXCEPT ![i] = Idle]
     /\ UNCHANGED <<stray, fresh>>
  \/ Fails(r)

\* A move from i that has set the column and will destroy again there.
WillClean(i) == \E m \in Actors : kind[m] = "move" /\ pc[m] = "again" /\ to[m] = Other(i)

\* What create does to a connection that already runs is not known here:
\* it goes on with the config it has or takes the new one.
Create(i, c, r) ==
  \/ /\ r \in {"ok"} \cup Lost
     /\ \E new \in {c} \cup ({runs[i]} \ {Idle}) : runs' = [runs EXCEPT ![i] = new]
     /\ stray' = (stray \/ (i # Route /\ ~WillClean(i)))
     /\ UNCHANGED fresh
  \/ Fails(r)

\* p asks for the status, destroys or creates through the column, and goes on
\* with next[r] after reply r.
AskRouted(p, step, next) ==
  /\ \E i \in Instances, r \in Replies :
       Addressed(p, step, i) /\ Status(i, r) /\ Goto(p, next[r])
  /\ to' = [to EXCEPT ![p] = Unrouted]
  /\ UNCHANGED <<database, kind, cfg, found>>

DestroyRouted(p, step, next) ==
  /\ \E i \in Instances, r \in Replies :
       Addressed(p, step, i) /\ Destroy(i, r) /\ Goto(p, next[r])
  /\ to' = [to EXCEPT ![p] = Unrouted]
  /\ UNCHANGED <<database, kind, cfg, found>>

CreateRouted(p, step, next) ==
  /\ \E i \in Instances, r \in Replies :
       Addressed(p, step, i) /\ Create(i, cfg[p], r) /\ Goto(p, next[r])
  /\ to' = [to EXCEPT ![p] = Unrouted]
  /\ UNCHANGED <<database, kind, cfg, found>>

\* Only 200 will do, or 200 and 404.
If200(good, bad) == [r \in Replies |-> IF r = "ok" THEN good ELSE bad]
If404(good, bad) == [r \in Replies |-> IF r \in {"ok", "missing"} THEN good ELSE bad]

\* The saved config is read; without a row the actor ends with an error.
ReadConfig(p, k, next) ==
  /\ kind[p] = k
  /\ pc[p] = "begin"
  /\ Goto(p, IF row = NoRow THEN "failed" ELSE next)
  /\ cfg' = [cfg EXCEPT ![p] = row]
  /\ UNCHANGED <<database, liercd, kind, to, found>>

\* The row is changed to c, if it is still there.
WriteRow(p, from, next, c) ==
  /\ pc[p] = from
  /\ Goto(p, next)
  /\ row' = IF row = NoRow THEN NoRow ELSE c
  /\ UNCHANGED <<column, liercd, kind, cfg, to, found>>

\* A query fails.  Nothing is undone.
QueryFails(p) ==
  /\ "db" \in Env
  /\ pc[p] \in Queries
  /\ Goto(p, "failed")
  /\ to' = [to EXCEPT ![p] = Unrouted]
  /\ UNCHANGED <<database, liercd, kind, cfg, found>>

\* A liercd restarts.
Crash(i) ==
  /\ "crash" \in Env
  /\ runs' = [runs EXCEPT ![i] = Idle]
  /\ fresh' = {p \in Actors : pc[p] = "begin"}
  /\ UNCHANGED <<database, kind, pc, cfg, to, found, stray>>

-----------------------------------------------------------------------------
(***************************************************************************)
(* A user's stream opens (FindOrRecreate, find_or_recreate_connection), or *)
(* a liercd unit starts lctl revive.                                       *)
(***************************************************************************)
RecreateRead(p)    == ReadConfig(p, "recreate", "ask")
RecreateAsk(p)     == AskRouted(p, "ask",
                        [If200("ok", "create") EXCEPT !["error"] = "failed"])
RecreateCreate(p)  == CreateRouted(p, "create", If200("confirm", "failed"))
RecreateConfirm(p) == AskRouted(p, "confirm", If200("ok", "failed"))

\* revive reads all configs first and creates whatever is not known to run.
ReviveRead(p)   == ReadConfig(p, "revive", "revive ask")
ReviveAsk(p)    == AskRouted(p, "revive ask", If200("ok", "revive create"))
ReviveCreate(p) == CreateRouted(p, "revive create", If200("ok", "failed"))

-----------------------------------------------------------------------------
(***************************************************************************)
(* The API: start, delete and edit.                                        *)
(***************************************************************************)

\* The row is saved first, unless the user has too many connections.
StartSave(p) ==
  /\ kind[p] = "start"
  /\ pc[p] = "begin"
  /\ \/ \E c \in Configs :
          /\ row' = c
          /\ cfg' = [cfg EXCEPT ![p] = c]
          /\ Goto(p, "start create")
     \/ Goto(p, "failed") /\ UNCHANGED <<row, cfg>>
  /\ UNCHANGED <<column, liercd, kind, to, found>>

StartCreate(p) == CreateRouted(p, "start create", If200("ok", "start undo"))
StartUndo(p)   == WriteRow(p, "start undo", "failed", NoRow)

DeleteBegin(p) == ReadConfig(p, "delete", "delete destroy")

\* Mutation: a connection that isn't running may be deleted too.
DeleteStopped(p) == DestroyRouted(p, "delete destroy", If404("delete row", "failed"))

\* Only a connection that was running is deleted.
DeleteDestroy(p) == DestroyRouted(p, "delete destroy", If200("delete row", "failed"))
DeleteRow(p)     == WriteRow(p, "delete row", "ok", NoRow)

\* With the settings liercd connects with unchanged, the row is just saved.
EditRead(p) ==
  /\ kind[p] = "edit"
  /\ pc[p] = "begin"
  /\ row # NoRow
  /\ \E c \in Configs :
       /\ cfg' = [cfg EXCEPT ![p] = c]
       /\ Goto(p, IF c = row THEN "edit save" ELSE "edit destroy")
  /\ UNCHANGED <<database, liercd, kind, to, found>>

EditSave(p)    == WriteRow(p, "edit save", "ok", cfg[p])
EditDestroy(p) == DestroyRouted(p, "edit destroy", If404("edit update", "failed"))
EditUpdate(p)  == WriteRow(p, "edit update", "edit create", cfg[p])
EditCreate(p)  == CreateRouted(p, "edit create", If200("ok", "failed"))

-----------------------------------------------------------------------------
(***************************************************************************)
(* lctl: reconnect, check-connections and delete-connections               *)
(* (destroyAndDelete, "wipe" here), stop-inactive.                         *)
(***************************************************************************)
ReconnectRead(p)    == ReadConfig(p, "reconnect", "reconnect destroy")
ReconnectDestroy(p) == DestroyRouted(p, "reconnect destroy",
                                     If404("reconnect create", "failed"))
ReconnectCreate(p)  == CreateRouted(p, "reconnect create", If200("ok", "failed"))

WipeBegin(p)   == ReadConfig(p, "wipe", "wipe destroy")
WipeDestroy(p) == DestroyRouted(p, "wipe destroy", If404("wipe row", "failed"))
WipeRow(p)     == WriteRow(p, "wipe row", "ok", NoRow)

\* The instance is the one the column named when the list was made.
StopRead(p) ==
  /\ kind[p] = "stop"
  /\ pc[p] = "begin"
  /\ row # NoRow
  /\ Goto(p, "stop destroy")
  /\ to' = [to EXCEPT ![p] = Route]
  /\ UNCHANGED <<database, liercd, kind, cfg, found>>

StopDestroy(p) ==
  /\ pc[p] = "stop destroy"
  /\ \E r \in Replies : Destroy(to[p], r) /\ Goto(p, If404("ok", "failed")[r])
  /\ to' = [to EXCEPT ![p] = Unrouted]
  /\ UNCHANGED <<database, kind, cfg, found>>

-----------------------------------------------------------------------------
(***************************************************************************)
(* lctl move-connection, moveOne.  to[p] is the target.                    *)
(***************************************************************************)
MoveRead(p) == ReadConfig(p, "move", "locate")

\* A move to where the connection is already is refused.
MoveLocate(p) ==
  /\ pc[p] = "locate"
  /\ \/ to' = [to EXCEPT ![p] = Other(Route)] /\ Goto(p, "probe")
     \/ UNCHANGED to /\ Goto(p, "failed")
  /\ UNCHANGED <<database, liercd, kind, cfg, found>>

\* The target must be reachable and not run the connection.
MoveProbe(p) ==
  /\ pc[p] = "probe"
  /\ \E r \in Replies : Status(to[p], r) /\ Goto(p, IF r = "missing" THEN "leave" ELSE "failed")
  /\ UNCHANGED <<database, kind, cfg, to, found>>

\* Mutation: the reply is noted, not what it means.
MoveDestroyNotes(p) ==
  /\ pc[p] = "leave"
  /\ \E r \in Replies :
       /\ Destroy(Other(to[p]), r)
       /\ Goto(p, If404("set", "failed")[r])
       /\ found' = [found EXCEPT ![p] = {r}]
  /\ UNCHANGED <<database, kind, cfg, to>>

MoveDestroy(p) ==
  /\ pc[p] = "leave"
  /\ \E r \in Replies :
       /\ Destroy(Other(to[p]), r)
       /\ Goto(p, If404("set", "failed")[r])
       /\ found' = [found EXCEPT ![p] = IF r = "ok" THEN {"running"} ELSE {}]
  /\ UNCHANGED <<database, kind, cfg, to>>

\* Mutation: the source is not destroyed again after the column is set.
MoveSetOnly(p) ==
  /\ pc[p] = "set"
  /\ Goto(p, IF found[p] = {} THEN "ok" ELSE "arrive")
  /\ column' = IF row = NoRow THEN column ELSE to[p]
  /\ UNCHANGED <<row, liercd, kind, cfg, to, found>>

MoveSet(p) ==
  /\ pc[p] = "set"
  /\ Goto(p, "again")
  /\ column' = IF row = NoRow THEN column ELSE to[p]
  /\ UNCHANGED <<row, liercd, kind, cfg, to, found>>

\* Mutation: what slipped in is destroyed, and forgotten.
MoveAgainForgets(p) ==
  /\ pc[p] = "again"
  /\ \E r \in Replies :
       /\ Destroy(Other(to[p]), r)
       /\ Goto(p, If404(IF found[p] = {} THEN "ok" ELSE "arrive", "unsure")[r])
  /\ UNCHANGED <<database, kind, cfg, to, found>>

\* A recreate that slipped in is destroyed; if that fails the operator is told
\* to look.  A connection that was not running stays dormant.
MoveAgain(p) ==
  /\ pc[p] = "again"
  /\ \E r \in Replies :
       LET slipped == found[p] \cup (IF r = "ok" THEN {"slippedIn"} ELSE {})
       IN  /\ Destroy(Other(to[p]), r)
           /\ found' = [found EXCEPT ![p] = slipped]
           /\ Goto(p, If404(IF slipped = {} THEN "ok" ELSE "arrive", "unsure")[r])
  /\ UNCHANGED <<database, kind, cfg, to>>

MoveCreate(p) ==
  /\ pc[p] = "arrive"
  /\ \E r \in Replies : Create(to[p], cfg[p], r) /\ Goto(p, If200("ok", "failed")[r])
  /\ UNCHANGED <<database, kind, cfg, to, found>>

-----------------------------------------------------------------------------
Open(p)    == RecreateRead(p) \/ RecreateAsk(p) \/ RecreateCreate(p) \/ RecreateConfirm(p)
Revive(p)  == ReviveRead(p) \/ ReviveAsk(p) \/ ReviveCreate(p)
Start(p)   == StartSave(p) \/ StartCreate(p) \/ StartUndo(p)
Delete(p)  == DeleteBegin(p) \/ DeleteDestroy(p) \/ DeleteRow(p)
Edit(p)    == EditRead(p) \/ EditSave(p) \/ EditDestroy(p) \/ EditUpdate(p) \/ EditCreate(p)
Reconnect(p) == ReconnectRead(p) \/ ReconnectDestroy(p) \/ ReconnectCreate(p)
Wipe(p)    == WipeBegin(p) \/ WipeDestroy(p) \/ WipeRow(p)
StopIdle(p) == StopRead(p) \/ StopDestroy(p)
Move(p)    == MoveRead(p) \/ MoveLocate(p) \/ MoveProbe(p) \/ MoveDestroy(p)
              \/ MoveSet(p) \/ MoveAgain(p) \/ MoveCreate(p)

Actor(p) ==
  \/ LookUp(p) \/ QueryFails(p) \/ Open(p) \/ Revive(p) \/ Start(p)
  \/ Delete(p) \/ Edit(p) \/ Reconnect(p) \/ Wipe(p) \/ StopIdle(p) \/ Move(p)

Next == (\E p \in Actors : Actor(p)) \/ (\E i \in Instances : Crash(i))

Spec == Init /\ [][Next]_vars

-----------------------------------------------------------------------------
(***************************************************************************)
(* Properties.                                                             *)
(***************************************************************************)
Kinded(K) == {p \in Actors : kind[p] \in K}
Quiet     == \A p \in Actors : pc[p] \in Ends

\* An instance the column does not name runs the connection only while a move
\* is about to destroy it there again, after a move that told the operator it
\* could not, or after a stray create: one sent before the column changed that
\* arrived after that destroy (moveOne's second destroyOn).
OffColumnIsTransient ==
  row # NoRow =>
    \A i \in Instances \ {column} :
      runs[i] # Idle => \/ WillClean(i)
                        \/ stray
                        \/ \E m \in Actors : pc[m] = "unsure"

\* No silent loss: when a stream, a start, a reconnect or a revive that began
\* after the last crash has reported success, nobody reported an error and
\* nobody was asked to stop the connection, it runs once all is quiet, however
\* moves and recreates interleave (moveOne's wasRunning and slippedIn).
StillRunning ==
  /\ Quiet
  /\ \A p \in Actors : pc[p] = "ok"
  /\ Kinded({"delete", "wipe", "stop"}) = {}
  /\ Kinded({"recreate", "revive", "start", "reconnect"}) \cap fresh # {}
  => \E i \in Instances : runs[i] # Idle

\* A connection without a row runs nowhere once all is quiet, if it was only
\* started, moved or deleted by its user: delete takes the row away only after
\* liercd has stopped it (Connection.pm delete, start).
NoOrphan ==
  /\ Quiet
  /\ row = NoRow
  /\ Kinded(Kinds \ {"start", "delete", "move", "stop"}) = {}
  => \A i \in Instances : runs[i] = Idle

\* A connection runs on at most one instance once all is quiet (liercd-next
\* design: it "runs on exactly one of them at a time").
NeverOnBoth ==
  Quiet => Cardinality({i \in Instances : runs[i] # Idle}) <= 1

\* A connection that lctl deleted was stopped first (delete-connections:
\* "destroyed in liercd first, so it stops running").
WipedIsStopped ==
  Quiet /\ (\E p \in Kinded({"wipe"}) : pc[p] = "ok")
    => \A i \in Instances : runs[i] = Idle

\* The saved config is the one liercd is running (Connection.pm save: "it's
\* what liercd is running").
SavedIsRunning ==
  Quiet /\ (\A p \in Actors : pc[p] = "ok") /\ row # NoRow
    => \A i \in Instances : runs[i] \in {Idle, row}
=============================================================================
