------------------------------ MODULE Deletion ------------------------------
(***************************************************************************)
(* The lctl commands that delete rows: delete-users, delete-connections    *)
(* and check-connections --delete (destroyAndDelete), prune-logs and       *)
(* prune-seen.  The first three destroy every connection in liercd, let    *)
(* the log settle, delete each user's or connection's rows in one          *)
(* transaction and sweep log rows that came late.  Meanwhile liercd's      *)
(* messages reach the log, users add connections and mark channels.        *)
(*                                                                         *)
(* A step is one query, one transaction or one liercd request.  Streams    *)
(* that recreate a destroyed connection are in ConnectionLifecycle.        *)
(***************************************************************************)
EXTENDS Naturals, FiniteSets

CONSTANTS
  Users, Conns,
  NewConns,  \* those of Conns that the API adds while a command runs
  OwnerOf,   \* each connection's user
  Invalid,   \* connections whose settings check-connections would delete
  MaxLog,    \* bound: ids of log rows
  Batch      \* prune-logs --batch

ASSUME DeletionAssumption ==
  /\ NewConns \subseteq Conns
  /\ OwnerOf \in [Conns -> Users]
  /\ Users \cap Conns = {}
  /\ MaxLog \in Nat
  /\ Batch \in Nat \ {0}

VARIABLES
  users,    \* ids in table "user"; pref and web_push rows go with them
  conns,    \* ids in table connection
  seen, private,  \* connections with rows in these tables
  log,      \* rows of table log
  top,      \* the newest log id
  up,       \* connections liercd runs
  quits,    \* their QUITs on the way to the log
  request,  \* of each connection, the API request that inserts such a row
  born,     \* connections that exist or have existed
  command,  \* which command runs, and with which arguments
  phase,    \* where it is
  cutoff,   \* delete-users' lastLogID; 0 for the others, which sweep every row
  stage,    \* what has become of each target
  listed,   \* each target's connections as the command read them
  left,     \* those it has not destroyed yet
  rowless,  \* history: connections whose row was gone before the command ran
  logged    \* history: every row the logger has written

tables == <<users, conns, seen, private>>
history == <<rowless, logged>>
world == <<top, up, quits, request, born, history>>
tool == <<command, phase, cutoff, stage, listed, left>>
deletionVars == <<tables, log, world, tool>>

Commands == {"delete-users", "delete-connections", "check-connections",
             "prune-logs", "prune-seen"}
Phases == {"list", "destroy", "delete", "sweep", "prune", "done", "stopped"}
Stages == {"out", "asked", "found", "deleted", "swept", "skipped"}
Targets == IF command.name = "delete-users" THEN Users ELSE Conns
ConnsOf(t) == IF t \in Users THEN {c \in Conns : OwnerOf[c] = t} ELSE {t}
Swept(c) == \/ \E t \in Targets : stage[t] = "swept" /\ c \in listed[t]
            \/ command.name = "prune-logs" /\ phase # "list"

DeletionTypeOK ==
  /\ users \subseteq Users
  /\ conns \subseteq born /\ born \subseteq Conns
  /\ seen \subseteq born /\ private \subseteq born
  /\ rowless \subseteq born
  /\ log \subseteq logged
  /\ logged \subseteq [id : 1..top, conn : born, late : BOOLEAN]
  /\ \A r, q \in logged : r.id = q.id => r = q
  /\ top \in 0..MaxLog /\ cutoff \in 0..top
  /\ up \subseteq born /\ quits \subseteq born
  /\ request \in [Conns -> {"none", "let through", "done", "late"}]
  /\ command \in [name : Commands, delete : BOOLEAN]
  /\ phase \in Phases
  /\ stage \in [Users \cup Conns -> Stages]
  /\ listed \in [Users \cup Conns -> SUBSET Conns]
  /\ left \in [Users \cup Conns -> SUBSET Conns]
  /\ \A t \in Users \cup Conns : left[t] \subseteq listed[t] /\ listed[t] \subseteq ConnsOf(t)

\* Every connection has rows everywhere; one more that is gone has left some.
DeletionInit ==
  /\ users = Users
  /\ born = Conns \ NewConns
  /\ rowless \in SUBSET born /\ Cardinality(rowless) <= 1
  /\ conns = born \ rowless
  /\ seen = born /\ private = born
  /\ log = {} /\ logged = {} /\ top = 0
  /\ up \in {conns, {}}
  /\ quits = {}
  /\ request = [c \in Conns |-> "none"]
  /\ command \in [name : Commands, delete : BOOLEAN]
  /\ phase = "list"
  /\ cutoff = 0
  /\ stage \in [Users \cup Conns -> {"out", "asked"}]
  /\ \A t \in Users \cup Conns : t \notin Targets => stage[t] = "out"
  /\ listed = [t \in Users \cup Conns |-> {}]
  /\ left = listed

-----------------------------------------------------------------------------
(***************************************************************************)
(* delete-users, delete-connections, check-connections.                    *)
(***************************************************************************)
Deletes == command.name \in {"delete-users", "delete-connections", "check-connections"}
In(from) == phase = from /\ UNCHANGED <<command, phase, cutoff>>
Moves(from, to) == phase = from /\ phase' = to /\ UNCHANGED <<command, stage, listed, left>>
Sets(t, s) == stage' = [stage EXCEPT ![t] = s]
None(s) == \A t \in Targets : stage[t] # s

\* check-connections takes the invalid ones only; nobody's rows are changed.
Exists(t) == IF t \in Users THEN t \in users
             ELSE t \in conns /\ (command.name = "check-connections" => t \in Invalid)

\* Mutation: the connections are read to be destroyed and not kept.
FindForgets(t) ==
  /\ Deletes /\ In("list")
  /\ stage[t] = "asked"
  /\ Sets(t, IF Exists(t) THEN "found" ELSE "skipped")
  /\ left' = [left EXCEPT ![t] = IF Exists(t) THEN ConnsOf(t) \cap conns ELSE {}]
  /\ UNCHANGED <<tables, log, world, listed>>

\* One target is looked up.
Find(t) ==
  /\ Deletes /\ In("list")
  /\ stage[t] = "asked"
  /\ Sets(t, IF Exists(t) THEN "found" ELSE "skipped")
  /\ listed' = [listed EXCEPT ![t] = IF Exists(t) THEN ConnsOf(t) \cap conns ELSE {}]
  /\ left' = [left EXCEPT ![t] = listed'[t]]
  /\ UNCHANGED <<tables, log, world>>

DryRun ==
  /\ ~command.delete
  /\ None("asked") \/ ~Deletes
  /\ Moves("list", "done")
  /\ UNCHANGED <<tables, log, world, cutoff>>

\* With all looked up, delete-users notes the newest log id.
NoteNewest ==
  /\ Deletes /\ command.delete
  /\ None("asked")
  /\ cutoff' = IF command.name = "delete-users" THEN top ELSE 0
  /\ Moves("list", "destroy")
  /\ UNCHANGED <<tables, log, world>>

\* External: liercd destroys a connection, which quits if it ran.
Quits(c) ==
  /\ up' = up \ {c}
  /\ quits' = quits \cup (up \cap {c})

\* destroy: liercd answers 200 or 404, or the target is skipped, also when only
\* the answer was lost.
Destroy(t, c) ==
  /\ In("destroy")
  /\ stage[t] = "found" /\ c \in left[t]
  /\ \/ Quits(c) /\ left' = [left EXCEPT ![t] = @ \ {c}] /\ UNCHANGED stage
     \/ (Quits(c) \/ UNCHANGED <<up, quits>>) /\ Sets(t, "skipped") /\ UNCHANGED left
  /\ UNCHANGED <<tables, log, top, request, born, history, listed>>

\* Every target is stopped or skipped, and the settle time is over.
Settled ==
  /\ \A t \in Targets : stage[t] = "found" => left[t] = {}
  /\ Moves("destroy", "delete")
  /\ UNCHANGED <<tables, log, world, cutoff>>

\* deleteUser, deleteRows: one transaction, of which nothing stays if it fails.
DeleteRows(t) ==
  /\ In("delete")
  /\ stage[t] = "found"
  /\ \/ LET gone == IF t \in Users THEN ConnsOf(t) ELSE listed[t]
        IN  /\ log' = {r \in log : r.conn \notin listed[t]}
            /\ seen' = seen \ gone
            /\ private' = private \ listed[t]
            /\ users' = users \ {t}
            /\ conns' = conns \ gone
            /\ Sets(t, "deleted")
     \/ Sets(t, "skipped") /\ UNCHANGED <<tables, log>>
  /\ UNCHANGED <<world, listed, left>>

AllDeleted ==
  /\ None("found")
  /\ Moves("delete", "sweep")
  /\ UNCHANGED <<tables, log, world, cutoff>>

\* Mutation: the sweep starts one id too late.
SweepLate(t) ==
  /\ In("sweep")
  /\ stage[t] = "deleted"
  /\ log' = {r \in log : ~(r.conn \in listed[t] /\ r.id > cutoff + 1)}
  /\ Sets(t, "swept")
  /\ UNCHANGED <<tables, world, listed, left>>

\* Mutation: the sweep forgets whose rows it sweeps.
SweepEverybodys(t) ==
  /\ In("sweep")
  /\ stage[t] = "deleted"
  /\ log' = {r \in log : ~(r.id > cutoff)}
  /\ Sets(t, "swept")
  /\ UNCHANGED <<tables, world, listed, left>>

\* What the logger wrote after the delete.
Sweep(t) ==
  /\ In("sweep")
  /\ stage[t] = "deleted"
  /\ log' = {r \in log : ~(r.conn \in listed[t] /\ r.id > cutoff)}
  /\ Sets(t, "swept")
  /\ UNCHANGED <<tables, world, listed, left>>

Finish ==
  /\ None("deleted")
  /\ Moves("sweep", "done")
  /\ UNCHANGED <<tables, log, world, cutoff>>

\* A query fails, or the operator interrupts: what is done stays done.
Interrupted ==
  /\ phase \notin {"done", "stopped"}
  /\ phase' = "stopped"
  /\ UNCHANGED <<tables, log, world, command, cutoff, stage, listed, left>>

-----------------------------------------------------------------------------
(***************************************************************************)
(* prune-logs and prune-seen.                                              *)
(***************************************************************************)

\* The connections with log rows and no row of their own, found once.
PruneList ==
  /\ command = [name |-> "prune-logs", delete |-> TRUE]
  /\ phase = "list" /\ phase' = "prune"
  /\ listed' = [t \in Users \cup Conns |->
       {c \in {t} : (\E r \in log : r.conn = c) /\ c \notin conns}]
  /\ left' = listed'
  /\ UNCHANGED <<tables, log, world, command, cutoff, stage>>

\* One statement deletes up to Batch rows of c, if it has no row of its own; a
\* short one is the last.
PruneBatch(c) ==
  /\ In("prune")
  /\ left[c] # {}
  /\ LET orphans == {r \in log : r.conn = c /\ c \notin conns}
     IN  \E some \in SUBSET orphans :
           /\ Cardinality(some) <= Batch
           /\ Cardinality(some) < Batch => some = orphans
           /\ log' = log \ some
           /\ left' = [left EXCEPT ![c] = IF Cardinality(some) < Batch THEN {} ELSE @]
  /\ UNCHANGED <<tables, world, stage, listed>>

PruneDone ==
  /\ \A c \in Conns : left[c] = {}
  /\ Moves("prune", "done")
  /\ UNCHANGED <<tables, log, world, cutoff>>

\* Rows without a connection go, and any that weren't updated in a month.
PruneSeen ==
  /\ command = [name |-> "prune-seen", delete |-> TRUE]
  /\ Moves("list", "done")
  /\ seen' \in SUBSET (seen \cap conns)
  /\ UNCHANGED <<users, conns, private, log, world, cutoff>>

-----------------------------------------------------------------------------
(***************************************************************************)
(* Meanwhile.                                                              *)
(***************************************************************************)

\* The API adds a connection for a user that exists, and liercd starts it.
AddConnection(c) ==
  /\ c \notin born /\ OwnerOf[c] \in users
  /\ born' = born \cup {c}
  /\ conns' = conns \cup {c}
  /\ up' = up \cup {c}
  /\ UNCHANGED <<users, seen, private, log, top, quits, request, history, tool>>

\* verify_owner lets a request through, which inserts its row later.  Bound:
\* one request.
LetThrough(c) ==
  /\ c \in conns /\ OwnerOf[c] \in users
  /\ \A d \in Conns : request[d] = "none"
  /\ request' = [request EXCEPT ![c] = "let through"]
  /\ UNCHANGED <<tables, log, top, up, quits, born, history, tool>>

Mark(c) ==
  /\ request[c] = "let through"
  /\ request' = [request EXCEPT ![c] = IF c \in conns THEN "done" ELSE "late"]
  /\ \/ seen' = seen \cup {c} /\ UNCHANGED private
     \/ private' = private \cup {c} /\ UNCHANGED seen
  /\ UNCHANGED <<users, conns, log, top, up, quits, born, history, tool>>

\* External: the logger writes what a running connection sends, or its QUIT.
Log(c) ==
  /\ c \in up \cup quits
  /\ top < MaxLog
  /\ top' = top + 1
  /\ LET row == [id |-> top + 1, conn |-> c, late |-> Swept(c)]
     IN  log' = log \cup {row} /\ logged' = logged \cup {row}
  /\ quits' = quits \ {c}
  /\ UNCHANGED <<tables, up, request, born, rowless, tool>>

DeletionNext ==
  \/ \E t \in Targets : Find(t) \/ DeleteRows(t) \/ Sweep(t) \/ (\E c \in Conns : Destroy(t, c))
  \/ DryRun \/ NoteNewest \/ Settled \/ AllDeleted \/ Finish \/ Interrupted
  \/ PruneList \/ PruneDone \/ PruneSeen
  \/ \E c \in Conns : PruneBatch(c) \/ AddConnection(c) \/ LetThrough(c) \/ Mark(c) \/ Log(c)

DeletionSpec == DeletionInit /\ [][DeletionNext]_deletionVars

-----------------------------------------------------------------------------
Gone    == {"deleted", "swept"}
Deleted == {t \in Targets : stage[t] \in Gone}
Taken   == UNION {ConnsOf(t) : t \in Deleted}

\* Nothing is left of what was found of t, but rows that come after the delete:
\* a request's that was let through before, and the logger's.
DeletedWhole(t) ==
  /\ t \notin users \cup conns
  /\ conns \cap ConnsOf(t) = {}
  /\ listed[t] \cap up = {}
  /\ \A c \in (seen \cup private) \cap listed[t] : request[c] = "late"
  /\ \A r \in log : r.conn \in listed[t] => r.id > cutoff

\* Every row of c that was there or was added is there.
KeptWhole(c) ==
  /\ c \in born \ rowless => c \in conns
  /\ c \notin NewConns => c \in seen \cap private
  /\ request[c] = "done" => c \in seen \cup private
  /\ \A r \in logged : r.conn = c => r \in log

\* A user or connection is deleted whole, with every connection that was found
\* stopped, or not at all; and nobody else loses a row of any table, whether it
\* was there before or was added meanwhile, by whatever order of lookups,
\* refused destroys, failed transactions, sweeps and an interrupt.  Of a
\* connection that a user adds after the lookup it says that its row goes with
\* the user, and not what is left of it (deleteUser, deleteRows,
\* destroyAndDelete).
AllOrNothing ==
  Deletes =>
    /\ \A t \in Deleted : DeletedWhole(t)
    /\ users = Users \ Deleted
    /\ \A c \in Conns \ Taken : KeptWhole(c)

\* Once a command has ended well, no log row is left of the connections it
\* deleted, or of those prune-logs found, but those written after its sweep
\* or its lookup.
LogIsSwept ==
  phase = "done" /\ command.delete =>
    \A r \in log : (\E t \in Targets : r.conn \in listed[t] /\ stage[t] # "skipped") => r.late
=============================================================================
