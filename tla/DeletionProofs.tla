--------------------------- MODULE DeletionProofs ---------------------------
(***************************************************************************)
(* Theorems about Deletion, for any users, connections, sizes of batches   *)
(* and bounds.                                                             *)
(***************************************************************************)
EXTENDS Deletion, TLAPS

Ids == Users \cup Conns
Deleting == {"destroy", "delete", "sweep"}

-----------------------------------------------------------------------------
(***************************************************************************)
(* The inductive invariant.                                                *)
(***************************************************************************)

\* Which stages targets can be in while a command is where it is.
Stepwise ==
  /\ \A t \in Ids \ Targets : stage[t] = "out"
  /\ \A t \in Ids : stage[t] \in CASE phase = "list" -> {"out", "asked", "found", "skipped"}
                                   [] phase = "destroy" -> {"out", "found", "skipped"}
                                   [] phase = "delete" -> {"out", "found", "deleted", "skipped"}
                                   [] phase = "sweep" -> {"out", "deleted", "swept", "skipped"}
                                   [] OTHER -> Stages
  /\ phase = "done" /\ command.delete /\ Deletes =>
       \A t \in Ids : stage[t] \in {"out", "swept", "skipped"}
  /\ phase \in Deleting => Deletes /\ command.delete
  /\ phase = "prune" => command.name = "prune-logs" /\ command.delete
  /\ ~Deletes => \A t \in Ids : stage[t] \in {"out", "asked"}
  /\ command.name # "delete-users" \/ phase = "list" => cutoff = 0

\* What has been looked up, and what of it is destroyed.
Found ==
  /\ \A t \in Ids : listed[t] \subseteq born
  /\ \A t \in Ids : stage[t] \in {"found"} \cup Gone /\ t \in Conns => t \in listed[t]
  /\ Deletes => \A t \in Ids :
       /\ stage[t] \in {"out", "asked"} => listed[t] = {}
       /\ (listed[t] \ left[t]) \cap up = {}
       /\ stage[t] \in Gone => left[t] = {}
       /\ phase = "delete" /\ stage[t] = "found" => left[t] = {}
  /\ ~Deletes /\ phase = "list" => \A t \in Ids : listed[t] = {}
  /\ command.name = "prune-seen" => \A t \in Ids : listed[t] = {}
  /\ \A c \in Conns : request[c] # "none" => c \in born

\* Rows of what is swept came later; prune-logs finds nothing that comes back.
LateOnly ==
  /\ Deletes => \A t \in Ids : stage[t] = "swept" =>
       \A r \in log : r.conn \in listed[t] => r.late
  /\ ~Deletes => \A c \in Conns :
       /\ listed[c] \cap conns = {}
       /\ phase # "list" /\ left[c] = {} => \A r \in log : r.conn \in listed[c] => r.late
       /\ phase = "done" => left[c] = {}

IInv == DeletionTypeOK /\ Stepwise /\ Found /\ LateOnly /\ AllOrNothing

-----------------------------------------------------------------------------
LEMMA Disjoint ==
  ASSUME DeletionAssumption, DeletionTypeOK
  PROVE  /\ Targets \in {Users, Conns} /\ Targets \subseteq Ids
         /\ \A t \in Ids : ConnsOf(t) \subseteq Conns
         /\ \A t, u \in Targets : t # u => ConnsOf(t) \cap ConnsOf(u) = {}
         /\ \A t \in Users : t \notin Conns
BY DEF DeletionAssumption, Targets, ConnsOf, Ids

\* The parts of the type invariant.
RowsOK ==
  /\ users \subseteq Users
  /\ conns \subseteq born /\ born \subseteq Conns
  /\ seen \subseteq born /\ private \subseteq born /\ rowless \subseteq born
  /\ up \subseteq born /\ quits \subseteq born
  /\ request \in [Conns -> {"none", "let through", "done", "late"}]
  /\ command \in [name : Commands, delete : BOOLEAN]
Row == [id : 1..top, conn : born, late : BOOLEAN]
LogOK ==
  /\ log \subseteq logged /\ logged \subseteq Row
  /\ \A r, q \in logged : r.id = q.id => r = q
  /\ top \in 0..MaxLog /\ cutoff \in 0..top
ListsOK ==
  /\ phase \in Phases
  /\ stage \in [Ids -> Stages]
  /\ listed \in [Ids -> SUBSET Conns]
  /\ left \in [Ids -> SUBSET Conns]
  /\ \A t \in Ids : left[t] \subseteq listed[t] /\ listed[t] \subseteq ConnsOf(t)

LEMMA TypeParts == DeletionTypeOK <=> RowsOK /\ LogOK /\ ListsOK
BY DEF DeletionTypeOK, RowsOK, LogOK, ListsOK, Row, Ids

LEMMA LogRows ==
  ASSUME DeletionTypeOK
  PROVE  \A r \in log : r.conn \in born /\ r.conn \in Conns
<1>1. RowsOK /\ LogOK
  BY TypeParts
<1>2. \A r \in logged : r.conn \in born
  BY <1>1 DEF LogOK, Row
<1>3. QED BY <1>1, <1>2 DEF LogOK, RowsOK

LEMMA TypePartsNext ==
  ASSUME RowsOK', LogOK', ListsOK'
  PROVE  DeletionTypeOK'
BY DEF DeletionTypeOK, RowsOK, LogOK, ListsOK, Row, Ids

LEMMA LogKept ==
  ASSUME DeletionAssumption, LogOK, log' \subseteq log, logged' = logged, top' = top, born \subseteq born',
         cutoff' = cutoff \/ cutoff' = top \/ cutoff' = 0
  PROVE  LogOK'
<1>1. top \in Nat /\ cutoff' \in 0..top'
  BY DEF LogOK, DeletionAssumption
<1>2. Row \subseteq Row'
  BY DEF Row
<1>3. QED BY <1>1, <1>2 DEF LogOK

LEMMA ListsKept ==
  ASSUME ListsOK, phase' \in Phases, UNCHANGED <<stage, listed, left>>
  PROVE  ListsOK'
BY DEF ListsOK, ConnsOf

LEMMA InitType ==
  ASSUME DeletionAssumption, DeletionInit
  PROVE  DeletionTypeOK
BY DEF DeletionAssumption, DeletionInit, DeletionTypeOK, Phases, Stages

LEMMA TypeLists ==
  ASSUME DeletionAssumption, DeletionTypeOK,
         \/ DryRun \/ NoteNewest \/ Settled \/ AllDeleted \/ Finish \/ Interrupted
         \/ PruneDone \/ PruneSeen \/ PruneList
  PROVE  DeletionTypeOK'
<1> USE TypeParts
<1>1. RowsOK'
  BY DEF DryRun, NoteNewest, Settled, AllDeleted, Finish, Interrupted, PruneDone, PruneSeen,
         PruneList, Moves, tables, world, history, RowsOK
<1>2. LogOK'
  <2>1. log' = log /\ logged' = logged /\ top' = top /\ born' = born /\ cutoff' \in {cutoff, top, 0}
    BY DEF DryRun, NoteNewest, Settled, AllDeleted, Finish, Interrupted, PruneDone, PruneSeen,
           PruneList, Moves, world, history
  <2>2. QED BY <2>1, LogKept
<1>3. phase' \in Phases
  BY DEF DryRun, NoteNewest, Settled, AllDeleted, Finish, Interrupted, PruneDone, PruneSeen,
         PruneList, Moves, Phases
<1>4. ListsOK'
  <2>1. CASE PruneList
    <3>1. ASSUME NEW t \in Ids
          PROVE  listed'[t] \subseteq ConnsOf(t) /\ listed'[t] \subseteq Conns
      <4>1. listed'[t] = {c \in {t} : (\E r \in log : r.conn = c) /\ c \notin conns}
        BY <2>1, <3>1 DEF PruneList, Ids
      <4>2. \A r \in log : r.conn \in Conns
        BY LogRows
      <4>3. t \in Conns => t \notin Users
        BY DEF DeletionAssumption
      <4>4. QED BY <4>1, <4>2, <4>3 DEF ConnsOf
    <3>2. listed' \in [Ids -> SUBSET Conns]
      <4>1. \A t \in Ids : listed'[t] \in SUBSET Conns
        BY <3>1
      <4>2. listed' = [t \in Ids |-> {c \in {t} : (\E r \in log : r.conn = c) /\ c \notin conns}]
        BY <2>1 DEF PruneList, Ids
      <4>3. QED BY <4>1, <4>2
    <3>3. left' = listed' /\ stage' = stage
      BY <2>1 DEF PruneList
    <3>4. QED BY <1>3, <3>1, <3>2, <3>3 DEF ListsOK, ConnsOf
  <2>2. CASE ~PruneList
    <3>1. UNCHANGED <<stage, listed, left>>
      BY <2>2 DEF DryRun, NoteNewest, Settled, AllDeleted, Finish, Interrupted, PruneDone,
                  PruneSeen, Moves
    <3>2. QED BY <1>3, <3>1, ListsKept
  <2>3. QED BY <2>1, <2>2
<1>5. QED BY <1>1, <1>2, <1>4, TypePartsNext

LEMMA TypeTargets ==
  ASSUME DeletionAssumption, DeletionTypeOK, NEW t \in Targets,
         Find(t) \/ DeleteRows(t) \/ Sweep(t) \/ (\E c \in Conns : Destroy(t, c))
  PROVE  DeletionTypeOK'
<1> USE TypeParts
<1>1. t \in Ids
  BY Disjoint
<1>2. RowsOK'
  BY DEF Find, DeleteRows, Sweep, Destroy, Quits, In, tables, world, history, RowsOK
<1>3. LogOK'
  <2>1. log' \subseteq log /\ logged' = logged /\ top' = top /\ born' = born /\ cutoff' = cutoff
    BY DEF Find, DeleteRows, Sweep, Destroy, In, tables, world, history
  <2>2. QED BY <2>1, LogKept
<1>4. phase' = phase /\ stage' \in [Ids -> Stages]
  <2>1. phase' = phase /\ \E s \in Stages : stage' = stage \/ Sets(t, s)
    BY DEF Find, DeleteRows, Sweep, Destroy, In, Stages
  <2>2. QED BY <1>1, <2>1 DEF Sets, ListsOK
<1>5. ListsOK'
  <2>1. CASE Find(t)
    <3>1. PICK S \in SUBSET (ConnsOf(t) \cap Conns) :
            listed' = [listed EXCEPT ![t] = S] /\ left' = [left EXCEPT ![t] = S]
      <4>1. listed' = [listed EXCEPT ![t] = IF Exists(t) THEN ConnsOf(t) \cap conns ELSE {}]
            /\ left' = [left EXCEPT ![t] = listed'[t]]
        BY <2>1 DEF Find
      <4>2. (IF Exists(t) THEN ConnsOf(t) \cap conns ELSE {}) \in SUBSET (ConnsOf(t) \cap Conns)
        BY DEF RowsOK
      <4>3. listed'[t] = IF Exists(t) THEN ConnsOf(t) \cap conns ELSE {}
        BY <1>1, <4>1 DEF ListsOK
      <4>4. QED BY <4>1, <4>2, <4>3
    <3>2. QED BY <1>1, <1>4, <3>1 DEF ListsOK, ConnsOf
  <2>2. CASE ~Find(t)
    <3>1. listed' = listed /\ (left' = left \/ \E c \in Conns : left' = [left EXCEPT ![t] = @ \ {c}])
      BY <2>2 DEF DeleteRows, Sweep, Destroy, Targets
    <3>2. QED BY <1>1, <1>4, <3>1 DEF ListsOK, ConnsOf
  <2>3. QED BY <2>1, <2>2
<1>6. QED BY <1>2, <1>3, <1>5, TypePartsNext

LEMMA TypeConns ==
  ASSUME DeletionAssumption, DeletionTypeOK, Found, NEW c \in Conns,
         PruneBatch(c) \/ AddConnection(c) \/ LetThrough(c) \/ Mark(c) \/ Log(c)
  PROVE  DeletionTypeOK'
<1> USE TypeParts
<1>1. RowsOK'
  <2>1. CASE Mark(c)
    <3>1. c \in born
      BY <2>1 DEF Mark, Found
    <3>2. QED BY <2>1, <3>1 DEF Mark, history, tool, RowsOK
  <2>2. CASE ~Mark(c)
    BY <2>2 DEF PruneBatch, AddConnection, LetThrough, Log, In, tables, world, history, tool, RowsOK
  <2>3. QED BY <2>1, <2>2
<1>2. LogOK'
  <2>1. CASE Log(c)
    <3>1. top \in Nat /\ cutoff \in 0..top /\ top < MaxLog /\ top' = top + 1 /\ MaxLog \in Nat
      BY <2>1 DEF Log, LogOK, DeletionAssumption
    <3> DEFINE row == [id |-> top + 1, conn |-> c, late |-> Swept(c)]
    <3>2. /\ cutoff' = cutoff /\ born' = born
          /\ log' = log \cup {row} /\ logged' = logged \cup {row}
      BY <2>1 DEF Log, tool
    <3>3. Swept(c) \in BOOLEAN /\ c \in born
      BY <2>1 DEF Log, RowsOK, Swept
    <3>4. Row \subseteq Row' /\ row \in Row' /\ row.id = top + 1
      BY <3>1, <3>2, <3>3 DEF Row
    <3>5. \A r \in logged : r.id \in 1..top
      BY DEF LogOK, Row
    <3>6. \A r \in logged : r.id # top + 1
      BY <3>1, <3>5
    <3> HIDE DEF row
    <3>7. \A r, q \in logged' : r.id = q.id => r = q
      BY <3>2, <3>4, <3>6 DEF LogOK
    <3>8. top' \in 0..MaxLog /\ cutoff' \in 0..top'
      BY <3>1, <3>2
    <3>9. QED BY <3>2, <3>4, <3>7, <3>8 DEF LogOK
  <2>2. CASE ~Log(c)
    <3>1. log' \subseteq log /\ logged' = logged /\ top' = top /\ born \subseteq born'
          /\ cutoff' = cutoff
      BY <2>2 DEF PruneBatch, AddConnection, LetThrough, Mark, In, tables, world, history, tool
    <3>2. QED BY <3>1, LogKept
  <2>3. QED BY <2>1, <2>2
<1>3. ListsOK'
  <2>1. CASE PruneBatch(c)
    <3>1. phase' = phase /\ UNCHANGED <<stage, listed>> /\ \E S \in {left[c], {}} : left' = [left EXCEPT ![c] = S]
      BY <2>1 DEF PruneBatch, In
    <3>2. c \in Ids
      BY DEF Ids
    <3>3. QED BY <3>1, <3>2 DEF ListsOK, ConnsOf
  <2>2. CASE ~PruneBatch(c)
    <3>1. UNCHANGED tool
      BY <2>2 DEF AddConnection, LetThrough, Mark, Log
    <3>2. QED BY <3>1, ListsKept DEF tool, ListsOK
  <2>3. QED BY <2>1, <2>2
<1>4. QED BY <1>1, <1>2, <1>3, TypePartsNext

LEMMA TypeStep ==
  ASSUME DeletionAssumption, DeletionTypeOK, Found, [DeletionNext]_deletionVars
  PROVE  DeletionTypeOK'
<1>1. CASE UNCHANGED deletionVars
  BY <1>1 DEF deletionVars, tables, world, history, tool, DeletionTypeOK, ConnsOf
<1>2. CASE DeletionNext
  BY <1>2, TypeLists, TypeTargets, TypeConns DEF DeletionNext
<1>3. QED BY <1>1, <1>2

-----------------------------------------------------------------------------
(***************************************************************************)
(* The stages.                                                             *)
(***************************************************************************)
LEMMA SameCommand ==
  ASSUME DeletionNext
  PROVE  UNCHANGED <<command, Targets, Deletes>>
<1>1. command' = command
  BY DEF DeletionNext, Find, DeleteRows, Sweep, Destroy, DryRun, NoteNewest, Settled, AllDeleted,
         Finish, Interrupted, PruneList, PruneDone, PruneSeen, PruneBatch, AddConnection,
         LetThrough, Mark, Log, In, Moves, tool
<1>2. QED BY <1>1 DEF Targets, Deletes

LEMMA StepwisePhases ==
  ASSUME DeletionAssumption, IInv, DeletionNext,
         \/ DryRun \/ NoteNewest \/ Settled \/ AllDeleted \/ Finish \/ Interrupted
         \/ PruneDone \/ PruneSeen \/ PruneList
  PROVE  Stepwise'
<1> USE DEF IInv
<1>1. UNCHANGED <<command, Targets, Deletes, stage>>
  BY SameCommand DEF DryRun, NoteNewest, Settled, AllDeleted, Finish, Interrupted, PruneDone,
     PruneSeen, PruneList, Moves
<1>2. \A t \in Ids : stage[t] \in Stages
  BY DEF DeletionTypeOK, Ids
<1>3. \A t \in Ids : t \notin Targets => stage[t] = "out"
  BY DEF Stepwise
<1>4. CASE DryRun
  BY <1>1, <1>2, <1>4 DEF DryRun, Moves, Stepwise, Deleting
<1>5. CASE NoteNewest
  <2>1. phase = "list" /\ phase' = "destroy" /\ \A t \in Ids : stage[t] # "asked"
    BY <1>3, <1>5 DEF NoteNewest, Moves, None
  <2>2. cutoff' = IF command.name = "delete-users" THEN top ELSE 0
    BY <1>5 DEF NoteNewest
  <2>3. Deletes /\ command.delete
    BY <1>5 DEF NoteNewest
  <2>4. QED BY <1>1, <1>2, <2>1, <2>2, <2>3 DEF Stepwise, Deleting
<1>6. CASE Settled
  BY <1>1, <1>2, <1>6 DEF Settled, Moves, Stepwise, Deleting
<1>7. CASE AllDeleted
  <2>1. phase = "delete" /\ phase' = "sweep" /\ \A t \in Ids : stage[t] # "found"
    BY <1>3, <1>7 DEF AllDeleted, Moves, None
  <2>2. QED BY <1>1, <1>2, <1>7, <2>1 DEF AllDeleted, Stepwise, Deleting
<1>8. CASE Finish
  <2>1. phase = "sweep" /\ phase' = "done" /\ \A t \in Ids : stage[t] # "deleted"
    BY <1>3, <1>8 DEF Finish, Moves, None
  <2>2. QED BY <1>1, <1>2, <1>8, <2>1 DEF Finish, Stepwise, Deleting
<1>9. CASE Interrupted
  BY <1>1, <1>2, <1>9 DEF Interrupted, Stepwise, Deleting
<1>10. CASE PruneDone \/ PruneSeen \/ PruneList
  BY <1>1, <1>2, <1>10 DEF PruneDone, PruneSeen, PruneList, Moves, Stepwise, Deletes, Deleting
<1>11. QED
  BY <1>4, <1>5, <1>6, <1>7, <1>8, <1>9, <1>10

LEMMA StepwiseTargets ==
  ASSUME DeletionAssumption, IInv, DeletionNext, NEW t \in Targets,
         Find(t) \/ DeleteRows(t) \/ Sweep(t) \/ (\E c \in Conns : Destroy(t, c))
  PROVE  Stepwise'
<1> USE DEF IInv
<1>1. /\ UNCHANGED <<command, Targets, Deletes, phase, cutoff>>
      /\ t \in Ids /\ stage \in [Ids -> Stages]
  BY SameCommand, Disjoint DEF Find, DeleteRows, Sweep, Destroy, In, DeletionTypeOK, Ids
<1>2. \/ phase = "list" /\ Deletes /\ stage' \in {[stage EXCEPT ![t] = s] : s \in {"found", "skipped"}}
      \/ phase = "destroy" /\ stage' \in {[stage EXCEPT ![t] = s] : s \in {stage[t], "skipped"}}
      \/ phase = "delete" /\ stage' \in {[stage EXCEPT ![t] = s] : s \in {"deleted", "skipped"}}
      \/ phase = "sweep" /\ stage' = [stage EXCEPT ![t] = "swept"]
  <2>1. stage = [stage EXCEPT ![t] = stage[t]]
    BY <1>1
  <2>2. QED BY <2>1 DEF Find, DeleteRows, Sweep, Destroy, In, Sets
<1>3. phase \in Deleting => Deletes
  BY DEF Stepwise
<1>4. QED BY <1>1, <1>2, <1>3 DEF Stepwise, Deleting

LEMMA StepwiseStep ==
  ASSUME DeletionAssumption, IInv, DeletionNext
  PROVE  Stepwise'
<1>1. ASSUME NEW c \in Conns, PruneBatch(c) \/ AddConnection(c) \/ LetThrough(c) \/ Mark(c) \/ Log(c)
      PROVE  Stepwise'
  <2>1. UNCHANGED <<command, phase, cutoff, stage, Targets, Deletes>>
    BY <1>1, SameCommand DEF PruneBatch, AddConnection, LetThrough, Mark, Log, In, tool
  <2>2. QED BY <2>1 DEF IInv, Stepwise
<1>2. QED BY <1>1, StepwisePhases, StepwiseTargets DEF DeletionNext

-----------------------------------------------------------------------------
(***************************************************************************)
(* What has been looked up and destroyed.                                  *)
(***************************************************************************)
LEMMA FoundTargets ==
  ASSUME DeletionAssumption, IInv, DeletionNext, NEW t \in Targets,
         Find(t) \/ DeleteRows(t) \/ Sweep(t) \/ (\E c \in Conns : Destroy(t, c))
  PROVE  Found'
<1> USE DEF IInv
<1>1. /\ UNCHANGED <<command, Deletes, phase, born, request>>
      /\ t \in Ids /\ stage \in [Ids -> Stages]
      /\ listed \in [Ids -> SUBSET Conns] /\ left \in [Ids -> SUBSET Conns]
      /\ conns \subseteq born
  BY SameCommand, Disjoint
     DEF Find, DeleteRows, Sweep, Destroy, In, DeletionTypeOK, Ids, tables, world
<1>2. Deletes
  BY DEF Find, DeleteRows, Sweep, Destroy, In, Stepwise, Deleting
<1>3. CASE Find(t)
  <2>1. /\ phase = "list" /\ UNCHANGED up
        /\ stage' = [stage EXCEPT ![t] = IF Exists(t) THEN "found" ELSE "skipped"]
        /\ listed' = [listed EXCEPT ![t] = IF Exists(t) THEN ConnsOf(t) \cap conns ELSE {}]
        /\ left' = [left EXCEPT ![t] = listed'[t]]
    BY <1>3 DEF Find, In, Sets, world
  <2>2. listed'[t] \subseteq born /\ left'[t] = listed'[t]
    BY <1>1, <2>1
  <2>3. stage'[t] \in {"found", "skipped"} /\ (stage'[t] = "found" /\ t \in Conns => t \in listed'[t])
    <3>1. t \in Conns => t \notin Users
      BY Disjoint
    <3>2. listed'[t] = IF Exists(t) THEN ConnsOf(t) \cap conns ELSE {}
      BY <1>1, <2>1
    <3>3. stage'[t] = IF Exists(t) THEN "found" ELSE "skipped"
      BY <1>1, <2>1
    <3>4. Exists(t) /\ t \in Conns => t \in conns /\ t \in ConnsOf(t)
      BY <3>1 DEF Exists, ConnsOf
    <3>5. QED BY <3>2, <3>3, <3>4
  <2>4. \A u \in Ids \ {t} : stage'[u] = stage[u] /\ listed'[u] = listed[u] /\ left'[u] = left[u]
    BY <1>1, <2>1
  <2>5. \A u \in Ids : listed'[u] \subseteq born
    BY <2>2, <2>4 DEF Found
  <2>6. \A u \in Ids : stage'[u] \in {"found"} \cup Gone /\ u \in Conns => u \in listed'[u]
    BY <2>3, <2>4 DEF Found, Gone
  <2>7. \A u \in Ids : (listed'[u] \ left'[u]) \cap up = {}
    BY <1>2, <2>2, <2>4 DEF Found
  <2>8. \A u \in Ids : /\ stage'[u] \in {"out", "asked"} => listed'[u] = {}
                       /\ stage'[u] \in Gone => left'[u] = {}
    BY <1>2, <2>3, <2>4 DEF Found, Gone
  <2>9. command.name # "prune-seen"
    BY <1>2 DEF Deletes
  <2>10. QED BY <1>1, <1>2, <2>1, <2>5, <2>6, <2>7, <2>8, <2>9 DEF Found
<1>4. ASSUME NEW c \in Conns, Destroy(t, c)
      PROVE  Found'
  <2>1. /\ phase = "destroy" /\ UNCHANGED listed
        /\ \/ /\ left' = [left EXCEPT ![t] = @ \ {c}] /\ up' = up \ {c} /\ UNCHANGED stage
           \/ /\ UNCHANGED left /\ stage' = [stage EXCEPT ![t] = "skipped"]
              /\ up' \in {up, up \ {c}}
    BY <1>4 DEF Destroy, Quits, In, Sets
  <2>2. \A u \in Ids : /\ stage'[u] = stage[u] \/ stage'[u] = "skipped"
                       /\ left'[u] = left[u] \/ (left'[u] = left[u] \ {c} /\ up' = up \ {c})
    BY <1>1, <2>1
  <2>3. up' \subseteq up
    BY <2>1
  <2>4. \A u \in Ids : (listed[u] \ left'[u]) \cap up' = {}
    BY <1>2, <2>2, <2>3 DEF Found
  <2>5. \A u \in Ids : stage'[u] \in {"found"} \cup Gone /\ u \in Conns => u \in listed[u]
    BY <2>2 DEF Found, Gone
  <2>6. \A u \in Ids : /\ stage'[u] \in {"out", "asked"} => listed[u] = {}
                       /\ stage'[u] \in Gone => left'[u] = {}
    BY <1>2, <2>2 DEF Found, Gone
  <2>7. QED BY <1>1, <1>2, <2>1, <2>4, <2>5, <2>6 DEF Found
<1>5. CASE DeleteRows(t) \/ Sweep(t)
  <2>1. /\ phase \in {"delete", "sweep"} /\ UNCHANGED <<listed, left, up>>
        /\ \/ phase = "delete" /\ stage[t] = "found"
           \/ stage[t] = "deleted"
        /\ stage' \in {[stage EXCEPT ![t] = s] : s \in Gone \cup {"skipped"}}
    BY <1>5 DEF DeleteRows, Sweep, In, Sets, world, Gone
  <2>2. left[t] = {} /\ (t \in Conns => t \in listed[t])
    BY <1>1, <1>2, <2>1 DEF Found, Gone
  <2>3. /\ \A u \in Ids \ {t} : stage'[u] = stage[u]
        /\ stage'[t] \in Gone \cup {"skipped"}
    BY <1>1, <2>1
  <2>4. \A u \in Ids : stage'[u] \in {"found"} \cup Gone /\ u \in Conns => u \in listed[u]
    BY <2>2, <2>3 DEF Found, Gone
  <2>5. \A u \in Ids : /\ stage'[u] \in {"out", "asked"} => listed[u] = {}
                       /\ stage'[u] \in Gone => left[u] = {}
                       /\ phase = "delete" /\ stage'[u] = "found" => left[u] = {}
    BY <1>2, <2>2, <2>3 DEF Found, Gone
  <2>6. QED BY <1>1, <1>2, <2>1, <2>4, <2>5 DEF Found
<1>6. QED BY <1>3, <1>4, <1>5

LEMMA FoundPhases ==
  ASSUME DeletionAssumption, IInv, DeletionNext,
         \/ DryRun \/ NoteNewest \/ Settled \/ AllDeleted \/ Finish \/ Interrupted
         \/ PruneDone \/ PruneSeen \/ PruneList
  PROVE  Found'
<1> USE DEF IInv
<1>1. UNCHANGED <<command, Deletes, stage, up, request, born>> /\ phase' # "list"
  BY SameCommand DEF DryRun, NoteNewest, Settled, AllDeleted, Finish, Interrupted, PruneDone,
     PruneSeen, PruneList, Moves, world
<1>2. CASE PruneList
  <2>1. ~Deletes /\ command.name = "prune-logs"
    BY <1>2 DEF PruneList, Deletes
  <2>2. \A t \in Ids : listed'[t] \subseteq born
    <3>1. \A r \in log : r.conn \in born
      BY LogRows
    <3>2. listed' = [t \in Ids |-> {c \in {t} : (\E r \in log : r.conn = c) /\ c \notin conns}]
      BY <1>2 DEF PruneList, Ids
    <3>3. QED BY <3>1, <3>2
  <2>3. \A t \in Ids : stage[t] \in {"out", "asked"}
    BY <2>1 DEF Stepwise
  <2>4. QED BY <1>1, <2>1, <2>2, <2>3 DEF Found, Gone
<1>3. CASE ~PruneList
  <2>1. UNCHANGED <<listed, left>>
    BY <1>3 DEF DryRun, NoteNewest, Settled, AllDeleted, Finish, Interrupted, PruneDone,
       PruneSeen, Moves
  <2>2. phase' = "delete" => \A t \in Ids : stage[t] = "found" => left[t] = {}
    <3>1. phase' = "delete" => Settled
      BY <1>3 DEF DryRun, NoteNewest, Settled, AllDeleted, Finish, Interrupted, PruneDone,
         PruneSeen, Moves
    <3>2. \A t \in Ids : t \notin Targets => stage[t] = "out"
      BY DEF Stepwise
    <3>3. QED BY <3>1, <3>2 DEF Settled
  <2>3. QED BY <1>1, <2>1, <2>2 DEF Found
<1>4. QED BY <1>2, <1>3

LEMMA FoundConns ==
  ASSUME DeletionAssumption, IInv, DeletionNext, NEW c \in Conns,
         PruneBatch(c) \/ AddConnection(c) \/ LetThrough(c) \/ Mark(c) \/ Log(c)
  PROVE  Found'
<1> USE DEF IInv
<1>1. UNCHANGED <<command, Deletes, phase, stage, listed>>
  BY SameCommand DEF PruneBatch, AddConnection, LetThrough, Mark, Log, In, tool
<1>2. \/ UNCHANGED <<born, up>>
      \/ c \notin born /\ born' = born \cup {c} /\ up' = up \cup {c}
  BY DEF PruneBatch, AddConnection, LetThrough, Mark, Log, world
<1>3. Deletes => UNCHANGED left
  BY DEF PruneBatch, AddConnection, LetThrough, Mark, Log, In, tool, Stepwise, Deletes
<1>4. \A d \in Conns : request'[d] # "none" => d \in born'
  <2>1. CASE LetThrough(c)
    <3>1. c \in born /\ born' = born /\ request' = [request EXCEPT ![c] = "let through"]
      BY <2>1 DEF LetThrough, DeletionTypeOK
    <3>2. request \in [Conns -> {"none", "let through", "done", "late"}]
      BY DEF DeletionTypeOK
    <3>3. QED BY <3>1, <3>2 DEF Found
  <2>2. CASE Mark(c)
    <3>1. /\ born' = born /\ request[c] # "none"
          /\ request' = [request EXCEPT ![c] = IF c \in conns THEN "done" ELSE "late"]
      BY <2>2 DEF Mark
    <3>2. request \in [Conns -> {"none", "let through", "done", "late"}]
      BY DEF DeletionTypeOK
    <3>3. QED BY <3>1, <3>2 DEF Found
  <2>3. CASE ~LetThrough(c) /\ ~Mark(c)
    <3>1. UNCHANGED request /\ born \subseteq born'
      BY <2>3 DEF PruneBatch, AddConnection, Log, world
    <3>2. QED BY <3>1 DEF Found
  <2>4. QED BY <2>1, <2>2, <2>3
<1>5. \A t \in Ids : listed[t] \subseteq born
  BY DEF Found
<1>6. Deletes => \A t \in Ids : (listed[t] \ left[t]) \cap up' = {}
  BY <1>2, <1>5 DEF Found
<1>7. QED BY <1>1, <1>2, <1>3, <1>4, <1>6 DEF Found

LEMMA FoundStep ==
  ASSUME DeletionAssumption, IInv, DeletionNext
  PROVE  Found'
BY FoundTargets, FoundPhases, FoundConns DEF DeletionNext

-----------------------------------------------------------------------------
(***************************************************************************)
(* All of a target goes, or none of it.                                    *)
(***************************************************************************)
\* The two halves of AllOrNothing.
Whole  == Deletes => \A t \in Targets : stage[t] \in Gone => DeletedWhole(t)
Others == Deletes => /\ users = Users \ Deleted
                     /\ \A c \in Conns \ Taken : KeptWhole(c)

LEMMA WholeParts == AllOrNothing <=> Whole /\ Others
BY DEF AllOrNothing, Whole, Others, Deleted

LEMMA WholePartsNext ==
  ASSUME Whole', Others'
  PROVE  AllOrNothing'
BY DEF AllOrNothing, Whole, Others, Deleted

LEMMA WholeNext ==
  ASSUME Deletes => \A t \in Targets : stage'[t] \in Gone => DeletedWhole(t)',
         UNCHANGED <<Targets, Deletes>>
  PROVE  Whole'
BY DEF Whole, Gone

LEMMA WholeTargets ==
  ASSUME DeletionAssumption, IInv, DeletionNext, NEW t \in Targets,
         Find(t) \/ DeleteRows(t) \/ Sweep(t) \/ (\E c \in Conns : Destroy(t, c))
  PROVE  Whole'
<1> USE DEF IInv
<1>1. /\ UNCHANGED <<command, Targets, Deletes, phase, cutoff, request>>
      /\ t \in Ids /\ Targets \subseteq Ids /\ stage \in [Ids -> Stages]
      /\ listed \in [Ids -> SUBSET Conns]
      /\ \A u \in Ids : listed[u] \subseteq ConnsOf(u)
  BY SameCommand, Disjoint
     DEF Find, DeleteRows, Sweep, Destroy, In, DeletionTypeOK, Ids, tables, world
<1>2. Deletes /\ \A u \in Targets : stage[u] \in Gone => DeletedWhole(u)
  BY WholeParts DEF Whole, Find, DeleteRows, Sweep, Destroy, In, Stepwise, Deleting
<1>3. CASE Find(t)
  <2>1. /\ stage' \in {[stage EXCEPT ![t] = "found"], [stage EXCEPT ![t] = "skipped"]}
        /\ listed' = [listed EXCEPT ![t] = IF Exists(t) THEN ConnsOf(t) \cap conns ELSE {}]
        /\ stage[t] = "asked"
        /\ UNCHANGED <<users, conns, seen, private, log, up>>
    BY <1>3 DEF Find, Sets, tables, world
  <2>2. stage'[t] \notin Gone
    BY <1>1, <2>1 DEF Gone
  <2>3. ASSUME NEW u \in Targets, u # t
        PROVE  stage'[u] \in Gone => DeletedWhole(u)'
    <3>1. stage'[u] = stage[u] /\ listed'[u] = listed[u]
      BY <1>1, <2>1, <2>3
    <3>2. QED BY <1>1, <1>2, <2>1, <3>1 DEF DeletedWhole, ConnsOf
  <2>4. QED BY <1>1, <2>2, <2>3, WholeNext
<1>4. ASSUME NEW c \in Conns, Destroy(t, c)
      PROVE  Whole'
  <2>1. /\ stage' \in {stage, [stage EXCEPT ![t] = "skipped"]}
        /\ up' \subseteq up /\ stage[t] = "found"
        /\ UNCHANGED <<users, conns, seen, private, log, listed>>
    BY <1>4 DEF Destroy, Quits, Sets, tables
  <2>2. ASSUME NEW u \in Targets
        PROVE  stage'[u] \in Gone => DeletedWhole(u)'
    <3>1. stage'[u] \in Gone <=> stage[u] \in Gone
      BY <1>1, <2>1 DEF Gone
    <3>2. QED BY <1>1, <1>2, <2>1, <3>1 DEF DeletedWhole, ConnsOf
  <2>3. QED BY <1>1, <2>2, WholeNext
<1>5. CASE Sweep(t)
  <2>1. /\ stage' = [stage EXCEPT ![t] = "swept"] /\ log' \subseteq log /\ stage[t] = "deleted"
        /\ UNCHANGED <<users, conns, seen, private, listed, up>>
    BY <1>5 DEF Sweep, Sets, tables, world
  <2>2. ASSUME NEW u \in Targets
        PROVE  stage'[u] \in Gone => DeletedWhole(u)'
    <3>1. stage'[u] \in Gone <=> stage[u] \in Gone
      BY <1>1, <2>1 DEF Gone
    <3>2. QED BY <1>1, <1>2, <2>1, <3>1 DEF DeletedWhole, ConnsOf
  <2>3. QED BY <1>1, <2>2, WholeNext
<1>6. CASE DeleteRows(t)
  <2>1. phase = "delete" /\ stage[t] = "found" /\ UNCHANGED <<listed, up>>
    BY <1>6 DEF DeleteRows, In, world
  <2>2. CASE stage' = [stage EXCEPT ![t] = "skipped"] /\ UNCHANGED <<tables, log>>
    <3>1. ASSUME NEW u \in Targets
          PROVE  stage'[u] \in Gone => DeletedWhole(u)'
      <4>1. stage'[u] \in Gone <=> stage[u] \in Gone
        BY <1>1, <2>1, <2>2 DEF Gone
      <4>2. QED BY <1>1, <1>2, <2>1, <2>2, <4>1 DEF DeletedWhole, ConnsOf, tables
    <3>2. QED BY <1>1, <3>1, WholeNext
  <2>3. CASE stage' = [stage EXCEPT ![t] = "deleted"] /\ users' = users \ {t}
    <3> DEFINE gone == IF t \in Users THEN ConnsOf(t) ELSE listed[t]
    <3>1. /\ log' = {r \in log : r.conn \notin listed[t]}
          /\ seen' = seen \ gone
          /\ private' = private \ listed[t]
          /\ conns' = conns \ gone
      <4>1. stage' # [stage EXCEPT ![t] = "skipped"]
        BY <1>1, <2>3
      <4>2. QED BY <1>6, <4>1 DEF DeleteRows, Sets
    <3>2. listed[t] \subseteq gone /\ gone \subseteq ConnsOf(t)
      BY <1>1
    <3> HIDE DEF gone
    <3>3. ConnsOf(t) \cap conns' = {} /\ t \notin users' \cup conns'
      <4>1. CASE t \in Users
        <5>1. gone = ConnsOf(t) /\ t \notin Conns
          BY <4>1, Disjoint DEF gone
        <5>2. conns \subseteq Conns
          BY DEF DeletionTypeOK
        <5>3. QED BY <2>3, <3>1, <5>1, <5>2
      <4>2. CASE t \notin Users
        <5>1. t \in Conns /\ ConnsOf(t) = {t} /\ t \in listed[t]
          BY <1>1, <2>1, <4>2 DEF ConnsOf, Found, Ids
        <5>2. users \subseteq Users
          BY DEF DeletionTypeOK
        <5>3. QED BY <3>1, <3>2, <4>2, <5>1, <5>2, <2>3
      <4>3. QED BY <4>1, <4>2
    <3>4. listed[t] \cap up = {}
      <4>1. (listed[t] \ left[t]) \cap up = {} /\ left[t] = {}
        BY <1>1, <1>2, <2>1 DEF Found
      <4>2. QED BY <4>1
    <3>5. DeletedWhole(t)' /\ stage'[t] \in Gone
      <4>1. (seen' \cup private') \cap listed[t] = {}
        BY <3>1, <3>2
      <4>2. \A r \in log' : r.conn \notin listed[t]
        BY <3>1
      <4>3. stage'[t] \in Gone
        BY <1>1, <2>3 DEF Gone
      <4>4. QED BY <1>1, <2>1, <3>3, <3>4, <4>1, <4>2, <4>3 DEF DeletedWhole, ConnsOf
    <3>6. ASSUME NEW u \in Targets, u # t
          PROVE  stage'[u] \in Gone => DeletedWhole(u)'
      <4>1. stage'[u] = stage[u]
        BY <1>1, <2>3, <3>6
      <4>2. CASE stage[u] \in Gone
        <5>1. DeletedWhole(u)
          BY <1>2, <4>2
        <5>2. users' \subseteq users /\ conns' \subseteq conns /\ log' \subseteq log
              /\ seen' \cup private' \subseteq seen \cup private
          BY <2>3, <3>1
        <5>3. DeletedWhole(u)'
          BY <1>1, <2>1, <5>1, <5>2 DEF DeletedWhole, ConnsOf
        <5>4. QED BY <5>3
      <4>3. QED BY <4>1, <4>2
    <3>7. QED BY <1>1, <3>5, <3>6, WholeNext
  <2>4. QED BY <1>6, <2>2, <2>3 DEF DeleteRows, Sets
<1>7. QED BY <1>3, <1>4, <1>5, <1>6

LEMMA WholePhases ==
  ASSUME DeletionAssumption, IInv, DeletionNext,
         \/ DryRun \/ NoteNewest \/ Settled \/ AllDeleted \/ Finish \/ Interrupted
         \/ PruneDone \/ PruneSeen \/ PruneList
  PROVE  Whole'
<1> USE DEF IInv
<1>1. UNCHANGED <<command, Targets, Deletes, stage, up, request, log>>
  BY SameCommand DEF DryRun, NoteNewest, Settled, AllDeleted, Finish, Interrupted, PruneDone,
     PruneSeen, PruneList, Moves, world
<1>2. CASE Deletes
  <2>1. UNCHANGED <<users, conns, seen, private, listed>>
    BY <1>2 DEF DryRun, NoteNewest, Settled, AllDeleted, Finish, Interrupted, PruneDone,
       PruneSeen, PruneList, Moves, tables, Deletes
  <2>2. cutoff' = cutoff \/ \A t \in Ids : stage[t] \notin Gone
    <3>1. cutoff' = cutoff \/ phase = "list"
      BY <1>2 DEF DryRun, NoteNewest, Settled, AllDeleted, Finish, Interrupted, PruneDone,
         PruneSeen, PruneList, Moves
    <3>2. QED BY <3>1 DEF Stepwise, Gone
  <2>3. ASSUME NEW t \in Targets
        PROVE  stage'[t] \in Gone => DeletedWhole(t)'
    <3>1. stage[t] \in Gone => DeletedWhole(t)
      BY <1>2, WholeParts DEF Whole
    <3>2. t \in Ids
      BY Disjoint
    <3>3. QED BY <1>1, <2>1, <2>2, <3>1, <3>2 DEF DeletedWhole, ConnsOf
  <2>4. QED BY <1>1, <2>3, WholeNext
<1>3. CASE ~Deletes
  BY <1>1, <1>3 DEF Whole
<1>4. QED BY <1>2, <1>3

LEMMA WholeConns ==
  ASSUME DeletionAssumption, IInv, DeletionNext, NEW c \in Conns,
         PruneBatch(c) \/ AddConnection(c) \/ LetThrough(c) \/ Mark(c) \/ Log(c)
  PROVE  Whole'
<1> USE DEF IInv
<1>1. UNCHANGED <<command, Targets, Deletes, stage, listed, cutoff, users>>
  BY SameCommand DEF PruneBatch, AddConnection, LetThrough, Mark, Log, In, tables, tool
<1>2. SUFFICES ASSUME Deletes, NEW t \in Targets
               PROVE  stage[t] \in Gone => DeletedWhole(t)'
  BY <1>1, WholeNext
<1>3. ~PruneBatch(c)
  BY <1>2 DEF PruneBatch, In, Stepwise, Deletes
<1>4. stage[t] \in Gone => DeletedWhole(t)
  BY <1>2, WholeParts DEF Whole
<1>5. /\ t \in Ids /\ listed[t] \subseteq born /\ listed[t] \subseteq ConnsOf(t)
      /\ request \in [Conns -> {"none", "let through", "done", "late"}]
      /\ listed[t] \subseteq Conns
  BY Disjoint DEF Found, DeletionTypeOK, Ids
<1>6. CASE stage[t] \in Gone
  <2> DEFINE Rows == \A r \in log : r.conn \in listed[t] => r.id > cutoff
             Marks == \A d \in (seen \cup private) \cap listed[t] : request[d] = "late"
  <2>1. /\ t \notin users \cup conns /\ conns \cap ConnsOf(t) = {}
        /\ listed[t] \cap up = {} /\ Rows /\ Marks
    BY <1>4, <1>6 DEF DeletedWhole
  <2>2. SUFFICES /\ t \notin conns' /\ conns' \cap ConnsOf(t) = {}
                 /\ listed[t] \cap up' = {} /\ Rows' /\ Marks'
    BY <1>1, <1>6, <2>1 DEF DeletedWhole, ConnsOf
  <2>3. CASE AddConnection(c)
    <3>1. /\ c \notin born /\ OwnerOf[c] \in users
          /\ conns' = conns \cup {c} /\ up' = up \cup {c}
          /\ UNCHANGED <<log, seen, private, request>>
      BY <2>3 DEF AddConnection
    <3>2. t # c /\ c \notin ConnsOf(t)
      <4>1. t \in Conns => t \in listed[t]
        BY <1>5, <1>6 DEF Found
      <4>2. t # c
        BY <1>5, <3>1, <4>1
      <4>3. c \notin ConnsOf(t)
        BY <2>1, <3>1, <4>2 DEF ConnsOf
      <4>4. QED BY <4>2, <4>3
    <3>3. c \notin listed[t]
      BY <1>5, <3>1
    <3>4. Rows' /\ Marks'
      BY <1>1, <2>1, <3>1
    <3>5. QED BY <2>1, <3>1, <3>2, <3>3, <3>4
  <2>4. CASE LetThrough(c)
    <3>1. UNCHANGED <<conns, up, log, seen, private>> /\ \A d \in Conns : request[d] = "none"
      BY <2>4 DEF LetThrough, tables
    <3>2. (seen \cup private) \cap listed[t] = {}
      BY <1>5, <2>1, <3>1
    <3>3. QED BY <1>1, <2>1, <3>1, <3>2
  <2>5. CASE Mark(c)
    <3>1. /\ UNCHANGED <<conns, up, log>>
          /\ request' = [request EXCEPT ![c] = IF c \in conns THEN "done" ELSE "late"]
          /\ seen' \cup private' = (seen \cup private) \cup {c}
      BY <2>5 DEF Mark
    <3>2. c \in listed[t] => c \notin conns
      BY <1>5, <2>1
    <3>3. ASSUME NEW d \in (seen' \cup private') \cap listed[t]
          PROVE  request'[d] = "late"
      BY <1>5, <2>1, <3>1, <3>2
    <3>4. QED BY <1>1, <2>1, <3>1, <3>3
  <2>6. CASE Log(c)
    <3>1. /\ UNCHANGED <<conns, up, seen, private, request>>
          /\ log' = log \cup {[id |-> top + 1, conn |-> c, late |-> Swept(c)]}
      BY <2>6 DEF Log, tables
    <3>2. top + 1 > cutoff
      <4>1. cutoff \in 0..top /\ top \in Nat
        BY TypeParts DEF LogOK, DeletionAssumption
      <4>2. QED BY <4>1
    <3>3. ASSUME NEW r \in log', r.conn \in listed[t]
          PROVE  r.id > cutoff
      BY <2>1, <3>1, <3>2, <3>3
    <3>4. Rows'
      BY <1>1, <3>3
    <3>5. QED BY <1>1, <2>1, <3>1, <3>4
  <2>7. QED BY <1>3, <2>3, <2>4, <2>5, <2>6
<1>7. QED BY <1>6

-----------------------------------------------------------------------------
(***************************************************************************)
(* And nobody else's rows go.                                              *)
(***************************************************************************)
LEMMA OthersNext ==
  ASSUME Others, UNCHANGED Deletes, Taken \subseteq Taken',
         Deletes => /\ users' = Users \ Deleted'
                    /\ \A d \in Conns \ Taken' : KeptWhole(d) => KeptWhole(d)'
  PROVE  Others'
BY DEF Others

LEMMA OthersSame ==
  ASSUME Others, UNCHANGED <<Deletes, Deleted>>,
         Deletes => UNCHANGED <<tables, log, history, born, request>>
  PROVE  Others'
<1>1. Taken' = Taken
  BY DEF Taken, ConnsOf
<1>2. ASSUME Deletes, NEW d \in Conns, KeptWhole(d)
      PROVE  KeptWhole(d)'
  BY <1>2 DEF KeptWhole, tables, history
<1>3. Deletes => users' = Users \ Deleted'
  BY DEF Others, tables
<1>4. QED BY <1>1, <1>2, <1>3, OthersNext

LEMMA OthersTargets ==
  ASSUME DeletionAssumption, IInv, DeletionNext, NEW t \in Targets,
         Find(t) \/ DeleteRows(t) \/ Sweep(t) \/ (\E c \in Conns : Destroy(t, c))
  PROVE  Others'
<1> USE DEF IInv
<1>1. /\ UNCHANGED <<Targets, Deletes, born, history, request>>
      /\ Targets \subseteq Ids /\ stage \in [Ids -> Stages]
      /\ listed[t] \subseteq ConnsOf(t) /\ ConnsOf(t) \subseteq Conns
      /\ Others
  BY SameCommand, Disjoint, WholeParts
     DEF Find, DeleteRows, Sweep, Destroy, DeletionTypeOK, Ids, world
<1>2. Deletes
  BY DEF Find, DeleteRows, Sweep, Destroy, In, Stepwise, Deleting
<1>3. ASSUME NEW s \in {"found", "skipped", "out"}, stage[t] \notin Gone, UNCHANGED <<tables, log>>,
             stage' = [stage EXCEPT ![t] = s] \/ stage' = stage
      PROVE  Others'
  <2>1. \A u \in Targets : stage'[u] \in Gone <=> stage[u] \in Gone
    BY <1>1, <1>3 DEF Gone
  <2>2. Deleted' = Deleted
    BY <1>1, <2>1 DEF Deleted, Gone
  <2>3. QED BY <1>1, <1>3, <2>2, OthersSame
<1>4. CASE Find(t) \/ \E c \in Conns : Destroy(t, c)
  <2>1. /\ stage[t] \in {"asked", "found"} /\ UNCHANGED <<tables, log>>
        /\ \E s \in {"found", "skipped", "out"} :
             stage' = [stage EXCEPT ![t] = s] \/ stage' = stage
    BY <1>4 DEF Find, Destroy, Sets
  <2>2. stage[t] \notin Gone
    BY <2>1 DEF Gone
  <2>3. QED BY <1>3, <2>1, <2>2
<1>5. CASE Sweep(t)
  <2>1. /\ stage' = [stage EXCEPT ![t] = "swept"] /\ stage[t] = "deleted"
        /\ \A r \in log : r.conn \notin listed[t] => r \in log'
        /\ UNCHANGED tables
    BY <1>5 DEF Sweep, Sets
  <2>2. \A u \in Targets : stage'[u] \in Gone <=> stage[u] \in Gone
    BY <1>1, <2>1 DEF Gone
  <2>3. Deleted' = Deleted
    BY <1>1, <2>2 DEF Deleted, Gone
  <2>4. Taken' = Taken
    BY <2>3 DEF Taken, ConnsOf
  <2>5. listed[t] \subseteq Taken
    BY <1>1, <2>1 DEF Taken, Deleted, Gone
  <2>6. ASSUME NEW d \in Conns \ Taken, KeptWhole(d)
        PROVE  KeptWhole(d)'
    BY <1>1, <2>1, <2>5, <2>6 DEF KeptWhole, tables, history
  <2>7. users' = Users \ Deleted'
    BY <1>1, <1>2, <2>1, <2>3 DEF Others, tables
  <2>8. QED BY <1>1, <2>4, <2>6, <2>7, OthersNext
<1>6. CASE DeleteRows(t)
  <2>1. stage[t] = "found" /\ stage[t] \notin Gone
    BY <1>6 DEF DeleteRows, Gone
  <2>2. CASE Sets(t, "skipped") /\ UNCHANGED <<tables, log>>
    BY <1>3, <2>1, <2>2 DEF Sets
  <2>3. CASE ~(Sets(t, "skipped") /\ UNCHANGED <<tables, log>>)
    <3> DEFINE gone == IF t \in Users THEN ConnsOf(t) ELSE listed[t]
    <3>1. /\ log' = {r \in log : r.conn \notin listed[t]}
          /\ seen' = seen \ gone
          /\ private' = private \ listed[t]
          /\ users' = users \ {t}
          /\ conns' = conns \ gone
          /\ stage' = [stage EXCEPT ![t] = "deleted"]
      BY <1>6, <2>3 DEF DeleteRows, Sets
    <3>2. gone \subseteq ConnsOf(t)
      BY <1>1
    <3> HIDE DEF gone
    <3>3. Deleted' = Deleted \cup {t}
      <4>1. \A u \in Targets : stage'[u] \in Gone <=> u = t \/ stage[u] \in Gone
        BY <1>1, <3>1 DEF Gone
      <4>2. QED BY <1>1, <4>1 DEF Deleted, Gone
    <3>4. Taken \subseteq Taken' /\ ConnsOf(t) \subseteq Taken'
      BY <3>3 DEF Taken, ConnsOf
    <3>5. users' = Users \ Deleted'
      BY <1>1, <1>2, <3>1, <3>3 DEF Others
    <3>6. ASSUME NEW d \in Conns \ Taken', KeptWhole(d)
          PROVE  KeptWhole(d)'
      <4>1. d \notin gone /\ d \notin listed[t]
        BY <1>1, <3>2, <3>4
      <4>2. \A r \in logged : r.conn = d => r \in log'
        BY <3>1, <3>6, <4>1 DEF KeptWhole
      <4>3. QED BY <1>1, <3>1, <3>6, <4>1, <4>2 DEF KeptWhole, history
    <3>7. QED BY <1>1, <3>4, <3>5, <3>6, OthersNext
  <2>4. QED BY <2>2, <2>3
<1>7. QED BY <1>4, <1>5, <1>6

LEMMA OthersPhases ==
  ASSUME DeletionAssumption, IInv, DeletionNext,
         \/ DryRun \/ NoteNewest \/ Settled \/ AllDeleted \/ Finish \/ Interrupted
         \/ PruneDone \/ PruneSeen \/ PruneList
  PROVE  Others'
<1>1. UNCHANGED <<Targets, Deletes, stage, log, history, born, request>>
  BY SameCommand DEF DryRun, NoteNewest, Settled, AllDeleted, Finish, Interrupted, PruneDone,
     PruneSeen, PruneList, Moves, world
<1>2. Deletes => UNCHANGED tables
  BY DEF DryRun, NoteNewest, Settled, AllDeleted, Finish, Interrupted, PruneDone,
     PruneSeen, PruneList, Moves, Deletes
<1>3. Deleted' = Deleted
  BY <1>1 DEF Deleted, Gone
<1>4. QED BY <1>1, <1>2, <1>3, OthersSame, WholeParts DEF IInv

LEMMA OthersConns ==
  ASSUME DeletionAssumption, IInv, DeletionNext, NEW c \in Conns,
         PruneBatch(c) \/ AddConnection(c) \/ LetThrough(c) \/ Mark(c) \/ Log(c)
  PROVE  Others'
<1> USE DEF IInv
<1>1. /\ UNCHANGED <<Targets, Deletes, stage, users, rowless>> /\ Others
      /\ request \in [Conns -> {"none", "let through", "done", "late"}]
  BY SameCommand, WholeParts
     DEF PruneBatch, AddConnection, LetThrough, Mark, Log, In, tables, world, history, tool, DeletionTypeOK
<1>2. Deleted' = Deleted
  BY <1>1 DEF Deleted, Gone
<1>3. Taken' = Taken
  BY <1>2 DEF Taken, ConnsOf
<1>4. Deletes => ~PruneBatch(c)
  BY DEF PruneBatch, In, Stepwise, Deletes
<1>5. ASSUME Deletes, NEW d \in Conns, KeptWhole(d)
      PROVE  KeptWhole(d)'
  <2>1. CASE AddConnection(c)
    <3>1. /\ born' = born \cup {c} /\ conns' = conns \cup {c}
          /\ UNCHANGED <<seen, private, request, log, logged, rowless>>
      BY <2>1 DEF AddConnection, history
    <3>2. QED BY <1>5, <3>1 DEF KeptWhole
  <2>2. CASE LetThrough(c)
    <3>1. /\ request' = [request EXCEPT ![c] = "let through"]
          /\ UNCHANGED <<born, conns, seen, private, log, logged, rowless>>
      BY <2>2 DEF LetThrough, history, tables
    <3>2. request'[d] = "done" => request[d] = "done"
      BY <1>1, <3>1
    <3>3. QED BY <1>5, <3>1, <3>2 DEF KeptWhole
  <2>3. CASE Mark(c)
    <3>1. /\ request' = [request EXCEPT ![c] = IF c \in conns THEN "done" ELSE "late"]
          /\ seen \subseteq seen' /\ private \subseteq private' /\ c \in seen' \cup private'
          /\ UNCHANGED <<born, conns, log, logged, rowless>>
      BY <2>3 DEF Mark, history
    <3>2. d # c => request'[d] = request[d]
      BY <1>1, <3>1
    <3>3. QED BY <1>5, <3>1, <3>2 DEF KeptWhole
  <2>4. CASE Log(c)
    <3>1. /\ UNCHANGED <<tables, born, request, rowless>>
          /\ \E row : log' = log \cup {row} /\ logged' = logged \cup {row}
      BY <2>4 DEF Log
    <3>2. QED BY <1>5, <3>1 DEF KeptWhole, tables
  <2>5. QED BY <1>4, <1>5, <2>1, <2>2, <2>3, <2>4
<1>6. Deletes => users' = Users \ Deleted'
  BY <1>1, <1>2 DEF Others
<1>7. QED BY <1>1, <1>3, <1>5, <1>6, OthersNext

-----------------------------------------------------------------------------
(***************************************************************************)
(* Rows that are left came later.                                          *)
(***************************************************************************)
LEMMA LateOfDeleted ==
  ASSUME DeletionAssumption, IInv, DeletionNext, Deletes
  PROVE  LateOnly'
<1> USE DEF IInv
<1>1. Deletes' /\ UNCHANGED <<command, Targets>>
  BY SameCommand
<1>2. SUFFICES ASSUME NEW u \in Ids, stage'[u] = "swept", NEW r \in log', r.conn \in listed'[u]
               PROVE  r.late
  BY <1>1 DEF LateOnly
<1>3. stage \in [Ids -> Stages] /\ listed \in [Ids -> SUBSET Conns] /\ Targets \subseteq Ids
  BY Disjoint DEF DeletionTypeOK, Ids
<1>4. CASE stage[u] = "swept" /\ listed'[u] = listed[u] /\ r \in log
  BY <1>2, <1>4 DEF LateOnly
<1>5. ASSUME NEW t \in Targets,
             Find(t) \/ DeleteRows(t) \/ Sweep(t) \/ (\E c \in Conns : Destroy(t, c))
      PROVE  r.late
  <2>1. log' \subseteq log
    BY <1>5 DEF Find, DeleteRows, Sweep, Destroy
  <2>2. CASE u # t \/ ~Sweep(t)
    <3>1. \E s \in {"found", "skipped", "deleted", stage[t]} :
            ~Sweep(t) => stage' = [stage EXCEPT ![t] = s]
      BY <1>3, <1>5 DEF Find, DeleteRows, Destroy, Sets
    <3>2. Sweep(t) => stage' = [stage EXCEPT ![t] = "swept"]
      BY DEF Sweep, Sets
    <3>3. stage[u] = "swept"
      BY <1>2, <1>3, <2>2, <3>1, <3>2
    <3>4. listed'[u] = listed[u]
      <4>1. Find(t) => u # t /\ \E S : listed' = [listed EXCEPT ![t] = S]
        BY <3>3 DEF Find
      <4>2. ~Find(t) => listed' = listed
        BY <1>5 DEF DeleteRows, Sweep, Destroy
      <4>3. QED BY <1>3, <4>1, <4>2
    <3>5. QED BY <1>2, <1>4, <2>1, <3>3, <3>4
  <2>3. CASE u = t /\ Sweep(t)
    <3>1. r \in log /\ r.conn \in listed[t] /\ ~(r.id > cutoff)
      BY <1>2, <2>3 DEF Sweep
    <3>2. stage[t] = "deleted" /\ listed'[t] = listed[t]
      BY <2>3 DEF Sweep
    <3>3. \A q \in log : q.conn \in listed[t] => q.id > cutoff
      BY <2>3, <3>2 DEF AllOrNothing, Deleted, Gone, DeletedWhole
    <3>4. QED BY <3>1, <3>3
  <2>4. QED BY <1>5, <2>2, <2>3
<1>6. ASSUME NEW c \in Conns, Log(c)
      PROVE  r.late
  <2>1. /\ UNCHANGED <<stage, listed>>
        /\ log' = log \cup {[id |-> top + 1, conn |-> c, late |-> Swept(c)]}
    BY <1>6 DEF Log, tool
  <2>2. u \in Targets
    BY <1>2, <2>1 DEF Stepwise
  <2>3. CASE r \in log
    BY <1>2, <1>4, <2>1, <2>3
  <2>4. CASE r \notin log
    <3>1. r = [id |-> top + 1, conn |-> c, late |-> Swept(c)]
      BY <1>2, <2>1, <2>4
    <3>2. Swept(c)
      BY <1>2, <2>1, <2>2, <3>1 DEF Swept
    <3>3. QED BY <3>1, <3>2
  <2>5. QED BY <2>3, <2>4
<1>7. ASSUME \/ DryRun \/ NoteNewest \/ Settled \/ AllDeleted \/ Finish \/ Interrupted
             \/ PruneDone \/ PruneSeen \/ PruneList
      PROVE  r.late
  <2>1. UNCHANGED <<stage, listed, log>>
    BY <1>7 DEF DryRun, NoteNewest, Settled, AllDeleted, Finish, Interrupted, PruneDone,
       PruneSeen, PruneList, Moves, Deletes
  <2>2. QED BY <1>2, <1>4, <2>1
<1>8. ASSUME NEW c \in Conns, PruneBatch(c) \/ AddConnection(c) \/ LetThrough(c) \/ Mark(c)
      PROVE  r.late
  <2>1. UNCHANGED <<stage, listed>> /\ log' \subseteq log
    BY <1>8 DEF PruneBatch, AddConnection, LetThrough, Mark, tool
  <2>2. QED BY <1>2, <1>4, <2>1
<1>9. QED BY <1>5, <1>6, <1>7, <1>8 DEF DeletionNext

LEMMA LateOfPruned ==
  ASSUME DeletionAssumption, IInv, DeletionNext, ~Deletes
  PROVE  LateOnly'
<1> USE DEF IInv
<1>1. ~Deletes' /\ UNCHANGED <<command, Targets>>
  BY SameCommand
<1>2. /\ \A c \in Conns : listed[c] \in SUBSET Conns /\ left[c] \subseteq listed[c]
      /\ \A c \in Conns : listed[c] \subseteq born /\ listed[c] \subseteq ConnsOf(c)
      /\ left \in [Ids -> SUBSET Conns] /\ conns \subseteq born
      /\ \A r \in log : r.conn \in Conns
  BY LogRows DEF DeletionTypeOK, Found, Ids
<1>3. \A c \in Conns : c \in Ids
  BY DEF Ids
<1>4. SUFFICES ASSUME NEW u \in Conns
               PROVE  /\ listed'[u] \cap conns' = {}
                      /\ phase' # "list" /\ left'[u] = {} => \A r \in log' : r.conn \in listed'[u] => r.late
                      /\ phase' = "done" => left'[u] = {}
  BY <1>1 DEF LateOnly
<1>5. /\ listed[u] \cap conns = {}
      /\ phase # "list" /\ left[u] = {} => \A r \in log : r.conn \in listed[u] => r.late
      /\ phase = "done" => left[u] = {}
      /\ phase = "list" => listed[u] = {} /\ left[u] = {}
  BY <1>2, <1>3 DEF LateOnly, Found
<1>6. CASE PruneList
  <2>1. /\ listed' = [t \in Ids |-> {c \in {t} : (\E r \in log : r.conn = c) /\ c \notin conns}]
        /\ left' = listed' /\ phase' = "prune" /\ UNCHANGED conns
    BY <1>6 DEF PruneList, tables, Ids
  <2>2. \A c \in listed'[u] : c \notin conns
    BY <1>3, <2>1
  <2>3. QED BY <2>1, <2>2
<1>7. ASSUME NEW c \in Conns, PruneBatch(c)
      PROVE  /\ listed'[u] \cap conns' = {}
             /\ phase' # "list" /\ left'[u] = {} => \A r \in log' : r.conn \in listed'[u] => r.late
             /\ phase' = "done" => left'[u] = {}
  <2> DEFINE orphans == {r \in log : r.conn = c /\ c \notin conns}
  <2>1. PICK some \in SUBSET orphans :
           /\ Cardinality(some) < Batch => some = orphans
           /\ log' = log \ some
           /\ left' = [left EXCEPT ![c] = IF Cardinality(some) < Batch THEN {} ELSE @]
    BY <1>7 DEF PruneBatch
  <2>2. phase = "prune" /\ phase' = "prune" /\ left[c] # {} /\ UNCHANGED <<listed, conns>>
    BY <1>7 DEF PruneBatch, In, tables
  <2>3. CASE u = c /\ Cardinality(some) < Batch
    <3>1. ConnsOf(c) = {c}
      BY DEF ConnsOf, DeletionAssumption
    <3>2. c \in listed[c] /\ c \notin conns
      BY <1>2, <1>5, <2>2, <2>3, <3>1
    <3>3. \A r \in log' : r.conn \notin listed[c]
      BY <1>2, <2>1, <2>3, <3>1, <3>2
    <3>4. QED BY <1>5, <2>2, <2>3, <3>3
  <2>4. CASE u # c \/ ~(Cardinality(some) < Batch)
    <3>1. left'[u] = left[u]
      BY <1>2, <1>3, <2>1, <2>4
    <3>2. QED BY <1>5, <2>1, <2>2, <3>1
  <2>5. QED BY <2>3, <2>4
<1>8. ASSUME NEW c \in Conns, Log(c)
      PROVE  /\ listed'[u] \cap conns' = {}
             /\ phase' # "list" /\ left'[u] = {} => \A r \in log' : r.conn \in listed'[u] => r.late
             /\ phase' = "done" => left'[u] = {}
  <2>1. /\ UNCHANGED <<phase, listed, left, conns>>
        /\ log' = log \cup {[id |-> top + 1, conn |-> c, late |-> Swept(c)]}
    BY <1>8 DEF Log, tool, tables
  <2>2. phase # "list" => listed[u] = {} \/ Swept(c)
    <3>1. command.name \in {"prune-logs", "prune-seen"}
      BY DEF Deletes, DeletionTypeOK, Commands
    <3>2. QED BY <1>3, <3>1 DEF Swept, Found
  <2>3. QED BY <1>5, <2>1, <2>2
<1>9. ASSUME NEW c \in Conns, AddConnection(c) \/ LetThrough(c) \/ Mark(c)
      PROVE  /\ listed'[u] \cap conns' = {}
             /\ phase' # "list" /\ left'[u] = {} => \A r \in log' : r.conn \in listed'[u] => r.late
             /\ phase' = "done" => left'[u] = {}
  <2>1. /\ UNCHANGED <<phase, listed, left, log>>
        /\ conns' = conns \/ (c \notin born /\ conns' = conns \cup {c})
    BY <1>9 DEF AddConnection, LetThrough, Mark, tool, tables
  <2>2. QED BY <1>2, <1>5, <2>1
<1>10. ASSUME \/ DryRun \/ NoteNewest \/ Settled \/ AllDeleted \/ Finish \/ Interrupted
              \/ PruneDone \/ PruneSeen
       PROVE  /\ listed'[u] \cap conns' = {}
              /\ phase' # "list" /\ left'[u] = {} => \A r \in log' : r.conn \in listed'[u] => r.late
              /\ phase' = "done" => left'[u] = {}
  <2>1. UNCHANGED <<listed, left, log, conns>>
    BY <1>10 DEF DryRun, NoteNewest, Settled, AllDeleted, Finish, Interrupted, PruneDone,
       PruneSeen, Moves, tables
  <2>2. phase' = "done" => left[u] = {}
    <3>1. phase' = "done" => phase = "list" \/ PruneDone
      BY <1>10 DEF DryRun, NoteNewest, Settled, AllDeleted, Finish, Interrupted, PruneSeen, Moves,
         Stepwise, Deleting
    <3>2. QED BY <1>5, <3>1 DEF PruneDone
  <2>3. QED BY <1>5, <2>1, <2>2
<1>11. ASSUME NEW t \in Targets,
              Find(t) \/ DeleteRows(t) \/ Sweep(t) \/ (\E c \in Conns : Destroy(t, c))
       PROVE  FALSE
  BY <1>11 DEF Find, DeleteRows, Sweep, Destroy, In, Stepwise, Deleting
<1>12. QED BY <1>6, <1>7, <1>8, <1>9, <1>10, <1>11 DEF DeletionNext

-----------------------------------------------------------------------------
(***************************************************************************)
(* The theorems.                                                           *)
(***************************************************************************)
LEMMA InitHolds ==
  ASSUME DeletionAssumption, DeletionInit
  PROVE  IInv
<1>1. DeletionTypeOK
  BY InitType
<1>2. /\ \A t \in Ids : stage[t] \in {"out", "asked"} /\ listed[t] = {} /\ left[t] = {}
      /\ \A t \in Ids : t \notin Targets => stage[t] = "out"
      /\ phase = "list" /\ cutoff = 0 /\ log = {}
      /\ \A c \in Conns : request[c] = "none"
  BY DEF DeletionInit, Ids
<1>3. Stepwise
  BY <1>2 DEF Stepwise, Deleting
<1>4. Found
  BY <1>2 DEF Found, Gone
<1>5. LateOnly
  BY <1>2 DEF LateOnly, Ids
<1>6. AllOrNothing
  <2>1. /\ users = Users /\ seen = Conns \ NewConns /\ private = Conns \ NewConns
        /\ conns = born \ rowless /\ logged = {}
    BY DEF DeletionInit
  <2>2. Targets \subseteq Ids
    BY <1>1, Disjoint
  <2>3. Deleted = {}
    BY <1>2, <2>2 DEF Deleted, Gone
  <2>4. \A c \in Conns : KeptWhole(c)
    BY <1>2, <2>1 DEF KeptWhole
  <2>5. QED BY <2>1, <2>3, <2>4 DEF AllOrNothing
<1>7. QED BY <1>1, <1>3, <1>4, <1>5, <1>6 DEF IInv

LEMMA StepKeeps ==
  ASSUME DeletionAssumption, IInv, [DeletionNext]_deletionVars
  PROVE  IInv'
<1>1. DeletionTypeOK'
  BY TypeStep DEF IInv
<1>2. CASE DeletionNext
  <2>1. AllOrNothing'
    <3>1. Whole'
      BY <1>2, WholeTargets, WholePhases, WholeConns DEF DeletionNext
    <3>2. Others'
      BY <1>2, OthersTargets, OthersPhases, OthersConns DEF DeletionNext
    <3>3. QED BY <3>1, <3>2, WholePartsNext
  <2>2. LateOnly'
    BY <1>2, LateOfDeleted, LateOfPruned
  <2>3. QED BY <1>1, <1>2, <2>1, <2>2, StepwiseStep, FoundStep DEF IInv
<1>3. CASE UNCHANGED deletionVars
  <2>1. Stepwise' /\ Found' /\ LateOnly'
    BY <1>3 DEF IInv, deletionVars, tables, world, tool, Stepwise, Found, LateOnly, Targets, Deletes
  <2>2. AllOrNothing'
    BY <1>3 DEF IInv, deletionVars, tables, world, history, tool, AllOrNothing, Targets, Deletes,
       ConnsOf, Gone, Deleted, Taken, DeletedWhole, KeptWhole
  <2>3. QED BY <1>1, <2>1, <2>2 DEF IInv
<1>4. QED BY <1>2, <1>3

LEMMA Invariance ==
  ASSUME DeletionAssumption
  PROVE  DeletionSpec => []IInv
<1>1. DeletionInit => IInv
  BY InitHolds
<1>2. IInv /\ [DeletionNext]_deletionVars => IInv'
  BY StepKeeps
<1>3. QED BY <1>1, <1>2, PTL DEF DeletionSpec

\* Rows belong to connections that have existed, log ids are unique, and what a
\* command has left to destroy is of what it listed, which is of its targets.
THEOREM DeletionTypes == DeletionSpec => []DeletionTypeOK
<1>1. IInv => DeletionTypeOK
  BY DEF IInv
<1>2. QED BY <1>1, Invariance, DeletionAssumption, PTL

\* A user or connection is deleted with every connection that was found, and
\* these are stopped, and nobody else loses a row of any table, log rows
\* included (delete_users.go, delete_connections.go and check_connections.go).
THEOREM DeletedWholeOrKept == DeletionSpec => []AllOrNothing
<1>1. IInv => AllOrNothing
  BY DEF IInv
<1>2. QED BY <1>1, Invariance, DeletionAssumption, PTL

\* A command that ends well leaves no log rows of what it deleted, or of the
\* connections prune-logs found, but those written after it looked.
THEOREM NothingLeftInTheLog == DeletionSpec => []LogIsSwept
<1>1. IInv => LogIsSwept
  <2>1. SUFFICES ASSUME IInv, phase = "done", command.delete, NEW r \in log,
                        NEW t \in Targets, r.conn \in listed[t], stage[t] # "skipped"
                 PROVE  r.late
    BY DEF LogIsSwept
  <2>2. t \in Ids /\ (~Deletes => t \in Conns)
    BY <2>1, DeletionAssumption, Disjoint DEF IInv, Targets, Deletes
  <2>3. CASE Deletes
    <3>1. stage[t] = "swept"
      BY <2>1, <2>2, <2>3 DEF IInv, Stepwise, Found
    <3>2. QED BY <2>1, <2>2, <2>3, <3>1 DEF IInv, LateOnly
  <2>4. CASE ~Deletes
    BY <2>1, <2>2, <2>4 DEF IInv, LateOnly
  <2>5. QED BY <2>3, <2>4
<1>2. QED BY <1>1, Invariance, DeletionAssumption, PTL
=============================================================================
