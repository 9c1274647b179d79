-------------------------- MODULE ConnectionProofs --------------------------
(***************************************************************************)
(* Theorems about ConnectionLifecycle, for any number of actors of every   *)
(* kind, any configs and everything that may go wrong.                     *)
(***************************************************************************)
EXTENDS ConnectionLifecycle, FiniteSetTheorems, TLAPS

MoveSteps == {"locate", "probe", "leave", "set", "again", "arrive"}

\* Where the steps of the other actors lead.
OtherSteps == Calls \cup (Queries \ {"locate", "set"}) \cup {"ok", "failed"}

\* Only a move makes a move's steps, and it knows its target.
Control ==
  \A p \in Actors :
    /\ pc[p] \in MoveSteps => kind[p] = "move"
    /\ pc[p] \in Pinned \cup {"set"} => to[p] \in Instances

\* Before a connection is started it has no row, runs nowhere, and no other
\* actor has found it.
Unstarted ==
  \A p \in Actors :
    kind[p] = "start" /\ pc[p] = "begin" =>
      /\ row = NoRow
      /\ \A i \in Instances : runs[i] = Idle
      /\ \A q \in Actors : pc[q] \in {"begin", "failed"}

IInv == TypeOK /\ Control /\ Unstarted /\ OffColumnIsTransient

-----------------------------------------------------------------------------
(***************************************************************************)
(* Each actor's step is one of a few kinds of query or request.            *)
(***************************************************************************)
Reads(p) ==
  \E k \in Kinds, next \in OtherSteps \cup {"locate"} :
    (next = "locate" => k = "move") /\ k # "start" /\ ReadConfig(p, k, next)

Asks(p)     == \E step \in Calls, next \in [Replies -> OtherSteps] : AskRouted(p, step, next)
Destroys(p) == \E step \in Calls, next \in [Replies -> OtherSteps] : DestroyRouted(p, step, next)
Creates(p)  == \E step \in Calls, next \in [Replies -> OtherSteps] : CreateRouted(p, step, next)

\* The row is taken away, or changed to the config p holds.
Writes(p) ==
  \E from \in Queries, next \in OtherSteps :
    WriteRow(p, from, next, NoRow) \/ WriteRow(p, from, next, cfg[p])

LEMMA NextReplies ==
  ASSUME NEW good \in OtherSteps, NEW bad \in OtherSteps
  PROVE  /\ If200(good, bad) \in [Replies -> OtherSteps]
         /\ If404(good, bad) \in [Replies -> OtherSteps]
         /\ [If200(good, bad) EXCEPT !["error"] = "failed"] \in [Replies -> OtherSteps]
<1>1. "failed" \in OtherSteps
  BY DEF OtherSteps
<1>2. QED BY <1>1 DEF If200, If404

LEMMA Shapes ==
  ASSUME NEW p \in Actors, Actor(p)
  PROVE  \/ LookUp(p) \/ QueryFails(p) \/ Reads(p) \/ Asks(p) \/ Destroys(p)
         \/ Creates(p) \/ Writes(p) \/ StartSave(p) \/ EditRead(p)
         \/ StopRead(p) \/ StopDestroy(p) \/ MoveLocate(p) \/ MoveProbe(p)
         \/ MoveDestroy(p) \/ MoveSet(p) \/ MoveAgain(p) \/ MoveCreate(p)
<1> USE DEF Calls, Queries, OtherSteps
<1>1. CASE Open(p)
  <2>1. RecreateRead(p) => Reads(p)
    BY DEF RecreateRead, Reads, Kinds
  <2>2. RecreateAsk(p) => Asks(p)
    BY NextReplies DEF RecreateAsk, Asks
  <2>3. RecreateCreate(p) => Creates(p)
    BY NextReplies DEF RecreateCreate, Creates
  <2>4. RecreateConfirm(p) => Asks(p)
    BY NextReplies DEF RecreateConfirm, Asks
  <2>5. QED BY <1>1, <2>1, <2>2, <2>3, <2>4 DEF Open
<1>2. CASE Revive(p)
  <2>1. ReviveRead(p) => Reads(p)
    BY DEF ReviveRead, Reads, Kinds
  <2>2. ReviveAsk(p) => Asks(p)
    BY NextReplies DEF ReviveAsk, Asks
  <2>3. ReviveCreate(p) => Creates(p)
    BY NextReplies DEF ReviveCreate, Creates
  <2>4. QED BY <1>2, <2>1, <2>2, <2>3 DEF Revive
<1>3. CASE Start(p)
  <2>1. StartCreate(p) => Creates(p)
    BY NextReplies DEF StartCreate, Creates
  <2>2. StartUndo(p) => Writes(p)
    BY DEF StartUndo, Writes
  <2>3. QED BY <1>3, <2>1, <2>2 DEF Start
<1>4. CASE Delete(p)
  <2>1. DeleteBegin(p) => Reads(p)
    BY DEF DeleteBegin, Reads, Kinds
  <2>2. DeleteDestroy(p) => Destroys(p)
    BY NextReplies DEF DeleteDestroy, Destroys
  <2>3. DeleteRow(p) => Writes(p)
    BY DEF DeleteRow, Writes
  <2>4. QED BY <1>4, <2>1, <2>2, <2>3 DEF Delete
<1>5. CASE Edit(p)
  <2>1. EditSave(p) \/ EditUpdate(p) => Writes(p)
    BY DEF EditSave, EditUpdate, Writes
  <2>2. EditDestroy(p) => Destroys(p)
    BY NextReplies DEF EditDestroy, Destroys
  <2>3. EditCreate(p) => Creates(p)
    BY NextReplies DEF EditCreate, Creates
  <2>4. QED BY <1>5, <2>1, <2>2, <2>3 DEF Edit
<1>6. CASE Reconnect(p)
  <2>1. ReconnectRead(p) => Reads(p)
    BY DEF ReconnectRead, Reads, Kinds
  <2>2. ReconnectDestroy(p) => Destroys(p)
    BY NextReplies DEF ReconnectDestroy, Destroys
  <2>3. ReconnectCreate(p) => Creates(p)
    BY NextReplies DEF ReconnectCreate, Creates
  <2>4. QED BY <1>6, <2>1, <2>2, <2>3 DEF Reconnect
<1>7. CASE Wipe(p)
  <2>1. WipeBegin(p) => Reads(p)
    BY DEF WipeBegin, Reads, Kinds
  <2>2. WipeDestroy(p) => Destroys(p)
    BY NextReplies DEF WipeDestroy, Destroys
  <2>3. WipeRow(p) => Writes(p)
    BY DEF WipeRow, Writes
  <2>4. QED BY <1>7, <2>1, <2>2, <2>3 DEF Wipe
<1>8. CASE Move(p)
  <2>1. MoveRead(p) => Reads(p)
    BY DEF MoveRead, Reads, Kinds
  <2>2. QED BY <1>8, <2>1 DEF Move
<1>9. QED
  BY <1>1, <1>2, <1>3, <1>4, <1>5, <1>6, <1>7, <1>8 DEF Actor, StopIdle

-----------------------------------------------------------------------------
(***************************************************************************)
(* liercd's answers: every request keeps the types, and a create lands on  *)
(* the routed instance, under a move that will clean up, or is a stray.    *)
(***************************************************************************)
LEMMA OtherInstance ==
  \A i \in Instances : Other(i) \in Instances /\ Instances = {i, Other(i)} /\ Other(i) # i
BY DEF Other, Instances

LEMMA DestroyEffect ==
  ASSUME TypeOK, NEW i \in Instances, NEW r \in Replies, Destroy(i, r)
  PROVE  /\ runs' \in [Instances -> {Idle} \cup Configs]
         /\ stray' = stray /\ fresh' = fresh
         /\ \A j \in Instances : runs'[j] \in {runs[j], Idle}
         /\ r \in {"ok", "missing"} => runs'[i] = Idle
<1>1. CASE runs' = [runs EXCEPT ![i] = Idle] /\ UNCHANGED <<stray, fresh>>
  BY <1>1 DEF TypeOK
<1>2. CASE Fails(r)
  BY <1>2 DEF TypeOK, Fails, liercd
<1>3. QED BY <1>1, <1>2 DEF Destroy

LEMMA CreateEffect ==
  ASSUME TypeOK, NEW i \in Instances, NEW r \in Replies,
         NEW p \in Actors, Create(i, cfg[p], r)
  PROVE  /\ runs' \in [Instances -> {Idle} \cup Configs]
         /\ fresh' = fresh
         /\ \A j \in Instances : j # i => runs'[j] = runs[j]
         /\ stray' \in BOOLEAN
         /\ stray => stray'
         /\ runs'[i] # runs[i] => i = Route \/ WillClean(i) \/ stray'
<1>1. CASE Fails(r)
  BY <1>1 DEF TypeOK, Fails, liercd
<1>2. CASE ~Fails(r)
  <2>1. PICK new \in {cfg[p]} \cup ({runs[i]} \ {Idle}) : runs' = [runs EXCEPT ![i] = new]
    BY <1>2 DEF Create
  <2>2. new \in {Idle} \cup Configs
    BY <2>1 DEF TypeOK, NoRow, Idle
  <2>3. stray' = (stray \/ (i # Route /\ ~WillClean(i))) /\ UNCHANGED fresh
    BY <1>2 DEF Create
  <2>4. QED BY <2>1, <2>2, <2>3 DEF TypeOK
<1>3. QED BY <1>1, <1>2

-----------------------------------------------------------------------------
(***************************************************************************)
(* What a step of p leaves alone, and the parts of the invariant it can    *)
(* disturb.                                                                *)
(***************************************************************************)

\* p goes on to one of the steps S; the other actors stay where they are.
Moves(p, S) ==
  /\ \E next \in S : pc' = [pc EXCEPT ![p] = next]
  /\ \A q \in Actors \ {p} : to'[q] = to[q]
  /\ to' \in [Actors -> Instances \cup {Unrouted}]
  /\ kind' = kind

Steps == {"begin"} \cup Calls \cup Pinned \cup Queries \cup Ends

LEMMA MovesControl ==
  ASSUME TypeOK, Control, NEW p \in Actors, NEW S \in SUBSET Steps, Moves(p, S),
         \A next \in S \cap MoveSteps : kind[p] = "move",
         \A next \in S \cap (Pinned \cup {"set"}) : to'[p] \in Instances
  PROVE  pc' \in [Actors -> Steps] /\ Control'
<1>1. PICK next \in S : pc' = [pc EXCEPT ![p] = next]
  BY DEF Moves
<1>2. pc' \in [Actors -> Steps]
  BY <1>1 DEF TypeOK, Steps
<1>3. ASSUME NEW q \in Actors
      PROVE  /\ pc'[q] \in MoveSteps => kind'[q] = "move"
             /\ pc'[q] \in Pinned \cup {"set"} => to'[q] \in Instances
  <2>1. CASE q = p
    BY <1>1, <2>1 DEF Moves, TypeOK
  <2>2. CASE q # p
    BY <1>1, <2>2 DEF Moves, TypeOK, Control
  <2>3. QED BY <2>1, <2>2
<1>4. QED BY <1>2, <1>3 DEF Control

\* As long as only p moves, and not from "again", a pending second destroy
\* stays pending.
LEMMA WillCleanStays ==
  ASSUME TypeOK, NEW p \in Actors, NEW S \in SUBSET Steps, Moves(p, S),
         pc[p] # "again", NEW i \in Instances, WillClean(i)
  PROVE  WillClean(i)'
<1>1. PICK m \in Actors : kind[m] = "move" /\ pc[m] = "again" /\ to[m] = Other(i)
  BY DEF WillClean
<1>2. m # p /\ pc'[m] = "again" /\ to'[m] = Other(i) /\ kind'[m] = "move"
  BY <1>1 DEF Moves, TypeOK
<1>3. QED BY <1>2 DEF WillClean

LEMMA UnsureStays ==
  ASSUME TypeOK, NEW p \in Actors, NEW S \in SUBSET Steps, Moves(p, S),
         pc[p] # "unsure", \E m \in Actors : pc[m] = "unsure"
  PROVE  \E m \in Actors : pc'[m] = "unsure"
BY DEF Moves, TypeOK

\* A step in which the row is kept or lost, the column is kept and nothing
\* starts to run keeps the off-column instance transient.
LEMMA QuietStep ==
  ASSUME TypeOK, Control, OffColumnIsTransient, NEW p \in Actors,
         NEW S \in SUBSET Steps, Moves(p, S), pc[p] \notin {"again", "unsure"},
         row' # NoRow => row # NoRow, column' = column,
         stray => stray',
         \A i \in Instances :
           runs'[i] # Idle => \/ runs[i] # Idle
                              \/ i = Route \/ WillClean(i) \/ stray'
  PROVE  OffColumnIsTransient'
<1> SUFFICES ASSUME row' # NoRow, NEW i \in Instances \ {column}, runs'[i] # Idle
             PROVE  WillClean(i)' \/ stray' \/ \E m \in Actors : pc'[m] = "unsure"
  BY DEF OffColumnIsTransient
<1>1. row # NoRow /\ Route = column
  BY DEF Route
<1>2. CASE runs[i] # Idle
  BY <1>1, <1>2, WillCleanStays, UnsureStays DEF OffColumnIsTransient
<1>3. CASE runs[i] = Idle
  BY <1>1, <1>3, WillCleanStays
<1>4. QED BY <1>2, <1>3

\* Once some actor has gone beyond its beginning no start is pending.
LEMMA NothingUnstarted ==
  ASSUME TypeOK, Unstarted, NEW p \in Actors, NEW S \in SUBSET (Steps \ {"begin"}),
         Moves(p, S),
         \/ pc[p] \notin {"begin", "failed"}
         \/ row # NoRow
  PROVE  Unstarted'
<1>1. ~ \E q \in Actors : kind[q] = "start" /\ pc[q] = "begin"
  BY DEF Unstarted
<1>2. \A q \in Actors : pc'[q] = "begin" => pc[q] = "begin"
  BY DEF Moves, TypeOK
<1>3. QED BY <1>1, <1>2 DEF Unstarted, Moves

-----------------------------------------------------------------------------
(***************************************************************************)
(* Every step keeps the invariant.                                         *)
(***************************************************************************)
LEMMA OtherStepsAre ==
  /\ OtherSteps \subseteq Steps \ {"begin"}
  /\ OtherSteps \cap MoveSteps = {}
  /\ OtherSteps \cap (Pinned \cup {"set"}) = {}
  /\ Calls \cap {"begin", "failed", "again", "unsure"} = {}
  /\ Queries \cap {"begin", "failed", "again", "unsure"} = {}
BY DEF OtherSteps, Steps, MoveSteps, Calls, Queries, Pinned, Ends

\* A request of p that starts the connection nowhere but where it is routed,
\* where a move will clean up, or as a stray, keeps the invariant.
LEMMA RequestInv ==
  ASSUME IInv, NEW p \in Actors, NEW S \in SUBSET (Steps \ {"begin"}), Moves(p, S),
         pc[p] \notin {"begin", "failed", "again", "unsure"},
         \A next \in S \cap MoveSteps : kind[p] = "move",
         \A next \in S \cap (Pinned \cup {"set"}) : to'[p] \in Instances,
         UNCHANGED <<database, cfg>>,
         found' \in [Actors -> SUBSET {"running", "slippedIn"}],
         runs' \in [Instances -> {Idle} \cup Configs],
         stray' \in BOOLEAN, stray => stray', fresh' = fresh,
         \A i \in Instances :
           runs'[i] # Idle => \/ runs[i] # Idle
                              \/ i = Route \/ WillClean(i) \/ stray'
  PROVE  IInv'
<1> USE DEF IInv
<1>1. TypeOK /\ Control /\ Unstarted /\ OffColumnIsTransient
  OBVIOUS
<1>2. pc' \in [Actors -> Steps] /\ Control'
  BY MovesControl
<1>3. TypeOK'
  BY <1>2 DEF TypeOK, database, Moves, Steps
<1>4. Unstarted'
  BY NothingUnstarted
<1>5. row' = row /\ column' = column
  BY DEF database
<1>6. OffColumnIsTransient'
  BY <1>5, QuietStep
<1>7. QED BY <1>2, <1>3, <1>4, <1>6

\* A routed request's actor goes on to next[r] and is unrouted again.
LEMMA RoutedMoves ==
  ASSUME TypeOK, NEW p \in Actors, NEW next \in [Replies -> OtherSteps],
         NEW r \in Replies,
         Goto(p, next[r]), to' = [to EXCEPT ![p] = Unrouted], kind' = kind
  PROVE  Moves(p, OtherSteps)
<1>1. next[r] \in OtherSteps
  OBVIOUS
<1>2. QED BY <1>1 DEF TypeOK, Moves, Goto

LEMMA AsksInv ==
  ASSUME IInv, NEW p \in Actors, Asks(p)
  PROVE  IInv'
<1> USE DEF IInv
<1>1. PICK step \in Calls, next \in [Replies -> OtherSteps] : AskRouted(p, step, next)
  BY DEF Asks
<1>2. PICK i \in Instances, r \in Replies :
        Addressed(p, step, i) /\ Status(i, r) /\ Goto(p, next[r])
  BY <1>1 DEF AskRouted
<1>3. UNCHANGED <<database, cfg, found, kind, liercd>> /\ to' = [to EXCEPT ![p] = Unrouted]
  BY <1>1, <1>2 DEF AskRouted, Status, Fails
<1>4. Moves(p, OtherSteps)
  BY <1>2, <1>3, RoutedMoves
<1>5. pc[p] \notin {"begin", "failed", "again", "unsure"}
  BY <1>2, OtherStepsAre DEF Addressed
<1>6. QED
  BY <1>3, <1>4, <1>5, RequestInv, OtherStepsAre DEF TypeOK, liercd

LEMMA DestroysInv ==
  ASSUME IInv, NEW p \in Actors, Destroys(p)
  PROVE  IInv'
<1> USE DEF IInv
<1>1. PICK step \in Calls, next \in [Replies -> OtherSteps] : DestroyRouted(p, step, next)
  BY DEF Destroys
<1>2. PICK i \in Instances, r \in Replies :
        Addressed(p, step, i) /\ Destroy(i, r) /\ Goto(p, next[r])
  BY <1>1 DEF DestroyRouted
<1>3. UNCHANGED <<database, cfg, found, kind>> /\ to' = [to EXCEPT ![p] = Unrouted]
  BY <1>1 DEF DestroyRouted
<1>4. Moves(p, OtherSteps)
  BY <1>2, <1>3, RoutedMoves
<1>5. pc[p] \notin {"begin", "failed", "again", "unsure"}
  BY <1>2, OtherStepsAre DEF Addressed
<1>6. /\ runs' \in [Instances -> {Idle} \cup Configs]
      /\ stray' = stray /\ fresh' = fresh
      /\ \A j \in Instances : runs'[j] \in {runs[j], Idle}
  BY <1>2, DestroyEffect
<1>7. QED
  BY <1>3, <1>4, <1>5, <1>6, RequestInv, OtherStepsAre DEF TypeOK

LEMMA CreatesInv ==
  ASSUME IInv, NEW p \in Actors, Creates(p)
  PROVE  IInv'
<1> USE DEF IInv
<1>1. PICK step \in Calls, next \in [Replies -> OtherSteps] : CreateRouted(p, step, next)
  BY DEF Creates
<1>2. PICK i \in Instances, r \in Replies :
        Addressed(p, step, i) /\ Create(i, cfg[p], r) /\ Goto(p, next[r])
  BY <1>1 DEF CreateRouted
<1>3. UNCHANGED <<database, cfg, found, kind>> /\ to' = [to EXCEPT ![p] = Unrouted]
  BY <1>1 DEF CreateRouted
<1>4. Moves(p, OtherSteps)
  BY <1>2, <1>3, RoutedMoves
<1>5. pc[p] \notin {"begin", "failed", "again", "unsure"}
  BY <1>2, OtherStepsAre DEF Addressed
<1>6. /\ runs' \in [Instances -> {Idle} \cup Configs]
      /\ fresh' = fresh
      /\ \A j \in Instances : j # i => runs'[j] = runs[j]
      /\ stray' \in BOOLEAN
      /\ stray => stray'
      /\ runs'[i] # runs[i] => i = Route \/ WillClean(i) \/ stray'
  BY <1>2, CreateEffect
<1>7. \A j \in Instances :
        runs'[j] # Idle => runs[j] # Idle \/ j = Route \/ WillClean(j) \/ stray'
  BY <1>6
<1>8. QED
  BY <1>3, <1>4, <1>5, <1>6, <1>7, RequestInv, OtherStepsAre DEF TypeOK

LEMMA ReadsInv ==
  ASSUME IInv, NEW p \in Actors, Reads(p)
  PROVE  IInv'
<1> USE DEF IInv
<1>1. PICK k \in Kinds, next \in OtherSteps \cup {"locate"} :
        (next = "locate" => k = "move") /\ k # "start" /\ ReadConfig(p, k, next)
  BY DEF Reads
<1> DEFINE S == {"failed"} \cup (IF row = NoRow THEN {} ELSE {next})
<1>2. S \in SUBSET (Steps \ {"begin"})
  BY OtherStepsAre DEF Steps, Queries, Ends
<1>3. Moves(p, S)
  BY <1>1 DEF ReadConfig, Goto, Moves, TypeOK
<1>4. pc[p] = "begin" /\ kind[p] = k /\ k # "start"
  BY <1>1 DEF ReadConfig
<1>5. /\ \A n \in S \cap MoveSteps : kind[p] = "move"
      /\ \A n \in S \cap (Pinned \cup {"set"}) : to'[p] \in Instances
  BY <1>1, <1>4, OtherStepsAre DEF MoveSteps, Pinned
<1>6. pc' \in [Actors -> Steps] /\ Control'
  BY <1>2, <1>3, <1>5, MovesControl
<1>7. UNCHANGED <<row, column, runs, stray, fresh, kind, to, found>>
  BY <1>1 DEF ReadConfig, database, liercd
<1>8. cfg' \in [Actors -> {NoRow} \cup Configs]
  BY <1>1 DEF ReadConfig, TypeOK
<1>9. TypeOK'
  BY <1>6, <1>7, <1>8 DEF TypeOK, Steps
<1>10. Unstarted'
  <2>1. CASE row # NoRow
    BY <1>2, <1>3, <2>1, NothingUnstarted
  <2>2. CASE row = NoRow
    <3>1. pc' = [pc EXCEPT ![p] = "failed"]
      BY <1>1, <2>2 DEF ReadConfig, Goto
    <3>2. QED
      BY <1>7, <3>1 DEF Unstarted, TypeOK
  <2>3. QED BY <2>1, <2>2
<1>11. OffColumnIsTransient'
  BY <1>2, <1>3, <1>4, <1>7, QuietStep
<1>12. QED BY <1>6, <1>9, <1>10, <1>11

LEMMA WritesInv ==
  ASSUME IInv, NEW p \in Actors, Writes(p)
  PROVE  IInv'
<1> USE DEF IInv
<1>1. PICK from \in Queries, next \in OtherSteps :
        WriteRow(p, from, next, NoRow) \/ WriteRow(p, from, next, cfg[p])
  BY DEF Writes
<1>2. Moves(p, OtherSteps)
  BY <1>1 DEF WriteRow, Goto, Moves, TypeOK
<1>3. pc[p] \notin {"begin", "failed", "again", "unsure"}
  BY <1>1, OtherStepsAre DEF WriteRow
<1>4. pc' \in [Actors -> Steps] /\ Control'
  BY <1>2, OtherStepsAre, MovesControl
<1>5. /\ UNCHANGED <<column, runs, stray, fresh, kind, cfg, to, found>>
      /\ row' \in {NoRow, cfg[p]}
      /\ row' # NoRow => row # NoRow
  BY <1>1 DEF WriteRow, liercd
<1>6. TypeOK'
  BY <1>4, <1>5 DEF TypeOK, Steps
<1>7. Unstarted'
  BY <1>2, <1>3, OtherStepsAre, NothingUnstarted
<1>8. OffColumnIsTransient'
  BY <1>2, <1>3, <1>5, OtherStepsAre, QuietStep
<1>9. QED BY <1>4, <1>6, <1>7, <1>8

\* A start finds nothing that runs.
LEMMA StartSaveInv ==
  ASSUME IInv, LifecycleAssumption, NEW p \in Actors, StartSave(p)
  PROVE  IInv'
<1> USE DEF IInv
<1>1. kind[p] = "start" /\ pc[p] = "begin" /\ kind \in Teams
  BY DEF StartSave, TypeOK
<1>2. \A i \in Instances : runs[i] = Idle
  BY <1>1 DEF Unstarted
<1>3. UNCHANGED <<column, runs, stray, fresh, kind, to, found>>
  BY DEF StartSave, liercd
<1>4. Moves(p, {"start create", "failed"})
  BY <1>3 DEF StartSave, Goto, Moves, TypeOK
<1>5. {"start create", "failed"} \in SUBSET (Steps \ {"begin"})
  BY DEF Steps, Calls, Ends
<1>6. pc' \in [Actors -> Steps] /\ Control'
  BY <1>4, <1>5, MovesControl DEF MoveSteps, Pinned
<1>7. row' \in {NoRow} \cup Configs /\ cfg' \in [Actors -> {NoRow} \cup Configs]
  BY DEF StartSave, TypeOK
<1>8. TypeOK'
  BY <1>3, <1>6, <1>7 DEF TypeOK, Steps
<1>9. \A q \in Actors \ {p} : kind[q] # "start"
  BY <1>1 DEF LifecycleAssumption
<1>10. pc'[p] # "begin"
  BY <1>4 DEF Moves, TypeOK
<1>11. Unstarted'
  BY <1>3, <1>9, <1>10 DEF Unstarted
<1>12. OffColumnIsTransient'
  BY <1>2, <1>3 DEF OffColumnIsTransient
<1>13. QED BY <1>6, <1>8, <1>11, <1>12

\* The other steps with which an actor begins, fails or looks up an instance.
LEMMA LookUpInv ==
  ASSUME IInv, NEW p \in Actors, LookUp(p)
  PROVE  IInv'
<1> USE DEF IInv
<1>1. /\ pc' = pc
      /\ to' = [to EXCEPT ![p] = Route]
      /\ Route \in Instances
      /\ UNCHANGED <<row, column, runs, stray, fresh, kind, cfg, found>>
  BY DEF LookUp, Route, TypeOK, Instances, database, liercd
<1>2. pc[p] \notin {"begin", "failed", "again", "unsure"}
  BY OtherStepsAre DEF LookUp
<1>3. TypeOK'
  BY <1>1 DEF TypeOK
<1>4. Control'
  BY <1>1 DEF Control, TypeOK
<1>5. Unstarted'
  BY <1>1 DEF Unstarted
<1>6. ASSUME NEW i \in Instances, WillClean(i)
      PROVE  WillClean(i)'
  BY <1>1, <1>2, <1>6 DEF WillClean, TypeOK
<1>7. OffColumnIsTransient'
  BY <1>1, <1>6 DEF OffColumnIsTransient
<1>8. QED BY <1>3, <1>4, <1>5, <1>7

LEMMA QueryFailsInv ==
  ASSUME IInv, NEW p \in Actors, QueryFails(p)
  PROVE  IInv'
<1>1. Moves(p, {"failed"})
  BY DEF QueryFails, Goto, Moves, TypeOK, IInv
<1>2. pc[p] \notin {"begin", "failed", "again", "unsure"}
  BY OtherStepsAre DEF QueryFails
<1>3. {"failed"} \in SUBSET (Steps \ {"begin"})
  BY DEF Steps, Ends
<1>4. UNCHANGED <<database, cfg, found, runs, stray, fresh>>
  BY DEF QueryFails, liercd
<1>5. {"failed"} \cap MoveSteps = {} /\ {"failed"} \cap (Pinned \cup {"set"}) = {}
  BY DEF MoveSteps, Pinned
<1>6. QED
  BY <1>1, <1>2, <1>3, <1>4, <1>5, RequestInv DEF IInv, TypeOK

LEMMA EditReadInv ==
  ASSUME IInv, NEW p \in Actors, EditRead(p)
  PROVE  IInv'
<1> USE DEF IInv
<1> DEFINE S == {"edit save", "edit destroy"}
<1>1. Moves(p, S)
  BY DEF EditRead, Goto, Moves, TypeOK
<1>2. S \in SUBSET (Steps \ {"begin"})
  BY DEF Steps, Calls, Queries
<1>3. UNCHANGED <<row, column, runs, stray, fresh, kind, to, found>> /\ row # NoRow /\ pc[p] = "begin"
  BY DEF EditRead, database, liercd
<1>4. pc' \in [Actors -> Steps] /\ Control'
  BY <1>1, <1>2, MovesControl DEF MoveSteps, Pinned
<1>5. cfg' \in [Actors -> {NoRow} \cup Configs]
  BY DEF EditRead, TypeOK
<1>6. TypeOK'
  BY <1>3, <1>4, <1>5 DEF TypeOK, Steps
<1>7. Unstarted'
  BY <1>1, <1>2, <1>3, NothingUnstarted
<1>8. OffColumnIsTransient'
  BY <1>1, <1>2, <1>3, QuietStep
<1>9. QED BY <1>4, <1>6, <1>7, <1>8

LEMMA StopInv ==
  ASSUME IInv, NEW p \in Actors, StopRead(p) \/ StopDestroy(p)
  PROVE  IInv'
<1> USE DEF IInv
<1>1. CASE StopRead(p)
  <2>1. /\ pc[p] = "begin" /\ row # NoRow
        /\ to' = [to EXCEPT ![p] = Route]
        /\ Route \in Instances
        /\ UNCHANGED <<row, column, runs, stray, fresh, kind, cfg, found>>
    BY <1>1 DEF StopRead, Route, TypeOK, Instances, database, liercd
  <2>2. Moves(p, {"stop destroy"})
    BY <1>1, <2>1 DEF StopRead, Goto, Moves, TypeOK
  <2>3. {"stop destroy"} \in SUBSET (Steps \ {"begin"}) /\ {"stop destroy"} \cap MoveSteps = {}
    BY DEF Steps, Pinned, MoveSteps
  <2>4. pc' \in [Actors -> Steps] /\ Control'
    <3>1. to'[p] \in Instances
      BY <2>1 DEF TypeOK
    <3>2. QED BY <2>2, <2>3, <3>1, MovesControl
  <2>5. TypeOK'
    BY <2>1, <2>4 DEF TypeOK, Steps
  <2>6. Unstarted'
    BY <2>1, <2>2, <2>3, NothingUnstarted
  <2>7. OffColumnIsTransient'
    BY <2>1, <2>2, <2>3, QuietStep
  <2>8. QED BY <2>4, <2>5, <2>6, <2>7
<1>2. CASE StopDestroy(p)
  <2>1. pc[p] = "stop destroy" /\ to[p] \in Instances
    BY <1>2 DEF StopDestroy, Control, Pinned
  <2>2. PICK r \in Replies : Destroy(to[p], r) /\ Goto(p, If404("ok", "failed")[r])
    BY <1>2 DEF StopDestroy
  <2>3. UNCHANGED <<database, cfg, found, kind>> /\ to' = [to EXCEPT ![p] = Unrouted]
    BY <1>2 DEF StopDestroy
  <2>4. If404("ok", "failed") \in [Replies -> OtherSteps]
    BY NextReplies DEF OtherSteps
  <2>5. Moves(p, OtherSteps)
    BY <2>2, <2>3, <2>4, RoutedMoves
  <2>6. /\ runs' \in [Instances -> {Idle} \cup Configs]
        /\ stray' = stray /\ fresh' = fresh
        /\ \A j \in Instances : runs'[j] \in {runs[j], Idle}
    BY <2>1, <2>2, DestroyEffect
  <2>7. QED
    BY <2>1, <2>3, <2>5, <2>6, RequestInv, OtherStepsAre DEF TypeOK
<1>3. QED BY <1>1, <1>2

-----------------------------------------------------------------------------
(***************************************************************************)
(* The steps of a move.                                                    *)
(***************************************************************************)

\* Up to the change of the column a move only asks and destroys.
LEMMA MoveAwayInv ==
  ASSUME IInv, NEW p \in Actors, MoveLocate(p) \/ MoveProbe(p) \/ MoveDestroy(p)
  PROVE  IInv'
<1> USE DEF IInv
<1>1. CASE MoveLocate(p)
  <2>1. /\ pc[p] = "locate" /\ kind[p] = "move"
        /\ UNCHANGED <<database, runs, stray, fresh, kind, cfg, found>>
    BY <1>1 DEF MoveLocate, Control, MoveSteps, liercd
  <2>2. Route \in Instances
    BY DEF Route, TypeOK, Instances
  <2>3. \/ to' = [to EXCEPT ![p] = Other(Route)] /\ pc' = [pc EXCEPT ![p] = "probe"]
        \/ to' = to /\ pc' = [pc EXCEPT ![p] = "failed"]
    BY <1>1 DEF MoveLocate, Goto
  <2>4. CASE to' = [to EXCEPT ![p] = Other(Route)] /\ pc' = [pc EXCEPT ![p] = "probe"]
    <3>1. Moves(p, {"probe"}) /\ to'[p] \in Instances
      BY <2>1, <2>2, <2>4, OtherInstance DEF Moves, TypeOK
    <3>2. {"probe"} \in SUBSET (Steps \ {"begin"})
      BY DEF Steps, Pinned
    <3>3. QED
      BY <2>1, <3>1, <3>2, RequestInv DEF TypeOK
  <2>5. CASE to' = to /\ pc' = [pc EXCEPT ![p] = "failed"]
    <3>1. Moves(p, {"failed"})
      BY <2>1, <2>5 DEF Moves, TypeOK
    <3>2. {"failed"} \in SUBSET (Steps \ {"begin"})
      BY DEF Steps, Ends
    <3>3. {"failed"} \cap MoveSteps = {} /\ {"failed"} \cap (Pinned \cup {"set"}) = {}
      BY DEF MoveSteps, Pinned
    <3>4. QED
      BY <2>1, <3>1, <3>2, <3>3, RequestInv DEF TypeOK
  <2>6. QED BY <2>3, <2>4, <2>5
<1>2. CASE MoveProbe(p)
  <2>1. /\ pc[p] = "probe" /\ kind[p] = "move" /\ to[p] \in Instances
        /\ UNCHANGED <<database, runs, stray, fresh, kind, cfg, to, found>>
    BY <1>2 DEF MoveProbe, Status, Fails, Control, MoveSteps, Pinned, liercd
  <2>2. Moves(p, {"leave", "failed"}) /\ to'[p] \in Instances
    BY <1>2, <2>1 DEF MoveProbe, Goto, Moves, TypeOK
  <2>3. {"leave", "failed"} \in SUBSET (Steps \ {"begin"})
    BY DEF Steps, Pinned, Ends
  <2>4. QED
    BY <2>1, <2>2, <2>3, RequestInv DEF TypeOK
<1>3. CASE MoveDestroy(p)
  <2>1. /\ pc[p] = "leave" /\ kind[p] = "move" /\ to[p] \in Instances
        /\ UNCHANGED <<database, kind, cfg, to>>
    BY <1>3 DEF MoveDestroy, Control, MoveSteps, Pinned
  <2>2. PICK r \in Replies :
          /\ Destroy(Other(to[p]), r)
          /\ Goto(p, If404("set", "failed")[r])
          /\ found' = [found EXCEPT ![p] = IF r = "ok" THEN {"running"} ELSE {}]
    BY <1>3 DEF MoveDestroy
  <2>3. If404("set", "failed")[r] \in {"set", "failed"}
    BY DEF If404
  <2>4. Moves(p, {"set", "failed"}) /\ to'[p] \in Instances
    BY <2>1, <2>2, <2>3 DEF Goto, Moves, TypeOK
  <2>5. {"set", "failed"} \in SUBSET (Steps \ {"begin"})
    BY DEF Steps, Queries, Ends
  <2>6. /\ runs' \in [Instances -> {Idle} \cup Configs]
        /\ stray' = stray /\ fresh' = fresh
        /\ \A j \in Instances : runs'[j] \in {runs[j], Idle}
    BY <2>1, <2>2, DestroyEffect, OtherInstance
  <2>7. found' \in [Actors -> SUBSET {"running", "slippedIn"}]
    BY <2>2 DEF TypeOK
  <2>8. QED
    BY <2>1, <2>4, <2>5, <2>6, <2>7, RequestInv DEF TypeOK
<1>4. QED BY <1>1, <1>2, <1>3

\* When the column changes, the instance it no longer names is the one this
\* move destroys the connection on next.
LEMMA MoveSetInv ==
  ASSUME IInv, NEW p \in Actors, MoveSet(p)
  PROVE  IInv'
<1> USE DEF IInv
<1>1. /\ pc[p] = "set" /\ kind[p] = "move" /\ to[p] \in Instances
      /\ pc' = [pc EXCEPT ![p] = "again"]
      /\ column' = IF row = NoRow THEN column ELSE to[p]
      /\ UNCHANGED <<row, runs, stray, fresh, kind, cfg, to, found>>
  BY DEF MoveSet, Goto, Control, MoveSteps, liercd
<1>2. Moves(p, {"again"}) /\ to'[p] \in Instances
  BY <1>1 DEF Moves, TypeOK
<1>3. {"again"} \in SUBSET (Steps \ {"begin"})
  BY DEF Steps, Pinned
<1>4. pc' \in [Actors -> Steps] /\ Control'
  BY <1>1, <1>2, <1>3, MovesControl
<1>5. TypeOK'
  BY <1>1, <1>4 DEF TypeOK, Steps
<1>6. Unstarted'
  BY <1>1, <1>2, <1>3, NothingUnstarted
<1>7. OffColumnIsTransient'
  <2> SUFFICES ASSUME row # NoRow, NEW i \in Instances \ {column'}
               PROVE  WillClean(i)'
    BY <1>1 DEF OffColumnIsTransient
  <2>1. to[p] = Other(i)
    BY <1>1, OtherInstance
  <2>2. pc'[p] = "again" /\ kind'[p] = "move" /\ to'[p] = Other(i)
    BY <1>1, <2>1 DEF TypeOK
  <2>3. QED BY <2>2 DEF WillClean
<1>8. QED BY <1>4, <1>5, <1>6, <1>7

\* The second destroy leaves nothing on the source, or tells the operator.
LEMMA MoveAgainInv ==
  ASSUME IInv, NEW p \in Actors, MoveAgain(p)
  PROVE  IInv'
<1> USE DEF IInv
<1>1. /\ pc[p] = "again" /\ kind[p] = "move" /\ to[p] \in Instances
      /\ UNCHANGED <<row, column, kind, cfg, to>>
  BY DEF MoveAgain, Control, MoveSteps, Pinned, database
<1>2. PICK r \in Replies :
        LET slipped == found[p] \cup (IF r = "ok" THEN {"slippedIn"} ELSE {})
        IN  /\ Destroy(Other(to[p]), r)
            /\ found' = [found EXCEPT ![p] = slipped]
            /\ Goto(p, If404(IF slipped = {} THEN "ok" ELSE "arrive", "unsure")[r])
  BY DEF MoveAgain
<1>3. /\ pc'[p] \in {"ok", "arrive", "unsure"}
      /\ pc' = [pc EXCEPT ![p] = pc'[p]]
      /\ r \notin {"ok", "missing"} => pc'[p] = "unsure"
  BY <1>2 DEF Goto, If404, TypeOK
<1>4. Moves(p, {"ok", "arrive", "unsure"}) /\ to'[p] \in Instances
  BY <1>1, <1>3 DEF Moves, TypeOK
<1>5. {"ok", "arrive", "unsure"} \in SUBSET (Steps \ {"begin"})
  BY DEF Steps, Pinned, Ends
<1>6. /\ runs' \in [Instances -> {Idle} \cup Configs]
      /\ stray' = stray /\ fresh' = fresh
      /\ \A j \in Instances : runs'[j] \in {runs[j], Idle}
      /\ r \in {"ok", "missing"} => runs'[Other(to[p])] = Idle
  BY <1>1, <1>2, DestroyEffect, OtherInstance
<1>7. found' \in [Actors -> SUBSET {"running", "slippedIn"}]
  BY <1>2 DEF TypeOK
<1>8. pc' \in [Actors -> Steps] /\ Control'
  BY <1>1, <1>4, <1>5, MovesControl
<1>9. TypeOK'
  BY <1>1, <1>6, <1>7, <1>8 DEF TypeOK, Steps
<1>10. Unstarted'
  BY <1>1, <1>4, <1>5, NothingUnstarted
<1>11. OffColumnIsTransient'
  <2> SUFFICES ASSUME row # NoRow, NEW i \in Instances \ {column}, runs'[i] # Idle,
                      \A m \in Actors : pc'[m] # "unsure"
               PROVE  WillClean(i)' \/ stray'
    BY <1>1 DEF OffColumnIsTransient
  <2>1. runs[i] # Idle
    BY <1>6
  <2>2. r \in {"ok", "missing"} /\ i # Other(to[p])
    BY <1>3, <1>6
  <2>3. ~ \E m \in Actors : pc[m] = "unsure"
    BY <1>1, <1>3 DEF TypeOK
  <2>4. CASE stray
    BY <1>6, <2>4
  <2>5. CASE WillClean(i)
    <3>1. PICK m \in Actors : kind[m] = "move" /\ pc[m] = "again" /\ to[m] = Other(i)
      BY <2>5 DEF WillClean
    <3>2. m # p
      BY <1>1, <2>2, <3>1, OtherInstance
    <3>3. pc'[m] = "again" /\ kind'[m] = "move" /\ to'[m] = Other(i)
      BY <1>1, <1>3, <3>1, <3>2 DEF TypeOK
    <3>4. QED BY <3>3 DEF WillClean
  <2>6. QED BY <2>1, <2>3, <2>4, <2>5 DEF OffColumnIsTransient
<1>12. QED BY <1>8, <1>9, <1>10, <1>11

LEMMA MoveCreateInv ==
  ASSUME IInv, NEW p \in Actors, MoveCreate(p)
  PROVE  IInv'
<1> USE DEF IInv
<1>1. /\ pc[p] = "arrive" /\ kind[p] = "move" /\ to[p] \in Instances
      /\ UNCHANGED <<database, kind, cfg, to, found>>
  BY DEF MoveCreate, Control, MoveSteps, Pinned
<1>2. PICK r \in Replies : Create(to[p], cfg[p], r) /\ Goto(p, If200("ok", "failed")[r])
  BY DEF MoveCreate
<1>3. Moves(p, OtherSteps)
  <2>1. If200("ok", "failed")[r] \in OtherSteps
    BY DEF If200, OtherSteps
  <2>2. QED BY <1>1, <1>2, <2>1 DEF Goto, Moves, TypeOK
<1>4. /\ runs' \in [Instances -> {Idle} \cup Configs]
      /\ fresh' = fresh
      /\ \A j \in Instances : j # to[p] => runs'[j] = runs[j]
      /\ stray' \in BOOLEAN
      /\ stray => stray'
      /\ runs'[to[p]] # runs[to[p]] => to[p] = Route \/ WillClean(to[p]) \/ stray'
  BY <1>1, <1>2, CreateEffect
<1>5. \A j \in Instances :
        runs'[j] # Idle => runs[j] # Idle \/ j = Route \/ WillClean(j) \/ stray'
  BY <1>4
<1>6. QED
  BY <1>1, <1>3, <1>4, <1>5, RequestInv, OtherStepsAre DEF TypeOK

-----------------------------------------------------------------------------
LEMMA CrashInv ==
  ASSUME IInv, NEW i \in Instances, Crash(i)
  PROVE  IInv'
<1> USE DEF IInv
<1>1. /\ UNCHANGED <<row, column, kind, pc, cfg, to, found, stray>>
      /\ runs' = [runs EXCEPT ![i] = Idle]
      /\ fresh' = {p \in Actors : pc[p] = "begin"}
  BY DEF Crash, database
<1>2. /\ runs' \in [Instances -> {Idle} \cup Configs]
      /\ \A j \in Instances : runs'[j] \in {runs[j], Idle}
  BY <1>1 DEF TypeOK
<1>3. TypeOK'
  BY <1>1, <1>2 DEF TypeOK
<1>4. Control'
  BY <1>1 DEF Control
<1>5. Unstarted'
  BY <1>1, <1>2 DEF Unstarted
<1>6. \A j \in Instances : WillClean(j) => WillClean(j)'
  BY <1>1 DEF WillClean
<1>7. OffColumnIsTransient'
  BY <1>1, <1>2, <1>6 DEF OffColumnIsTransient
<1>8. QED BY <1>3, <1>4, <1>5, <1>7

LEMMA InitInv == LifecycleAssumption /\ Init => IInv
<1> SUFFICES ASSUME LifecycleAssumption, Init PROVE IInv
  OBVIOUS
<1>1. row \in {NoRow} \cup Configs
  BY DEF Init, LifecycleAssumption, Configs
<1>2. runs \in [Instances -> {Idle} \cup Configs]
  BY <1>1 DEF Init, NoRow, Idle
<1>3. TypeOK
  BY <1>1, <1>2 DEF Init, TypeOK
<1>4. Control
  BY DEF Init, Control, MoveSteps, Pinned
<1>5. Unstarted
  BY DEF Init, Unstarted, NoRow, Idle
<1>6. OffColumnIsTransient
  BY DEF Init, OffColumnIsTransient
<1>7. QED BY <1>3, <1>4, <1>5, <1>6 DEF IInv

LEMMA NextInv == LifecycleAssumption /\ IInv /\ [Next]_vars => IInv'
<1> SUFFICES ASSUME LifecycleAssumption, IInv, [Next]_vars PROVE IInv'
  OBVIOUS
<1>1. ASSUME NEW p \in Actors, Actor(p)
      PROVE  IInv'
  BY <1>1, Shapes, LookUpInv, QueryFailsInv, ReadsInv, AsksInv, DestroysInv,
     CreatesInv, WritesInv, StartSaveInv, EditReadInv, StopInv, MoveAwayInv,
     MoveSetInv, MoveAgainInv, MoveCreateInv
<1>2. ASSUME NEW i \in Instances, Crash(i)
      PROVE  IInv'
  BY <1>2, CrashInv
<1>3. CASE UNCHANGED vars
  BY <1>3 DEF vars, IInv, TypeOK, Control, Unstarted, OffColumnIsTransient, WillClean
<1>4. QED BY <1>1, <1>2, <1>3 DEF Next

\* Types: requests are answered, addressed and counted as the steps expect,
\* whichever actors work on the connection.
THEOREM ConnectionTypeOK == Spec => []TypeOK
<1>1. Init => IInv
  BY InitInv, LifecycleAssumption
<1>2. IInv /\ [Next]_vars => IInv'
  BY NextInv, LifecycleAssumption
<1>3. IInv => TypeOK
  BY DEF IInv
<1>4. QED BY <1>1, <1>2, <1>3, PTL DEF Spec

\* With any number of moves, recreates and other actors at once, and whatever
\* fails, an instance that the column does not name runs the connection only
\* until the move's second destroy, after a reported failure, or because of a
\* create sent before the column changed (moveOne).
THEOREM ConnectionOffColumn == Spec => []OffColumnIsTransient
<1>1. Init => IInv
  BY InitInv, LifecycleAssumption
<1>2. IInv /\ [Next]_vars => IInv'
  BY NextInv, LifecycleAssumption
<1>3. IInv => OffColumnIsTransient
  BY DEF IInv
<1>4. QED BY <1>1, <1>2, <1>3, PTL DEF Spec

-----------------------------------------------------------------------------
(***************************************************************************)
(* What a kind of actor does where.  An actor at a step of the set         *)
(* Carrying holds a config that was read from the row.                     *)
(***************************************************************************)
Carrying == {"ask", "create", "confirm", "revive ask", "revive create",
             "start create", "start undo", "edit save", "edit destroy", "edit update",
             "edit create", "reconnect destroy", "reconnect create"} \cup MoveSteps

PlacedAt(k, step, config, noted) ==
  /\ step \in {"ask", "create", "confirm"} => k = "recreate"
  /\ step \in {"revive ask", "revive create"} => k = "revive"
  /\ step \in {"start create", "start undo"} => k = "start"
  /\ step \in {"delete destroy", "delete row"} => k = "delete"
  /\ step \in {"wipe destroy", "wipe row"} => k = "wipe"
  /\ step \in {"edit save", "edit destroy", "edit update", "edit create"} => k = "edit"
  /\ step \in {"reconnect destroy", "reconnect create"} => k = "reconnect"
  /\ step = "stop destroy" => k = "stop"
  /\ step \in Carrying => config # NoRow
  /\ step = "arrive" => noted # {}

Placed == \A p \in Actors : PlacedAt(kind[p], pc[p], cfg[p], found[p])

\* p goes on to the step next; the others stay as they are.
Goes(p, next) ==
  /\ pc' = [pc EXCEPT ![p] = next]
  /\ kind' = kind
  /\ \A q \in Actors \ {p} : cfg'[q] = cfg[q] /\ found'[q] = found[q]

LEMMA PlacedStep ==
  ASSUME TypeOK, Placed, NEW p \in Actors, NEW next, Goes(p, next),
         PlacedAt(kind[p], next, cfg'[p], found'[p])
  PROVE  Placed'
<1>1. ASSUME NEW q \in Actors
      PROVE  PlacedAt(kind'[q], pc'[q], cfg'[q], found'[q])
  <2>1. CASE q = p
    <3>1. pc'[q] = next /\ kind'[q] = kind[p]
      BY <2>1 DEF Goes, TypeOK
    <3>2. QED BY <2>1, <3>1
  <2>2. CASE q # p
    <3>1. pc'[q] = pc[q] /\ kind'[q] = kind[q] /\ cfg'[q] = cfg[q] /\ found'[q] = found[q]
      BY <2>2 DEF Goes, TypeOK
    <3>2. QED BY <3>1 DEF Placed
  <2>3. QED BY <2>1, <2>2
<1>2. QED BY <1>1 DEF Placed

\* An actor's ends are placed, whatever it is.
LEMMA EndsPlaced ==
  ASSUME NEW k, NEW config, NEW noted, NEW step \in Ends
  PROVE  PlacedAt(k, step, config, noted)
<1>1. step \in {"ok", "failed", "unsure"}
  BY DEF Ends
<1>2. step \notin Carrying
  BY <1>1 DEF Carrying, MoveSteps
<1>3. QED BY <1>1, <1>2 DEF PlacedAt

-----------------------------------------------------------------------------
(***************************************************************************)
(* The requests, by what they do to whether the connection runs.           *)
(***************************************************************************)
Running == \E i \in Instances : runs[i] # Idle

LEMMA DestroyRuns ==
  ASSUME TypeOK, NEW i \in Instances, NEW r \in Replies, Destroy(i, r)
  PROVE  /\ fresh' = fresh
         /\ \A j \in Instances : runs'[j] # Idle => runs[j] # Idle
         /\ \A j \in Instances : j # i => runs'[j] = runs[j]
         /\ r = "ok" => runs[i] # Idle /\ runs'[i] = Idle
         /\ r = "missing" => runs' = runs
         /\ r \notin {"ok", "missing"} /\ "lost" \notin Env => runs' = runs
<1>1. CASE Fails(r)
  BY <1>1 DEF Fails, liercd
<1>2. CASE /\ r \in {State(i)} \cup Lost
           /\ runs' = [runs EXCEPT ![i] = Idle]
           /\ UNCHANGED <<stray, fresh>>
  <2>1. r = "missing" => runs[i] = Idle
    BY <1>2 DEF State, Lost
  <2>2. r = "ok" => runs[i] # Idle
    BY <1>2 DEF State, Lost
  <2>3. r \notin {"ok", "missing"} => "lost" \in Env
    BY <1>2 DEF State, Lost
  <2>4. runs'[i] = Idle /\ \A j \in Instances : j # i => runs'[j] = runs[j]
    BY <1>2 DEF TypeOK
  <2>5. runs[i] = Idle => runs' = runs
    BY <1>2 DEF TypeOK
  <2>6. QED BY <1>2, <2>1, <2>2, <2>3, <2>4, <2>5
<1>3. QED BY <1>1, <1>2 DEF Destroy

LEMMA CreateRuns ==
  ASSUME TypeOK, NEW i \in Instances, NEW r \in Replies,
         NEW p \in Actors, cfg[p] # NoRow, Create(i, cfg[p], r)
  PROVE  /\ fresh' = fresh
         /\ \A j \in Instances : runs[j] # Idle => runs'[j] # Idle
         /\ \A j \in Instances : j # i => runs'[j] = runs[j]
         /\ r = "ok" => runs'[i] # Idle
         /\ r # "ok" /\ "lost" \notin Env => runs' = runs
<1>1. CASE Fails(r)
  BY <1>1 DEF Fails, liercd
<1>2. CASE ~Fails(r)
  <2>1. PICK new \in {cfg[p]} \cup ({runs[i]} \ {Idle}) : runs' = [runs EXCEPT ![i] = new]
    BY <1>2 DEF Create
  <2>2. new # Idle
    BY <2>1 DEF NoRow, Idle
  <2>3. runs'[i] # Idle /\ \A j \in Instances : j # i => runs'[j] = runs[j]
    BY <2>1, <2>2 DEF TypeOK
  <2>4. r # "ok" => "lost" \in Env
    BY <1>2 DEF Create, Lost
  <2>5. fresh' = fresh
    BY <1>2 DEF Create
  <2>6. QED BY <2>3, <2>4, <2>5
<1>3. QED BY <1>1, <1>2

LEMMA AskFacts ==
  ASSUME TypeOK, NEW p \in Actors, NEW step, NEW next, AskRouted(p, step, next)
  PROVE  /\ pc[p] = step
         /\ UNCHANGED <<row, runs, fresh, kind, cfg, found>>
         /\ \E r \in Replies : Goes(p, next[r]) /\ (r = "ok" => Running')
<1>1. PICK i \in Instances, r \in Replies :
        Addressed(p, step, i) /\ Status(i, r) /\ Goto(p, next[r])
  BY DEF AskRouted
<1>2. UNCHANGED <<row, runs, stray, fresh, kind, cfg, found>>
  BY <1>1 DEF AskRouted, Status, Fails, liercd, database
<1>3. r = "ok" => runs[i] # Idle
  BY <1>1 DEF Status, State, Fails
<1>4. Goes(p, next[r])
  BY <1>1, <1>2 DEF Goes, Goto
<1>5. pc[p] = step
  BY <1>1 DEF Addressed
<1>6. QED BY <1>2, <1>3, <1>4, <1>5 DEF Running

LEMMA DestroyFacts ==
  ASSUME TypeOK, NEW p \in Actors, NEW step, NEW next, DestroyRouted(p, step, next)
  PROVE  /\ pc[p] = step
         /\ UNCHANGED <<row, fresh, kind, cfg, found>>
         /\ \E r \in Replies, i \in Instances : Goes(p, next[r]) /\ Destroy(i, r)
<1>1. PICK i \in Instances, r \in Replies :
        Addressed(p, step, i) /\ Destroy(i, r) /\ Goto(p, next[r])
  BY DEF DestroyRouted
<1>2. UNCHANGED <<row, kind, cfg, found>>
  BY DEF DestroyRouted, database
<1>3. Goes(p, next[r])
  BY <1>1, <1>2 DEF Goes, Goto
<1>4. fresh' = fresh
  BY <1>1, DestroyRuns
<1>5. pc[p] = step
  BY <1>1 DEF Addressed
<1>6. QED BY <1>1, <1>2, <1>3, <1>4, <1>5

LEMMA CreateFacts ==
  ASSUME TypeOK, NEW p \in Actors, NEW step, NEW next, CreateRouted(p, step, next),
         cfg[p] # NoRow
  PROVE  /\ pc[p] = step
         /\ UNCHANGED <<row, fresh, kind, cfg, found>>
         /\ \E r \in Replies, i \in Instances : Goes(p, next[r]) /\ Create(i, cfg[p], r)
<1>1. PICK i \in Instances, r \in Replies :
        Addressed(p, step, i) /\ Create(i, cfg[p], r) /\ Goto(p, next[r])
  BY DEF CreateRouted
<1>2. UNCHANGED <<row, kind, cfg, found>>
  BY DEF CreateRouted, database
<1>3. Goes(p, next[r])
  BY <1>1, <1>2 DEF Goes, Goto
<1>4. fresh' = fresh
  BY <1>1, CreateRuns
<1>5. pc[p] = step
  BY <1>1 DEF Addressed
<1>6. QED BY <1>1, <1>2, <1>3, <1>4, <1>5

-----------------------------------------------------------------------------
(***************************************************************************)
(* Every actor stays where its kind belongs.                               *)
(***************************************************************************)

\* A routed request leads to ends, or to a step of its kind.
LEMMA PlacedRouted ==
  ASSUME TypeOK, Placed, NEW p \in Actors, NEW step, NEW next,
         AskRouted(p, step, next) \/ DestroyRouted(p, step, next) \/ CreateRouted(p, step, next),
         \A r \in Replies : next[r] \in Ends \/ PlacedAt(kind[p], next[r], cfg[p], found[p])
  PROVE  Placed'
<1>1. PICK r \in Replies : Goto(p, next[r])
  BY DEF AskRouted, DestroyRouted, CreateRouted
<1>2. UNCHANGED <<kind, cfg, found>>
  BY DEF AskRouted, DestroyRouted, CreateRouted
<1>3. Goes(p, next[r])
  BY <1>1, <1>2 DEF Goes, Goto
<1>4. PlacedAt(kind[p], next[r], cfg'[p], found'[p])
  BY <1>2, EndsPlaced
<1>5. QED BY <1>3, <1>4, PlacedStep

LEMMA PlacedRead ==
  ASSUME TypeOK, Placed, NEW p \in Actors, NEW k, NEW next, ReadConfig(p, k, next),
         \A c : c # NoRow => PlacedAt(k, next, c, found[p])
  PROVE  Placed'
<1>1. /\ kind[p] = k
      /\ cfg' = [cfg EXCEPT ![p] = row]
      /\ UNCHANGED <<kind, found>>
      /\ pc' = [pc EXCEPT ![p] = IF row = NoRow THEN "failed" ELSE next]
  BY DEF ReadConfig, Goto
<1>2. cfg'[p] = row /\ \A q \in Actors \ {p} : cfg'[q] = cfg[q]
  BY <1>1 DEF TypeOK
<1>3. CASE row = NoRow
  <2>1. Goes(p, "failed")
    BY <1>1, <1>2, <1>3 DEF Goes
  <2>2. PlacedAt(kind[p], "failed", cfg'[p], found'[p])
    BY EndsPlaced DEF Ends
  <2>3. QED BY <2>1, <2>2, PlacedStep
<1>4. CASE row # NoRow
  <2>1. Goes(p, next)
    BY <1>1, <1>2, <1>4 DEF Goes
  <2>2. PlacedAt(kind[p], next, cfg'[p], found'[p])
    BY <1>1, <1>2, <1>4
  <2>3. QED BY <2>1, <2>2, PlacedStep
<1>5. QED BY <1>3, <1>4

LEMMA PlacedWrite ==
  ASSUME TypeOK, Placed, NEW p \in Actors, NEW from, NEW next, NEW c, WriteRow(p, from, next, c),
         PlacedAt(kind[p], next, cfg[p], found[p])
  PROVE  Placed'
<1>1. Goes(p, next) /\ UNCHANGED <<cfg, found>>
  BY DEF WriteRow, Goes, Goto
<1>2. QED BY <1>1, PlacedStep

\* Where p is, by its kind.
LEMMA PlaceOf ==
  ASSUME Placed, Control, NEW p \in Actors
  PROVE  /\ PlacedAt(kind[p], pc[p], cfg[p], found[p])
         /\ pc[p] \in MoveSteps => kind[p] = "move"
BY DEF Placed, Control

LEMMA OpenPlaced ==
  ASSUME TypeOK, Control, Placed, NEW p \in Actors, Open(p) \/ Revive(p) \/ Reconnect(p)
  PROVE  Placed'
<1> USE DEF PlacedAt, Carrying, MoveSteps
<1>1. PlacedAt(kind[p], pc[p], cfg[p], found[p])
  BY PlaceOf
<1>2. CASE RecreateRead(p)
  BY <1>2, PlacedRead DEF RecreateRead
<1>3. CASE RecreateAsk(p)
  <2>1. pc[p] = "ask" /\ kind[p] = "recreate" /\ cfg[p] # NoRow
    BY <1>1, <1>3, AskFacts DEF RecreateAsk
  <2>2. \A r \in Replies :
          [If200("ok", "create") EXCEPT !["error"] = "failed"][r] \in {"ok", "create", "failed"}
    BY DEF If200, Replies
  <2>3. QED BY <1>3, <2>1, <2>2, PlacedRouted DEF RecreateAsk, Ends
<1>4. CASE RecreateCreate(p)
  <2>1. pc[p] = "create" /\ kind[p] = "recreate" /\ cfg[p] # NoRow
    BY <1>1, <1>4 DEF RecreateCreate, CreateRouted, Addressed
  <2>2. \A r \in Replies : If200("confirm", "failed")[r] \in {"confirm", "failed"}
    BY DEF If200
  <2>3. QED BY <1>4, <2>1, <2>2, PlacedRouted DEF RecreateCreate, Ends
<1>5. CASE RecreateConfirm(p)
  <2>1. \A r \in Replies : If200("ok", "failed")[r] \in Ends
    BY DEF If200, Ends
  <2>2. QED BY <1>5, <2>1, PlacedRouted DEF RecreateConfirm
<1>6. CASE ReviveRead(p)
  BY <1>6, PlacedRead DEF ReviveRead
<1>7. CASE ReviveAsk(p)
  <2>1. pc[p] = "revive ask" /\ kind[p] = "revive" /\ cfg[p] # NoRow
    BY <1>1, <1>7, AskFacts DEF ReviveAsk
  <2>2. \A r \in Replies : If200("ok", "revive create")[r] \in {"ok", "revive create"}
    BY DEF If200
  <2>3. QED BY <1>7, <2>1, <2>2, PlacedRouted DEF ReviveAsk, Ends
<1>8. CASE ReviveCreate(p)
  <2>1. \A r \in Replies : If200("ok", "failed")[r] \in Ends
    BY DEF If200, Ends
  <2>2. QED BY <1>8, <2>1, PlacedRouted DEF ReviveCreate
<1>9. CASE ReconnectRead(p)
  BY <1>9, PlacedRead DEF ReconnectRead
<1>10. CASE ReconnectDestroy(p)
  <2>1. pc[p] = "reconnect destroy" /\ kind[p] = "reconnect" /\ cfg[p] # NoRow
    BY <1>1, <1>10, DestroyFacts DEF ReconnectDestroy
  <2>2. \A r \in Replies : If404("reconnect create", "failed")[r] \in {"reconnect create", "failed"}
    BY DEF If404
  <2>3. QED BY <1>10, <2>1, <2>2, PlacedRouted DEF ReconnectDestroy, Ends
<1>11. CASE ReconnectCreate(p)
  <2>1. \A r \in Replies : If200("ok", "failed")[r] \in Ends
    BY DEF If200, Ends
  <2>2. QED BY <1>11, <2>1, PlacedRouted DEF ReconnectCreate
<1>12. QED
  BY <1>2, <1>3, <1>4, <1>5, <1>6, <1>7, <1>8, <1>9, <1>10, <1>11 DEF Open, Revive, Reconnect

LEMMA ApiPlaced ==
  ASSUME TypeOK, Control, Placed, NEW p \in Actors,
         Start(p) \/ Delete(p) \/ Edit(p) \/ Wipe(p) \/ StopIdle(p)
  PROVE  Placed'
<1> USE DEF PlacedAt, Carrying, MoveSteps
<1>1. PlacedAt(kind[p], pc[p], cfg[p], found[p])
  BY PlaceOf
<1>2. CASE StartSave(p)
  <2>1. kind[p] = "start" /\ UNCHANGED <<kind, found>>
    BY <1>2 DEF StartSave
  <2>2. CASE Goto(p, "failed") /\ UNCHANGED <<row, cfg>>
    <3>1. Goes(p, "failed")
      BY <2>1, <2>2 DEF Goes, Goto
    <3>2. QED BY <3>1, EndsPlaced, PlacedStep DEF Ends
  <2>3. CASE ~(Goto(p, "failed") /\ UNCHANGED <<row, cfg>>)
    <3>1. PICK c \in Configs : cfg' = [cfg EXCEPT ![p] = c] /\ Goto(p, "start create")
      BY <1>2, <2>3 DEF StartSave
    <3>2. c # NoRow
      BY DEF Configs, NoRow
    <3>3. Goes(p, "start create") /\ cfg'[p] # NoRow
      BY <2>1, <3>1, <3>2 DEF Goes, Goto, TypeOK
    <3>4. PlacedAt(kind[p], "start create", cfg'[p], found'[p])
      BY <2>1, <3>3
    <3>5. QED BY <3>3, <3>4, PlacedStep
  <2>4. QED BY <2>2, <2>3
<1>3. CASE StartCreate(p)
  <2>1. pc[p] = "start create" /\ kind[p] = "start" /\ cfg[p] # NoRow
    BY <1>1, <1>3 DEF StartCreate, CreateRouted, Addressed
  <2>2. \A r \in Replies : If200("ok", "start undo")[r] \in {"ok", "start undo"}
    BY DEF If200
  <2>3. QED BY <1>3, <2>1, <2>2, PlacedRouted DEF StartCreate, Ends
<1>4. CASE StartUndo(p) \/ DeleteRow(p) \/ EditSave(p) \/ WipeRow(p)
  BY <1>4, EndsPlaced, PlacedWrite DEF StartUndo, DeleteRow, EditSave, WipeRow, Ends
<1>5. CASE DeleteBegin(p)
  BY <1>5, PlacedRead DEF DeleteBegin
<1>6. CASE DeleteDestroy(p)
  <2>1. pc[p] = "delete destroy" /\ kind[p] = "delete"
    BY <1>1, <1>6, DestroyFacts DEF DeleteDestroy
  <2>2. \A r \in Replies : If200("delete row", "failed")[r] \in {"delete row", "failed"}
    BY DEF If200
  <2>3. QED BY <1>6, <2>1, <2>2, PlacedRouted DEF DeleteDestroy, Ends
<1>7. CASE EditRead(p)
  <2>1. kind[p] = "edit" /\ UNCHANGED <<kind, found>>
    BY <1>7 DEF EditRead
  <2>2. PICK c \in Configs :
          /\ cfg' = [cfg EXCEPT ![p] = c]
          /\ Goto(p, IF c = row THEN "edit save" ELSE "edit destroy")
    BY <1>7 DEF EditRead
  <2>3. c # NoRow
    BY DEF Configs, NoRow
  <2>4. PICK next \in {"edit save", "edit destroy"} : Goto(p, next)
    BY <2>2
  <2>5. Goes(p, next) /\ cfg'[p] # NoRow
    BY <2>1, <2>2, <2>3, <2>4 DEF Goes, Goto, TypeOK
  <2>6. PlacedAt(kind[p], next, cfg'[p], found'[p])
    BY <2>1, <2>4, <2>5
  <2>7. QED BY <2>5, <2>6, PlacedStep
<1>8. CASE EditDestroy(p)
  <2>1. pc[p] = "edit destroy" /\ kind[p] = "edit" /\ cfg[p] # NoRow
    BY <1>1, <1>8, DestroyFacts DEF EditDestroy
  <2>2. \A r \in Replies : If404("edit update", "failed")[r] \in {"edit update", "failed"}
    BY DEF If404
  <2>3. QED BY <1>8, <2>1, <2>2, PlacedRouted DEF EditDestroy, Ends
<1>9. CASE EditUpdate(p)
  <2>1. pc[p] = "edit update" /\ kind[p] = "edit" /\ cfg[p] # NoRow
    BY <1>1, <1>9 DEF EditUpdate, WriteRow
  <2>2. QED BY <1>9, <2>1, PlacedWrite DEF EditUpdate
<1>10. CASE EditCreate(p)
  <2>1. \A r \in Replies : If200("ok", "failed")[r] \in Ends
    BY DEF If200, Ends
  <2>2. QED BY <1>10, <2>1, PlacedRouted DEF EditCreate
<1>11. CASE WipeBegin(p)
  BY <1>11, PlacedRead DEF WipeBegin
<1>12. CASE WipeDestroy(p)
  <2>1. pc[p] = "wipe destroy" /\ kind[p] = "wipe"
    BY <1>1, <1>12, DestroyFacts DEF WipeDestroy
  <2>2. \A r \in Replies : If404("wipe row", "failed")[r] \in {"wipe row", "failed"}
    BY DEF If404
  <2>3. QED BY <1>12, <2>1, <2>2, PlacedRouted DEF WipeDestroy, Ends
<1>13. CASE StopRead(p)
  <2>1. kind[p] = "stop" /\ Goes(p, "stop destroy")
    BY <1>13 DEF StopRead, Goes, Goto
  <2>2. PlacedAt(kind[p], "stop destroy", cfg'[p], found'[p])
    BY <2>1
  <2>3. QED BY <2>1, <2>2, PlacedStep
<1>14. CASE StopDestroy(p)
  <2>1. PICK r \in Replies : Goto(p, If404("ok", "failed")[r])
    BY <1>14 DEF StopDestroy
  <2>2. PICK next \in {"ok", "failed"} : Goto(p, next)
    BY <2>1 DEF If404
  <2>3. Goes(p, next)
    BY <1>14, <2>2 DEF StopDestroy, Goes, Goto
  <2>4. PlacedAt(kind[p], next, cfg'[p], found'[p])
    BY <2>2
  <2>5. QED BY <2>3, <2>4, PlacedStep
<1>15. QED
  BY <1>2, <1>3, <1>4, <1>5, <1>6, <1>7, <1>8, <1>9, <1>10, <1>11, <1>12, <1>13, <1>14
     DEF Start, Delete, Edit, Wipe, StopIdle

LEMMA MovePlaced ==
  ASSUME TypeOK, Control, Placed, NEW p \in Actors, Move(p)
  PROVE  Placed'
<1> USE DEF PlacedAt, Carrying, MoveSteps
<1>1. PlacedAt(kind[p], pc[p], cfg[p], found[p]) /\ (pc[p] \in MoveSteps => kind[p] = "move")
  BY PlaceOf
<1>2. CASE MoveRead(p)
  BY <1>2, PlacedRead DEF MoveRead
<1>3. ASSUME pc[p] \in MoveSteps, NEW next \in MoveSteps \cup Ends, Goto(p, next),
             UNCHANGED <<kind, cfg>>,
             \A q \in Actors \ {p} : found'[q] = found[q],
             next = "arrive" => found'[p] # {}
      PROVE  Placed'
  <2>1. Goes(p, next) /\ kind[p] = "move" /\ cfg'[p] # NoRow
    BY <1>1, <1>3 DEF Goes, Goto
  <2>2. PlacedAt(kind[p], next, cfg'[p], found'[p])
    BY <1>3, <2>1 DEF Ends
  <2>3. QED BY <2>1, <2>2, PlacedStep
<1>4. CASE MoveLocate(p)
  <2>1. pc[p] \in MoveSteps /\ UNCHANGED <<kind, cfg, found>>
    BY <1>4 DEF MoveLocate
  <2>2. Goto(p, "probe") \/ Goto(p, "failed")
    BY <1>4 DEF MoveLocate
  <2>3. QED BY <1>3, <2>1, <2>2 DEF Ends
<1>5. CASE MoveProbe(p)
  <2>1. pc[p] \in MoveSteps /\ UNCHANGED <<kind, cfg, found>>
    BY <1>5 DEF MoveProbe
  <2>2. Goto(p, "leave") \/ Goto(p, "failed")
    BY <1>5 DEF MoveProbe
  <2>3. QED BY <1>3, <2>1, <2>2 DEF Ends
<1>6. CASE MoveDestroy(p)
  <2>1. pc[p] \in MoveSteps /\ UNCHANGED <<kind, cfg>>
    BY <1>6 DEF MoveDestroy
  <2>2. Goto(p, "set") \/ Goto(p, "failed")
    BY <1>6 DEF MoveDestroy, If404
  <2>3. \A q \in Actors \ {p} : found'[q] = found[q]
    BY <1>6 DEF MoveDestroy, TypeOK
  <2>4. QED BY <1>3, <2>1, <2>2, <2>3 DEF Ends
<1>7. CASE MoveSet(p)
  <2>1. pc[p] \in MoveSteps /\ UNCHANGED <<kind, cfg, found>> /\ Goto(p, "again")
    BY <1>7 DEF MoveSet
  <2>2. QED BY <1>3, <2>1
<1>8. CASE MoveAgain(p)
  <2>1. pc[p] \in MoveSteps /\ UNCHANGED <<kind, cfg>>
    BY <1>8 DEF MoveAgain
  <2>2. PICK r \in Replies :
          LET slipped == found[p] \cup (IF r = "ok" THEN {"slippedIn"} ELSE {})
          IN  /\ found' = [found EXCEPT ![p] = slipped]
              /\ Goto(p, If404(IF slipped = {} THEN "ok" ELSE "arrive", "unsure")[r])
    BY <1>8 DEF MoveAgain
  <2>3. \A q \in Actors \ {p} : found'[q] = found[q]
    BY <2>2 DEF TypeOK
  <2>4. PICK next \in {"ok", "arrive", "unsure"} :
          Goto(p, next) /\ (next = "arrive" => found'[p] # {})
    BY <2>2 DEF If404, TypeOK
  <2>5. QED BY <1>3, <2>1, <2>3, <2>4 DEF Ends
<1>9. CASE MoveCreate(p)
  <2>1. pc[p] \in MoveSteps /\ UNCHANGED <<kind, cfg, found>>
    BY <1>9 DEF MoveCreate
  <2>2. Goto(p, "ok") \/ Goto(p, "failed")
    BY <1>9 DEF MoveCreate, If200
  <2>3. QED BY <1>3, <2>1, <2>2 DEF Ends
<1>10. QED
  BY <1>2, <1>4, <1>5, <1>6, <1>7, <1>8, <1>9 DEF Move

LEMMA PlacedNext ==
  ASSUME TypeOK, Control, Placed, [Next]_vars
  PROVE  Placed'
<1>1. ASSUME NEW p \in Actors, LookUp(p)
      PROVE  Placed'
  BY <1>1 DEF LookUp, Placed
<1>2. ASSUME NEW p \in Actors, QueryFails(p)
      PROVE  Placed'
  <2>1. Goes(p, "failed")
    BY <1>2 DEF QueryFails, Goes, Goto
  <2>2. QED BY <2>1, EndsPlaced, PlacedStep DEF Ends
<1>3. ASSUME NEW i \in Instances, Crash(i)
      PROVE  Placed'
  BY <1>3 DEF Crash, Placed
<1>4. CASE UNCHANGED vars
  BY <1>4 DEF vars, Placed
<1>5. QED
  BY <1>1, <1>2, <1>3, <1>4, OpenPlaced, ApiPlaced, MovePlaced DEF Next, Actor

LEMMA PlacedInit == Init => Placed
BY DEF Init, Placed, PlacedAt, Carrying, MoveSteps

\* The part of the invariant that the two theorems below build on.
LEMMA ControlPlaced == Spec => [](TypeOK /\ Control /\ Unstarted /\ Placed)
<1>1. Init => IInv /\ Placed
  BY InitInv, PlacedInit, LifecycleAssumption
<1>2. IInv /\ Placed /\ [Next]_vars => IInv' /\ Placed'
  BY NextInv, PlacedNext, LifecycleAssumption DEF IInv
<1>3. IInv /\ Placed => TypeOK /\ Control /\ Unstarted /\ Placed
  BY DEF IInv
<1>4. QED BY <1>1, <1>2, <1>3, PTL DEF Spec

-----------------------------------------------------------------------------
(***************************************************************************)
(* No silent loss.  Whoever has stopped the connection and not failed will *)
(* start it again.                                                         *)
(***************************************************************************)
Promises(p) ==
  \/ pc[p] \in {"create", "revive create", "start create", "edit update",
                "edit create", "reconnect create", "arrive"}
  \/ pc[p] \in {"set", "again"} /\ found[p] # {}

\* Whoever has failed, or will say that it has.
Bad(p) == pc[p] \in {"failed", "unsure", "start undo"}

Starters == {"recreate", "revive", "start", "reconnect"}

\* Once a fresh stream, start, revive or reconnect has succeeded, while nobody
\* has failed or stops it, the connection runs or somebody will create it.
KeptAlive ==
  /\ \A p \in Actors : ~Bad(p)
  /\ Kinded({"delete", "wipe", "stop"}) = {}
  /\ \E p \in Kinded(Starters) \cap fresh : pc[p] = "ok"
  => Running \/ \E p \in Actors : Promises(p)

LEMMA AliveStep ==
  ASSUME TypeOK, KeptAlive, NEW p \in Actors, NEW next, Goes(p, next), fresh' = fresh,
         Bad(p) => Bad(p)',
         ~Bad(p)' /\ (Running \/ Promises(p)) => Running' \/ Promises(p)',
         next = "ok" /\ kind[p] \in Starters => Running'
  PROVE  KeptAlive'
<1> SUFFICES ASSUME \A q \in Actors : ~Bad(q)',
                    Kinded({"delete", "wipe", "stop"})' = {},
                    NEW f \in Kinded(Starters)' \cap fresh', pc'[f] = "ok"
             PROVE  Running' \/ \E q \in Actors : Promises(q)'
  BY DEF KeptAlive
<1>1. /\ \A q \in Actors \ {p} : pc'[q] = pc[q] /\ found'[q] = found[q]
      /\ pc'[p] = next /\ kind' = kind
  BY DEF Goes, TypeOK
<1>2. \A q \in Actors \ {p} : (Bad(q)' <=> Bad(q)) /\ (Promises(q) => Promises(q)')
  BY <1>1 DEF Bad, Promises
<1>3. f \in Actors /\ f \in fresh /\ kind[f] \in Starters
  BY <1>1 DEF Kinded
<1>4. CASE f = p
  BY <1>1, <1>3, <1>4
<1>5. CASE f # p
  <2>1. pc[f] = "ok" /\ f \in Kinded(Starters) \cap fresh
    BY <1>1, <1>3, <1>5 DEF Kinded
  <2>2. Kinded({"delete", "wipe", "stop"}) = {} /\ \A q \in Actors : ~Bad(q)
    BY <1>1, <1>2 DEF Kinded
  <2>3. Running \/ \E q \in Actors : Promises(q)
    BY <2>1, <2>2 DEF KeptAlive
  <2>4. QED BY <1>2, <2>3
<1>6. QED BY <1>4, <1>5

\* The kinds that stop a connection are set aside.
LEMMA AliveAside ==
  ASSUME NEW p \in Actors, kind[p] \in {"delete", "wipe", "stop"}, kind' = kind
  PROVE  KeptAlive'
BY DEF KeptAlive, Kinded

\* A step that leaves liercd alone and keeps p's promise, if it made one.
LEMMA AliveQuiet ==
  ASSUME TypeOK, KeptAlive, NEW p \in Actors, NEW next, Goes(p, next),
         UNCHANGED <<runs, fresh>>,
         Bad(p) => Bad(p)',
         Promises(p) => Promises(p)' \/ Bad(p)',
         next = "ok" => kind[p] \notin Starters
  PROVE  KeptAlive'
BY AliveStep DEF Running

LEMMA AliveAsk ==
  ASSUME TypeOK, KeptAlive, NEW p \in Actors, NEW step \in {"ask", "confirm", "revive ask"},
         NEW next, AskRouted(p, step, next),
         \A r \in Replies \ {"ok"} : next[r] # "ok"
  PROVE  KeptAlive'
<1>1. pc[p] = step /\ UNCHANGED <<runs, fresh>>
  BY AskFacts
<1>2. PICK r \in Replies : Goes(p, next[r]) /\ (r = "ok" => Running')
  BY AskFacts
<1>3. ~Bad(p) /\ ~Promises(p)
  BY <1>1 DEF Bad, Promises
<1>4. Running => Running'
  BY <1>1 DEF Running
<1>5. QED BY <1>1, <1>2, <1>3, <1>4, AliveStep

\* Whoever destroys goes on to create, or fails.
LEMMA AliveDestroy ==
  ASSUME TypeOK, KeptAlive, NEW p \in Actors, NEW step \in {"edit destroy", "reconnect destroy"},
         NEW next, DestroyRouted(p, step, next),
         \A r \in Replies : next[r] \in {"edit update", "reconnect create", "failed"}
  PROVE  KeptAlive'
<1>1. pc[p] = step /\ UNCHANGED <<fresh, found>>
  BY DestroyFacts
<1>2. PICK r \in Replies : Goes(p, next[r])
  BY DestroyFacts
<1>3. pc'[p] = next[r]
  BY <1>2 DEF Goes, TypeOK
<1>4. ~Bad(p)
  BY <1>1 DEF Bad
<1>5. Bad(p)' \/ Promises(p)'
  BY <1>3 DEF Bad, Promises
<1>6. next[r] # "ok"
  OBVIOUS
<1>7. QED BY <1>1, <1>2, <1>4, <1>5, <1>6, AliveStep

\* Whoever is told that its create succeeded leaves the connection running.
LEMMA AliveCreate ==
  ASSUME TypeOK, KeptAlive, NEW p \in Actors, NEW step \in Calls,
         NEW next, CreateRouted(p, step, next), cfg[p] # NoRow,
         \A r \in Replies \ {"ok"} : next[r] \in {"failed", "start undo"}
  PROVE  KeptAlive'
<1>1. pc[p] = step /\ UNCHANGED fresh
  BY CreateFacts
<1>2. PICK r \in Replies, i \in Instances : Goes(p, next[r]) /\ Create(i, cfg[p], r)
  BY CreateFacts
<1>3. (Running => Running') /\ (r = "ok" => Running')
  BY <1>2, CreateRuns DEF Running
<1>4. pc'[p] = next[r]
  BY <1>2 DEF Goes, TypeOK
<1>5. ~Bad(p)
  BY <1>1 DEF Bad, Calls
<1>6. r # "ok" => Bad(p)' /\ next[r] # "ok"
  <2>1. r # "ok" => next[r] \in {"failed", "start undo"}
    OBVIOUS
  <2>2. QED BY <1>4, <2>1 DEF Bad
<1>7. QED BY <1>1, <1>2, <1>3, <1>5, <1>6, AliveStep

LEMMA AliveRead ==
  ASSUME TypeOK, KeptAlive, NEW p \in Actors, NEW k, NEW next, ReadConfig(p, k, next), next # "ok"
  PROVE  KeptAlive'
<1>1. pc[p] = "begin" /\ UNCHANGED <<runs, fresh, kind, found>>
  BY DEF ReadConfig, liercd
<1>2. \A q \in Actors \ {p} : cfg'[q] = cfg[q]
  BY DEF ReadConfig, TypeOK
<1>3. PICK n \in {"failed", next} : pc' = [pc EXCEPT ![p] = n]
  BY DEF ReadConfig, Goto
<1>4. Goes(p, n)
  BY <1>1, <1>2, <1>3 DEF Goes
<1>5. ~Bad(p) /\ ~Promises(p)
  BY <1>1 DEF Bad, Promises
<1>6. QED BY <1>1, <1>3, <1>4, <1>5, AliveQuiet

LEMMA OpenAlive ==
  ASSUME TypeOK, Control, Placed, KeptAlive, NEW p \in Actors,
         Open(p) \/ Revive(p) \/ Reconnect(p)
  PROVE  KeptAlive'
<1>1. PlacedAt(kind[p], pc[p], cfg[p], found[p])
  BY PlaceOf
<1>2. CASE RecreateRead(p) \/ ReviveRead(p) \/ ReconnectRead(p)
  BY <1>2, AliveRead DEF RecreateRead, ReviveRead, ReconnectRead
<1>3. CASE RecreateAsk(p)
  <2>1. \A r \in Replies \ {"ok"} :
          [If200("ok", "create") EXCEPT !["error"] = "failed"][r] # "ok"
    BY DEF If200, Replies
  <2>2. QED BY <1>3, <2>1, AliveAsk DEF RecreateAsk
<1>4. CASE RecreateConfirm(p)
  <2>1. \A r \in Replies \ {"ok"} : If200("ok", "failed")[r] # "ok"
    BY DEF If200
  <2>2. QED BY <1>4, <2>1, AliveAsk DEF RecreateConfirm
<1>5. CASE ReviveAsk(p)
  <2>1. \A r \in Replies \ {"ok"} : If200("ok", "revive create")[r] # "ok"
    BY DEF If200
  <2>2. QED BY <1>5, <2>1, AliveAsk DEF ReviveAsk
<1>6. CASE RecreateCreate(p)
  <2>1. cfg[p] # NoRow
    BY <1>1, <1>6 DEF RecreateCreate, CreateRouted, Addressed, PlacedAt, Carrying
  <2>2. \A r \in Replies \ {"ok"} : If200("confirm", "failed")[r] = "failed"
    BY DEF If200
  <2>3. QED BY <1>6, <2>1, <2>2, AliveCreate DEF RecreateCreate, Calls
<1>7. CASE ReviveCreate(p)
  <2>1. cfg[p] # NoRow
    BY <1>1, <1>7 DEF ReviveCreate, CreateRouted, Addressed, PlacedAt, Carrying
  <2>2. \A r \in Replies \ {"ok"} : If200("ok", "failed")[r] = "failed"
    BY DEF If200
  <2>3. QED BY <1>7, <2>1, <2>2, AliveCreate DEF ReviveCreate, Calls
<1>8. CASE ReconnectDestroy(p)
  <2>1. \A r \in Replies : If404("reconnect create", "failed")[r] \in {"reconnect create", "failed"}
    BY DEF If404
  <2>2. QED BY <1>8, <2>1, AliveDestroy DEF ReconnectDestroy
<1>9. CASE ReconnectCreate(p)
  <2>1. cfg[p] # NoRow
    BY <1>1, <1>9 DEF ReconnectCreate, CreateRouted, Addressed, PlacedAt, Carrying
  <2>2. \A r \in Replies \ {"ok"} : If200("ok", "failed")[r] = "failed"
    BY DEF If200
  <2>3. QED BY <1>9, <2>1, <2>2, AliveCreate DEF ReconnectCreate, Calls
<1>10. QED
  BY <1>2, <1>3, <1>4, <1>5, <1>6, <1>7, <1>8, <1>9 DEF Open, Revive, Reconnect

LEMMA ApiAlive ==
  ASSUME TypeOK, Control, Placed, KeptAlive, NEW p \in Actors,
         Start(p) \/ Delete(p) \/ Edit(p) \/ Wipe(p) \/ StopIdle(p)
  PROVE  KeptAlive'
<1>1. PlacedAt(kind[p], pc[p], cfg[p], found[p])
  BY PlaceOf
<1>2. CASE Delete(p) \/ Wipe(p) \/ StopIdle(p)
  <2>1. kind' = kind
    BY <1>2 DEF Delete, DeleteBegin, DeleteDestroy, DeleteRow, Wipe, WipeBegin, WipeDestroy,
                WipeRow, StopIdle, StopRead, StopDestroy, ReadConfig, DestroyRouted, WriteRow
  <2>2. kind[p] \in {"delete", "wipe", "stop"}
    BY <1>1, <1>2 DEF Delete, DeleteBegin, DeleteDestroy, DeleteRow, Wipe, WipeBegin,
                WipeDestroy, WipeRow, StopIdle, StopRead, StopDestroy, ReadConfig,
                DestroyRouted, WriteRow, Addressed, PlacedAt
  <2>3. QED BY <2>1, <2>2, AliveAside
<1>3. CASE StartSave(p)
  <2>1. pc[p] = "begin" /\ UNCHANGED <<runs, fresh, kind, found>>
    BY <1>3 DEF StartSave, liercd
  <2>2. PICK next \in {"start create", "failed"} : pc' = [pc EXCEPT ![p] = next]
    BY <1>3 DEF StartSave, Goto
  <2>3. \A q \in Actors \ {p} : cfg'[q] = cfg[q]
    BY <1>3 DEF StartSave, TypeOK
  <2>4. Goes(p, next) /\ ~Bad(p) /\ ~Promises(p)
    BY <2>1, <2>2, <2>3 DEF Goes, Bad, Promises
  <2>5. QED BY <2>1, <2>2, <2>4, AliveQuiet
<1>4. CASE StartCreate(p)
  <2>1. cfg[p] # NoRow
    BY <1>1, <1>4 DEF StartCreate, CreateRouted, Addressed, PlacedAt, Carrying
  <2>2. \A r \in Replies \ {"ok"} : If200("ok", "start undo")[r] = "start undo"
    BY DEF If200
  <2>3. QED BY <1>4, <2>1, <2>2, AliveCreate DEF StartCreate, Calls
<1>5. CASE StartUndo(p)
  <2>1. Goes(p, "failed") /\ UNCHANGED <<runs, fresh>>
    BY <1>5 DEF StartUndo, WriteRow, Goes, Goto, liercd
  <2>2. Bad(p)'
    BY <2>1 DEF Goes, TypeOK, Bad
  <2>3. QED BY <2>1, <2>2, AliveQuiet
<1>6. CASE EditRead(p)
  <2>1. pc[p] = "begin" /\ UNCHANGED <<runs, fresh, kind, found>>
    BY <1>6 DEF EditRead, liercd
  <2>2. PICK next \in {"edit save", "edit destroy"} : pc' = [pc EXCEPT ![p] = next]
    BY <1>6 DEF EditRead, Goto
  <2>3. \A q \in Actors \ {p} : cfg'[q] = cfg[q]
    BY <1>6 DEF EditRead, TypeOK
  <2>4. Goes(p, next) /\ ~Bad(p) /\ ~Promises(p)
    BY <2>1, <2>2, <2>3 DEF Goes, Bad, Promises
  <2>5. QED BY <2>1, <2>2, <2>4, AliveQuiet
<1>7. CASE EditSave(p)
  <2>1. pc[p] = "edit save" /\ Goes(p, "ok") /\ UNCHANGED <<runs, fresh>>
    BY <1>7 DEF EditSave, WriteRow, Goes, Goto, liercd
  <2>2. ~Bad(p) /\ ~Promises(p)
    BY <2>1 DEF Bad, Promises
  <2>3. kind[p] \notin Starters
    BY <1>1, <2>1 DEF PlacedAt, Starters
  <2>4. QED BY <2>1, <2>2, <2>3, AliveQuiet
<1>8. CASE EditDestroy(p)
  <2>1. \A r \in Replies : If404("edit update", "failed")[r] \in {"edit update", "failed"}
    BY DEF If404
  <2>2. QED BY <1>8, <2>1, AliveDestroy DEF EditDestroy
<1>9. CASE EditUpdate(p)
  <2>1. pc[p] = "edit update" /\ Goes(p, "edit create") /\ UNCHANGED <<runs, fresh, found>>
    BY <1>9 DEF EditUpdate, WriteRow, Goes, Goto, liercd
  <2>2. Promises(p)' /\ ~Bad(p)
    BY <2>1 DEF Goes, TypeOK, Promises, Bad
  <2>3. QED BY <2>1, <2>2, AliveQuiet
<1>10. CASE EditCreate(p)
  <2>1. cfg[p] # NoRow
    BY <1>1, <1>10 DEF EditCreate, CreateRouted, Addressed, PlacedAt, Carrying
  <2>2. \A r \in Replies \ {"ok"} : If200("ok", "failed")[r] = "failed"
    BY DEF If200
  <2>3. QED BY <1>10, <2>1, <2>2, AliveCreate DEF EditCreate, Calls
<1>11. QED
  BY <1>2, <1>3, <1>4, <1>5, <1>6, <1>7, <1>8, <1>9, <1>10 DEF Start, Edit

LEMMA MoveAlive ==
  ASSUME TypeOK, Control, Placed, KeptAlive, NEW p \in Actors, Move(p)
  PROVE  KeptAlive'
<1>1. /\ PlacedAt(kind[p], pc[p], cfg[p], found[p])
      /\ pc[p] \in MoveSteps => kind[p] = "move"
      /\ pc[p] \in Pinned => to[p] \in Instances
  BY PlaceOf DEF Control
<1>2. CASE MoveRead(p)
  BY <1>2, AliveRead DEF MoveRead
<1>3. CASE MoveLocate(p)
  <2>1. pc[p] = "locate" /\ UNCHANGED <<runs, fresh, kind, cfg, found>>
    BY <1>3 DEF MoveLocate, liercd
  <2>2. PICK next \in {"probe", "failed"} : pc' = [pc EXCEPT ![p] = next]
    BY <1>3 DEF MoveLocate, Goto
  <2>3. Goes(p, next) /\ ~Bad(p) /\ ~Promises(p)
    BY <2>1, <2>2 DEF Goes, Bad, Promises
  <2>4. QED BY <2>1, <2>2, <2>3, AliveQuiet
<1>4. CASE MoveProbe(p)
  <2>1. pc[p] = "probe" /\ UNCHANGED <<runs, fresh, kind, cfg, found>>
    BY <1>4 DEF MoveProbe, Status, Fails, liercd
  <2>2. PICK next \in {"leave", "failed"} : pc' = [pc EXCEPT ![p] = next]
    BY <1>4 DEF MoveProbe, Goto
  <2>3. Goes(p, next) /\ ~Bad(p) /\ ~Promises(p)
    BY <2>1, <2>2 DEF Goes, Bad, Promises
  <2>4. QED BY <2>1, <2>2, <2>3, AliveQuiet
<1>5. CASE MoveDestroy(p)
  <2>1. pc[p] = "leave" /\ to[p] \in Instances /\ UNCHANGED <<kind, cfg>>
    BY <1>1, <1>5 DEF MoveDestroy, Pinned
  <2>2. PICK r \in Replies :
          /\ Destroy(Other(to[p]), r)
          /\ Goto(p, If404("set", "failed")[r])
          /\ found' = [found EXCEPT ![p] = IF r = "ok" THEN {"running"} ELSE {}]
    BY <1>5 DEF MoveDestroy
  <2>3. /\ fresh' = fresh
        /\ r = "missing" => runs' = runs
    BY <2>1, <2>2, DestroyRuns, OtherInstance
  <2>4. PICK next \in {"set", "failed"} :
          /\ pc' = [pc EXCEPT ![p] = next]
          /\ next = "set" => r \in {"ok", "missing"}
    BY <2>2 DEF Goto, If404
  <2>5. Goes(p, next)
    BY <2>1, <2>2, <2>4 DEF Goes, TypeOK
  <2>6. pc'[p] = next /\ found'[p] = IF r = "ok" THEN {"running"} ELSE {}
    BY <2>2, <2>4 DEF TypeOK
  <2>7. ~Bad(p) /\ ~Promises(p)
    BY <2>1 DEF Bad, Promises
  <2>8. ~Bad(p)' => Promises(p)' \/ runs' = runs
    BY <2>3, <2>4, <2>6 DEF Bad, Promises
  <2>9. QED BY <2>3, <2>4, <2>5, <2>7, <2>8, AliveStep DEF Running
<1>6. CASE MoveSet(p)
  <2>1. pc[p] = "set" /\ Goes(p, "again") /\ UNCHANGED <<runs, fresh, found>>
    BY <1>6 DEF MoveSet, Goes, Goto, liercd
  <2>2. (Promises(p) => Promises(p)') /\ ~Bad(p)
    BY <2>1 DEF Goes, TypeOK, Promises, Bad
  <2>3. QED BY <2>1, <2>2, AliveQuiet
<1>7. CASE MoveAgain(p)
  <2>1. pc[p] = "again" /\ to[p] \in Instances /\ kind[p] = "move" /\ UNCHANGED <<kind, cfg>>
    BY <1>1, <1>7 DEF MoveAgain, Pinned, MoveSteps
  <2>2. PICK r \in Replies :
          LET slipped == found[p] \cup (IF r = "ok" THEN {"slippedIn"} ELSE {})
          IN  /\ Destroy(Other(to[p]), r)
              /\ found' = [found EXCEPT ![p] = slipped]
              /\ Goto(p, If404(IF slipped = {} THEN "ok" ELSE "arrive", "unsure")[r])
    BY <1>7 DEF MoveAgain
  <2>3. fresh' = fresh /\ (r = "missing" => runs' = runs)
    BY <2>1, <2>2, DestroyRuns, OtherInstance
  <2>4. PICK next \in {"ok", "arrive", "unsure"} :
          /\ pc' = [pc EXCEPT ![p] = next]
          /\ next = "ok" => r = "missing" /\ found[p] = {}
    <3>1. r \notin {"ok", "missing"} => pc' = [pc EXCEPT ![p] = "unsure"]
      BY <2>2 DEF Goto, If404
    <3>2. r = "ok" => pc' = [pc EXCEPT ![p] = "arrive"]
      BY <2>2 DEF Goto, If404
    <3>3. r = "missing" => pc' = [pc EXCEPT ![p] = IF found[p] = {} THEN "ok" ELSE "arrive"]
      BY <2>2 DEF Goto, If404
    <3>4. QED BY <3>1, <3>2, <3>3
  <2>5. Goes(p, next) /\ pc'[p] = next
    BY <2>1, <2>2, <2>4 DEF Goes, TypeOK
  <2>6. ~Bad(p) /\ (Promises(p) => found[p] # {})
    BY <2>1 DEF Bad, Promises
  <2>7. Bad(p)' \/ Promises(p)' \/ next = "ok"
    BY <2>4, <2>5 DEF Bad, Promises
  <2>8. kind[p] \notin Starters
    BY <2>1 DEF Starters
  <2>9. QED BY <2>3, <2>4, <2>5, <2>6, <2>7, <2>8, AliveStep DEF Running
<1>8. CASE MoveCreate(p)
  <2>1. pc[p] = "arrive" /\ to[p] \in Instances /\ cfg[p] # NoRow /\ UNCHANGED <<kind, cfg, found>>
    BY <1>1, <1>8 DEF MoveCreate, Pinned, PlacedAt, Carrying, MoveSteps
  <2>2. PICK r \in Replies : Create(to[p], cfg[p], r) /\ Goto(p, If200("ok", "failed")[r])
    BY <1>8 DEF MoveCreate
  <2>3. /\ fresh' = fresh
        /\ Running => Running'
        /\ r = "ok" => Running'
    BY <2>1, <2>2, CreateRuns DEF Running
  <2>4. PICK next \in {"ok", "failed"} : pc' = [pc EXCEPT ![p] = next] /\ (next = "ok" => r = "ok")
    BY <2>2 DEF Goto, If200
  <2>5. Goes(p, next) /\ pc'[p] = next
    BY <2>1, <2>4 DEF Goes, TypeOK
  <2>6. ~Bad(p) /\ (next = "failed" => Bad(p)')
    BY <2>1, <2>5 DEF Bad
  <2>7. QED BY <2>3, <2>4, <2>5, <2>6, AliveStep
<1>9. QED
  BY <1>2, <1>3, <1>4, <1>5, <1>6, <1>7, <1>8 DEF Move

LEMMA AliveNext ==
  ASSUME TypeOK, Control, Placed, KeptAlive, [Next]_vars
  PROVE  KeptAlive'
<1>1. ASSUME NEW p \in Actors, LookUp(p)
      PROVE  KeptAlive'
  BY <1>1 DEF LookUp, liercd, KeptAlive, Kinded, Running, Promises, Bad
<1>2. ASSUME NEW p \in Actors, QueryFails(p)
      PROVE  KeptAlive'
  <2>1. Goes(p, "failed") /\ UNCHANGED <<runs, fresh>>
    BY <1>2 DEF QueryFails, Goes, Goto, liercd
  <2>2. Bad(p)'
    BY <2>1 DEF Goes, TypeOK, Bad
  <2>3. QED BY <2>1, <2>2, AliveQuiet
\* After a crash only those that begin later count.
<1>3. ASSUME NEW i \in Instances, Crash(i)
      PROVE  KeptAlive'
  <2>1. \A p \in fresh' : pc'[p] = "begin"
    BY <1>3 DEF Crash
  <2>2. QED BY <2>1 DEF KeptAlive
<1>4. CASE UNCHANGED vars
  BY <1>4 DEF vars, KeptAlive, Kinded, Running, Promises, Bad
<1>5. QED
  BY <1>1, <1>2, <1>3, <1>4, OpenAlive, ApiAlive, MoveAlive DEF Next, Actor

\* A stream, start, revive or reconnect that has reported success is not
\* undone by moves, edits and others that report success too: once all is
\* quiet the connection runs, whatever the interleaving, the crashes before
\* and the replies that were lost (moveOne's wasRunning and slippedIn).
THEOREM ConnectionStillRunning == Spec => []StillRunning
<1>1. Init => KeptAlive
  BY DEF Init, KeptAlive
<1>2. TypeOK /\ Control /\ Placed /\ KeptAlive /\ [Next]_vars => KeptAlive'
  BY AliveNext
<1>3. KeptAlive => StillRunning
  <2> SUFFICES ASSUME KeptAlive, Quiet, \A p \in Actors : pc[p] = "ok",
                      Kinded({"delete", "wipe", "stop"}) = {},
                      Kinded({"recreate", "revive", "start", "reconnect"}) \cap fresh # {}
               PROVE  \E i \in Instances : runs[i] # Idle
    BY DEF StillRunning
  <2>1. \A p \in Actors : ~Bad(p) /\ ~Promises(p)
    BY DEF Bad, Promises
  <2>2. \E p \in Kinded(Starters) \cap fresh : pc[p] = "ok"
    BY DEF Kinded, Starters
  <2>3. QED BY <2>1, <2>2 DEF KeptAlive, Running
<1>4. QED BY <1>1, <1>2, <1>3, ControlPlaced, PTL DEF Spec

-----------------------------------------------------------------------------
(***************************************************************************)
(* No orphan.  While a connection is only started, moved, stopped and      *)
(* deleted by its user, and every reply arrives, there is one token: an    *)
(* instance runs it, or the actor that stopped it there or is to start it  *)
(* has the token.  The row goes only together with the token.              *)
(***************************************************************************)
Undisturbed == Kinded(Kinds \ {"start", "delete", "move", "stop"}) = {}

Holds(p) ==
  \/ pc[p] \in {"delete row", "start create", "start undo"}
  \/ pc[p] \in {"set", "again", "arrive"} /\ found[p] # {}

OneToken ==
  /\ \A p, q \in Actors : Holds(p) /\ Holds(q) => p = q
  /\ \A i, j \in Instances : runs[i] # Idle /\ runs[j] # Idle => i = j
  /\ Running => \A p \in Actors : ~Holds(p)
  /\ row = NoRow => ~Running /\ \A p \in Actors : ~Holds(p)

\* The four ways in which a step of p can move the token.
Keeps(p) ==
  /\ \A i \in Instances : runs'[i] # Idle => runs[i] # Idle
  /\ Holds(p)' => Holds(p)
  /\ row' = row
Takes    == Running /\ ~Running' /\ row' = row
Gives(p) ==
  /\ Holds(p) /\ ~Holds(p)'
  /\ \E i \in Instances : \A j \in Instances : j # i => runs'[j] = runs[j]
  /\ row' = row
Drops(p) == Holds(p) /\ ~Holds(p)' /\ runs' = runs

LEMMA OthersHold ==
  ASSUME TypeOK, NEW p \in Actors, NEW next, Goes(p, next)
  PROVE  \A q \in Actors \ {p} : Holds(q)' <=> Holds(q)
<1>1. \A q \in Actors \ {p} : pc'[q] = pc[q] /\ found'[q] = found[q]
  BY DEF Goes, TypeOK
<1>2. QED BY <1>1 DEF Holds

LEMMA TokenStep ==
  ASSUME TypeOK, OneToken, NEW p \in Actors, NEW next, Goes(p, next),
         Keeps(p) \/ Takes \/ Gives(p) \/ Drops(p)
  PROVE  OneToken'
<1>1. \A q \in Actors \ {p} : Holds(q)' <=> Holds(q)
  BY OthersHold
<1>2. CASE Keeps(p)
  <2>1. (Running' => Running) /\ \A q \in Actors : Holds(q)' => Holds(q)
    BY <1>1, <1>2 DEF Keeps, Running
  <2>2. QED BY <1>2, <2>1 DEF Keeps, OneToken
<1>3. CASE Takes
  <2>1. \A q \in Actors \ {p} : ~Holds(q)'
    BY <1>1, <1>3 DEF Takes, OneToken
  <2>2. row' # NoRow
    BY <1>3 DEF Takes, OneToken
  <2>3. \A i \in Instances : runs'[i] = Idle
    BY <1>3 DEF Takes, Running
  <2>4. QED BY <1>3, <2>1, <2>2, <2>3 DEF Takes, OneToken
<1>4. CASE Gives(p)
  <2>1. \A q \in Actors : ~Holds(q)'
    BY <1>1, <1>4 DEF Gives, OneToken
  <2>2. row' # NoRow
    BY <1>4 DEF Gives, OneToken
  <2>3. \A j \in Instances : runs[j] = Idle
    BY <1>4 DEF Gives, OneToken, Running
  <2>4. \A i, j \in Instances : runs'[i] # Idle /\ runs'[j] # Idle => i = j
    BY <1>4, <2>3 DEF Gives
  <2>5. QED BY <2>1, <2>2, <2>4 DEF OneToken
<1>5. CASE Drops(p)
  <2>1. \A q \in Actors : ~Holds(q)'
    BY <1>1, <1>5 DEF Drops, OneToken
  <2>2. ~Running'
    BY <1>5 DEF Drops, OneToken, Running
  <2>3. QED BY <1>5, <2>1, <2>2 DEF Drops, OneToken, Running
<1>6. QED BY <1>2, <1>3, <1>4, <1>5

\* A destroy that finds the connection running takes the token; any other
\* leaves liercd as it was or, if it runs there, stops it.
LEMMA DestroyToken ==
  ASSUME TypeOK, OneToken, "lost" \notin Env, NEW i \in Instances, NEW r \in Replies, Destroy(i, r)
  PROVE  /\ r = "ok" => Running /\ ~Running'
         /\ r # "ok" => runs' = runs
<1>1. CASE r = "ok"
  <2>1. runs[i] # Idle /\ runs'[i] = Idle /\ \A j \in Instances : j # i => runs'[j] = runs[j]
    BY <1>1, DestroyRuns
  <2>2. \A j \in Instances : j # i => runs[j] = Idle
    BY <2>1 DEF OneToken
  <2>3. QED BY <1>1, <2>1, <2>2 DEF Running
<1>2. CASE r # "ok"
  BY <1>2, DestroyRuns
<1>3. QED BY <1>1, <1>2

LEMMA QuietToken ==
  ASSUME TypeOK, OneToken, NEW p \in Actors, NEW next, Goes(p, next),
         UNCHANGED <<row, runs>>, Holds(p)' => Holds(p)
  PROVE  OneToken'
BY TokenStep DEF Keeps

LEMMA ReadToken ==
  ASSUME TypeOK, OneToken, NEW p \in Actors, NEW k, NEW next \in {"delete destroy", "locate"},
         ReadConfig(p, k, next)
  PROVE  OneToken'
<1>1. UNCHANGED <<row, runs, kind, found>> /\ \A q \in Actors \ {p} : cfg'[q] = cfg[q]
  BY DEF ReadConfig, liercd, database, TypeOK
<1>2. PICK n \in {"failed", next} : pc' = [pc EXCEPT ![p] = n]
  BY DEF ReadConfig, Goto
<1>3. Goes(p, n) /\ pc'[p] = n
  BY <1>1, <1>2 DEF Goes, TypeOK
<1>4. ~Holds(p)'
  BY <1>3 DEF Holds
<1>5. QED BY <1>1, <1>3, <1>4, QuietToken

LEMMA StartToken ==
  ASSUME TypeOK, Control, Unstarted, Placed, OneToken, "lost" \notin Env, NEW p \in Actors, Start(p)
  PROVE  OneToken'
<1>1. PlacedAt(kind[p], pc[p], cfg[p], found[p])
  BY PlaceOf
<1>2. CASE StartSave(p)
  <2>1. /\ kind[p] = "start" /\ pc[p] = "begin"
        /\ UNCHANGED <<runs, kind, found>>
        /\ \A q \in Actors \ {p} : cfg'[q] = cfg[q]
    BY <1>2 DEF StartSave, liercd, TypeOK
  <2>2. row = NoRow /\ ~Running /\ \A q \in Actors : pc[q] \in {"begin", "failed"}
    BY <2>1 DEF Unstarted, Running
  <2>3. \A q \in Actors : ~Holds(q)
    BY <2>2 DEF Holds
  <2>4. ~Running'
    BY <2>1, <2>2 DEF Running
  <2>5. CASE Goto(p, "failed") /\ UNCHANGED <<row, cfg>>
    <3>1. Goes(p, "failed") /\ pc'[p] = "failed"
      BY <2>1, <2>5 DEF Goes, Goto, TypeOK
    <3>2. ~Holds(p)'
      BY <3>1 DEF Holds
    <3>3. QED BY <2>1, <2>5, <3>1, <3>2, QuietToken
  <2>6. CASE ~(Goto(p, "failed") /\ UNCHANGED <<row, cfg>>)
    <3>1. PICK c \in Configs : row' = c /\ Goto(p, "start create")
      BY <1>2, <2>6 DEF StartSave
    <3>2. Goes(p, "start create")
      BY <2>1, <3>1 DEF Goes, Goto
    <3>3. \A q \in Actors \ {p} : ~Holds(q)'
      BY <2>3, <3>2, OthersHold
    <3>4. c # NoRow
      BY DEF Configs, NoRow
    <3>5. \A i \in Instances : runs'[i] = Idle
      BY <2>4 DEF Running
    <3>6. QED BY <2>4, <3>1, <3>3, <3>4, <3>5 DEF OneToken
  <2>7. QED BY <2>5, <2>6
<1>3. CASE StartCreate(p)
  <2>1. pc[p] = "start create" /\ cfg[p] # NoRow
    BY <1>1, <1>3 DEF StartCreate, CreateRouted, Addressed, PlacedAt, Carrying
  <2>2. UNCHANGED row
    BY <1>3, <2>1, CreateFacts DEF StartCreate
  <2>3. PICK r \in Replies, i \in Instances :
          Goes(p, If200("ok", "start undo")[r]) /\ Create(i, cfg[p], r)
    BY <1>3, <2>1, CreateFacts DEF StartCreate
  <2>4. Holds(p)
    BY <2>1 DEF Holds
  <2>5. CASE r = "ok"
    <3>1. Goes(p, "ok") /\ pc'[p] = "ok"
      BY <2>3, <2>5 DEF Goes, TypeOK, If200
    <3>2. ~Holds(p)'
      BY <3>1 DEF Holds
    <3>3. \A j \in Instances : j # i => runs'[j] = runs[j]
      BY <2>1, <2>3, CreateRuns
    <3>4. QED BY <2>2, <2>4, <3>1, <3>2, <3>3, TokenStep DEF Gives
  <2>6. CASE r # "ok"
    <3>1. Goes(p, "start undo")
      BY <2>3, <2>6 DEF If200
    <3>2. runs' = runs
      BY <2>1, <2>3, <2>6, CreateRuns
    <3>3. QED BY <2>2, <2>4, <3>1, <3>2, QuietToken
  <2>7. QED BY <2>5, <2>6
<1>4. CASE StartUndo(p)
  <2>1. pc[p] = "start undo" /\ Goes(p, "failed") /\ UNCHANGED <<runs, found>>
    BY <1>4 DEF StartUndo, WriteRow, Goes, Goto, liercd
  <2>2. Holds(p) /\ ~Holds(p)'
    BY <2>1 DEF Goes, TypeOK, Holds
  <2>3. QED BY <2>1, <2>2, TokenStep DEF Drops
<1>5. QED BY <1>2, <1>3, <1>4 DEF Start

LEMMA DeleteToken ==
  ASSUME TypeOK, Control, Placed, OneToken, "lost" \notin Env, NEW p \in Actors,
         Delete(p) \/ StopIdle(p)
  PROVE  OneToken'
<1>1. CASE DeleteBegin(p)
  BY <1>1, ReadToken DEF DeleteBegin
<1>2. CASE DeleteDestroy(p)
  <2>1. pc[p] = "delete destroy" /\ UNCHANGED <<row, found>>
    BY <1>2, DestroyFacts DEF DeleteDestroy
  <2>2. PICK r \in Replies, i \in Instances :
          Goes(p, If200("delete row", "failed")[r]) /\ Destroy(i, r)
    BY <1>2, DestroyFacts DEF DeleteDestroy
  <2>3. CASE r = "ok"
    BY <2>1, <2>2, <2>3, DestroyToken, TokenStep DEF Takes
  <2>4. CASE r # "ok"
    <3>1. Goes(p, "failed") /\ pc'[p] = "failed"
      BY <2>2, <2>4 DEF Goes, TypeOK, If200
    <3>2. ~Holds(p)' /\ runs' = runs
      BY <2>2, <2>4, <3>1, DestroyToken DEF Holds
    <3>3. QED BY <2>1, <3>1, <3>2, QuietToken
  <2>5. QED BY <2>3, <2>4
<1>3. CASE DeleteRow(p)
  <2>1. pc[p] = "delete row" /\ Goes(p, "ok") /\ UNCHANGED <<runs, found>>
    BY <1>3 DEF DeleteRow, WriteRow, Goes, Goto, liercd
  <2>2. Holds(p) /\ ~Holds(p)'
    BY <2>1 DEF Goes, TypeOK, Holds
  <2>3. QED BY <2>1, <2>2, TokenStep DEF Drops
<1>4. CASE StopRead(p)
  <2>1. Goes(p, "stop destroy") /\ UNCHANGED <<row, runs>>
    BY <1>4 DEF StopRead, Goes, Goto, liercd, database
  <2>2. pc'[p] = "stop destroy"
    BY <2>1 DEF Goes, TypeOK
  <2>3. ~Holds(p)'
    BY <2>2 DEF Holds
  <2>4. QED BY <2>1, <2>3, QuietToken
<1>5. CASE StopDestroy(p)
  <2>1. to[p] \in Instances /\ UNCHANGED <<row, kind, cfg, found>>
    BY <1>5 DEF StopDestroy, Control, Pinned, database
  <2>2. PICK r \in Replies : Destroy(to[p], r) /\ Goto(p, If404("ok", "failed")[r])
    BY <1>5 DEF StopDestroy
  <2>3. PICK next \in {"ok", "failed"} : pc' = [pc EXCEPT ![p] = next]
    BY <2>2 DEF If404, Goto
  <2>4. Goes(p, next) /\ pc'[p] = next
    BY <2>1, <2>3 DEF Goes, TypeOK
  <2>5. ~Holds(p)'
    BY <2>4 DEF Holds
  <2>6. \A i \in Instances : runs'[i] # Idle => runs[i] # Idle
    BY <2>1, <2>2, DestroyRuns
  <2>7. QED BY <2>1, <2>4, <2>5, <2>6, TokenStep DEF Keeps
<1>6. QED BY <1>1, <1>2, <1>3, <1>4, <1>5 DEF Delete, StopIdle

LEMMA MoveToken ==
  ASSUME TypeOK, Control, Placed, OneToken, "lost" \notin Env, NEW p \in Actors, Move(p)
  PROVE  OneToken'
<1>1. /\ PlacedAt(kind[p], pc[p], cfg[p], found[p])
      /\ pc[p] \in Pinned => to[p] \in Instances
  BY PlaceOf DEF Control
<1>2. CASE MoveRead(p)
  BY <1>2, ReadToken DEF MoveRead
<1>3. CASE MoveLocate(p) \/ MoveProbe(p)
  <2>1. UNCHANGED <<row, runs, kind, cfg, found>>
    BY <1>3 DEF MoveLocate, MoveProbe, Status, Fails, liercd, database
  <2>2. PICK next \in {"probe", "leave", "failed"} : pc' = [pc EXCEPT ![p] = next]
    BY <1>3 DEF MoveLocate, MoveProbe, Goto
  <2>3. Goes(p, next) /\ pc'[p] = next
    BY <2>1, <2>2 DEF Goes, TypeOK
  <2>4. ~Holds(p)'
    BY <2>3 DEF Holds
  <2>5. QED BY <2>1, <2>3, <2>4, QuietToken
<1>4. CASE MoveDestroy(p)
  <2>1. pc[p] = "leave" /\ to[p] \in Instances /\ UNCHANGED <<row, kind, cfg>>
    BY <1>1, <1>4 DEF MoveDestroy, Pinned, database
  <2>2. PICK r \in Replies :
          /\ Destroy(Other(to[p]), r)
          /\ Goto(p, If404("set", "failed")[r])
          /\ found' = [found EXCEPT ![p] = IF r = "ok" THEN {"running"} ELSE {}]
    BY <1>4 DEF MoveDestroy
  <2>3. PICK next \in {"set", "failed"} : pc' = [pc EXCEPT ![p] = next]
    BY <2>2 DEF Goto, If404
  <2>4. Goes(p, next) /\ pc'[p] = next
    BY <2>1, <2>2, <2>3 DEF Goes, TypeOK
  <2>5. (r = "ok" => Running /\ ~Running') /\ (r # "ok" => runs' = runs)
    BY <2>1, <2>2, DestroyToken, OtherInstance
  <2>6. CASE r = "ok"
    BY <2>1, <2>4, <2>5, <2>6, TokenStep DEF Takes
  <2>7. CASE r # "ok"
    <3>1. found'[p] = {}
      BY <2>2, <2>7 DEF TypeOK
    <3>2. ~Holds(p)'
      BY <2>4, <3>1 DEF Holds
    <3>3. QED BY <2>1, <2>4, <2>5, <2>7, <3>2, QuietToken
  <2>8. QED BY <2>6, <2>7
<1>5. CASE MoveSet(p)
  <2>1. pc[p] = "set" /\ Goes(p, "again") /\ UNCHANGED <<row, runs, found>>
    BY <1>5 DEF MoveSet, Goes, Goto, liercd
  <2>2. Holds(p)' => Holds(p)
    BY <2>1 DEF Goes, TypeOK, Holds
  <2>3. QED BY <2>1, <2>2, QuietToken
<1>6. CASE MoveAgain(p)
  <2>1. pc[p] = "again" /\ to[p] \in Instances /\ UNCHANGED <<row, kind, cfg>>
    BY <1>1, <1>6 DEF MoveAgain, Pinned, database
  <2>2. PICK r \in Replies :
          LET slipped == found[p] \cup (IF r = "ok" THEN {"slippedIn"} ELSE {})
          IN  /\ Destroy(Other(to[p]), r)
              /\ found' = [found EXCEPT ![p] = slipped]
              /\ Goto(p, If404(IF slipped = {} THEN "ok" ELSE "arrive", "unsure")[r])
    BY <1>6 DEF MoveAgain
  <2>3. PICK next \in {"ok", "arrive", "unsure"} : pc' = [pc EXCEPT ![p] = next]
    BY <2>2 DEF Goto, If404
  <2>4. Goes(p, next) /\ pc'[p] = next
    BY <2>1, <2>2, <2>3 DEF Goes, TypeOK
  <2>5. (r = "ok" => Running /\ ~Running') /\ (r # "ok" => runs' = runs)
    BY <2>1, <2>2, DestroyToken, OtherInstance
  <2>6. CASE r = "ok"
    BY <2>1, <2>4, <2>5, <2>6, TokenStep DEF Takes
  <2>7. CASE r # "ok"
    <3>1. found'[p] = found[p]
      BY <2>2, <2>7 DEF TypeOK
    <3>2. Holds(p)' => Holds(p)
      BY <2>1, <2>4, <3>1 DEF Holds
    <3>3. QED BY <2>1, <2>4, <2>5, <2>7, <3>2, QuietToken
  <2>8. QED BY <2>6, <2>7
<1>7. CASE MoveCreate(p)
  <2>1. /\ pc[p] = "arrive" /\ to[p] \in Instances /\ cfg[p] # NoRow /\ found[p] # {}
        /\ UNCHANGED <<row, kind, cfg, found>>
    BY <1>1, <1>7 DEF MoveCreate, Pinned, PlacedAt, Carrying, MoveSteps, database
  <2>2. PICK r \in Replies : Create(to[p], cfg[p], r) /\ Goto(p, If200("ok", "failed")[r])
    BY <1>7 DEF MoveCreate
  <2>3. PICK next \in {"ok", "failed"} : pc' = [pc EXCEPT ![p] = next]
    BY <2>2 DEF Goto, If200
  <2>4. Goes(p, next) /\ pc'[p] = next
    BY <2>1, <2>3 DEF Goes, TypeOK
  <2>5. Holds(p) /\ ~Holds(p)'
    BY <2>1, <2>4 DEF Holds
  <2>6. \A j \in Instances : j # to[p] => runs'[j] = runs[j]
    BY <2>1, <2>2, CreateRuns
  <2>7. QED BY <2>1, <2>4, <2>5, <2>6, TokenStep DEF Gives
<1>8. QED
  BY <1>2, <1>3, <1>4, <1>5, <1>6, <1>7 DEF Move

LEMMA KindStays == [Next]_vars => kind' = kind
<1>1. ASSUME NEW p \in Actors, Actor(p)
      PROVE  kind' = kind
  BY <1>1, Shapes
     DEF LookUp, QueryFails, Reads, Asks, Destroys, Creates, Writes, StartSave, EditRead,
         StopRead, StopDestroy, MoveLocate, MoveProbe, MoveDestroy, MoveSet, MoveAgain,
         MoveCreate, ReadConfig, AskRouted, DestroyRouted, CreateRouted, WriteRow
<1>2. QED BY <1>1 DEF Next, Crash, vars

\* Only four kinds of actors are at work.
LEMMA UndisturbedActors ==
  ASSUME TypeOK, Control, Placed, Undisturbed, LifecycleAssumption, NEW p \in Actors, Actor(p)
  PROVE  LookUp(p) \/ QueryFails(p) \/ Start(p) \/ Delete(p) \/ StopIdle(p) \/ Move(p)
<1>1. kind[p] \in {"start", "delete", "move", "stop"}
  BY DEF Undisturbed, Kinded, TypeOK, LifecycleAssumption
<1>2. PlacedAt(kind[p], pc[p], cfg[p], found[p])
  BY PlaceOf
<1>3. ~Open(p) /\ ~Revive(p)
  BY <1>1, <1>2
     DEF PlacedAt, Open, RecreateRead, RecreateAsk, RecreateCreate, RecreateConfirm,
         Revive, ReviveRead, ReviveAsk, ReviveCreate, ReadConfig, AskRouted, CreateRouted,
         Addressed
<1>4. ~Edit(p) /\ ~Reconnect(p) /\ ~Wipe(p)
  BY <1>1, <1>2
     DEF PlacedAt, Edit, EditRead, EditSave, EditDestroy, EditUpdate, EditCreate, Reconnect,
         ReconnectRead, ReconnectDestroy, ReconnectCreate, Wipe, WipeBegin, WipeDestroy,
         WipeRow, ReadConfig, WriteRow, DestroyRouted, CreateRouted, Addressed
<1>5. QED BY <1>3, <1>4 DEF Actor

LEMMA TokenNext ==
  ASSUME TypeOK, Control, Unstarted, Placed, LifecycleAssumption, "lost" \notin Env,
         Undisturbed => OneToken, [Next]_vars, Undisturbed'
  PROVE  OneToken'
<1>1. Undisturbed /\ OneToken
  BY KindStays DEF Undisturbed, Kinded
<1>2. ASSUME NEW p \in Actors, LookUp(p)
      PROVE  OneToken'
  BY <1>1, <1>2 DEF LookUp, database, liercd, OneToken, Holds, Running
<1>3. ASSUME NEW p \in Actors, QueryFails(p)
      PROVE  OneToken'
  <2>1. Goes(p, "failed") /\ UNCHANGED <<row, runs>>
    BY <1>3 DEF QueryFails, Goes, Goto, liercd, database
  <2>2. pc'[p] = "failed"
    BY <2>1 DEF Goes, TypeOK
  <2>3. ~Holds(p)'
    BY <2>2 DEF Holds
  <2>4. QED BY <1>1, <2>1, <2>3, QuietToken
<1>4. ASSUME NEW i \in Instances, Crash(i)
      PROVE  OneToken'
  <2>1. \A j \in Instances : runs'[j] # Idle => runs[j] # Idle
    BY <1>4 DEF Crash, TypeOK
  <2>2. UNCHANGED <<row, pc, found>>
    BY <1>4 DEF Crash, database
  <2>3. (Running' => Running) /\ \A p \in Actors : Holds(p)' <=> Holds(p)
    BY <2>1, <2>2 DEF Running, Holds
  <2>4. QED BY <1>1, <2>1, <2>2, <2>3 DEF OneToken
<1>5. CASE UNCHANGED vars
  BY <1>1, <1>5 DEF vars, OneToken, Holds, Running
<1>6. QED
  BY <1>1, <1>2, <1>3, <1>4, <1>5, UndisturbedActors, StartToken, DeleteToken, MoveToken DEF Next

LEMMA TokenInit == Init => OneToken
<1> SUFFICES ASSUME Init PROVE OneToken
  OBVIOUS
<1>1. \A p \in Actors : ~Holds(p)
  BY DEF Init, Holds
<1>2. \A i \in Instances : runs[i] # Idle => i = column /\ row # NoRow
  BY DEF Init, NoRow, Idle
<1>3. QED BY <1>1, <1>2 DEF OneToken, Running

LEMMA TokenAlways ==
  ASSUME "lost" \notin Env
  PROVE  Spec => [](Undisturbed => OneToken)
<1>1. Init => (Undisturbed => OneToken)
  BY TokenInit
<1>2. /\ TypeOK /\ Control /\ Unstarted /\ Placed
      /\ Undisturbed => OneToken
      /\ [Next]_vars
      => (Undisturbed => OneToken)'
  BY TokenNext, LifecycleAssumption
<1>3. QED BY <1>1, <1>2, ControlPlaced, PTL DEF Spec

\* If every reply arrives and a connection is only started, moved, stopped and
\* deleted by its user, one without a row runs nowhere once all is quiet,
\* whatever else fails and however many moves and deletes interleave
\* (Connection.pm delete, start; moveOne).
THEOREM ConnectionNoOrphan ==
  ASSUME "lost" \notin Env
  PROVE  Spec => []NoOrphan
<1>1. (Undisturbed => OneToken) => NoOrphan
  BY DEF Undisturbed, OneToken, NoOrphan, Running
<1>2. QED BY <1>1, TokenAlways, PTL

\* Under the same conditions it never runs on both instances, quiet or not: a
\* move leaves nothing behind unless something recreates the connection.
THEOREM ConnectionNeverOnBoth ==
  ASSUME "lost" \notin Env
  PROVE  Spec => [](Undisturbed => \A i, j \in Instances : runs[i] # Idle /\ runs[j] # Idle => i = j)
<1>1. (Undisturbed => OneToken)
      => (Undisturbed => \A i, j \in Instances : runs[i] # Idle /\ runs[j] # Idle => i = j)
  BY DEF OneToken
<1>2. QED BY <1>1, TokenAlways, PTL

-----------------------------------------------------------------------------
(***************************************************************************)
(* On both instances.  A connection ends up on both only through a request *)
(* that is sent long after its address was looked up, two moves at a time, *)
(* or a move that has told the operator so (run connection_both).  With    *)
(* one move, and requests sent to the instance the column then names, no   *)
(* create goes astray: a move creates where the column now points.         *)
(***************************************************************************)
OneMove ==
  \A team \in Teams : \A p, q \in Actors :
    team[p] = "move" /\ team[q] = "move" => p = q

Pending == \E p \in Actors : kind[p] = "start" /\ pc[p] = "begin"

Arrives == \A p \in Actors : pc[p] \in {"again", "arrive"} => to[p] = column

NothingStrays == row # NoRow \/ Pending => ~stray /\ Arrives

\* A step of p to elsewhere that creates nothing astray.
LEMMA StraysKept ==
  ASSUME TypeOK, NothingStrays, NEW p \in Actors, NEW next,
         next \notin {"begin", "again", "arrive"},
         Goto(p, next), kind' = kind, \A q \in Actors \ {p} : to'[q] = to[q],
         stray' = stray, column' = column,
         row' # NoRow => row # NoRow \/ Pending
  PROVE  NothingStrays'
<1>1. \A q \in Actors : pc'[q] = IF q = p THEN next ELSE pc[q]
  BY DEF Goto, TypeOK
<1>2. Pending' => Pending
  BY <1>1 DEF Pending
<1>3. ASSUME Arrives PROVE Arrives'
  BY <1>1, <1>3 DEF Arrives
<1>4. QED BY <1>2, <1>3 DEF NothingStrays

\* A routed request goes where the column points.
LEMMA RoutedStrays ==
  ASSUME TypeOK, NothingStrays, "slow" \notin Env, NEW p \in Actors,
         Asks(p) \/ Destroys(p) \/ Creates(p)
  PROVE  NothingStrays'
<1>1. PICK step \in Calls, next \in [Replies -> OtherSteps] :
        AskRouted(p, step, next) \/ DestroyRouted(p, step, next) \/ CreateRouted(p, step, next)
  BY DEF Asks, Destroys, Creates
<1>2. PICK i \in Instances, r \in Replies :
        /\ Addressed(p, step, i)
        /\ Goto(p, next[r])
        /\ Status(i, r) \/ Destroy(i, r) \/ Create(i, cfg[p], r)
  BY <1>1 DEF AskRouted, DestroyRouted, CreateRouted
<1>3. i = Route
  BY <1>2 DEF Addressed
<1>4. stray' = stray
  BY <1>2, <1>3 DEF Status, Destroy, Create, Fails, liercd, TypeOK
<1>5. next[r] \notin {"begin", "again", "arrive"}
  BY OtherStepsAre DEF MoveSteps
<1>6. UNCHANGED <<row, column, kind>> /\ to' = [to EXCEPT ![p] = Unrouted]
  BY <1>1 DEF AskRouted, DestroyRouted, CreateRouted, database
<1>7. \A q \in Actors \ {p} : to'[q] = to[q]
  BY <1>6 DEF TypeOK
<1>8. QED BY <1>2, <1>4, <1>5, <1>6, <1>7, StraysKept

\* The queries, and the requests of stop-inactive.
LEMMA QueryStrays ==
  ASSUME TypeOK, NothingStrays, NEW p \in Actors,
         QueryFails(p) \/ Reads(p) \/ Writes(p) \/ StartSave(p) \/ EditRead(p)
         \/ StopRead(p) \/ StopDestroy(p)
  PROVE  NothingStrays'
<1>1. CASE QueryFails(p)
  BY <1>1, StraysKept DEF QueryFails, database, liercd, TypeOK
<1>2. CASE Reads(p)
  <2>1. PICK k \in Kinds, next \in OtherSteps \cup {"locate"} : ReadConfig(p, k, next)
    BY <1>2 DEF Reads
  <2>2. next \notin {"begin", "again", "arrive"}
    BY OtherStepsAre DEF MoveSteps
  <2>3. UNCHANGED <<row, column, kind, stray, to>>
    BY <2>1 DEF ReadConfig, database, liercd
  <2>4. Goto(p, "failed") \/ Goto(p, next)
    BY <2>1 DEF ReadConfig
  <2>5. QED BY <2>2, <2>3, <2>4, StraysKept
<1>3. CASE Writes(p)
  <2>1. PICK from \in Queries, next \in OtherSteps :
          WriteRow(p, from, next, NoRow) \/ WriteRow(p, from, next, cfg[p])
    BY <1>3 DEF Writes
  <2>2. next \notin {"begin", "again", "arrive"}
    BY OtherStepsAre DEF MoveSteps
  <2>3. UNCHANGED <<column, kind, stray, to>> /\ Goto(p, next) /\ (row' # NoRow => row # NoRow)
    BY <2>1 DEF WriteRow, liercd
  <2>4. QED BY <2>2, <2>3, StraysKept
<1>4. CASE StartSave(p)
  <2>1. UNCHANGED <<column, kind, stray, to>> /\ Pending
    BY <1>4 DEF StartSave, liercd, Pending
  <2>2. Goto(p, "start create") \/ Goto(p, "failed")
    BY <1>4 DEF StartSave
  <2>3. QED BY <2>1, <2>2, StraysKept
<1>5. CASE EditRead(p)
  <2>1. UNCHANGED <<row, column, kind, stray, to>>
    BY <1>5 DEF EditRead, database, liercd
  <2>2. Goto(p, "edit save") \/ Goto(p, "edit destroy")
    BY <1>5 DEF EditRead
  <2>3. QED BY <2>1, <2>2, StraysKept
<1>6. CASE StopRead(p)
  <2>1. UNCHANGED <<row, column, kind, stray>> /\ Goto(p, "stop destroy")
    BY <1>6 DEF StopRead, database, liercd
  <2>2. \A q \in Actors \ {p} : to'[q] = to[q]
    BY <1>6 DEF StopRead, TypeOK
  <2>3. QED BY <2>1, <2>2, StraysKept
<1>7. CASE StopDestroy(p)
  <2>1. PICK r \in Replies : Destroy(to[p], r) /\ Goto(p, If404("ok", "failed")[r])
    BY <1>7 DEF StopDestroy
  <2>2. UNCHANGED <<row, column, kind, stray>>
    BY <1>7, <2>1 DEF StopDestroy, Destroy, Fails, database, liercd
  <2>3. \A q \in Actors \ {p} : to'[q] = to[q]
    BY <1>7 DEF StopDestroy, TypeOK
  <2>4. If404("ok", "failed")[r] \notin {"begin", "again", "arrive"}
    BY DEF If404
  <2>5. QED BY <2>1, <2>2, <2>3, <2>4, StraysKept
<1>8. QED BY <1>1, <1>2, <1>3, <1>4, <1>5, <1>6, <1>7

\* A move sets the column to where it will create.
LEMMA MoveStrays ==
  ASSUME TypeOK, Control, Unstarted, NothingStrays, OneMove, NEW p \in Actors,
         MoveLocate(p) \/ MoveProbe(p) \/ MoveDestroy(p) \/ MoveSet(p)
         \/ MoveAgain(p) \/ MoveCreate(p)
  PROVE  NothingStrays'
<1>1. CASE MoveLocate(p)
  <2>1. UNCHANGED <<row, column, kind, stray>> /\ \A q \in Actors \ {p} : to'[q] = to[q]
    BY <1>1 DEF MoveLocate, database, liercd, TypeOK
  <2>2. Goto(p, "probe") \/ Goto(p, "failed")
    BY <1>1 DEF MoveLocate
  <2>3. QED BY <2>1, <2>2, StraysKept
<1>2. CASE MoveProbe(p)
  <2>1. PICK r \in Replies : Status(to[p], r) /\ Goto(p, IF r = "missing" THEN "leave" ELSE "failed")
    BY <1>2 DEF MoveProbe
  <2>2. UNCHANGED <<row, column, kind, stray, to>>
    BY <1>2, <2>1 DEF MoveProbe, Status, Fails, database, liercd
  <2>3. Goto(p, "leave") \/ Goto(p, "failed")
    BY <2>1
  <2>4. QED BY <2>2, <2>3, StraysKept
<1>3. CASE MoveDestroy(p)
  <2>1. PICK r \in Replies : Destroy(Other(to[p]), r) /\ Goto(p, If404("set", "failed")[r])
    BY <1>3 DEF MoveDestroy
  <2>2. UNCHANGED <<row, column, kind, stray, to>>
    BY <1>3, <2>1 DEF MoveDestroy, Destroy, Fails, database, liercd
  <2>3. If404("set", "failed")[r] \notin {"begin", "again", "arrive"}
    BY DEF If404
  <2>4. QED BY <2>1, <2>2, <2>3, StraysKept
<1>4. CASE MoveSet(p)
  <2>1. /\ pc[p] = "set" /\ kind[p] = "move"
        /\ Goto(p, "again")
        /\ column' = IF row = NoRow THEN column ELSE to[p]
        /\ UNCHANGED <<row, stray, kind, to>>
    BY <1>4 DEF MoveSet, liercd, Control, MoveSteps
  <2>2. ~Pending
    BY <2>1 DEF Unstarted, Pending
  <2>3. \A q \in Actors : pc'[q] = IF q = p THEN "again" ELSE pc[q]
    BY <2>1 DEF Goto, TypeOK
  <2>4. ~Pending'
    BY <2>1, <2>2, <2>3 DEF Pending
  <2>5. \A q \in Actors : pc[q] \in {"again", "arrive"} => q = p
    BY <2>1 DEF Control, MoveSteps, OneMove, TypeOK
  <2>6. row # NoRow => Arrives'
    BY <2>1, <2>3, <2>5 DEF Arrives
  <2>7. QED BY <2>1, <2>4, <2>6 DEF NothingStrays
<1>5. CASE MoveAgain(p)
  <2>1. /\ pc[p] = "again"
        /\ UNCHANGED <<row, column, kind, to>>
        /\ \E r \in Replies, next \in {"ok", "arrive", "unsure"} : Destroy(Other(to[p]), r) /\ Goto(p, next)
    BY <1>5 DEF MoveAgain, database, If404
  <2>2. stray' = stray
    BY <2>1 DEF Destroy, Fails, liercd
  <2>3. PICK next \in {"ok", "arrive", "unsure"} : Goto(p, next)
    BY <2>1
  <2>4. \A q \in Actors : pc'[q] = IF q = p THEN next ELSE pc[q]
    BY <2>3 DEF Goto, TypeOK
  <2>5. Pending' => Pending
    BY <2>1, <2>4 DEF Pending
  <2>6. Arrives => Arrives'
    BY <2>1, <2>4 DEF Arrives
  <2>7. QED BY <2>1, <2>2, <2>5, <2>6 DEF NothingStrays
<1>6. CASE MoveCreate(p)
  <2>1. PICK r \in Replies : Create(to[p], cfg[p], r) /\ Goto(p, If200("ok", "failed")[r])
    BY <1>6 DEF MoveCreate
  <2>2. pc[p] = "arrive" /\ UNCHANGED <<row, column, kind, to>>
    BY <1>6 DEF MoveCreate, database
  <2>3. If200("ok", "failed")[r] \notin {"begin", "again", "arrive"}
    BY DEF If200
  <2>4. ~Pending
    BY <2>2 DEF Unstarted, Pending
  <2>5. CASE row = NoRow
    <3>1. \A q \in Actors : pc'[q] = "begin" => pc[q] = "begin"
      BY <2>1, <2>3 DEF Goto, TypeOK
    <3>2. QED BY <2>2, <2>4, <2>5, <3>1 DEF NothingStrays, Pending
  <2>6. CASE row # NoRow
    <3>1. to[p] = Route
      BY <2>2, <2>6 DEF NothingStrays, Arrives, Route
    <3>2. stray' = stray
      BY <2>1, <3>1 DEF Create, Fails, liercd, TypeOK
    <3>3. QED BY <2>1, <2>2, <2>3, <3>2, StraysKept
  <2>7. QED BY <2>5, <2>6
<1>7. QED BY <1>1, <1>2, <1>3, <1>4, <1>5, <1>6

LEMMA StraysNext ==
  ASSUME TypeOK, Control, Unstarted, NothingStrays, OneMove, "slow" \notin Env, [Next]_vars
  PROVE  NothingStrays'
<1>1. ASSUME NEW p \in Actors, Actor(p)
      PROVE  NothingStrays'
  <2>1. ~LookUp(p)
    BY DEF LookUp
  <2>2. QED BY <1>1, <2>1, Shapes, RoutedStrays, QueryStrays, MoveStrays
<1>2. ASSUME NEW i \in Instances, Crash(i)
      PROVE  NothingStrays'
  BY <1>2 DEF Crash, NothingStrays, Arrives, Pending, database
<1>3. CASE UNCHANGED vars
  BY <1>3 DEF vars, NothingStrays, Arrives, Pending
<1>4. QED BY <1>1, <1>2, <1>3 DEF Next

\* If requests reach the instance that the column names when they are sent, and
\* one move works on the connection, then with any number of streams and other
\* commands, and whatever fails, a connection that has a row runs on the
\* instance of its column only, until the move's second destroy or after the
\* move has reported that it failed (moveOne; liercd-next design: "exactly one
\* of them at a time").
THEOREM PromptRequestsOnOne ==
  ASSUME "slow" \notin Env, OneMove
  PROVE  Spec => [](row # NoRow =>
           \A i \in Instances \ {column} :
             runs[i] # Idle => WillClean(i) \/ \E m \in Actors : pc[m] = "unsure")
<1>1. Init => NothingStrays
  BY DEF Init, NothingStrays, Arrives
<1>2. TypeOK /\ Control /\ Unstarted /\ NothingStrays /\ [Next]_vars => NothingStrays'
  BY StraysNext
<1>3. NothingStrays /\ OffColumnIsTransient
      => (row # NoRow => \A i \in Instances \ {column} :
            runs[i] # Idle => WillClean(i) \/ \E m \in Actors : pc[m] = "unsure")
  BY DEF NothingStrays, OffColumnIsTransient
<1>4. QED BY <1>1, <1>2, <1>3, ControlPlaced, ConnectionOffColumn, PTL DEF Spec

\* So once all is quiet it runs on one instance at most, unless a move has told
\* the operator that it could not make sure: what connection_both finds takes a
\* request sent late.
THEOREM NeverOnBothIfPrompt ==
  ASSUME "slow" \notin Env, OneMove
  PROVE  Spec => [](row # NoRow /\ (\A m \in Actors : pc[m] # "unsure") => NeverOnBoth)
<1>1. (row # NoRow =>
         \A i \in Instances \ {column} :
           runs[i] # Idle => WillClean(i) \/ \E m \in Actors : pc[m] = "unsure")
      => (row # NoRow /\ (\A m \in Actors : pc[m] # "unsure") => NeverOnBoth)
  <2> SUFFICES ASSUME \A i \in Instances \ {column} :
                        runs[i] # Idle => WillClean(i) \/ \E m \in Actors : pc[m] = "unsure",
                      \A m \in Actors : pc[m] # "unsure", Quiet
               PROVE  Cardinality({i \in Instances : runs[i] # Idle}) <= 1
    BY DEF NeverOnBoth
  <2>1. \A i \in Instances : ~WillClean(i)
    BY DEF WillClean, Quiet, Ends
  <2>2. {i \in Instances : runs[i] # Idle} \subseteq {column}
    BY <2>1
  <2>3. IsFiniteSet({column}) /\ Cardinality({column}) = 1
    BY FS_Singleton
  <2>4. Cardinality({i \in Instances : runs[i] # Idle}) <= Cardinality({column})
    BY <2>2, <2>3, FS_Subset
  <2>5. QED BY <2>3, <2>4
<1>2. QED BY <1>1, PromptRequestsOnOne, PTL

-----------------------------------------------------------------------------
(***************************************************************************)
(* Stopped before deleted.  A connection that lctl has deleted can run on  *)
(* because of an actor that has read its config before (run                *)
(* connection_wiped).  Without one nothing creates it: it runs on the      *)
(* instance of its column, requests are addressed there, and the row goes  *)
(* only after it was stopped.                                              *)
(***************************************************************************)
Creators == Kinds \ {"wipe", "delete", "stop"}

\* p has not read the config: it has not begun, or found no row.
Untouched(p) == pc[p] = "begin" \/ (pc[p] = "failed" /\ cfg[p] = NoRow)

NobodyHasIt == \A p \in Kinded(Creators) : Untouched(p)

StopsFirst ==
  Running =>
    /\ row # NoRow
    /\ \A i \in Instances : runs[i] # Idle => i = column
    /\ \A p \in Actors :
         /\ pc[p] \in Calls \cup {"begin"} => to[p] \in {Unrouted, column}
         /\ pc[p] \notin {"wipe row", "delete row"}
         /\ kind[p] = "wipe" => pc[p] # "ok"

\* A step of p, after which at most the same instances run, to a place where
\* the connection may run.
LEMMA StopsStep ==
  ASSUME TypeOK, StopsFirst, NEW p \in Actors, NEW next,
         Goto(p, next), UNCHANGED <<row, column, kind>>,
         \A q \in Actors \ {p} : to'[q] = to[q],
         \A i \in Instances : runs'[i] # Idle => runs[i] # Idle,
         Running' => /\ next \in Calls \cup {"begin"} => to'[p] \in {Unrouted, column}
                     /\ next \notin {"wipe row", "delete row"}
                     /\ kind[p] = "wipe" => next # "ok"
  PROVE  StopsFirst'
<1> SUFFICES ASSUME Running'
             PROVE  StopsFirst'
  BY DEF StopsFirst
<1>1. Running
  BY DEF Running
<1>2. \A q \in Actors : pc'[q] = IF q = p THEN next ELSE pc[q]
  BY DEF Goto, TypeOK
<1>3. ASSUME NEW q \in Actors
      PROVE  /\ pc'[q] \in Calls \cup {"begin"} => to'[q] \in {Unrouted, column'}
             /\ pc'[q] \notin {"wipe row", "delete row"}
             /\ kind'[q] = "wipe" => pc'[q] # "ok"
  <2>1. CASE q = p
    BY <1>2, <2>1
  <2>2. CASE q # p
    BY <1>1, <1>2, <2>2 DEF StopsFirst
  <2>3. QED BY <2>1, <2>2
<1>4. QED BY <1>1, <1>3 DEF StopsFirst

\* A creator that is untouched after its step has found nothing.
LEMMA CreatorStep ==
  ASSUME TypeOK, Control, Placed, NEW p \in Actors, kind[p] \in Creators, Actor(p), Untouched(p)'
  PROVE  /\ pc[p] = "begin" /\ Goto(p, "failed")
         /\ UNCHANGED <<row, column, runs, kind, to>>
<1>1. PlacedAt(kind[p], pc[p], cfg[p], found[p]) /\ (pc[p] \in MoveSteps => kind[p] = "move")
  BY PlaceOf
<1>2. pc[p] \in Calls \cup Queries \cup MoveSteps => cfg[p] # NoRow
  BY <1>1 DEF Calls, Queries, MoveSteps, PlacedAt, Carrying, Creators
<1>3. ASSUME pc[p] \in Calls \cup Queries \cup MoveSteps, cfg' = cfg
      PROVE  pc'[p] = "begin"
  BY <1>2, <1>3 DEF Untouched
<1>4. ~LookUp(p)
  <2> SUFFICES ASSUME LookUp(p) PROVE FALSE
    OBVIOUS
  <2>1. pc' = pc /\ pc[p] \in Calls
    BY DEF LookUp
  <2>2. QED BY <2>1, OtherStepsAre DEF Untouched
<1>5. ~QueryFails(p)
  <2> SUFFICES ASSUME QueryFails(p) PROVE FALSE
    OBVIOUS
  <2>1. pc'[p] = "failed" /\ cfg' = cfg /\ pc[p] \in Queries
    BY DEF QueryFails, Goto, TypeOK
  <2>2. QED BY <1>3, <2>1
<1>6. ~Asks(p) /\ ~Destroys(p) /\ ~Creates(p)
  <2> SUFFICES ASSUME Asks(p) \/ Destroys(p) \/ Creates(p) PROVE FALSE
    OBVIOUS
  <2>1. PICK step \in Calls, next \in [Replies -> OtherSteps] :
          AskRouted(p, step, next) \/ DestroyRouted(p, step, next) \/ CreateRouted(p, step, next)
    BY DEF Asks, Destroys, Creates
  <2>2. PICK r \in Replies : Goto(p, next[r]) /\ pc[p] = step
    BY <2>1 DEF AskRouted, DestroyRouted, CreateRouted, Addressed
  <2>3. cfg' = cfg
    BY <2>1 DEF AskRouted, DestroyRouted, CreateRouted
  <2>4. pc'[p] = next[r] /\ next[r] # "begin"
    BY <2>2, OtherStepsAre DEF Goto, TypeOK
  <2>5. QED BY <1>3, <2>2, <2>3, <2>4
<1>7. ~Writes(p)
  <2> SUFFICES ASSUME Writes(p) PROVE FALSE
    OBVIOUS
  <2>1. PICK from \in Queries, next \in OtherSteps :
          WriteRow(p, from, next, NoRow) \/ WriteRow(p, from, next, cfg[p])
    BY DEF Writes
  <2>2. pc[p] = from /\ cfg' = cfg /\ pc'[p] = next /\ next # "begin"
    BY <2>1, OtherStepsAre DEF WriteRow, Goto, TypeOK
  <2>3. QED BY <1>3, <2>2
<1>8. ~EditRead(p)
  <2> SUFFICES ASSUME EditRead(p) PROVE FALSE
    OBVIOUS
  <2>1. pc'[p] \in {"edit save", "edit destroy"}
    BY DEF EditRead, Goto, TypeOK
  <2>2. QED BY <2>1 DEF Untouched
<1>9. ~StopRead(p) /\ ~StopDestroy(p)
  BY <1>1 DEF StopRead, StopDestroy, PlacedAt, Creators
<1>10. /\ ~MoveLocate(p) /\ ~MoveProbe(p) /\ ~MoveDestroy(p) /\ ~MoveSet(p)
       /\ ~MoveAgain(p) /\ ~MoveCreate(p)
  <2> SUFFICES ASSUME \/ MoveLocate(p) \/ MoveProbe(p) \/ MoveDestroy(p) \/ MoveSet(p)
                      \/ MoveAgain(p) \/ MoveCreate(p)
               PROVE  FALSE
    OBVIOUS
  <2>1. pc[p] \in MoveSteps /\ cfg' = cfg
    BY DEF MoveLocate, MoveProbe, MoveDestroy, MoveSet, MoveAgain, MoveCreate, MoveSteps
  <2>2. pc'[p] # "begin"
    BY DEF MoveLocate, MoveProbe, MoveDestroy, MoveSet, MoveAgain, MoveCreate, Goto, TypeOK,
           If200, If404
  <2>3. QED BY <1>3, <2>1, <2>2
<1>11. CASE Reads(p)
  <2>1. PICK k \in Kinds, next \in OtherSteps \cup {"locate"} : ReadConfig(p, k, next)
    BY <1>11 DEF Reads
  <2>2. cfg'[p] = row /\ pc'[p] = (IF row = NoRow THEN "failed" ELSE next)
    BY <2>1 DEF ReadConfig, Goto, TypeOK
  <2>3. row = NoRow
    BY <2>2, OtherStepsAre DEF Untouched
  <2>4. QED BY <2>1, <2>3 DEF ReadConfig, database, liercd
<1>12. CASE StartSave(p)
  <2>1. ~Goto(p, "start create")
    BY DEF Goto, TypeOK, Untouched
  <2>2. QED BY <1>12, <2>1 DEF StartSave, liercd
<1>13. QED
  BY <1>4, <1>5, <1>6, <1>7, <1>8, <1>9, <1>10, <1>11, <1>12, Shapes

\* A destroy that went well was where the connection ran.
LEMMA RoutedStops ==
  ASSUME TypeOK, StopsFirst, NEW p \in Actors, kind[p] \in {"wipe", "delete"},
         DeleteDestroy(p) \/ WipeDestroy(p)
  PROVE  StopsFirst'
<1>1. PICK step \in {"wipe destroy", "delete destroy"}, i \in Instances, r \in Replies :
        /\ Addressed(p, step, i) /\ Destroy(i, r)
        /\ \/ Goto(p, If404("wipe row", "failed")[r])
           \/ Goto(p, If200("delete row", "failed")[r])
  BY DEF DeleteDestroy, WipeDestroy, DestroyRouted
<1>2. UNCHANGED <<row, column, kind>> /\ to' = [to EXCEPT ![p] = Unrouted]
  BY DEF DeleteDestroy, WipeDestroy, DestroyRouted, database
<1>3. \A q \in Actors \ {p} : to'[q] = to[q]
  BY <1>2 DEF TypeOK
<1>4. \A j \in Instances : runs'[j] # Idle => runs[j] # Idle
  BY <1>1, DestroyRuns
<1>5. PICK after \in {"wipe row", "delete row", "failed"} :
        Goto(p, after) /\ (after # "failed" => r \in {"ok", "missing"})
  BY <1>1 DEF If404, If200
<1>6. ASSUME Running', after # "failed"
      PROVE  FALSE
  <2>1. Running
    BY <1>4, <1>6 DEF Running
  <2>2. pc[p] \in Calls /\ Unrouted \notin Instances
    BY <1>1 DEF Addressed, Calls, Unrouted, Instances
  <2>3. to[p] \in {Unrouted, column} /\ row # NoRow
    BY <2>1, <2>2 DEF StopsFirst
  <2>4. i = column
    BY <1>1, <2>2, <2>3 DEF Addressed, Route
  <2>5. runs'[i] = Idle
    BY <1>1, <1>5, <1>6, DestroyEffect
  <2>6. QED BY <1>4, <1>6, <2>1, <2>4, <2>5 DEF StopsFirst, Running
<1>7. QED BY <1>2, <1>3, <1>4, <1>5, <1>6, StopsStep DEF TypeOK, Calls

LEMMA StopperStep ==
  ASSUME TypeOK, Control, Placed, StopsFirst, NEW p \in Actors,
         kind[p] \in {"wipe", "delete", "stop"}, Actor(p)
  PROVE  StopsFirst'
<1>1. PlacedAt(kind[p], pc[p], cfg[p], found[p]) /\ (pc[p] \in MoveSteps => kind[p] = "move")
  BY PlaceOf
<1>2. CASE LookUp(p)
  <2>1. UNCHANGED <<row, column, runs, kind, pc>> /\ to' = [to EXCEPT ![p] = Route]
    BY <1>2 DEF LookUp, database, liercd
  <2>2. \A q \in Actors : to'[q] = IF q = p THEN Route ELSE to[q]
    BY <2>1 DEF TypeOK
  <2>3. row # NoRow => Route = column
    BY DEF Route
  <2>4. QED BY <2>1, <2>2, <2>3 DEF StopsFirst, Running
<1>3. CASE QueryFails(p)
  <2>1. UNCHANGED <<row, column, runs, kind>> /\ to' = [to EXCEPT ![p] = Unrouted] /\ Goto(p, "failed")
    BY <1>3 DEF QueryFails, database, liercd
  <2>2. \A q \in Actors \ {p} : to'[q] = to[q]
    BY <2>1 DEF TypeOK
  <2>3. QED BY <2>1, <2>2, StopsStep DEF Calls
<1>4. CASE DeleteBegin(p) \/ WipeBegin(p)
  <2>1. /\ UNCHANGED <<row, column, runs, kind, to>> /\ pc[p] = "begin"
        /\ \E next \in {"failed", "delete destroy", "wipe destroy"} : Goto(p, next)
    BY <1>4 DEF DeleteBegin, WipeBegin, ReadConfig, database, liercd
  <2>2. Running => to'[p] \in {Unrouted, column}
    BY <2>1 DEF StopsFirst
  <2>3. Running' => Running
    BY <2>1 DEF Running
  <2>4. QED BY <2>1, <2>2, <2>3, StopsStep
<1>5. CASE DeleteDestroy(p) \/ WipeDestroy(p)
  <2>1. kind[p] \in {"wipe", "delete"}
    BY <1>1, <1>5 DEF DeleteDestroy, WipeDestroy, DestroyRouted, Addressed, PlacedAt
  <2>2. QED BY <1>5, <2>1, RoutedStops
<1>6. CASE DeleteRow(p) \/ WipeRow(p)
  <2>1. pc[p] \in {"delete row", "wipe row"} /\ runs' = runs
    BY <1>6 DEF DeleteRow, WipeRow, WriteRow, liercd
  <2>2. ~Running'
    BY <2>1 DEF StopsFirst, Running
  <2>3. QED BY <2>2 DEF StopsFirst
<1>7. CASE StopRead(p)
  <2>1. /\ UNCHANGED <<row, column, runs, kind>> /\ to' = [to EXCEPT ![p] = Route]
        /\ Goto(p, "stop destroy")
    BY <1>7 DEF StopRead, database, liercd
  <2>2. \A q \in Actors \ {p} : to'[q] = to[q]
    BY <2>1 DEF TypeOK
  <2>3. QED BY <2>1, <2>2, StopsStep DEF Calls
<1>8. CASE StopDestroy(p)
  <2>1. pc[p] = "stop destroy" /\ to[p] \in Instances
    BY <1>8 DEF StopDestroy, Control, Pinned
  <2>2. PICK r \in Replies : Destroy(to[p], r) /\ Goto(p, If404("ok", "failed")[r])
    BY <1>8 DEF StopDestroy
  <2>3. UNCHANGED <<row, column, kind>> /\ \A q \in Actors \ {p} : to'[q] = to[q]
    BY <1>8 DEF StopDestroy, database, TypeOK
  <2>4. \A i \in Instances : runs'[i] # Idle => runs[i] # Idle
    BY <2>1, <2>2, DestroyRuns
  <2>5. If404("ok", "failed")[r] \in {"ok", "failed"} /\ kind[p] = "stop"
    BY <1>1, <2>1 DEF If404, PlacedAt
  <2>6. QED BY <2>2, <2>3, <2>4, <2>5, StopsStep DEF Calls
<1>9. ~Open(p) /\ ~Revive(p) /\ ~Start(p)
  BY <1>1
     DEF PlacedAt, Open, RecreateRead, RecreateAsk, RecreateCreate, RecreateConfirm,
         Revive, ReviveRead, ReviveAsk, ReviveCreate, Start, StartSave, StartCreate, StartUndo,
         ReadConfig, WriteRow, AskRouted, CreateRouted, Addressed
<1>10. ~Edit(p) /\ ~Reconnect(p)
  BY <1>1
     DEF PlacedAt, Edit, EditRead, EditSave, EditDestroy, EditUpdate, EditCreate, Reconnect,
         ReconnectRead, ReconnectDestroy, ReconnectCreate, ReadConfig, WriteRow, DestroyRouted,
         CreateRouted, Addressed
<1>11. ~Move(p)
  BY <1>1 DEF Move, MoveRead, MoveLocate, MoveProbe, MoveDestroy, MoveSet, MoveAgain, MoveCreate,
              ReadConfig, MoveSteps
<1>12. QED
  BY <1>2, <1>3, <1>4, <1>5, <1>6, <1>7, <1>8, <1>9, <1>10, <1>11 DEF Actor, Delete, Wipe, StopIdle

\* An actor's step leaves the others where they are.
LEMMA OthersKeep ==
  ASSUME TypeOK, NEW p \in Actors, NEW q \in Actors \ {p}, Actor(p)
  PROVE  pc'[q] = pc[q] /\ cfg'[q] = cfg[q]
<1> USE DEF Goto, TypeOK
<1>1. LookUp(p) \/ QueryFails(p) \/ Reads(p) \/ StartSave(p) \/ EditRead(p) \/ Writes(p)
      => pc'[q] = pc[q] /\ cfg'[q] = cfg[q]
  BY DEF LookUp, QueryFails, Reads, StartSave, EditRead, Writes, ReadConfig, WriteRow
<1>2. Asks(p) \/ Destroys(p) \/ Creates(p) \/ StopRead(p) \/ StopDestroy(p)
      => pc'[q] = pc[q] /\ cfg'[q] = cfg[q]
  BY DEF Asks, Destroys, Creates, AskRouted, DestroyRouted, CreateRouted, StopRead, StopDestroy
<1>3. \/ MoveLocate(p) \/ MoveProbe(p) \/ MoveDestroy(p) \/ MoveSet(p)
      \/ MoveAgain(p) \/ MoveCreate(p)
      => pc'[q] = pc[q] /\ cfg'[q] = cfg[q]
  BY DEF MoveLocate, MoveProbe, MoveDestroy, MoveSet, MoveAgain, MoveCreate
<1>4. QED BY <1>1, <1>2, <1>3, Shapes

LEMMA StopsNext ==
  ASSUME TypeOK, Control, Placed, LifecycleAssumption, NobodyHasIt => StopsFirst,
         [Next]_vars, NobodyHasIt'
  PROVE  StopsFirst'
<1>1. kind' = kind
  BY KindStays
<1>2. ASSUME NEW p \in Actors, Actor(p)
      PROVE  StopsFirst'
  <2>1. ASSUME NEW q \in Kinded(Creators) \ {p}
        PROVE  Untouched(q)
    <3>1. Untouched(q)'
      BY <1>1, <2>1 DEF NobodyHasIt, Kinded
    <3>2. pc'[q] = pc[q] /\ cfg'[q] = cfg[q]
      BY <1>2, <2>1, OthersKeep DEF Kinded
    <3>3. QED BY <3>1, <3>2 DEF Untouched
  <2>2. CASE kind[p] \in Creators
    <3>1. Untouched(p)'
      BY <1>1, <1>2, <2>2 DEF NobodyHasIt, Kinded
    <3>2. /\ pc[p] = "begin" /\ Goto(p, "failed")
          /\ UNCHANGED <<row, column, runs, kind, to>>
      BY <1>2, <2>2, <3>1, CreatorStep
    <3>3. StopsFirst
      BY <2>1, <3>2 DEF NobodyHasIt, Untouched
    <3>4. QED BY <2>2, <3>2, <3>3, StopsStep DEF Calls
  <2>3. CASE kind[p] \notin Creators
    <3>1. kind[p] \in {"wipe", "delete", "stop"}
      BY <2>3 DEF Creators, TypeOK, LifecycleAssumption
    <3>2. StopsFirst
      BY <2>1, <2>3 DEF NobodyHasIt, Kinded
    <3>3. QED BY <1>2, <3>1, <3>2, StopperStep
  <2>4. QED BY <2>2, <2>3
<1>3. ASSUME NEW i \in Instances, Crash(i)
      PROVE  StopsFirst'
  <2>1. \A j \in Instances : runs'[j] # Idle => runs[j] # Idle
    BY <1>3 DEF Crash, TypeOK
  <2>2. UNCHANGED <<row, column, kind, pc, cfg, to>>
    BY <1>3 DEF Crash, database
  <2>3. NobodyHasIt
    BY <2>2 DEF NobodyHasIt, Kinded, Untouched
  <2>4. QED BY <2>1, <2>2, <2>3 DEF StopsFirst, Running
<1>4. CASE UNCHANGED vars
  BY <1>4 DEF vars, StopsFirst, Running, NobodyHasIt, Kinded, Untouched
<1>5. QED BY <1>2, <1>3, <1>4 DEF Next

\* A connection that lctl has deleted runs on only if somebody who creates
\* connections had read its config before the row went: with streams, starts,
\* edits and moves that begin later, and any other deletes and stops, whatever
\* fails, it was stopped first (destroyAndDelete; delete-connections: "destroyed
\* in liercd first").
THEOREM WipedUnlessRead == Spec => [](NobodyHasIt => WipedIsStopped)
<1>1. Init => (NobodyHasIt => StopsFirst)
  <2> SUFFICES ASSUME Init PROVE StopsFirst
    OBVIOUS
  <2>1. \A i \in Instances : runs[i] # Idle => i = column /\ row # NoRow
    BY DEF Init, NoRow, Idle
  <2>2. QED BY <2>1 DEF Init, StopsFirst, Running
<1>2. TypeOK /\ Control /\ Placed /\ (NobodyHasIt => StopsFirst) /\ [Next]_vars
      => (NobodyHasIt => StopsFirst)'
  BY StopsNext, LifecycleAssumption
<1>3. (NobodyHasIt => StopsFirst) => (NobodyHasIt => WipedIsStopped)
  BY DEF StopsFirst, WipedIsStopped, Kinded, Running
<1>4. QED BY <1>1, <1>2, <1>3, ControlPlaced, PTL DEF Spec

-----------------------------------------------------------------------------
(***************************************************************************)
(* The saved config is the running one.  A stream that opens during an     *)
(* edit can leave the old settings running (run connection_edited).  If    *)
(* every edit has the connection to itself while it stops it and saves,    *)
(* and nothing moves it, whoever is to create it holds the config that is  *)
(* saved, and nothing runs between an edit's destroy and its update.       *)
(***************************************************************************)
EditsAlone ==
  \A e \in Actors : pc[e] \in {"edit destroy", "edit update"} =>
    \A p \in Kinded(Creators) \ {e} : pc[p] \in Ends \cup {"begin"}

NoMoves == Kinded({"move"}) = {}

\* The steps at which an actor's config is the saved one.
HasCurrent == {"ask", "create", "revive ask", "revive create", "start create",
               "reconnect destroy", "reconnect create", "edit create", "edit save"}

Current ==
  /\ \A p \in Actors : pc[p] \in {"begin", "edit update"} => to[p] = Unrouted
  /\ row # NoRow =>
       /\ \A i \in Instances : runs[i] # Idle => i = column /\ runs[i] = row
       /\ \A p \in Actors :
            /\ pc[p] \in Calls => to[p] \in {Unrouted, column}
            /\ pc[p] \in HasCurrent => cfg[p] = row
            /\ pc[p] = "edit update" => ~Running

LEMMA CurrentStep ==
  ASSUME TypeOK, Current, NEW p \in Actors, NEW next, next # "begin", Goto(p, next),
         row' = row, column' = column,
         \A q \in Actors \ {p} : to'[q] = to[q] /\ cfg'[q] = cfg[q],
         next = "edit update" => to'[p] = Unrouted,
         row # NoRow =>
           /\ \A i \in Instances : runs'[i] # Idle => i = column /\ runs'[i] = row
           /\ next \in Calls => to'[p] \in {Unrouted, column}
           /\ next \in HasCurrent => cfg'[p] = row
           /\ next = "edit update" => ~Running'
           /\ Running' => Running \/ \A q \in Actors \ {p} : pc[q] # "edit update"
  PROVE  Current'
<1>1. \A q \in Actors : pc'[q] = IF q = p THEN next ELSE pc[q]
  BY DEF Goto, TypeOK
<1>2. \A q \in Actors : pc'[q] \in {"begin", "edit update"} => to'[q] = Unrouted
  BY <1>1 DEF Current
<1>3. ASSUME row # NoRow, NEW q \in Actors
      PROVE  /\ pc'[q] \in Calls => to'[q] \in {Unrouted, column}
             /\ pc'[q] \in HasCurrent => cfg'[q] = row
             /\ pc'[q] = "edit update" => ~Running'
  <2>1. CASE q = p
    BY <1>1, <1>3, <2>1
  <2>2. CASE q # p
    BY <1>1, <1>3, <2>2 DEF Current
  <2>3. QED BY <2>1, <2>2
<1>4. QED BY <1>2, <1>3 DEF Current

\* A request's actor is unrouted again, and keeps its config.
LEMMA RoutedCurrent ==
  ASSUME TypeOK, Current, NEW p \in Actors, NEW next, next # "begin", Goto(p, next),
         UNCHANGED <<row, column, cfg>>, to' = [to EXCEPT ![p] = Unrouted],
         next \in HasCurrent => pc[p] \in HasCurrent,
         row # NoRow =>
           /\ \A i \in Instances : runs'[i] # Idle => i = column /\ runs'[i] = row
           /\ next = "edit update" => ~Running'
           /\ Running' => Running \/ \A q \in Actors \ {p} : pc[q] # "edit update"
  PROVE  Current'
<1>1. to'[p] = Unrouted /\ \A q \in Actors \ {p} : to'[q] = to[q]
  BY DEF TypeOK
<1>2. row # NoRow /\ next \in HasCurrent => cfg'[p] = row
  BY DEF Current
<1>3. QED BY <1>1, <1>2, CurrentStep

\* With a row, requests are addressed to the column's instance.
LEMMA AddressedColumn ==
  ASSUME TypeOK, Current, row # NoRow, NEW p \in Actors, NEW step \in Calls, NEW i \in Instances,
         Addressed(p, step, i)
  PROVE  i = column
<1>1. to[p] \in {Unrouted, column}
  BY DEF Current, Addressed
<1>2. Unrouted \notin Instances
  BY DEF Unrouted, Instances
<1>3. QED BY <1>1, <1>2 DEF Addressed, Route

LEMMA AskCurrent ==
  ASSUME TypeOK, Current, NEW p \in Actors, NEW step \in Calls, NEW next, AskRouted(p, step, next),
         \A r \in Replies : /\ next[r] \notin {"begin", "edit update"}
                            /\ next[r] \in HasCurrent => step \in HasCurrent
  PROVE  Current'
<1>1. PICK i \in Instances, r \in Replies :
        Addressed(p, step, i) /\ Status(i, r) /\ Goto(p, next[r])
  BY DEF AskRouted
<1>2. UNCHANGED <<row, column, runs, cfg>> /\ to' = [to EXCEPT ![p] = Unrouted] /\ pc[p] = step
  BY <1>1 DEF AskRouted, Status, Fails, liercd, database, Addressed
<1>3. row # NoRow => \A j \in Instances : runs'[j] # Idle => j = column /\ runs'[j] = row
  BY <1>2 DEF Current
<1>4. Running' => Running
  BY <1>2 DEF Running
<1>5. QED BY <1>1, <1>2, <1>3, <1>4, RoutedCurrent

LEMMA DestroyCurrent ==
  ASSUME TypeOK, Current, NEW p \in Actors, NEW step \in Calls, NEW next, DestroyRouted(p, step, next),
         \A r \in Replies : /\ next[r] # "begin"
                            /\ next[r] \in HasCurrent => step \in HasCurrent
                            /\ next[r] = "edit update" => r \in {"ok", "missing"}
  PROVE  Current'
<1>1. PICK i \in Instances, r \in Replies :
        Addressed(p, step, i) /\ Destroy(i, r) /\ Goto(p, next[r])
  BY DEF DestroyRouted
<1>2. UNCHANGED <<row, column, cfg>> /\ to' = [to EXCEPT ![p] = Unrouted] /\ pc[p] = step
  BY <1>1 DEF DestroyRouted, database, Addressed
<1>3. \A j \in Instances : runs'[j] \in {runs[j], Idle}
  BY <1>1, DestroyEffect
<1>4. row # NoRow => \A j \in Instances : runs'[j] # Idle => j = column /\ runs'[j] = row
  BY <1>3 DEF Current
<1>5. Running' => Running
  BY <1>3 DEF Running
<1>6. ASSUME row # NoRow, next[r] = "edit update" PROVE ~Running'
  <2>1. i = column
    BY <1>1, <1>6, AddressedColumn
  <2>2. runs'[i] = Idle
    BY <1>1, <1>6, DestroyEffect
  <2>3. QED BY <1>4, <1>6, <2>1, <2>2 DEF Running
<1>7. QED BY <1>1, <1>2, <1>4, <1>5, <1>6, RoutedCurrent

\* A create runs the saved config, and no edit is between its destroy and its
\* update.
LEMMA CreateCurrent ==
  ASSUME TypeOK, Current, EditsAlone, NEW p \in Actors, kind[p] \in Creators,
         NEW step \in Calls, step \in HasCurrent, NEW next, CreateRouted(p, step, next),
         \A r \in Replies : next[r] \notin {"begin", "edit update"} \cup HasCurrent
  PROVE  Current'
<1>1. PICK i \in Instances, r \in Replies :
        Addressed(p, step, i) /\ Create(i, cfg[p], r) /\ Goto(p, next[r])
  BY DEF CreateRouted
<1>2. UNCHANGED <<row, column, cfg>> /\ to' = [to EXCEPT ![p] = Unrouted] /\ pc[p] = step
  BY <1>1 DEF CreateRouted, database, Addressed
<1>3. \A q \in Actors \ {p} : pc[q] # "edit update"
  <2>1. step \notin Ends \cup {"begin"}
    BY DEF Calls, Ends
  <2>2. QED BY <1>2, <2>1 DEF EditsAlone, Kinded
<1>4. ASSUME row # NoRow, NEW j \in Instances, runs'[j] # Idle
      PROVE  j = column /\ runs'[j] = row
  <2>1. i = column /\ cfg[p] = row
    BY <1>1, <1>2, <1>4, AddressedColumn DEF Current
  <2>2. runs' = runs \/ \E new \in {cfg[p]} \cup ({runs[i]} \ {Idle}) : runs' = [runs EXCEPT ![i] = new]
    BY <1>1 DEF Create, Fails, liercd
  <2>3. runs[i] # Idle => runs[i] = row
    BY <1>4 DEF Current
  <2>4. runs' = runs \/ runs' = [runs EXCEPT ![i] = row]
    BY <2>1, <2>2, <2>3
  <2>5. QED BY <1>4, <2>1, <2>4 DEF Current, TypeOK
<1>5. QED BY <1>1, <1>2, <1>3, <1>4, RoutedCurrent

\* The queries that read the row or end an actor.
LEMMA ReadCurrent ==
  ASSUME TypeOK, Current, NEW p \in Actors, NEW k, NEW next, ReadConfig(p, k, next),
         next \notin {"begin", "edit update"}
  PROVE  Current'
<1>1. /\ UNCHANGED <<row, column, runs, to>> /\ pc[p] = "begin"
      /\ cfg' = [cfg EXCEPT ![p] = row]
      /\ Goto(p, IF row = NoRow THEN "failed" ELSE next)
  BY DEF ReadConfig, database, liercd
<1>2. cfg'[p] = row /\ \A q \in Actors \ {p} : cfg'[q] = cfg[q]
  BY <1>1 DEF TypeOK
<1>3. to'[p] = Unrouted
  BY <1>1 DEF Current
<1>4. row # NoRow => \A j \in Instances : runs'[j] # Idle => j = column /\ runs'[j] = row
  BY <1>1 DEF Current
<1>5. Running' => Running
  BY <1>1 DEF Running
<1>6. PICK step \in {"failed", next} : Goto(p, step)
  BY <1>1
<1>7. QED BY <1>1, <1>2, <1>3, <1>4, <1>5, <1>6, CurrentStep

\* The row goes.
LEMMA GoneCurrent ==
  ASSUME TypeOK, Current, NEW p \in Actors, NEW from, NEW next, next # "begin",
         next # "edit update", WriteRow(p, from, next, NoRow)
  PROVE  Current'
<1>1. row' = NoRow /\ to' = to /\ Goto(p, next)
  BY DEF WriteRow
<1>2. \A q \in Actors : pc'[q] \in {"begin", "edit update"} => pc'[q] = pc[q]
  BY <1>1 DEF Goto, TypeOK
<1>3. QED BY <1>1, <1>2 DEF Current

\* The actors that create what they find.
LEMMA OpenCurrent ==
  ASSUME TypeOK, Control, Placed, Current, EditsAlone, NEW p \in Actors,
         Open(p) \/ Revive(p) \/ Reconnect(p)
  PROVE  Current'
<1>1. PlacedAt(kind[p], pc[p], cfg[p], found[p])
  BY PlaceOf
<1>2. CASE RecreateRead(p) \/ ReviveRead(p) \/ ReconnectRead(p)
  BY <1>2, ReadCurrent DEF RecreateRead, ReviveRead, ReconnectRead
<1>3. CASE RecreateAsk(p)
  <2>1. \A r \in Replies : /\ [If200("ok", "create") EXCEPT !["error"] = "failed"][r] \notin {"begin", "edit update"}
                           /\ [If200("ok", "create") EXCEPT !["error"] = "failed"][r] \in HasCurrent
                                => "ask" \in HasCurrent
    BY DEF HasCurrent, If200, If404
  <2>2. "ask" \in Calls
    BY DEF Calls, HasCurrent
  <2>3. QED BY <1>3, <2>1, <2>2, AskCurrent DEF RecreateAsk
<1>4. CASE RecreateConfirm(p)
  <2>1. \A r \in Replies : /\ If200("ok", "failed")[r] \notin {"begin", "edit update"}
                           /\ If200("ok", "failed")[r] \in HasCurrent
                                => "confirm" \in HasCurrent
    BY DEF HasCurrent, If200, If404
  <2>2. "confirm" \in Calls
    BY DEF Calls, HasCurrent
  <2>3. QED BY <1>4, <2>1, <2>2, AskCurrent DEF RecreateConfirm
<1>5. CASE ReviveAsk(p)
  <2>1. \A r \in Replies : /\ If200("ok", "revive create")[r] \notin {"begin", "edit update"}
                           /\ If200("ok", "revive create")[r] \in HasCurrent
                                => "revive ask" \in HasCurrent
    BY DEF HasCurrent, If200, If404
  <2>2. "revive ask" \in Calls
    BY DEF Calls, HasCurrent
  <2>3. QED BY <1>5, <2>1, <2>2, AskCurrent DEF ReviveAsk
<1>6. CASE ReconnectDestroy(p)
  <2>1. \A r \in Replies : /\ If404("reconnect create", "failed")[r] # "begin"
                           /\ If404("reconnect create", "failed")[r] \in HasCurrent
                                => "reconnect destroy" \in HasCurrent
                           /\ If404("reconnect create", "failed")[r] = "edit update" => r \in {"ok", "missing"}
    BY DEF HasCurrent, If200, If404
  <2>2. "reconnect destroy" \in Calls
    BY DEF Calls, HasCurrent
  <2>3. QED BY <1>6, <2>1, <2>2, DestroyCurrent DEF ReconnectDestroy
<1>7. CASE RecreateCreate(p) \/ ReviveCreate(p) \/ ReconnectCreate(p)
  <2>1. pc[p] \in {"create", "revive create", "reconnect create"}
    BY <1>7 DEF RecreateCreate, ReviveCreate, ReconnectCreate, CreateRouted, Addressed
  <2>2. kind[p] \in Creators
    BY <1>1, <2>1 DEF PlacedAt, Creators, Kinds
  <2>3. CASE RecreateCreate(p)
    <3>1. \A r \in Replies : If200("confirm", "failed")[r] \notin {"begin", "edit update"} \cup HasCurrent
      BY DEF HasCurrent, If200, If404
    <3>2. "create" \in Calls /\ "create" \in HasCurrent
      BY DEF Calls, HasCurrent
    <3>3. QED BY <2>3, <2>2, <3>1, <3>2, CreateCurrent DEF RecreateCreate
  <2>4. CASE ReviveCreate(p)
    <3>1. \A r \in Replies : If200("ok", "failed")[r] \notin {"begin", "edit update"} \cup HasCurrent
      BY DEF HasCurrent, If200, If404
    <3>2. "revive create" \in Calls /\ "revive create" \in HasCurrent
      BY DEF Calls, HasCurrent
    <3>3. QED BY <2>4, <2>2, <3>1, <3>2, CreateCurrent DEF ReviveCreate
  <2>5. CASE ReconnectCreate(p)
    <3>1. \A r \in Replies : If200("ok", "failed")[r] \notin {"begin", "edit update"} \cup HasCurrent
      BY DEF HasCurrent, If200, If404
    <3>2. "reconnect create" \in Calls /\ "reconnect create" \in HasCurrent
      BY DEF Calls, HasCurrent
    <3>3. QED BY <2>5, <2>2, <3>1, <3>2, CreateCurrent DEF ReconnectCreate
  <2>6. QED BY <1>7, <2>3, <2>4, <2>5
<1>8. QED
  BY <1>2, <1>3, <1>4, <1>5, <1>6, <1>7 DEF Open, Revive, Reconnect

\* The actors that stop the connection.
LEMMA StopperCurrent ==
  ASSUME TypeOK, Control, Current, NEW p \in Actors, Delete(p) \/ Wipe(p) \/ StopIdle(p)
  PROVE  Current'
<1>1. CASE DeleteBegin(p) \/ WipeBegin(p)
  BY <1>1, ReadCurrent DEF DeleteBegin, WipeBegin
<1>2. CASE DeleteDestroy(p)
  <2>1. \A r \in Replies : /\ If200("delete row", "failed")[r] # "begin"
                           /\ If200("delete row", "failed")[r] \in HasCurrent
                                => "delete destroy" \in HasCurrent
                           /\ If200("delete row", "failed")[r] = "edit update" => r \in {"ok", "missing"}
    BY DEF HasCurrent, If200, If404
  <2>2. "delete destroy" \in Calls
    BY DEF Calls, HasCurrent
  <2>3. QED BY <1>2, <2>1, <2>2, DestroyCurrent DEF DeleteDestroy
<1>3. CASE WipeDestroy(p)
  <2>1. \A r \in Replies : /\ If404("wipe row", "failed")[r] # "begin"
                           /\ If404("wipe row", "failed")[r] \in HasCurrent
                                => "wipe destroy" \in HasCurrent
                           /\ If404("wipe row", "failed")[r] = "edit update" => r \in {"ok", "missing"}
    BY DEF HasCurrent, If200, If404
  <2>2. "wipe destroy" \in Calls
    BY DEF Calls, HasCurrent
  <2>3. QED BY <1>3, <2>1, <2>2, DestroyCurrent DEF WipeDestroy
<1>4. CASE DeleteRow(p) \/ WipeRow(p)
  BY <1>4, GoneCurrent DEF DeleteRow, WipeRow
<1>5. CASE StopRead(p)
  <2>1. /\ UNCHANGED <<row, column, runs, cfg>> /\ Goto(p, "stop destroy")
        /\ to' = [to EXCEPT ![p] = Route]
    BY <1>5 DEF StopRead, database, liercd
  <2>2. \A q \in Actors \ {p} : to'[q] = to[q] /\ cfg'[q] = cfg[q]
    BY <2>1 DEF TypeOK
  <2>3. row # NoRow => \A j \in Instances : runs'[j] # Idle => j = column /\ runs'[j] = row
    BY <2>1 DEF Current
  <2>4. Running' => Running
    BY <2>1 DEF Running
  <2>5. QED BY <2>1, <2>2, <2>3, <2>4, CurrentStep DEF Calls, HasCurrent
<1>6. CASE StopDestroy(p)
  <2>1. PICK r \in Replies : Destroy(to[p], r) /\ Goto(p, If404("ok", "failed")[r])
    BY <1>6 DEF StopDestroy
  <2>2. UNCHANGED <<row, column, cfg>> /\ to' = [to EXCEPT ![p] = Unrouted] /\ to[p] \in Instances
    BY <1>6 DEF StopDestroy, database, Control, Pinned
  <2>3. \A j \in Instances : runs'[j] \in {runs[j], Idle}
    BY <2>1, <2>2, DestroyEffect
  <2>4. row # NoRow => \A j \in Instances : runs'[j] # Idle => j = column /\ runs'[j] = row
    BY <2>3 DEF Current
  <2>5. Running' => Running
    BY <2>3 DEF Running
  <2>6. If404("ok", "failed")[r] \notin {"begin", "edit update"} \cup HasCurrent
    BY DEF If404, HasCurrent
  <2>7. QED BY <2>1, <2>2, <2>4, <2>5, <2>6, RoutedCurrent
<1>7. QED
  BY <1>1, <1>2, <1>3, <1>4, <1>5, <1>6 DEF Delete, Wipe, StopIdle

LEMMA StartCurrent ==
  ASSUME TypeOK, Control, Unstarted, Placed, Current, EditsAlone, LifecycleAssumption,
         NEW p \in Actors, Start(p)
  PROVE  Current'
<1>1. PlacedAt(kind[p], pc[p], cfg[p], found[p])
  BY PlaceOf
<1>2. CASE StartSave(p)
  <2>1. /\ kind[p] = "start" /\ pc[p] = "begin" /\ to[p] = Unrouted
        /\ UNCHANGED <<column, runs, to>>
        /\ \E next \in {"start create", "failed"} : Goto(p, next)
    BY <1>2 DEF StartSave, liercd, Current
  <2>2. /\ \A i \in Instances : runs[i] = Idle
        /\ \A q \in Actors : pc[q] \in {"begin", "failed"}
    BY <2>1 DEF Unstarted
  <2>3. \A q \in Actors \ {p} : pc'[q] \in {"begin", "failed"} /\ (pc'[q] = "begin" => to'[q] = Unrouted)
    BY <2>1, <2>2 DEF Goto, TypeOK, Current
  <2>4. pc'[p] \in {"start create", "failed"} /\ to'[p] = Unrouted
    BY <2>1 DEF Goto, TypeOK
  <2>5. pc'[p] = "start create" => cfg'[p] = row'
    BY <1>2 DEF StartSave, Goto, TypeOK
  <2>6. ~Running'
    BY <2>1, <2>2 DEF Running
  <2>7. \A q \in Actors : pc'[q] \in {"begin", "edit update"} => to'[q] = Unrouted
    BY <2>3, <2>4
  <2>8. ASSUME NEW q \in Actors
        PROVE  /\ pc'[q] \in Calls => to'[q] \in {Unrouted, column'}
               /\ pc'[q] \in HasCurrent => cfg'[q] = row'
    <3>1. CASE q = p
      BY <2>4, <2>5, <3>1 DEF HasCurrent
    <3>2. CASE q # p
      <4>1. pc'[q] \in {"begin", "failed"}
        BY <2>3, <3>2
      <4>2. QED BY <4>1 DEF Calls, HasCurrent
    <3>3. QED BY <3>1, <3>2
  <2>9. QED BY <2>6, <2>7, <2>8 DEF Current, Running
<1>3. CASE StartCreate(p)
  <2>1. kind[p] \in Creators
    BY <1>1, <1>3 DEF StartCreate, CreateRouted, Addressed, PlacedAt, Creators, Kinds
  <2>2. \A r \in Replies : If200("ok", "start undo")[r] \notin {"begin", "edit update"} \cup HasCurrent
    BY DEF HasCurrent, If200, If404
  <2>3. "start create" \in Calls /\ "start create" \in HasCurrent
    BY DEF Calls, HasCurrent
  <2>4. QED BY <1>3, <2>1, <2>2, <2>3, CreateCurrent DEF StartCreate
<1>4. CASE StartUndo(p)
  BY <1>4, GoneCurrent DEF StartUndo
<1>5. QED BY <1>2, <1>3, <1>4 DEF Start

\* An edit: while it is between its read and its update nobody who creates the
\* connection is under way.
LEMMA EditCurrent ==
  ASSUME TypeOK, Control, Placed, Current, EditsAlone, LifecycleAssumption, NEW p \in Actors, Edit(p)
  PROVE  Current'
<1>1. PlacedAt(kind[p], pc[p], cfg[p], found[p])
  BY PlaceOf
<1>2. CASE EditRead(p)
  <2>1. PICK c \in Configs :
          /\ cfg' = [cfg EXCEPT ![p] = c]
          /\ Goto(p, IF c = row THEN "edit save" ELSE "edit destroy")
    BY <1>2 DEF EditRead
  <2>2. UNCHANGED <<row, column, runs, to>> /\ to[p] = Unrouted
    BY <1>2 DEF EditRead, database, liercd, Current
  <2>3. cfg'[p] = c /\ \A q \in Actors \ {p} : cfg'[q] = cfg[q]
    BY <2>1 DEF TypeOK
  <2>4. row # NoRow => \A j \in Instances : runs'[j] # Idle => j = column /\ runs'[j] = row
    BY <2>2 DEF Current
  <2>5. Running' => Running
    BY <2>2 DEF Running
  <2>6. PICK next \in {"edit save", "edit destroy"} : Goto(p, next) /\ (next = "edit save" => c = row)
    BY <2>1
  <2>7. QED BY <2>2, <2>3, <2>4, <2>5, <2>6, CurrentStep DEF HasCurrent
<1>3. CASE EditSave(p)
  <2>1. row' = row /\ UNCHANGED <<column, runs, cfg, to>> /\ Goto(p, "ok")
    BY <1>3 DEF EditSave, WriteRow, liercd, Current, HasCurrent
  <2>2. row # NoRow => \A j \in Instances : runs'[j] # Idle => j = column /\ runs'[j] = row
    BY <2>1 DEF Current
  <2>3. Running' => Running
    BY <2>1 DEF Running
  <2>4. QED BY <2>1, <2>2, <2>3, CurrentStep DEF Calls, HasCurrent
<1>4. CASE EditDestroy(p)
  <2>1. \A r \in Replies : /\ If404("edit update", "failed")[r] # "begin"
                           /\ If404("edit update", "failed")[r] \in HasCurrent
                                => "edit destroy" \in HasCurrent
                           /\ If404("edit update", "failed")[r] = "edit update" => r \in {"ok", "missing"}
    BY DEF HasCurrent, If200, If404
  <2>2. "edit destroy" \in Calls
    BY DEF Calls, HasCurrent
  <2>3. QED BY <1>4, <2>1, <2>2, DestroyCurrent DEF EditDestroy
<1>5. CASE EditUpdate(p)
  <2>1. /\ pc[p] = "edit update" /\ Goto(p, "edit create")
        /\ UNCHANGED <<column, runs, cfg, to>>
        /\ row' = IF row = NoRow THEN NoRow ELSE cfg[p]
    BY <1>5 DEF EditUpdate, WriteRow, liercd
  <2>2. \A q \in Actors : pc'[q] = IF q = p THEN "edit create" ELSE pc[q]
    BY <2>1 DEF Goto, TypeOK
  <2>3. \A q \in Kinded(Creators) \ {p} : pc[q] \in Ends \cup {"begin"}
    BY <2>1 DEF EditsAlone
  <2>4. ASSUME NEW q \in Actors, q # p, pc[q] \in HasCurrent PROVE FALSE
    <3>1. PlacedAt(kind[q], pc[q], cfg[q], found[q])
      BY PlaceOf
    <3>2. kind[q] \in Creators
      BY <2>4, <3>1 DEF PlacedAt, HasCurrent, Creators, Kinds
    <3>3. QED BY <2>3, <2>4, <3>2 DEF Kinded, HasCurrent, Ends
  <2>5. row # NoRow => ~Running
    BY <2>1 DEF Current
  <2>6. ~Running => \A i \in Instances : runs'[i] = Idle
    BY <2>1 DEF Running
  <2>7. \A q \in Actors : pc'[q] \in {"begin", "edit update"} => to'[q] = Unrouted
    BY <2>1, <2>2 DEF Current
  <2>8. ASSUME row' # NoRow, NEW q \in Actors
        PROVE  /\ pc'[q] \in Calls => to'[q] \in {Unrouted, column'}
               /\ pc'[q] \in HasCurrent => cfg'[q] = row'
    <3>1. CASE q = p
      <4>1. to[p] = Unrouted
        BY <2>1 DEF Current
      <4>2. QED BY <2>1, <2>8, <3>1, <4>1
    <3>2. CASE q # p
      BY <2>1, <2>2, <2>4, <2>8, <3>2 DEF Current
    <3>3. QED BY <3>1, <3>2
  <2>9. QED BY <2>1, <2>5, <2>6, <2>7, <2>8 DEF Current, Running
<1>6. CASE EditCreate(p)
  <2>1. kind[p] \in Creators
    BY <1>1, <1>6 DEF EditCreate, CreateRouted, Addressed, PlacedAt, Creators, Kinds
  <2>2. \A r \in Replies : If200("ok", "failed")[r] \notin {"begin", "edit update"} \cup HasCurrent
    BY DEF HasCurrent, If200, If404
  <2>3. "edit create" \in Calls /\ "edit create" \in HasCurrent
    BY DEF Calls, HasCurrent
  <2>4. QED BY <1>6, <2>1, <2>2, <2>3, CreateCurrent DEF EditCreate
<1>7. QED BY <1>2, <1>3, <1>4, <1>5, <1>6 DEF Edit

LEMMA CurrentNext ==
  ASSUME TypeOK, Control, Unstarted, Placed, LifecycleAssumption, NoMoves, Current, EditsAlone,
         [Next]_vars
  PROVE  Current'
<1>1. ASSUME NEW p \in Actors, Actor(p)
      PROVE  Current'
  <2>1. CASE LookUp(p)
    <3>1. UNCHANGED <<row, column, runs, cfg, pc>> /\ to' = [to EXCEPT ![p] = Route] /\ pc[p] \in Calls
      BY <2>1 DEF LookUp, database, liercd
    <3>2. \A q \in Actors : to'[q] = IF q = p THEN Route ELSE to[q]
      BY <3>1 DEF TypeOK
    <3>3. (row # NoRow => Route = column) /\ pc[p] \notin {"begin", "edit update"}
      BY <3>1 DEF Route, Calls
    <3>4. QED BY <3>1, <3>2, <3>3 DEF Current, Running
  <2>2. CASE QueryFails(p)
    <3>1. /\ UNCHANGED <<row, column, runs, cfg>> /\ Goto(p, "failed")
          /\ to' = [to EXCEPT ![p] = Unrouted]
      BY <2>2 DEF QueryFails, database, liercd
    <3>2. row # NoRow => \A j \in Instances : runs'[j] # Idle => j = column /\ runs'[j] = row
      BY <3>1 DEF Current
    <3>3. Running' => Running
      BY <3>1 DEF Running
    <3>4. "failed" \notin HasCurrent
      BY DEF HasCurrent
    <3>5. QED BY <3>1, <3>2, <3>3, <3>4, RoutedCurrent
  <2>3. ~Move(p)
    <3>1. kind[p] # "move"
      BY DEF NoMoves, Kinded
    <3>2. pc[p] \notin MoveSteps
      BY <3>1 DEF Control
    <3>3. QED
      BY <3>1, <3>2 DEF Move, MoveRead, MoveLocate, MoveProbe, MoveDestroy, MoveSet, MoveAgain,
                        MoveCreate, ReadConfig, MoveSteps
  <2>4. QED
    BY <1>1, <2>1, <2>2, <2>3, OpenCurrent, StopperCurrent, StartCurrent, EditCurrent DEF Actor
<1>2. ASSUME NEW i \in Instances, Crash(i)
      PROVE  Current'
  <2>1. UNCHANGED <<row, column, cfg, pc, to>> /\ \A j \in Instances : runs'[j] \in {runs[j], Idle}
    BY <1>2 DEF Crash, database, TypeOK
  <2>2. QED BY <2>1 DEF Current, Running
<1>3. CASE UNCHANGED vars
  BY <1>3 DEF vars, Current, Running
<1>4. QED BY <1>1, <1>2, <1>3 DEF Next

\* When no edit overlaps, between its read and its update, with another actor
\* that creates the connection, liercd runs the saved config or nothing, with any
\* number of edits, streams and commands other than moves, and whatever fails
\* (edit; save's comment: "it's what liercd is running").
THEOREM SavedIsRunningIfAlone ==
  Spec /\ []EditsAlone => [](NoMoves => SavedIsRunning)
<1>1. Init => (NoMoves => Current)
  <2> SUFFICES ASSUME Init PROVE Current
    OBVIOUS
  <2>1. \A i \in Instances : runs[i] # Idle => i = column /\ runs[i] = row
    BY DEF Init, NoRow, Idle
  <2>2. /\ \A p \in Actors : pc[p] = "begin" /\ to[p] = Unrouted
        /\ "begin" \notin Calls \cup HasCurrent
    BY DEF Init, Calls, HasCurrent
  <2>3. QED BY <2>1, <2>2 DEF Current
<1>2. /\ TypeOK /\ Control /\ Unstarted /\ Placed
      /\ EditsAlone
      /\ NoMoves => Current
      /\ [Next]_vars
      => (NoMoves => Current)'
  <2> SUFFICES ASSUME TypeOK, Control, Unstarted, Placed, EditsAlone, NoMoves => Current,
                      [Next]_vars, NoMoves'
               PROVE  Current'
    OBVIOUS
  <2>1. NoMoves
    BY KindStays DEF NoMoves, Kinded
  <2>2. QED BY <2>1, CurrentNext, LifecycleAssumption
<1>3. (NoMoves => Current) => (NoMoves => SavedIsRunning)
  BY DEF Current, SavedIsRunning
<1>4. QED BY <1>1, <1>2, <1>3, ControlPlaced, PTL DEF Spec
=============================================================================
