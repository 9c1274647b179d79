------------------------------- MODULE Batches -------------------------------
(***************************************************************************)
(* The lctl commands that start connections a batch at a time:             *)
(* move-connections, which moves those of one liercd instance to the other *)
(* by id, and revive, which starts those that aren't running, after        *)
(* waiting for an instance to come up.                                     *)
(*                                                                         *)
(* A step is one query, one probe or one connection.  What can happen in   *)
(* the middle of one move is in ConnectionLifecycle; a connection runs     *)
(* here on the instance of its row.  Only one such command runs.           *)
(***************************************************************************)
EXTENDS Naturals, FiniteSets

CONSTANTS
  Ids,       \* the connections, ordered as their ids
  From, To,  \* the liercd instances: the one moved from, or revived, and the other
  Sizes, Limits, Waits,  \* bounds: --batch, --limit and --wait
  Probe      \* reviveProbe, in the same unit

ASSUME BatchesAssumption ==
  /\ Ids \subseteq Nat /\ IsFiniteSet(Ids)
  /\ Sizes \subseteq Nat \ {0}
  /\ Limits \subseteq Nat
  /\ Waits \subseteq Nat
  /\ Probe \in Nat \ {0}
  /\ From # To /\ "gone" \notin {From, To}

VARIABLES
  place,    \* each row's instance, or "gone"
  running,  \* connections that run
  opened,   \* history: those a stream has started since --dormant asked
  order,    \* the command and its flags
  doing,    \* where it is
  todo,     \* connections still to handle, by id
  picked,   \* those it has chosen
  count,    \* started for move-connections, started + failed for revive
  waited,   \* for the instance to answer
  burst,    \* history: connections created since the last pause
  touched   \* history: running connections move-connections has stopped

fleet == <<place, running, opened>>
past  == <<burst, touched>>
batchesVars == <<fleet, order, doing, todo, picked, count, waited, past>>

Orders == [name : {"move", "revive"}, batch : Sizes, limit : Limits \cup {0},
           dormant : BOOLEAN, move : BOOLEAN, wait : Waits \cup {0}]
Over == doing \in {"done", "failed", "no answer"}

BatchesTypeOK ==
  /\ place \in [Ids -> {From, To} \cup {"gone"}]
  /\ running \subseteq Ids /\ opened \subseteq Ids
  /\ order \in Orders
  /\ doing \in {"wait", "list", "ask", "work", "create", "pause", "done", "failed", "no answer"}
  /\ todo \subseteq picked /\ picked \subseteq Ids
  /\ count \in 0..Cardinality(Ids)
  /\ waited \in Nat
  /\ burst \in 0..Cardinality(Ids)
  /\ touched \subseteq Ids

\* Flags the command doesn't have are left at their first values.
BatchesInit ==
  /\ place \in [Ids -> {From, To}]
  /\ running \in SUBSET Ids
  /\ opened = {}
  /\ order \in Orders
  /\ order.name = "move" => order.wait = 0
  /\ order.name = "revive" => order.limit = 0 /\ ~order.dormant /\ order.move
  /\ doing = IF order.wait > 0 THEN "wait" ELSE "list"
  /\ todo = {} /\ picked = {}
  /\ count = 0 /\ waited = 0
  /\ burst = 0 /\ touched = {}

-----------------------------------------------------------------------------
Does(name, step) == order.name = name /\ doing = step
First(c) == c \in todo /\ \A d \in todo : c <= d
Limited(S) == IF order.limit = 0 THEN S
              ELSE {c \in S : Cardinality({d \in S : d <= c}) <= order.limit}
On(i) == {c \in Ids : place[c] = i}
\* With the connections of S to handle, a dry run ends.
Chooses(S) == /\ todo' = S /\ picked' = S
              /\ doing' = IF order.move THEN "work" ELSE "done"

\* Interrupted, or a query or a question fails; a list not yet whole is lost.
Fails ==
  /\ ~Over
  /\ doing' = "failed"
  /\ IF doing = "ask" THEN todo' = {} /\ picked' = {} ELSE UNCHANGED <<todo, picked>>
  /\ UNCHANGED <<fleet, order, count, waited, past>>

\* The pause between batches.
Resume ==
  /\ doing = "pause"
  /\ doing' = IF order.name = "move" THEN "work" ELSE "create"
  /\ burst' = 0
  /\ UNCHANGED <<fleet, order, todo, picked, count, waited, touched>>

Ended ==
  /\ doing = "work" /\ todo = {}
  /\ doing' = "done"
  /\ UNCHANGED <<fleet, order, todo, picked, count, waited, past>>

\* connectionsOn; with --dormant each is then asked about.
MoveList ==
  /\ Does("move", "list")
  /\ IF order.dormant
     THEN doing' = "ask" /\ todo' = On(From) /\ picked' = todo'
     ELSE Chooses(Limited(On(From)))
  /\ UNCHANGED <<fleet, order, count, waited, past>>

\* Mutation: a connection whose status can't be had is taken for dormant.
AskLoosely(c) ==
  /\ Does("move", "ask") /\ First(c)
  /\ todo' = todo \ {c}
  /\ \E dormant \in {c \notin running \/ place[c] # From, TRUE} :
       picked' = IF dormant THEN picked ELSE picked \ {c}
  /\ opened' = opened \ {c}
  /\ UNCHANGED <<place, running, order, doing, count, waited, past>>

\* dormantOn: anything but 200 and 404 ends the command (Fails).
Ask(c) ==
  /\ Does("move", "ask") /\ First(c)
  /\ todo' = todo \ {c}
  /\ picked' = IF c \in running /\ place[c] = From THEN picked \ {c} ELSE picked
  /\ opened' = opened \ {c}
  /\ UNCHANGED <<place, running, order, doing, count, waited, past>>

Asked ==
  /\ Does("move", "ask") /\ todo = {}
  /\ Chooses(Limited(picked))
  /\ UNCHANGED <<fleet, order, count, waited, past>>

Moved(c) == place' = [place EXCEPT ![c] = To]

\* moveOne, and the pause after a whole batch of starts unless it is the last.
MoveOne(c) ==
  /\ Does("move", "work") /\ First(c)
  /\ place[c] = From
  /\ todo' = todo \ {c}
  /\ Moved(c)
  /\ IF c \in running
     THEN /\ count' = count + 1
          /\ burst' = burst + 1
          /\ touched' = touched \cup {c}
          /\ doing' = IF count' % order.batch = 0 /\ todo' # {} THEN "pause" ELSE doing
     ELSE UNCHANGED <<count, burst, touched, doing>>
  /\ UNCHANGED <<running, opened, order, picked, waited>>

\* Mutation: a failed move is reported, and the rest carry on.
MoveFailsOn(c) ==
  /\ Does("move", "work") /\ First(c)
  /\ todo' = todo \ {c}
  /\ UNCHANGED <<fleet, order, doing, picked, count, waited, past>>

\* A move that is refused, or fails before or after the row is changed: c may
\* have been stopped.  The command ends there.
MoveFails(c) ==
  /\ Does("move", "work") /\ First(c)
  /\ doing' = "failed"
  /\ \/ place[c] = From /\ Moved(c)
     \/ UNCHANGED place
  /\ \/ /\ place[c] = From
        /\ running' = running \ {c}
        /\ touched' = touched \cup (running \cap {c})
     \/ UNCHANGED <<running, touched>>
  /\ UNCHANGED <<opened, order, todo, picked, count, waited, burst>>

-----------------------------------------------------------------------------
\* Mutation: the time is counted before the probe is.
GivesUpEarly ==
  /\ Does("revive", "wait")
  /\ IF waited + Probe >= order.wait
     THEN doing' = "no answer" /\ UNCHANGED waited
     ELSE waited' = waited + Probe /\ UNCHANGED doing
  /\ UNCHANGED <<fleet, order, todo, picked, count, past>>

\* waitForInstance: the instance doesn't answer; it is tried again a probe
\* later, unless the wait is over.
NoAnswer ==
  /\ Does("revive", "wait")
  /\ IF waited >= order.wait
     THEN doing' = "no answer" /\ UNCHANGED waited
     ELSE waited' = waited + Probe /\ UNCHANGED doing
  /\ UNCHANGED <<fleet, order, todo, picked, count, past>>

InstanceAnswers ==
  /\ Does("revive", "wait")
  /\ doing' = "list"
  /\ UNCHANGED <<fleet, order, todo, picked, count, waited, past>>

\* Connections of users who logged in lately, of the instance or of both.
ReviveList ==
  /\ Does("revive", "list")
  /\ \E recent \in SUBSET Ids, of \in {On(From), On(From) \cup On(To)} :
       Chooses(recent \cap of)
  /\ UNCHANGED <<fleet, order, count, waited, past>>

\* A connection that runs is left alone, if liercd says so.
ReviveSkip(c) ==
  /\ Does("revive", "work") /\ First(c)
  /\ c \in running
  /\ todo' = todo \ {c}
  /\ UNCHANGED <<fleet, order, doing, picked, count, waited, past>>

\* Otherwise it is started, after a pause when a batch is full.
ReviveNext ==
  /\ Does("revive", "work") /\ todo # {}
  /\ doing' = IF count > 0 /\ count % order.batch = 0 THEN "pause" ELSE "create"
  /\ UNCHANGED <<fleet, order, todo, picked, count, waited, past>>

\* Mutation: only the connections that started count towards a batch.
CreateCountsStarted(c) ==
  /\ Does("revive", "create") /\ First(c)
  /\ todo' = todo \ {c}
  /\ doing' = "work"
  /\ burst' = burst + 1
  /\ \/ running' = running \cup {c} /\ count' = count + 1
     \/ UNCHANGED <<running, count>>
  /\ UNCHANGED <<place, opened, order, picked, waited, touched>>

\* liercd creates it, or refuses or can't be reached: both count.
ReviveCreate(c) ==
  /\ Does("revive", "create") /\ First(c)
  /\ todo' = todo \ {c}
  /\ doing' = "work"
  /\ count' = count + 1 /\ burst' = burst + 1
  /\ running' \in {running, running \cup {c}}
  /\ UNCHANGED <<place, opened, order, picked, waited, touched>>

-----------------------------------------------------------------------------
\* A stream opens and starts c.  Bound: what happens once the command is over
\* isn't followed.
StreamOpens(c) ==
  /\ ~Over
  /\ place[c] # "gone" /\ c \notin running
  /\ running' = running \cup {c}
  /\ opened' = IF order.dormant THEN opened \cup {c} ELSE opened
  /\ UNCHANGED <<place, order, doing, todo, picked, count, waited, past>>

\* The API deletes c, or liercd stops it.
Stops(c) ==
  /\ ~Over
  /\ running' = running \ {c}
  /\ \/ place' = [place EXCEPT ![c] = "gone"]
     \/ c \in running /\ UNCHANGED place
  /\ UNCHANGED <<opened, order, doing, todo, picked, count, waited, past>>

BatchesNext ==
  \/ Fails \/ Resume \/ Ended
  \/ MoveList \/ Asked
  \/ NoAnswer \/ InstanceAnswers \/ ReviveList \/ ReviveNext
  \/ \E c \in Ids : \/ Ask(c) \/ MoveOne(c) \/ MoveFails(c)
                    \/ ReviveSkip(c) \/ ReviveCreate(c)
                    \/ StreamOpens(c) \/ Stops(c)

BatchesSpec == BatchesInit /\ [][BatchesNext]_batchesVars

-----------------------------------------------------------------------------
\* No more than --batch connections are created without a pause, refused ones
\* included (the loops of moveConnections and revive).
Paced == burst <= order.batch

\* move-connections --dormant stops no connection that ran when it was asked
\* about, and starts only those a stream has started since (dormantOn).
DormantLeftAlone == order.dormant => touched \subseteq opened

\* Connections are moved in order until one can't be: those before it are on
\* the other instance or gone, those after it aren't touched, and when the
\* command ends well none is left (moveConnections).
HandledInOrder ==
  order.name = "move" /\ order.move /\ doing # "ask" =>
    /\ \A c \in picked \ todo : place[c] # From
    /\ \A c \in Ids : c \in touched => c \in picked \ todo \/ First(c)
    /\ doing = "done" => todo = {}

\* revive gives up only once it has waited as long as it was told to, less
\* than one probe longer, and starts nothing before (waitForInstance).
WaitHonoured ==
  order.name = "revive" =>
    /\ waited < order.wait + Probe
    /\ doing = "no answer" => waited >= order.wait
    /\ doing = "wait" => burst = 0 /\ todo = {}
=============================================================================
