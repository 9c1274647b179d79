---------------------------- MODULE BatchesProofs ----------------------------
(***************************************************************************)
(* Theorems about Batches, for any set of connections and any sizes,       *)
(* limits and waits.                                                       *)
(***************************************************************************)
EXTENDS Batches, Integers, FiniteSetTheorems, TLAPS

-----------------------------------------------------------------------------
(***************************************************************************)
(* Counting by batches: what n + 1 leaves when it is divided by b.         *)
(***************************************************************************)
LEMMA DivMod ==
  ASSUME NEW n \in Nat, NEW b \in Nat, b > 0
  PROVE  /\ n = b * (n \div b) + (n % b)
         /\ n % b \in 0..(b - 1) /\ n \div b \in Int
OBVIOUS

LEMMA Multiple ==
  ASSUME NEW b \in Nat, b > 0, NEW d \in Int, d >= 1
  PROVE  b * d >= b
OBVIOUS

LEMMA Distributes ==
  ASSUME NEW b \in Int, NEW c \in Int, NEW d \in Int
  PROVE  b * (c - d) = b * c - b * d /\ b * (c + 1) = b * c + b
OBVIOUS

LEMMA SmallerQuotient ==
  ASSUME NEW b \in Nat, b > 0, NEW q \in Int, NEW p \in Int,
         NEW r \in 0..(b - 1), NEW s \in 0..(b - 1), b * q + r = b * p + s
  PROVE  ~(q - p >= 1)
<1> SUFFICES ASSUME q - p >= 1 PROVE FALSE
  OBVIOUS
<1> DEFINE x == b * q
           y == b * p
<1>1. b * (q - p) >= b /\ b * (q - p) = x - y
  BY Multiple, Distributes
<1>2. x \in Int /\ y \in Int /\ x - y >= b /\ x + r = y + s
  BY <1>1
<1> HIDE DEF x, y
<1>3. QED BY <1>2

LEMMA SameRemainder ==
  ASSUME NEW b \in Nat, b > 0, NEW q \in Int, NEW p \in Int,
         NEW r \in 0..(b - 1), NEW s \in 0..(b - 1), b * q + r = b * p + s
  PROVE  r = s
<1>1. ~(q - p >= 1) /\ ~(p - q >= 1)
  BY SmallerQuotient
<1>2. q = p
  BY <1>1
<1>3. QED BY <1>2

LEMMA NextRemainder ==
  ASSUME NEW n \in Nat, NEW b \in Nat, b > 0
  PROVE  (n + 1) % b = IF (n % b) + 1 = b THEN 0 ELSE (n % b) + 1
<1> DEFINE q == n \div b
           p == (n + 1) \div b
           r == n % b
           s == (n + 1) % b
<1>1. n = b * q + r /\ r \in 0..(b - 1) /\ q \in Int
  BY DivMod
<1>2. n + 1 = b * p + s /\ s \in 0..(b - 1) /\ p \in Int
  BY DivMod
<1> HIDE DEF q, p, r, s
<1>3. CASE r + 1 = b
  <2>1. b * (q + 1) + 0 = b * p + s
    BY <1>1, <1>2, <1>3, Distributes
  <2>2. 0 \in 0..(b - 1) /\ q + 1 \in Int
    BY <1>1
  <2>3. 0 = s
    BY <1>2, <2>1, <2>2, SameRemainder
  <2>4. QED BY <1>3, <2>3 DEF r, s
<1>4. CASE r + 1 # b
  <2>1. b * q + (r + 1) = b * p + s /\ r + 1 \in 0..(b - 1)
    BY <1>1, <1>2, <1>4
  <2>2. r + 1 = s
    BY <1>1, <1>2, <2>1, SameRemainder
  <2>3. QED BY <1>4, <2>2 DEF r, s
<1>5. QED BY <1>3, <1>4

LEMMA SameNextRemainder ==
  ASSUME NEW n \in Nat, NEW k \in Nat, NEW b \in Nat, b > 0, n % b = k % b
  PROVE  (n + 1) % b = (k + 1) % b
<1>1. (n + 1) % b = IF (n % b) + 1 = b THEN 0 ELSE (n % b) + 1
  BY NextRemainder
<1>2. (k + 1) % b = IF (k % b) + 1 = b THEN 0 ELSE (k % b) + 1
  BY NextRemainder
<1>3. QED BY <1>1, <1>2

LEMMA SmallRemainder ==
  ASSUME NEW b \in Nat, b > 0, NEW n \in 0..b
  PROVE  n % b = IF n = b THEN 0 ELSE n
<1>0. n \in Nat
  OBVIOUS
<1>1. n = b * (n \div b) + (n % b) /\ n % b \in 0..(b - 1) /\ n \div b \in Int
  BY <1>0, DivMod
<1>2. CASE n = b
  <2>1. b * 1 + 0 = b * (n \div b) + (n % b) /\ 0 \in 0..(b - 1)
    BY <1>1, <1>2
  <2>2. 0 = n % b
    BY <1>1, <2>1, SameRemainder
  <2>3. QED BY <1>2, <2>2
<1>3. CASE n # b
  <2>1. b * 0 + n = b * (n \div b) + (n % b) /\ n \in 0..(b - 1)
    BY <1>1, <1>3
  <2>2. n = n % b
    BY <1>1, <2>1, SameRemainder
  <2>3. QED BY <1>3, <2>2
<1>4. QED BY <1>2, <1>3

-----------------------------------------------------------------------------
(***************************************************************************)
(* The inductive invariant.                                                *)
(***************************************************************************)

\* What each command may be doing.
Stages ==
  /\ order.name = "move" => doing \notin {"wait", "create", "no answer"}
  /\ order.name = "revive" => doing # "ask" /\ ~order.dormant /\ order.move
  /\ doing \in {"wait", "list", "ask"} => count = 0 /\ touched = {}
  /\ doing \in {"wait", "list"} => todo = {} /\ picked = {}

\* Every connection created has been counted, since the last pause or before it.
Counted ==
  /\ burst \in 0..order.batch
  /\ burst <= count
  /\ count % order.batch = burst % order.batch
  /\ doing = "pause" => count % order.batch = 0
  /\ doing = "create" => burst < order.batch
  /\ Does("move", "work") => burst < order.batch \/ todo = {}
  /\ count + Cardinality(todo) <= Cardinality(Ids)

\* A chosen connection that still runs was started since it was asked about.
Asleep ==
  order.dormant =>
    /\ touched \subseteq opened
    /\ doing = "ask" => \A c \in picked \ todo : c \in running /\ place[c] = From => c \in opened
    /\ doing \in {"work", "pause"} =>
         \A c \in todo : c \in running /\ place[c] = From => c \in opened

\* The connections before the one at hand are off the instance, and only they
\* were touched.
InOrder ==
  order.name = "move" =>
    /\ doing # "ask" => \A c \in picked \ todo : place[c] # From
    /\ doing # "failed" => touched \subseteq picked \ todo
    /\ doing = "failed" => \A c \in touched : c \in picked \ todo \/ First(c)
    /\ doing = "done" /\ order.move => todo = {}

IInv == BatchesTypeOK /\ Stages /\ Counted /\ Asleep /\ InOrder /\ WaitHonoured

LEMMA OrderTypes ==
  ASSUME BatchesAssumption, BatchesTypeOK
  PROVE  /\ order.batch \in Nat /\ order.batch > 0 /\ order.wait \in Nat /\ Probe \in Nat /\ Probe > 0
         /\ order.limit \in Nat /\ order.dormant \in BOOLEAN /\ order.move \in BOOLEAN
         /\ order.name \in {"move", "revive"}
<1>1. /\ order.batch \in Sizes /\ order.wait \in Waits \cup {0}
      /\ order.limit \in Limits \cup {0}
      /\ order.dormant \in BOOLEAN /\ order.move \in BOOLEAN /\ order.name \in {"move", "revive"}
  BY DEF BatchesTypeOK, Orders
<1>2. /\ Sizes \subseteq Nat \ {0} /\ Limits \subseteq Nat /\ Waits \subseteq Nat
      /\ Probe \in Nat \ {0}
  BY DEF BatchesAssumption
<1>3. Probe \in Nat /\ Probe > 0
  BY <1>2
<1>4. order.batch \in Nat /\ order.batch > 0
  <2>1. order.batch \in Nat \ {0}
    BY <1>1, <1>2
  <2>2. QED BY <2>1
<1>5. order.wait \in Nat /\ order.limit \in Nat
  <2>1. \A n \in (Waits \cup {0}) \cup (Limits \cup {0}) : n \in Nat
    BY <1>2
  <2>2. QED BY <1>1, <2>1
<1>6. QED BY <1>1, <1>3, <1>4, <1>5

LEMMA Cardinals ==
  ASSUME BatchesAssumption, BatchesTypeOK
  PROVE  /\ Cardinality(Ids) \in Nat /\ count \in Nat /\ burst \in Nat
         /\ \A S \in SUBSET Ids : /\ Cardinality(S) \in Nat
                                  /\ Cardinality(S) <= Cardinality(Ids)
                                  /\ \A c \in S : Cardinality(S \ {c}) = Cardinality(S) - 1
<1>1. IsFiniteSet(Ids)
  BY DEF BatchesAssumption
<1>2. Cardinality(Ids) \in Nat
  BY <1>1, FS_CardinalityType
<1>3. ASSUME NEW S \in SUBSET Ids
      PROVE  /\ Cardinality(S) \in Nat
             /\ Cardinality(S) <= Cardinality(Ids)
             /\ \A c \in S : Cardinality(S \ {c}) = Cardinality(S) - 1
  <2>1. IsFiniteSet(S) /\ Cardinality(S) <= Cardinality(Ids)
    BY <1>1, FS_Subset
  <2>2. Cardinality(S) \in Nat
    BY <2>1, FS_CardinalityType
  <2>3. \A c \in S : Cardinality(S \ {c}) = Cardinality(S) - 1
    BY <2>1, FS_RemoveElement
  <2>4. QED BY <2>1, <2>2, <2>3
<1>4. count \in Nat /\ burst \in Nat
  <2>1. count \in 0..Cardinality(Ids) /\ burst \in 0..Cardinality(Ids)
    BY DEF BatchesTypeOK
  <2>2. QED BY <1>2, <2>1
<1>5. QED BY <1>2, <1>3, <1>4

-----------------------------------------------------------------------------
(***************************************************************************)
(* Each action keeps the whole invariant.                                  *)
(***************************************************************************)
LEMMA InitHolds ==
  ASSUME BatchesAssumption, BatchesInit
  PROVE  IInv
<1>1. BatchesTypeOK
  <2>1. Cardinality(Ids) \in Nat
    BY FS_CardinalityType DEF BatchesAssumption
  <2>2. QED BY <2>1 DEF BatchesInit, BatchesTypeOK
<1>2. Stages /\ Asleep /\ InOrder
  BY <1>1, OrderTypes DEF BatchesInit, Stages, Asleep, InOrder
<1>3. Counted
  <2>1. Cardinality({}) = 0 /\ Cardinality(Ids) \in Nat
    BY FS_EmptySet, <1>1, Cardinals
  <2>2. QED BY <1>1, <2>1, OrderTypes DEF BatchesInit, Counted, Does
<1>4. WaitHonoured
  BY <1>1, OrderTypes DEF BatchesInit, WaitHonoured
<1>5. QED BY <1>1, <1>2, <1>3, <1>4 DEF IInv

\* A list is chosen.
LEMMA Choosing ==
  ASSUME BatchesAssumption, IInv, NEW S \in SUBSET Ids, Chooses(S),
         doing \in {"list", "ask"},
         UNCHANGED <<fleet, order, count, waited, past>>,
         order.dormant => \A c \in S : c \in running /\ place[c] = From => c \in opened
  PROVE  IInv'
<1> USE DEF IInv, fleet, past
<1>1. doing' \in {"work", "done"} /\ todo' = S /\ picked' = S
      /\ (doing' = "done" => ~order.move)
  BY DEF Chooses
<1>2. BatchesTypeOK'
  BY <1>1 DEF BatchesTypeOK
<1>3. Stages'
  BY <1>1 DEF Stages
<1>4. Counted'
  <2>1. Cardinality(S) \in Nat /\ Cardinality(S) <= Cardinality(Ids) /\ Cardinality(Ids) \in Nat
    BY Cardinals
  <2>2. order.batch \in Nat /\ order.batch > 0
    BY OrderTypes
  <2>3. count = 0 /\ burst = 0
    <3>1. count = 0 /\ burst <= count /\ burst \in 0..order.batch
      BY DEF Stages, Counted
    <3>2. QED BY <2>2, <3>1
  <2>4. QED BY <1>1, <2>1, <2>2, <2>3 DEF Counted, Does
<1>5. Asleep'
  BY <1>1 DEF Asleep
<1>6. InOrder'
  BY <1>1 DEF InOrder, Stages
<1>7. WaitHonoured'
  BY <1>1 DEF WaitHonoured
<1>8. QED BY <1>2, <1>3, <1>4, <1>5, <1>6, <1>7

LEMMA Moving ==
  ASSUME BatchesAssumption, IInv, NEW c \in Ids, MoveOne(c)
  PROVE  IInv'
<1> USE DEF IInv
<1>1. /\ order.name = "move" /\ doing = "work" /\ c \in todo /\ place[c] = From
      /\ todo' = todo \ {c} /\ place' = [place EXCEPT ![c] = To] /\ From # To
      /\ UNCHANGED <<running, opened, order, picked, waited>>
  BY DEF MoveOne, Does, First, Moved, BatchesAssumption
<1>2. \/ /\ c \in running /\ count' = count + 1 /\ burst' = burst + 1 /\ touched' = touched \cup {c}
         /\ doing' = IF count' % order.batch = 0 /\ todo' # {} THEN "pause" ELSE "work"
      \/ c \notin running /\ UNCHANGED <<count, burst, touched, doing>>
  BY <1>1 DEF MoveOne
<1>3. doing' \in {"work", "pause"}
  BY <1>1, <1>2
<1>4. Counted'
  <2>1. order.batch \in Nat /\ order.batch > 0
    BY OrderTypes
  <2>2. burst \in 0..order.batch /\ burst < order.batch /\ burst <= count /\ count \in Nat
        /\ count % order.batch = burst % order.batch
        /\ count + Cardinality(todo) <= Cardinality(Ids)
    BY <1>1 DEF Counted, BatchesTypeOK, Does
  <2>3. /\ Cardinality(todo') = Cardinality(todo) - 1
        /\ Cardinality(todo) \in Nat /\ Cardinality(Ids) \in Nat
    BY <1>1, Cardinals DEF BatchesTypeOK
  <2>4. CASE c \in running
    <3>1. count' = count + 1 /\ burst' = burst + 1
          /\ doing' = IF count' % order.batch = 0 /\ todo' # {} THEN "pause" ELSE "work"
      BY <1>2, <2>4
    <3>2. burst' \in 0..order.batch /\ burst' <= count' /\ burst \in Nat
      BY <2>1, <2>2, <3>1
    <3>3. count' % order.batch = burst' % order.batch
      <4>1. (count + 1) % order.batch = (burst + 1) % order.batch
        BY <2>1, <2>2, <3>2, SameNextRemainder
      <4>2. QED BY <3>1, <4>1
    <3>4. burst' % order.batch = IF burst' = order.batch THEN 0 ELSE burst'
      BY <2>1, <3>2, SmallRemainder
    <3>5. doing' = "work" => burst' < order.batch \/ todo' = {}
      BY <2>1, <3>1, <3>2, <3>3, <3>4
    <3>6. count' + Cardinality(todo') <= Cardinality(Ids)
      BY <2>2, <2>3, <3>1
    <3>7. doing' = "pause" => count' % order.batch = 0
      BY <3>1
    <3>8. QED
      BY <1>1, <1>3, <3>2, <3>3, <3>5, <3>6, <3>7 DEF Counted, Does
  <2>5. CASE c \notin running
    <3>1. UNCHANGED <<count, burst, doing>>
      BY <1>2, <2>5
    <3>2. count' + Cardinality(todo') <= Cardinality(Ids)
      BY <2>2, <2>3, <3>1
    <3>3. QED BY <1>1, <2>2, <3>1, <3>2 DEF Counted, Does
  <2>6. QED BY <2>4, <2>5
<1>5. BatchesTypeOK'
  <2>1. count' \in Nat /\ burst' \in Nat /\ Cardinality(todo') \in Nat /\ Cardinality(Ids) \in Nat
        /\ count' + Cardinality(todo') <= Cardinality(Ids) /\ burst' <= count'
    <3>1. todo' \in SUBSET Ids
      BY <1>1 DEF BatchesTypeOK
    <3>2. burst' \in 0..order.batch /\ order.batch \in Nat
      BY <1>1, <1>4, OrderTypes DEF Counted
    <3>3. count \in Nat
      BY Cardinals
    <3>4. count' \in Nat
      BY <1>2, <3>3
    <3>5. QED BY <1>4, <3>1, <3>2, <3>4, Cardinals DEF Counted
  <2>2. count' \in 0..Cardinality(Ids) /\ burst' \in 0..Cardinality(Ids)
    BY <2>1
  <2>3. touched' \subseteq Ids
    BY <1>2 DEF BatchesTypeOK
  <2>4. QED BY <1>1, <1>3, <2>2, <2>3 DEF BatchesTypeOK
<1>6. Stages'
  BY <1>1, <1>3 DEF Stages
<1>7. Asleep'
  BY <1>1, <1>2, <1>3 DEF Asleep, BatchesTypeOK
<1>8. InOrder'
  BY <1>1, <1>2, <1>3 DEF InOrder, BatchesTypeOK
<1>9. WaitHonoured'
  BY <1>1 DEF WaitHonoured
<1>10. QED BY <1>4, <1>5, <1>6, <1>7, <1>8, <1>9

LEMMA Creating ==
  ASSUME BatchesAssumption, IInv, NEW c \in Ids, ReviveCreate(c)
  PROVE  IInv'
<1> USE DEF IInv
<1>1. /\ order.name = "revive" /\ doing = "create" /\ c \in todo
      /\ todo' = todo \ {c} /\ doing' = "work"
      /\ count' = count + 1 /\ burst' = burst + 1
      /\ running' \in {running, running \cup {c}}
      /\ UNCHANGED <<place, opened, order, picked, waited, touched>>
  BY DEF ReviveCreate, Does, First
<1>2. order.batch \in Nat /\ order.batch > 0
  BY OrderTypes
<1>3. burst \in 0..order.batch /\ burst < order.batch /\ burst <= count /\ count \in Nat
      /\ count % order.batch = burst % order.batch
      /\ count + Cardinality(todo) <= Cardinality(Ids)
  BY <1>1 DEF Counted, BatchesTypeOK
<1>4. /\ Cardinality(todo') = Cardinality(todo) - 1
      /\ Cardinality(todo) \in Nat /\ Cardinality(Ids) \in Nat /\ Cardinality(todo') \in Nat
  BY <1>1, Cardinals DEF BatchesTypeOK
<1>5. burst' \in 0..order.batch /\ burst' <= count' /\ burst \in Nat
  BY <1>1, <1>2, <1>3
<1>6. count' % order.batch = burst' % order.batch
  <2>1. (count + 1) % order.batch = (burst + 1) % order.batch
    BY <1>2, <1>3, <1>5, SameNextRemainder
  <2>2. QED BY <1>1, <2>1
<1>7. count' + Cardinality(todo') <= Cardinality(Ids)
  BY <1>1, <1>3, <1>4
<1>8. Counted'
  BY <1>1, <1>5, <1>6, <1>7 DEF Counted, Does
<1>9. count' \in 0..Cardinality(Ids) /\ burst' \in 0..Cardinality(Ids)
  BY <1>1, <1>2, <1>3, <1>4, <1>5, <1>7
<1>10. BatchesTypeOK'
  BY <1>1, <1>9 DEF BatchesTypeOK
<1>11. ~order.dormant
  BY <1>1 DEF Stages
<1>12. Stages' /\ Asleep' /\ InOrder' /\ WaitHonoured'
  BY <1>1, <1>11 DEF Stages, Asleep, InOrder, WaitHonoured
<1>13. QED BY <1>8, <1>10, <1>12

\* The steps that create nothing keep the count of what was created.
LEMMA CountedKept ==
  ASSUME BatchesAssumption, IInv, UNCHANGED <<order, count, past>>,
         todo' \subseteq todo,
         doing' = "pause" => doing = "pause" \/ count % order.batch = 0,
         doing' = "create" => doing = "create" \/ burst < order.batch,
         Does("move", "work")' => Does("move", "work") \/ burst < order.batch
  PROVE  Counted'
<1>1. todo \in SUBSET Ids /\ todo' \in SUBSET todo
  BY DEF IInv, BatchesTypeOK
<1>2. IsFiniteSet(todo)
  BY <1>1, FS_Subset DEF BatchesAssumption
<1>3. Cardinality(todo') <= Cardinality(todo)
  BY <1>1, <1>2, FS_Subset
<1>4. /\ Cardinality(todo) \in Nat /\ Cardinality(todo') \in Nat /\ count \in Nat
      /\ Cardinality(Ids) \in Nat
  BY <1>1, Cardinals DEF IInv
<1>5. count' = count /\ burst' = burst /\ order' = order
  BY DEF past
<1>6. count + Cardinality(todo) <= Cardinality(Ids)
  BY DEF IInv, Counted
<1>7. count' + Cardinality(todo') <= Cardinality(Ids)
  BY <1>3, <1>4, <1>5, <1>6
<1>8. todo = {} => todo' = {}
  BY <1>1
<1>9. QED BY <1>5, <1>7, <1>8 DEF IInv, Counted, Does

LEMMA Deciding ==
  ASSUME BatchesAssumption, IInv,
         Fails \/ Ended \/ NoAnswer \/ InstanceAnswers \/ ReviveNext
  PROVE  IInv'
<1> USE DEF IInv
<1>1. BatchesTypeOK'
  <2>1. /\ UNCHANGED <<fleet, order, count, past>>
        /\ doing' \in {"failed", "done", "no answer", "list", "pause", "create", doing}
        /\ todo' \in {todo, {}} /\ picked' \in {picked, {}}
        /\ picked' = {} => todo' = {}
        /\ waited' \in {waited, waited + Probe}
    BY DEF Fails, Ended, NoAnswer, InstanceAnswers, ReviveNext, BatchesTypeOK
  <2>2. waited' \in Nat
    <3>1. waited \in Nat /\ Probe \in Nat
      BY OrderTypes DEF BatchesTypeOK
    <3>2. waited' = waited \/ waited' = waited + Probe
      BY <2>1
    <3>3. QED BY <3>1, <3>2
  <2>3. todo' \subseteq picked'
    BY <2>1 DEF BatchesTypeOK
  <2>4. QED BY <2>1, <2>2, <2>3 DEF BatchesTypeOK, fleet, past
<1>2. Stages'
  BY DEF Fails, Ended, NoAnswer, InstanceAnswers, ReviveNext, Stages, Does, Over, past
<1>3. Counted'
  <2>1. CASE ReviveNext
    <3>1. order.batch \in Nat /\ order.batch > 0 /\ count \in Nat
      BY OrderTypes, Cardinals
    <3>2. burst \in 0..order.batch /\ burst <= count /\ count % order.batch = burst % order.batch
      BY DEF Counted
    <3>3. burst % order.batch = IF burst = order.batch THEN 0 ELSE burst
      BY <3>1, <3>2, SmallRemainder
    <3>4. /\ doing' = IF count > 0 /\ count % order.batch = 0 THEN "pause" ELSE "create"
          /\ UNCHANGED <<order, todo, count, past>>
      BY <2>1 DEF ReviveNext
    <3>5. doing' = "create" => burst < order.batch
      BY <3>1, <3>2, <3>3, <3>4
    <3>6. QED BY <3>4, <3>5, CountedKept DEF Does
  <2>2. CASE Fails \/ Ended \/ NoAnswer \/ InstanceAnswers
    <3>1. /\ UNCHANGED <<order, count, past>> /\ todo' \subseteq todo
          /\ doing' \in {"failed", "done", "no answer", "list", doing}
      BY <2>2 DEF Fails, Ended, NoAnswer, InstanceAnswers
    <3>2. QED BY <3>1, CountedKept DEF Does
  <2>3. QED BY <2>1, <2>2
<1>4. Asleep'
  BY DEF Fails, Ended, NoAnswer, InstanceAnswers, ReviveNext, Stages, Asleep, Does, Over, fleet, past
<1>5. InOrder'
  BY DEF Fails, Ended, NoAnswer, InstanceAnswers, ReviveNext, Stages, InOrder, Does, First, Over,
         fleet, past
<1>6. WaitHonoured'
  <2>1. /\ waited \in Nat /\ order.wait \in Nat /\ Probe \in Nat /\ Probe > 0
    BY OrderTypes DEF BatchesTypeOK
  <2>2. CASE NoAnswer
    <3>1. order.name = "revive" /\ doing = "wait" /\ UNCHANGED <<order, todo, burst>>
      BY <2>2 DEF NoAnswer, Does, past
    <3>2. waited < order.wait + Probe /\ burst = 0 /\ todo = {}
      BY <3>1 DEF WaitHonoured
    <3>3. \/ waited >= order.wait /\ doing' = "no answer" /\ waited' = waited
          \/ waited < order.wait /\ waited' = waited + Probe /\ doing' = "wait"
      <4>1. IF waited >= order.wait
            THEN doing' = "no answer" /\ waited' = waited
            ELSE waited' = waited + Probe /\ doing' = "wait"
        BY <2>2, <3>1 DEF NoAnswer
      <4>2. waited >= order.wait \/ waited < order.wait
        BY <2>1
      <4>3. QED BY <4>1, <4>2
    <3>4. /\ waited' < order.wait + Probe
          /\ doing' = "no answer" => waited' >= order.wait
      <4>1. CASE waited >= order.wait /\ doing' = "no answer" /\ waited' = waited
        BY <3>2, <4>1
      <4>2. CASE waited < order.wait /\ waited' = waited + Probe /\ doing' = "wait"
        <5>1. waited + Probe < order.wait + Probe
          BY <2>1, <4>2
        <5>2. QED BY <4>2, <5>1
      <4>3. QED BY <3>3, <4>1, <4>2
    <3>5. QED BY <3>1, <3>2, <3>4 DEF WaitHonoured
  <2>3. CASE Fails \/ Ended \/ InstanceAnswers \/ ReviveNext
    <3>1. UNCHANGED <<order, waited>> /\ doing' \notin {"no answer", "wait"}
      BY <2>3 DEF Fails, Ended, InstanceAnswers, ReviveNext
    <3>2. QED BY <3>1 DEF WaitHonoured
  <2>4. QED BY <2>2, <2>3
<1>7. QED BY <1>1, <1>2, <1>3, <1>4, <1>5, <1>6

LEMMA Resuming ==
  ASSUME BatchesAssumption, IInv, Resume
  PROVE  IInv'
<1> USE DEF IInv
<1>1. /\ doing = "pause" /\ doing' = IF order.name = "move" THEN "work" ELSE "create"
      /\ burst' = 0
      /\ UNCHANGED <<fleet, order, todo, picked, count, waited, touched>>
  BY DEF Resume
<1>2. order.batch \in Nat /\ order.batch > 0 /\ order.name \in {"move", "revive"}
      /\ count \in Nat /\ Cardinality(Ids) \in Nat
  BY OrderTypes, Cardinals
<1>3. Counted'
  <2>1. 0 % order.batch = 0
    BY <1>2, SmallRemainder
  <2>2. count % order.batch = 0 /\ count + Cardinality(todo) <= Cardinality(Ids)
    BY <1>1 DEF Counted
  <2>3. QED BY <1>1, <1>2, <2>1, <2>2 DEF Counted, Does
<1>4. BatchesTypeOK'
  BY <1>1, <1>2 DEF BatchesTypeOK, fleet
<1>5. Stages' /\ Asleep' /\ InOrder' /\ WaitHonoured'
  BY <1>1, <1>2 DEF Stages, Asleep, InOrder, First, WaitHonoured, fleet
<1>6. QED BY <1>3, <1>4, <1>5

LEMMA Listing ==
  ASSUME BatchesAssumption, IInv, MoveList \/ Asked \/ ReviveList
  PROVE  IInv'
<1>1. CASE MoveList /\ order.dormant
  <2>1. /\ order.name = "move" /\ doing = "list" /\ doing' = "ask" /\ todo' = On(From)
        /\ picked' = todo' /\ UNCHANGED <<fleet, order, count, waited, past>>
    BY <1>1 DEF MoveList, Does
  <2>2. On(From) \in SUBSET Ids
    BY DEF On
  <2>3. BatchesTypeOK' /\ Stages' /\ Asleep' /\ InOrder' /\ WaitHonoured'
    BY <2>1, <2>2 DEF IInv, BatchesTypeOK, Stages, Asleep, InOrder, WaitHonoured, fleet, past
  <2>4. Counted'
    <3>1. /\ Cardinality(On(From)) \in Nat /\ Cardinality(On(From)) <= Cardinality(Ids)
          /\ Cardinality(Ids) \in Nat
      BY <2>2, Cardinals DEF IInv
    <3>2. count = 0
      BY <2>1 DEF IInv, Stages
    <3>3. QED BY <2>1, <3>1, <3>2 DEF IInv, Counted, Does, past
  <2>5. QED BY <2>3, <2>4 DEF IInv
<1>2. CASE MoveList /\ ~order.dormant
  <2>1. Limited(On(From)) \in SUBSET Ids
    BY DEF Limited, On
  <2>2. QED BY <1>2, <2>1, Choosing DEF MoveList, Does
<1>3. CASE Asked
  <2>1. doing = "ask" /\ todo = {} /\ Chooses(Limited(picked))
        /\ UNCHANGED <<fleet, order, count, waited, past>>
    BY <1>3 DEF Asked, Does
  <2>2. Limited(picked) \in SUBSET Ids /\ Limited(picked) \subseteq picked
    BY DEF Limited, IInv, BatchesTypeOK
  <2>3. order.dormant => \A c \in Limited(picked) : c \in running /\ place[c] = From => c \in opened
    BY <2>1, <2>2 DEF IInv, Asleep
  <2>4. QED BY <2>1, <2>2, <2>3, Choosing
<1>4. CASE ReviveList
  <2>1. PICK recent \in SUBSET Ids, of \in {On(From), On(From) \cup On(To)} : Chooses(recent \cap of)
    BY <1>4 DEF ReviveList
  <2>2. ~order.dormant
    BY <1>4 DEF ReviveList, Does, IInv, Stages
  <2>3. recent \cap of \in SUBSET Ids
    OBVIOUS
  <2>4. QED BY <1>4, <2>1, <2>2, <2>3, Choosing DEF ReviveList, Does
<1>5. QED BY <1>1, <1>2, <1>3, <1>4

LEMMA Handling ==
  ASSUME BatchesAssumption, IInv, NEW c \in Ids, Ask(c) \/ MoveFails(c) \/ ReviveSkip(c)
  PROVE  IInv'
<1> USE DEF IInv
<1>1. BatchesTypeOK'
  BY DEF Ask, MoveFails, ReviveSkip, Moved, Does, First, BatchesTypeOK, fleet, past
<1>2. Stages'
  BY DEF Ask, MoveFails, ReviveSkip, Does, Stages, past
<1>3. Counted'
  <2>1. CASE MoveFails(c)
    <3>1. doing' = "failed" /\ UNCHANGED <<order, todo, count, burst>>
      BY <2>1 DEF MoveFails
    <3>2. QED BY <3>1 DEF Counted, Does
  <2>2. CASE Ask(c) \/ ReviveSkip(c)
    <3>1. todo' \subseteq todo /\ UNCHANGED <<order, doing, count, past>>
      BY <2>2 DEF Ask, ReviveSkip
    <3>2. QED BY <3>1, CountedKept DEF Does
  <2>3. QED BY <2>1, <2>2
<1>4. Asleep'
  BY DEF Ask, MoveFails, ReviveSkip, Moved, Does, First, Stages, Asleep, BatchesTypeOK, fleet, past
<1>5. InOrder'
  BY DEF Ask, MoveFails, ReviveSkip, Moved, Does, First, Stages, InOrder, BatchesTypeOK, fleet, past
<1>6. WaitHonoured'
  BY DEF Ask, MoveFails, ReviveSkip, Does, WaitHonoured, fleet, past
<1>7. QED BY <1>1, <1>2, <1>3, <1>4, <1>5, <1>6

LEMMA Meanwhile ==
  ASSUME BatchesAssumption, IInv, NEW c \in Ids, StreamOpens(c) \/ Stops(c)
  PROVE  IInv'
<1> USE DEF IInv
<1>1. UNCHANGED <<order, doing, todo, picked, count, waited, past>>
  BY DEF StreamOpens, Stops
<1>2. /\ place' \in [Ids -> {From, To} \cup {"gone"}]
      /\ \A d \in Ids : place'[d] = place[d] \/ place'[d] = "gone"
      /\ running' \subseteq running \cup {c} /\ opened \subseteq opened' /\ opened' \subseteq Ids
      /\ order.dormant => \A d \in running' \ running : d \in opened'
  BY DEF StreamOpens, Stops, BatchesTypeOK
<1>3. From # "gone"
  BY DEF BatchesAssumption
<1>4. BatchesTypeOK' /\ Stages' /\ WaitHonoured'
  BY <1>1, <1>2 DEF BatchesTypeOK, Stages, WaitHonoured, past
<1>5. Counted'
  BY <1>1, CountedKept DEF Does
<1>6. Asleep' /\ InOrder'
  BY <1>1, <1>2, <1>3 DEF Asleep, InOrder, First, BatchesTypeOK, past
<1>7. QED BY <1>4, <1>5, <1>6

LEMMA StepKeeps == BatchesAssumption /\ IInv /\ [BatchesNext]_batchesVars => IInv'
<1> SUFFICES ASSUME BatchesAssumption, IInv, [BatchesNext]_batchesVars
             PROVE  IInv'
  OBVIOUS
<1>1. CASE Fails \/ Ended \/ NoAnswer \/ InstanceAnswers \/ ReviveNext
  BY <1>1, Deciding
<1>2. CASE Resume
  BY <1>2, Resuming
<1>3. CASE MoveList \/ Asked \/ ReviveList
  BY <1>3, Listing
<1>4. ASSUME NEW c \in Ids, Ask(c) \/ MoveFails(c) \/ ReviveSkip(c)
      PROVE  IInv'
  BY <1>4, Handling
<1>5. ASSUME NEW c \in Ids, MoveOne(c) \/ ReviveCreate(c)
      PROVE  IInv'
  BY <1>5, Moving, Creating
<1>6. ASSUME NEW c \in Ids, StreamOpens(c) \/ Stops(c)
      PROVE  IInv'
  BY <1>6, Meanwhile
<1>7. CASE UNCHANGED batchesVars
  BY <1>7 DEF batchesVars, fleet, past, IInv, BatchesTypeOK, Stages, Counted, Asleep, InOrder,
              First, Does, WaitHonoured
<1>8. QED BY <1>1, <1>2, <1>3, <1>4, <1>5, <1>6, <1>7 DEF BatchesNext

-----------------------------------------------------------------------------
\* However many connections there are, and whatever happens meanwhile, the
\* commands' state keeps its type; in particular no connection is counted twice.
THEOREM BatchesTypes == BatchesSpec => []BatchesTypeOK
<1>1. IInv => BatchesTypeOK
  BY DEF IInv
<1>2. QED BY <1>1, InitHolds, StepKeeps, BatchesAssumption, PTL DEF BatchesSpec

\* Both loops pause soon enough for any size of batch, though one counts after
\* a start and the other before it, refusals included (moveConnections, revive).
THEOREM BatchesArePaced == BatchesSpec => []Paced
<1>1. BatchesAssumption /\ IInv => Paced
  BY OrderTypes DEF IInv, Counted, Paced
<1>2. QED BY <1>1, InitHolds, StepKeeps, BatchesAssumption, PTL DEF BatchesSpec

\* Only what a stream has started since it was asked about is stopped by
\* move-connections --dormant (dormantOn, moveOne).
THEOREM OnlyTheDormantMove == BatchesSpec => []DormantLeftAlone
<1>1. IInv => DormantLeftAlone
  BY DEF IInv, Asleep, DormantLeftAlone
<1>2. QED BY <1>1, InitHolds, StepKeeps, BatchesAssumption, PTL DEF BatchesSpec

\* Where move-connections fails, everything before is moved or gone and nothing
\* behind is touched (moveConnections' return of the first error).
THEOREM MovesStopAtTheFirstFailure == BatchesSpec => []HandledInOrder
<1>1. IInv => HandledInOrder
  BY DEF IInv, InOrder, HandledInOrder, BatchesTypeOK
<1>2. QED BY <1>1, InitHolds, StepKeeps, BatchesAssumption, PTL DEF BatchesSpec

\* The wait is as long as asked for, up to a probe, whatever both are
\* (waitForInstance).
THEOREM WaitsAreHonoured == BatchesSpec => []WaitHonoured
<1>1. IInv => WaitHonoured
  BY DEF IInv
<1>2. QED BY <1>1, InitHolds, StepKeeps, BatchesAssumption, PTL DEF BatchesSpec
=============================================================================
