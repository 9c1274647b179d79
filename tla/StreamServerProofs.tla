------------------------- MODULE StreamServerProofs -------------------------
(***************************************************************************)
(* Theorems about StreamServer, for every number of users, streams and     *)
(* messages, every buffer size and every environment.                      *)
(***************************************************************************)
EXTENDS StreamServer, TLAPS

-----------------------------------------------------------------------------
(***************************************************************************)
(* The operations under the server's mutex.                                *)
(***************************************************************************)

LEMMA RaisedType ==
  ASSUME TypeOK, NEW u \in Users, NEW n \in 0..MaxMsg
  PROVE  Raised(u, n) \in [Users -> 0..MaxMsg]
BY DEF TypeOK, Raised

LEMMA RemoveType ==
  ASSUME TypeOK, StreamAssumption, NEW S \in SUBSET Streams,
         NEW newLatest \in [Users -> 0..MaxMsg], RemoveLocked(S, newLatest)
  PROVE  /\ streams' \subseteq Streams
         /\ latest' \in [Users -> 0..MaxMsg]
BY DEF TypeOK, RemoveLocked, StreamAssumption

\* offerLocked keeps every queue within the buffer.
LEMMA OfferType ==
  ASSUME TypeOK, StreamAssumption, NEW S \in SUBSET Streams,
         NEW ev \in [Users -> Events],
         NEW newLatest \in [Users -> 0..MaxMsg], OfferLocked(S, ev, newLatest)
  PROVE  /\ streams' \subseteq Streams
         /\ latest' \in [Users -> 0..MaxMsg]
         /\ out' \in [Streams -> Seq(Events)]
         /\ \A s \in Streams : Len(out'[s]) <= BufferSize
         /\ done' \in [Streams -> BOOLEAN]
<1> DEFINE open == {s \in S : ~done[s]}
           slow == {s \in open : Len(out[s]) >= BufferSize}
<1>1. slow \subseteq Streams /\ RemoveLocked(slow, newLatest)
  BY DEF OfferLocked
<1>2. streams' \subseteq Streams /\ latest' \in [Users -> 0..MaxMsg]
  BY <1>1, RemoveType
<1>3. ASSUME NEW s \in Streams
      PROVE  out'[s] \in Seq(Events) /\ Len(out'[s]) <= BufferSize
  <2>1. CASE s \in open \ slow
    <3>1. out'[s] = Append(out[s], ev[UserOf[s]])
      BY <2>1 DEF OfferLocked
    <3>2. ev[UserOf[s]] \in Events /\ out[s] \in Seq(Events)
      BY DEF StreamAssumption, TypeOK
    <3>3. Len(out[s]) < BufferSize
      BY <2>1, <3>2 DEF StreamAssumption
    <3>4. QED BY <3>1, <3>2, <3>3 DEF StreamAssumption
  <2>2. CASE s \notin open \ slow
    <3>1. out'[s] = out[s]
      BY <2>2 DEF OfferLocked
    <3>2. QED BY <3>1 DEF TypeOK
  <2>3. QED BY <2>1, <2>2
<1>4. out' \in [Streams -> Seq(Events)]
  <2>1. out' = [s \in Streams |-> out'[s]]
    BY DEF OfferLocked
  <2>2. QED BY <1>3, <2>1
<1>5. done' \in [Streams -> BOOLEAN]
  BY DEF OfferLocked, TypeOK
<1>6. QED BY <1>2, <1>3, <1>4, <1>5

LEMMA EventTypes ==
  ASSUME TypeOK
  PROVE  /\ Pings \in [Users -> Events]
         /\ \A m \in Msgs : [v \in Users |-> Irc(m)] \in [Users -> Events]
BY DEF TypeOK, Pings, Ping, Irc, Events

-----------------------------------------------------------------------------
(***************************************************************************)
(* Every step keeps the type invariant: in particular no queue outgrows    *)
(* the buffer.                                                             *)
(***************************************************************************)
LEMMA InitType == StreamAssumption /\ Init => TypeOK
<1> SUFFICES ASSUME StreamAssumption, Init PROVE TypeOK
  OBVIOUS
<1>1. /\ 0 \in 0..MaxMsg
      /\ 0 \in 0..ReplayEvents
      /\ <<>> \in Seq(Events)
      /\ Len(<<>>) <= BufferSize
  BY DEF StreamAssumption
<1>2. /\ out \in [Streams -> Seq(Events)]
      /\ \A s \in Streams : Len(out[s]) <= BufferSize
  BY <1>1 DEF Init
<1>3. QED
  BY <1>1, <1>2 DEF Init, TypeOK, Phases, ReplayPhases

LEMMA HandlerType ==
  ASSUME TypeOK, StreamAssumption, NEW s \in Streams,
         Register(s) \/ Handler(s) \/ ClientGone(s)
  PROVE  TypeOK'
<1> USE DEF Goto, Phases, registry, outside, client
<1>0. UserOf[s] \in Users
  BY DEF StreamAssumption
<1>1. CASE Register(s)
  BY <1>1 DEF Register, TypeOK
<1>2. CASE CheckKnown(s)
  BY <1>2 DEF CheckKnown, TypeOK
<1>3. CASE Query(s)
  <2>1. 0 \in 0..MaxMsg
    BY DEF StreamAssumption
  <2>2. \E n \in 0..MaxMsg : id' = [id EXCEPT ![s] = n]
    BY <1>3, <2>1 DEF Query
  <2>3. id' \in [Streams -> 0..MaxMsg]
    BY <2>2 DEF TypeOK
  <2>4. QED BY <1>3, <2>3 DEF Query, TypeOK
<1>4. CASE RaiseQueried(s)
  <2>1. id[s] \in 0..MaxMsg
    BY DEF TypeOK
  <2>2. latest' \in [Users -> 0..MaxMsg]
    BY <1>0, <1>4, <2>1, RaisedType DEF RaiseQueried, TypeOK
  <2>3. QED BY <1>4, <2>2 DEF RaiseQueried, TypeOK, StreamAssumption
<1>5. CASE ReadLatest(s)
  BY <1>0, <1>5 DEF ReadLatest, TypeOK
<1>6. CASE WriteHandshake(s)
  BY <1>6 DEF WriteHandshake, TypeOK, ReplayPhases, StreamAssumption
<1>7. CASE WriteOut(s)
  <2>1. /\ out[s] \in Seq(Events)
        /\ Len(out[s]) <= BufferSize
        /\ out[s] # <<>>
        /\ BufferSize \in Nat
    BY <1>7 DEF WriteOut, TypeOK, StreamAssumption
  <2>2. /\ Tail(out[s]) \in Seq(Events)
        /\ Len(Tail(out[s])) <= BufferSize
        /\ Head(out[s]) \in Events
    BY <2>1
  <2>3. /\ out' \in [Streams -> Seq(Events)]
        /\ \A r \in Streams : Len(out'[r]) <= BufferSize
    BY <1>7, <2>2 DEF WriteOut, TypeOK
  <2>4. Head(out[s]).type = "irc" => Head(out[s]).id \in Msgs
    BY <2>2 DEF Events
  <2>5. written' \in [Streams -> SUBSET Msgs]
    BY <1>7, <2>4 DEF WriteOut, TypeOK
  <2>6. QED BY <1>7, <2>3, <2>5 DEF WriteOut, TypeOK
<1>8. CASE WriteReplay(s)
  BY <1>8 DEF WriteReplay, TypeOK, ReplayPhases, StreamAssumption
<1>9. CASE LoopDone(s)
  BY <1>9 DEF LoopDone, TypeOK
<1>10. CASE ClientGone(s)
  BY <1>10 DEF ClientGone, TypeOK, StreamAssumption
<1>11. CASE Stop(s)
  BY <1>11 DEF Stop, TypeOK
<1>12. CASE Deregister(s)
  <2>1. streams' \subseteq Streams /\ latest' \in [Users -> 0..MaxMsg]
    BY <1>12, RemoveType DEF Deregister, TypeOK
  <2>2. QED BY <1>12, <2>1 DEF Deregister, TypeOK
<1>13. CASE WaitReplay(s)
  BY <1>13 DEF WaitReplay, TypeOK
<1>14. CASE Save(s)
  <2>1. /\ out' \in [Streams -> Seq(Events)]
        /\ \A r \in Streams : Len(out'[r]) <= BufferSize
    BY <1>14 DEF Save, TypeOK, StreamAssumption
  <2>2. QED BY <1>14, <2>1 DEF Save, TypeOK, StreamAssumption
<1>15. QED
  BY <1>1, <1>2, <1>3, <1>4, <1>5, <1>6, <1>7, <1>8, <1>9, <1>10, <1>11,
     <1>12, <1>13, <1>14 DEF Handler

LEMMA ReplayType ==
  ASSUME TypeOK, StreamAssumption, NEW s \in Streams, Replay(s)
  PROVE  TypeOK'
<1> USE DEF ReplayPhases, registry, outside, client
<1>1. CASE ReplayFetched(s)
  BY <1>1 DEF ReplayFetched, TypeOK
<1>2. CASE ReplayFails(s)
  BY <1>2 DEF ReplayFails, TypeOK
<1>3. CASE PushStopped(s)
  BY <1>3 DEF PushStopped, TypeOK, StreamAssumption
<1>4. QED BY <1>1, <1>2, <1>3 DEF Replay

LEMMA DeliverType ==
  ASSUME TypeOK, StreamAssumption, Deliver
  PROVE  TypeOK'
<1> USE DEF registry, outside, client, Msgs
<1>1. CASE \E m \in Msgs : Receive(m)
  <2>1. PICK m \in Msgs : Receive(m)
    BY <1>1
  <2>2. m \in nsq /\ m \in logged
    BY <2>1 DEF Receive, TypeOK
  <2>3. /\ nsq' \subseteq logged'
        /\ handled' \subseteq logged'
        /\ delivering' \in {0} \cup logged'
    BY <2>1, <2>2 DEF Receive, TypeOK
  <2>4. QED BY <2>1, <2>3 DEF Receive, TypeOK
<1>2. CASE DeliverToOwner
  <2> DEFINE u == OwnerOf[delivering]
             ev == [v \in Users |-> Irc(delivering)]
             raised == IF StreamsOf(u) # {} THEN Raised(u, delivering) ELSE latest
  <2>1. delivering \in Msgs /\ delivering \in 0..MaxMsg /\ u \in Users
    BY <1>2 DEF DeliverToOwner, TypeOK, StreamAssumption
  <2>2. ev \in [Users -> Events]
    BY <2>1, EventTypes
  <2>5. raised \in [Users -> 0..MaxMsg]
    BY <2>1, RaisedType DEF TypeOK
  <2>3. StreamsOf(u) \in SUBSET Streams /\ OfferLocked(StreamsOf(u), ev, raised)
    BY <1>2 DEF StreamsOf, TypeOK, DeliverToOwner
  <2>4. QED
    BY <1>2, <2>2, <2>3, <2>5, OfferType DEF DeliverToOwner, TypeOK
<1>3. CASE LookupFails
  BY <1>3 DEF LookupFails, TypeOK, StreamAssumption
<1>4. QED BY <1>1, <1>2, <1>3 DEF Deliver

LEMMA PingType ==
  ASSUME TypeOK, StreamAssumption,
         PingAll \/ CloseStreams \/ \E s \in Streams : ServePing(s)
  PROVE  TypeOK'
<1> USE DEF registry, outside, client
<1>1. CASE PingAll
  <2>1. OfferLocked(streams, Pings, latest)
    BY <1>1 DEF PingAll
  <2>2. QED
    BY <1>1, <2>1, OfferType, EventTypes DEF PingAll, TypeOK
<1>2. ASSUME NEW s \in Streams, ServePing(s)
      PROVE  TypeOK'
  <2>1. OfferLocked({s}, Pings, latest)
    BY <1>2 DEF ServePing
  <2>2. QED
    BY <1>2, <2>1, OfferType, EventTypes DEF ServePing, TypeOK
<1>3. CASE CloseStreams
  BY <1>3 DEF CloseStreams, TypeOK
<1>4. QED BY <1>1, <1>2, <1>3

LEMMA OutsideType ==
  ASSUME TypeOK, NEW m \in Msgs, LogMessage(m) \/ LoseMessage(m) \/ Redeliver(m)
  PROVE  TypeOK'
BY DEF LogMessage, LoseMessage, Redeliver, TypeOK, registry, client

LEMMA TypeStep == TypeOK /\ StreamAssumption /\ [Next]_vars => TypeOK'
<1> SUFFICES ASSUME TypeOK, StreamAssumption, [Next]_vars PROVE TypeOK'
  OBVIOUS
<1>1. CASE Next
  BY <1>1, HandlerType, ReplayType, DeliverType, PingType, OutsideType DEF Next
<1>2. CASE UNCHANGED vars
  BY <1>2 DEF vars, TypeOK
<1>3. QED BY <1>1, <1>2

\* The type invariant of the stream server: every queue stays within its
\* buffer, the registry only names streams, ids are ids of log rows (offer).
THEOREM StreamTypeOK == Spec => []TypeOK
BY StreamAssumption, InitType, TypeStep, PTL DEF Spec

-----------------------------------------------------------------------------
(***************************************************************************)
(* Safety.                                                                 *)
(***************************************************************************)
\* A stream is stopped only after its handler has registered it.
RegistryInv ==
  /\ RegistryExact
  /\ \A s \in Streams : pc[s] = "idle" => ~done[s]

\* What a handler's step does to the registry: nothing but add the stream it
\* starts for, or remove the one it ends for.
LEMMA RegistryHandler ==
  ASSUME TypeOK, RegistryInv, NEW s \in Streams,
         Register(s) \/ Handler(s) \/ ClientGone(s)
  PROVE  RegistryInv'
<1> USE DEF RegistryInv, RegistryExact, Served, Goto, registry, TypeOK
<1>1. CASE Register(s)
  BY <1>1 DEF Register
<1>2. ASSUME UNCHANGED <<streams, done, closed>>,
             pc[s] \in Served \ {"deregister"},
             NEW to \in Served, pc' = [pc EXCEPT ![s] = to]
      PROVE  RegistryInv'
  BY <1>2
<1>3. ASSUME UNCHANGED <<streams, done, closed, pc>>
      PROVE  RegistryInv'
  BY <1>3
<1>4. CASE CheckKnown(s) \/ Query(s) \/ RaiseQueried(s) \/ ReadLatest(s)
  <2>1. UNCHANGED <<streams, done, closed>>
    BY <1>4 DEF CheckKnown, Query, RaiseQueried, ReadLatest
  <2>2. /\ pc[s] \in Served \ {"deregister"}
        /\ \E to \in Served : pc' = [pc EXCEPT ![s] = to]
    BY <1>4 DEF CheckKnown, Query, RaiseQueried, ReadLatest
  <2>3. QED BY <1>2, <2>1, <2>2
<1>5. CASE WriteHandshake(s) \/ LoopDone(s) \/ ClientGone(s)
  <2>1. UNCHANGED <<streams, done, closed>>
    BY <1>5 DEF WriteHandshake, LoopDone, ClientGone
  <2>2. /\ pc[s] \in Served \ {"deregister"}
        /\ \E to \in Served : pc' = [pc EXCEPT ![s] = to]
    BY <1>5 DEF WriteHandshake, LoopDone, ClientGone
  <2>3. QED BY <1>2, <2>1, <2>2
<1>6. CASE WriteOut(s) \/ WriteReplay(s)
  BY <1>3, <1>6 DEF WriteOut, WriteReplay
<1>7. CASE Stop(s)
  BY <1>7 DEF Stop
<1>8. CASE Deregister(s)
  BY <1>8 DEF Deregister, RemoveLocked
<1>9. CASE WaitReplay(s) \/ Save(s)
  BY <1>9 DEF WaitReplay, Save
<1>10. QED
  BY <1>1, <1>4, <1>5, <1>6, <1>7, <1>8, <1>9 DEF Handler

\* A slow client leaves the registry in the step that stops it.
LEMMA RegistryOffer ==
  ASSUME TypeOK, RegistryInv, NEW S \in SUBSET streams,
         NEW ev, NEW newLatest, OfferLocked(S, ev, newLatest),
         UNCHANGED <<pc, closed>>
  PROVE  RegistryInv'
BY DEF RegistryInv, RegistryExact, Served, TypeOK, OfferLocked, RemoveLocked

LEMMA RegistryStep ==
  TypeOK /\ RegistryInv /\ [Next]_vars
    => RegistryInv'
<1> SUFFICES ASSUME TypeOK, RegistryInv, [Next]_vars
             PROVE  RegistryInv'
  OBVIOUS
<1>1. ASSUME NEW s \in Streams, Register(s) \/ Handler(s) \/ ClientGone(s)
      PROVE  RegistryInv'
  BY <1>1, RegistryHandler
<1>2. CASE DeliverToOwner
  <2>1. StreamsOf(OwnerOf[delivering]) \in SUBSET streams
    BY DEF StreamsOf
  <2>2. QED BY <1>2, <2>1, RegistryOffer DEF DeliverToOwner
<1>3. CASE PingAll
  BY <1>3, RegistryOffer DEF PingAll
<1>4. ASSUME NEW s \in Streams, ServePing(s)
      PROVE  RegistryInv'
  BY <1>4, RegistryOffer DEF ServePing
<1>5. CASE CloseStreams
  BY <1>5 DEF CloseStreams, RegistryInv, RegistryExact, Served, registry, TypeOK
<1>6. ASSUME UNCHANGED <<streams, pc, done, closed>>
      PROVE  RegistryInv'
  BY <1>6 DEF RegistryInv, RegistryExact
<1>7. ASSUME NEW s \in Streams, Replay(s)
      PROVE  UNCHANGED <<streams, pc, done, closed>>
  BY <1>7 DEF Replay, ReplayFetched, ReplayFails, PushStopped, registry
<1>8. CASE (\E m \in Msgs : Receive(m)) \/ LookupFails
  <2>1. UNCHANGED <<streams, pc, done, closed>>
    BY <1>8 DEF Receive, LookupFails, registry
  <2>2. QED BY <1>6, <2>1
<1>9. ASSUME NEW m \in Msgs, LogMessage(m) \/ LoseMessage(m) \/ Redeliver(m)
      PROVE  UNCHANGED <<streams, pc, done, closed>>
  BY <1>9 DEF LogMessage, LoseMessage, Redeliver, registry
<1>10. CASE UNCHANGED vars
  BY <1>6, <1>10 DEF vars
<1>11. QED
  BY <1>1, <1>2, <1>3, <1>4, <1>5, <1>6, <1>7, <1>8, <1>9, <1>10 DEF Next, Deliver

\* The registry and the handlers agree, and a stopped stream is unknown to
\* wake pings unless the server shuts down (register, offerLocked, the
\* deferred deregister of serveStream).
THEOREM StreamRegistry == Spec => []RegistryExact
<1>1. Init => RegistryInv
  BY DEF Init, RegistryInv, RegistryExact, Served
<1>2. RegistryInv => RegistryExact
  BY DEF RegistryInv
<1>3. QED BY <1>1, <1>2, RegistryStep, StreamTypeOK, PTL DEF Spec

-----------------------------------------------------------------------------
(***************************************************************************)
(* The table of newest ids.  Latest and streams change in four steps       *)
(* besides the offers: Register, RaiseQueried, Deregister.                 *)
(***************************************************************************)

\* Removing streams keeps no entry for a user left without one, provided the
\* new values name none either.
LEMMA RemoveKeepsNone ==
  ASSUME TypeOK, StreamAssumption, NEW S \in SUBSET streams, NEW newLatest,
         \A u \in Users : newLatest[u] # 0 => StreamsOf(u) # {},
         RemoveLocked(S, newLatest)
  PROVE  LatestOnlyWhileStreaming'
BY DEF LatestOnlyWhileStreaming, RemoveLocked, StreamsOf, UsersOf, TypeOK,
       StreamAssumption

\* The id of a user that keeps a stream only ever takes the new value.
LEMMA RemoveKeepsLatest ==
  ASSUME TypeOK, StreamAssumption, NEW S \in SUBSET streams, NEW newLatest,
         RemoveLocked(S, newLatest), NEW u \in Users, StreamsOf(u)' # {}
  PROVE  latest'[u] = newLatest[u]
BY DEF RemoveLocked, StreamsOf, UsersOf, TypeOK, StreamAssumption

LEMMA RaisedIsMax ==
  ASSUME TypeOK, NEW u \in Users, NEW n \in 0..MaxMsg, NEW v \in Users
  PROVE  /\ Raised(u, n)[v] >= latest[v]
         /\ v # u => Raised(u, n)[v] = latest[v]
         /\ Raised(u, n)[u] >= n
BY DEF TypeOK, Raised

\* What one step may do to the table: nothing falls while the user keeps a
\* stream, and an entry appears only for a user that has one.
LatestStep ==
  /\ \A u \in Users : StreamsOf(u) # {} /\ StreamsOf(u)' # {}
                        => latest'[u] >= latest[u]
  /\ LatestOnlyWhileStreaming => LatestOnlyWhileStreaming'

LEMMA LatestUnchanged ==
  ASSUME TypeOK, UNCHANGED latest, streams \subseteq streams'
  PROVE  LatestStep
BY DEF LatestStep, LatestOnlyWhileStreaming, StreamsOf, TypeOK

LEMMA LatestHandler ==
  ASSUME TypeOK, StreamAssumption, NEW s \in Streams,
         Register(s) \/ Handler(s) \/ ClientGone(s),
         RegistryExact
  PROVE  LatestStep
<1> USE DEF registry
<1>1. CASE Register(s)
  BY <1>1, LatestUnchanged DEF Register
<1>2. CASE CheckKnown(s) \/ Query(s) \/ ReadLatest(s) \/ WriteHandshake(s)
  BY <1>2, LatestUnchanged DEF CheckKnown, Query, ReadLatest, WriteHandshake
<1>3. CASE RaiseQueried(s)
  <2> DEFINE u == UserOf[s]
  <2>1. u \in Users /\ id[s] \in 0..MaxMsg
    BY DEF StreamAssumption, TypeOK
  <2>2. CASE StreamsOf(u) # {}
    <3>1. latest' = Raised(u, id[s]) /\ streams' = streams
      BY <1>3, <2>2 DEF RaiseQueried
    <3>2. \A v \in Users : latest'[v] >= latest[v] /\ (v # u => latest'[v] = latest[v])
      BY <2>1, <3>1, RaisedIsMax
    <3>3. QED
      BY <2>2, <3>1, <3>2 DEF LatestStep, LatestOnlyWhileStreaming, StreamsOf
  <2>3. CASE StreamsOf(u) = {}
    BY <1>3, <2>3, LatestUnchanged DEF RaiseQueried
  <2>4. QED BY <2>2, <2>3
<1>4. CASE WriteOut(s) \/ WriteReplay(s) \/ LoopDone(s) \/ ClientGone(s) \/ Stop(s)
  BY <1>4, LatestUnchanged DEF WriteOut, WriteReplay, LoopDone, ClientGone, Stop
<1>5. CASE Deregister(s)
  <2>1. RemoveLocked({s}, latest)
    BY <1>5 DEF Deregister
  <2>2. CASE s \in streams
    <3>1. \A u \in Users : latest[u] >= latest[u]
      BY DEF TypeOK
    <3>2. \A u \in Users : StreamsOf(u)' # {} => latest'[u] = latest[u]
      BY <2>1, <2>2, RemoveKeepsLatest
    <3>3. LatestOnlyWhileStreaming => LatestOnlyWhileStreaming'
      BY <2>1, <2>2, RemoveKeepsNone DEF LatestOnlyWhileStreaming
    <3>4. QED BY <3>1, <3>2, <3>3 DEF LatestStep
  <2>3. CASE s \notin streams
    <3>1. streams' = streams
      BY <2>1, <2>3 DEF RemoveLocked
    <3>2. \A u \in Users : StreamsOf(u) # {} => latest'[u] = latest[u]
      BY <2>1, <2>3 DEF RemoveLocked, StreamsOf, UsersOf, TypeOK
    <3>3. \A u \in Users : latest'[u] # 0 => latest'[u] = latest[u]
      BY <2>1 DEF RemoveLocked, TypeOK
    <3>4. \A u \in Users : StreamsOf(u)' = StreamsOf(u)
      BY <3>1 DEF StreamsOf
    <3>5. \A u \in Users : latest[u] >= latest[u]
      BY DEF TypeOK
    <3>6. QED
      BY <3>2, <3>3, <3>4, <3>5 DEF LatestStep, LatestOnlyWhileStreaming
  <2>4. QED BY <2>2, <2>3
<1>6. CASE WaitReplay(s) \/ Save(s)
  BY <1>6, LatestUnchanged DEF WaitReplay, Save
<1>7. QED
  BY <1>1, <1>2, <1>3, <1>4, <1>5, <1>6 DEF Handler

LEMMA LatestOffer ==
  ASSUME TypeOK, StreamAssumption, NEW S \in SUBSET streams, NEW ev, NEW newLatest,
         OfferLocked(S, ev, newLatest),
         \A u \in Users : newLatest[u] >= latest[u],
         \A u \in Users : newLatest[u] # latest[u] => StreamsOf(u) # {}
  PROVE  LatestStep
<1>1. PICK slow \in SUBSET streams : RemoveLocked(slow, newLatest)
  BY DEF OfferLocked
<1>2. \A u \in Users : StreamsOf(u)' # {} => latest'[u] >= latest[u]
  BY <1>1, RemoveKeepsLatest
<1>3. ASSUME LatestOnlyWhileStreaming
      PROVE  LatestOnlyWhileStreaming'
  BY <1>1, <1>3, RemoveKeepsNone DEF LatestOnlyWhileStreaming
<1>4. QED BY <1>2, <1>3 DEF LatestStep

LEMMA LatestNext ==
  TypeOK /\ StreamAssumption /\ RegistryExact /\ [Next]_vars => LatestStep
<1> SUFFICES ASSUME TypeOK, StreamAssumption, RegistryExact, [Next]_vars
             PROVE  LatestStep
  OBVIOUS
<1>1. ASSUME NEW s \in Streams, Register(s) \/ Handler(s) \/ ClientGone(s)
      PROVE  LatestStep
  BY <1>1, LatestHandler
<1>2. CASE DeliverToOwner
  <2> DEFINE u == OwnerOf[delivering]
             ev == [v \in Users |-> Irc(delivering)]
             raised == IF StreamsOf(u) # {} THEN Raised(u, delivering) ELSE latest
  <2>1. u \in Users /\ delivering \in 0..MaxMsg
    BY <1>2 DEF DeliverToOwner, TypeOK, StreamAssumption, Msgs
  <2>2. /\ \A v \in Users : raised[v] >= latest[v]
        /\ \A v \in Users : raised[v] # latest[v] => StreamsOf(v) # {}
    <3>1. \A v \in Users : latest[v] >= latest[v]
      BY DEF TypeOK
    <3>2. QED BY <2>1, <3>1, RaisedIsMax
  <2>3. StreamsOf(u) \in SUBSET streams /\ OfferLocked(StreamsOf(u), ev, raised)
    BY <1>2 DEF StreamsOf, DeliverToOwner
  <2>4. QED BY <2>2, <2>3, LatestOffer
<1>3. ASSUME NEW S \in SUBSET streams, OfferLocked(S, Pings, latest)
      PROVE  LatestStep
  <2>1. \A u \in Users : latest[u] >= latest[u]
    BY DEF TypeOK
  <2>2. QED BY <1>3, <2>1, LatestOffer
<1>4. CASE PingAll \/ \E s \in Streams : ServePing(s)
  BY <1>3, <1>4 DEF PingAll, ServePing
<1>5. CASE CloseStreams \/ (\E m \in Msgs : Receive(m)) \/ LookupFails
  BY <1>5, LatestUnchanged DEF CloseStreams, Receive, LookupFails, registry
<1>6. ASSUME NEW s \in Streams, Replay(s)
      PROVE  LatestStep
  BY <1>6, LatestUnchanged DEF Replay, ReplayFetched, ReplayFails, PushStopped, registry
<1>7. ASSUME NEW m \in Msgs, LogMessage(m) \/ LoseMessage(m) \/ Redeliver(m)
      PROVE  LatestStep
  BY <1>7, LatestUnchanged DEF LogMessage, LoseMessage, Redeliver, registry
<1>8. CASE UNCHANGED vars
  BY <1>8, LatestUnchanged DEF vars
<1>9. QED
  BY <1>1, <1>2, <1>4, <1>5, <1>6, <1>7, <1>8 DEF Next, Deliver

\* No entry outlives its user's streams, whichever way they end and however
\* late a query comes back (deregisterLocked, serveStream's guard).
THEOREM StreamLatestOnlyWhileStreaming == Spec => []LatestOnlyWhileStreaming
<1>1. Init => LatestOnlyWhileStreaming
  BY DEF Init, LatestOnlyWhileStreaming
<1>2. LatestOnlyWhileStreaming /\ LatestStep => LatestOnlyWhileStreaming'
  BY DEF LatestStep
<1>3. QED
  BY <1>1, <1>2, LatestNext, StreamTypeOK, StreamRegistry, StreamAssumption, PTL DEF Spec

\* While a user keeps a stream the newest id is never lowered, in whatever
\* order messages, queries and drops come (raiseLatestLocked).
THEOREM StreamLatestNeverFalls == Spec => LatestNeverFalls
<1>1. LatestStep => [\A u \in Users : StreamsOf(u) # {} /\ StreamsOf(u)' # {}
                                        => latest'[u] >= latest[u]]_vars
  BY DEF LatestStep
<1>2. QED
  BY <1>1, LatestNext, StreamTypeOK, StreamRegistry, StreamAssumption, PTL
  DEF Spec, LatestNeverFalls

-----------------------------------------------------------------------------
(***************************************************************************)
(* Users are told of their own messages only.  OwnMessagesOnly is          *)
(* inductive with the types: ids come from the log, through the query, the *)
(* owner of the message in delivery, and the table of newest ids.          *)
(***************************************************************************)
OwnIds(s) == {0} \cup LoggedFor(UserOf[s])

\* What is known of one stream; OwnMessagesOnly says it of all.
OwnOnly(s) ==
  /\ {latest[UserOf[s]], id[s], base[s]} \subseteq OwnIds(s)
  /\ \A i \in 1..Len(out[s]) : out[s][i].id \in OwnIds(s)
  /\ written[s] \subseteq OwnIds(s)

LEMMA OwnEach == OwnMessagesOnly <=> \A s \in Streams : OwnOnly(s)
BY DEF OwnMessagesOnly, OwnOnly, OwnIds

\* The log only grows.
LEMMA OwnUnchanged ==
  ASSUME OwnMessagesOnly, logged \subseteq logged',
         UNCHANGED <<latest, id, out, base, written>>
  PROVE  OwnMessagesOnly'
BY DEF OwnMessagesOnly, LoggedFor

\* A new value of one of the ids known to s's handler or client.
LEMMA OwnIdSet ==
  ASSUME TypeOK, OwnMessagesOnly, NEW s \in Streams, UNCHANGED <<logged, latest, out, written>>,
         NEW n \in OwnIds(s), NEW b \in OwnIds(s),
         id' = [id EXCEPT ![s] = n], base' \in {base, [base EXCEPT ![s] = b]}
  PROVE  OwnMessagesOnly'
BY DEF OwnMessagesOnly, OwnIds, LoggedFor, TypeOK

LEMMA RaisedIsOld ==
  ASSUME TypeOK, NEW u \in Users, NEW n, NEW v \in Users
  PROVE  Raised(u, n)[v] = latest[v] \/ (v = u /\ Raised(u, n)[v] = n)
BY DEF TypeOK, Raised

LEMMA OwnRemove ==
  ASSUME TypeOK, StreamAssumption, NEW S, NEW newLatest, RemoveLocked(S, newLatest),
         NEW s \in Streams, newLatest[UserOf[s]] \in OwnIds(s)
  PROVE  latest'[UserOf[s]] \in OwnIds(s)
BY DEF RemoveLocked, OwnIds, StreamAssumption

\* offerLocked: the event is one of the user's own.
LEMMA OwnOffer ==
  ASSUME TypeOK, StreamAssumption, OwnMessagesOnly, NEW S \in SUBSET Streams,
         NEW ev \in [Users -> Events], NEW newLatest,
         OfferLocked(S, ev, newLatest),
         \A s \in S : ev[UserOf[s]].id \in OwnIds(s),
         \A s \in Streams : newLatest[UserOf[s]] \in OwnIds(s),
         UNCHANGED <<id, logged, base, written>>
  PROVE  OwnMessagesOnly'
<1>1. SUFFICES ASSUME NEW s \in Streams PROVE OwnOnly(s)'
  BY OwnEach DEF OwnMessagesOnly, OwnOnly, OwnIds
<1>2. OwnIds(s)' = OwnIds(s)
  BY DEF OwnIds, LoggedFor
<1>3. latest'[UserOf[s]] \in OwnIds(s)
  <2>1. PICK slow : RemoveLocked(slow, newLatest)
    BY DEF OfferLocked
  <2>2. QED BY <2>1, OwnRemove
<1>4. OwnOnly(s)
  BY OwnEach
<1>5. \A i \in 1..Len(out'[s]) : out'[s][i].id \in OwnIds(s)
  <2>1. out[s] \in Seq(Events) /\ ev[UserOf[s]] \in Events
    BY DEF TypeOK, StreamAssumption
  <2>2. CASE out'[s] = out[s]
    BY <2>2, <1>4 DEF OwnOnly
  <2>3. CASE s \in S /\ out'[s] = Append(out[s], ev[UserOf[s]])
    <3>1. \A i \in 1..Len(out'[s]) :
            out'[s][i] = IF i <= Len(out[s]) THEN out[s][i] ELSE ev[UserOf[s]]
      BY <2>1, <2>3
    <3>2. ev[UserOf[s]].id \in OwnIds(s) /\ Len(out[s]) \in Nat
      BY <2>1, <2>3
    <3>3. QED BY <1>4, <3>1, <3>2 DEF OwnOnly
  <2>4. QED BY <2>2, <2>3 DEF OfferLocked
<1>6. QED BY <1>2, <1>3, <1>4, <1>5 DEF OwnOnly

LEMMA OwnHandler ==
  ASSUME TypeOK, StreamAssumption, OwnMessagesOnly, NEW s \in Streams,
         Register(s) \/ Handler(s) \/ ClientGone(s)
  PROVE  OwnMessagesOnly'
<1> USE DEF registry, outside, client
<1>1. OwnOnly(s) /\ 0 \in OwnIds(s)
  BY OwnEach DEF OwnIds
<1>2. CASE Register(s) \/ CheckKnown(s) \/ WriteReplay(s) \/ LoopDone(s) \/ Stop(s)
           \/ WaitReplay(s) \/ Save(s)
  BY <1>2, OwnUnchanged
  DEF Register, CheckKnown, WriteReplay, LoopDone, Stop, WaitReplay, Save
<1>3. CASE Query(s)
  <2>1. PICK n \in OwnIds(s) : id' = [id EXCEPT ![s] = n]
    BY <1>1, <1>3 DEF Query, IsNewest, OwnIds
  <2>2. QED BY <1>1, <1>3, <2>1, OwnIdSet DEF Query
<1>4. CASE ReadLatest(s)
  <2>1. latest[UserOf[s]] \in OwnIds(s)
    BY <1>1 DEF OwnOnly
  <2>2. QED BY <1>4, <2>1, OwnIdSet DEF ReadLatest
<1>5. CASE WriteHandshake(s)
  <2>1. id[s] \in OwnIds(s)
    BY <1>1 DEF OwnOnly
  <2>2. QED BY <1>1, <1>5, <2>1, OwnIdSet DEF WriteHandshake
<1>6. CASE ClientGone(s)
  BY <1>1, <1>6, OwnIdSet DEF ClientGone
<1>7. CASE RaiseQueried(s)
  <2>1. id[s] \in OwnIds(s) /\ id[s] \in 0..MaxMsg
    BY <1>1 DEF OwnOnly, TypeOK
  <2>2. \A v \in Users : latest'[v] = latest[v] \/ (v = UserOf[s] /\ latest'[v] = id[s])
    <3>1. latest' = latest \/ latest' = Raised(UserOf[s], id[s])
      BY <1>7 DEF RaiseQueried
    <3>2. UserOf[s] \in Users
      BY DEF StreamAssumption
    <3>3. \A v \in Users : Raised(UserOf[s], id[s])[v] = latest[v]
                           \/ (v = UserOf[s] /\ Raised(UserOf[s], id[s])[v] = id[s])
      BY <3>2, RaisedIsOld
    <3>4. QED BY <3>1, <3>3
  <2>3. ASSUME NEW t \in Streams
        PROVE  OwnOnly(t)'
    <3>1. OwnOnly(t) /\ OwnIds(t)' = OwnIds(t) /\ UserOf[t] \in Users
      BY <1>7, OwnEach DEF RaiseQueried, OwnIds, LoggedFor, StreamAssumption
    <3>2. latest'[UserOf[t]] \in OwnIds(t)
      BY <2>1, <2>2, <3>1 DEF OwnOnly, OwnIds
    <3>3. id'[t] \in OwnIds(t)
      BY <1>7, <3>1 DEF RaiseQueried, OwnOnly, OwnIds, TypeOK
    <3>4. UNCHANGED <<out, base, written>>
      BY <1>7 DEF RaiseQueried
    <3>5. QED BY <3>1, <3>2, <3>3, <3>4 DEF OwnOnly
  <2>4. QED BY <2>3 DEF OwnMessagesOnly, OwnOnly, OwnIds
<1>8. CASE WriteOut(s)
  <2>1. out[s] \in Seq(Events) /\ out[s] # <<>> /\ Len(out[s]) \in Nat \ {0}
    BY <1>8 DEF WriteOut, TypeOK
  <2>2. /\ Head(out[s]) = out[s][1] /\ 1 \in 1..Len(out[s])
        /\ \A i \in 1..Len(Tail(out[s])) : /\ i + 1 \in 1..Len(out[s])
                                           /\ Tail(out[s])[i] = out[s][i + 1]
    BY <2>1
  <2>3. Head(out[s]).id \in OwnIds(s)
    BY <1>1, <2>2 DEF OwnOnly
  <2>4. \A i \in 1..Len(Tail(out[s])) : Tail(out[s])[i].id \in OwnIds(s)
    BY <1>1, <2>2 DEF OwnOnly
  <2>5. written'[s] \subseteq OwnIds(s) /\ out'[s] = Tail(out[s])
    BY <1>1, <1>8, <2>3 DEF WriteOut, OwnOnly, TypeOK
  <2>6. ASSUME NEW t \in Streams
        PROVE  OwnOnly(t)'
    <3>1. OwnOnly(t) /\ OwnIds(t)' = OwnIds(t)
      BY <1>8, OwnEach DEF WriteOut, OwnIds, LoggedFor
    <3>2. UNCHANGED <<latest, id, base>>
      BY <1>8 DEF WriteOut
    <3>3. t # s => out'[t] = out[t] /\ written'[t] = written[t]
      BY <1>8 DEF WriteOut, TypeOK
    <3>4. CASE t = s
      BY <2>4, <2>5, <3>1, <3>2, <3>4 DEF OwnOnly
    <3>5. CASE t # s
      BY <3>1, <3>2, <3>3, <3>5 DEF OwnOnly
    <3>6. QED BY <3>4, <3>5
  <2>7. QED BY <2>6 DEF OwnMessagesOnly, OwnOnly, OwnIds
<1>9. CASE Deregister(s)
  <2>1. RemoveLocked({s}, latest) /\ UNCHANGED <<id, out, base, written, logged>>
    BY <1>9 DEF Deregister
  <2>2. ASSUME NEW t \in Streams
        PROVE  OwnOnly(t)'
    <3>1. OwnOnly(t) /\ OwnIds(t)' = OwnIds(t)
      BY <2>1, OwnEach DEF OwnIds, LoggedFor
    <3>2. latest'[UserOf[t]] \in OwnIds(t)
      BY <2>1, <3>1, OwnRemove DEF OwnOnly
    <3>3. QED BY <2>1, <3>1, <3>2 DEF OwnOnly
  <2>3. QED BY <2>2 DEF OwnMessagesOnly, OwnOnly, OwnIds
<1>10. QED
  BY <1>2, <1>3, <1>4, <1>5, <1>6, <1>7, <1>8, <1>9 DEF Handler

LEMMA OwnStep ==
  TypeOK /\ StreamAssumption /\ OwnMessagesOnly /\ [Next]_vars => OwnMessagesOnly'
<1> SUFFICES ASSUME TypeOK, StreamAssumption, OwnMessagesOnly, [Next]_vars
             PROVE  OwnMessagesOnly'
  OBVIOUS
<1>1. ASSUME NEW s \in Streams, Register(s) \/ Handler(s) \/ ClientGone(s)
      PROVE  OwnMessagesOnly'
  BY <1>1, OwnHandler
<1>0. \A s \in Streams : latest[UserOf[s]] \in OwnIds(s)
  BY OwnEach DEF OwnOnly
<1>2. CASE DeliverToOwner
  <2> DEFINE u == OwnerOf[delivering]
             ev == [v \in Users |-> Irc(delivering)]
             raised == IF StreamsOf(u) # {} THEN Raised(u, delivering) ELSE latest
  <2>1. delivering \in logged /\ delivering \in Msgs /\ u \in Users
    BY <1>2 DEF DeliverToOwner, TypeOK, StreamAssumption
  <2>2. ev \in [Users -> Events] /\ \A v \in Users : ev[v].id = delivering
    BY <2>1, EventTypes DEF Irc
  <2>3. \A s \in Streams : UserOf[s] = u => delivering \in OwnIds(s)
    BY <2>1 DEF OwnIds, LoggedFor
  <2>4. \A s \in StreamsOf(u) : s \in Streams /\ UserOf[s] = u /\ UserOf[s] \in Users
    BY DEF StreamsOf, TypeOK, StreamAssumption
  <2>5. \A s \in StreamsOf(u) : ev[UserOf[s]].id \in OwnIds(s)
    BY <2>2, <2>3, <2>4
  <2>6. \A s \in Streams : raised[UserOf[s]] \in OwnIds(s)
    <3>1. \A v \in Users : raised[v] = latest[v] \/ (v = u /\ raised[v] = delivering)
      <4>1. \A v \in Users : \/ Raised(u, delivering)[v] = latest[v]
                             \/ v = u /\ Raised(u, delivering)[v] = delivering
        BY <2>1, RaisedIsOld
      <4>2. raised = Raised(u, delivering) \/ raised = latest
        OBVIOUS
      <4> HIDE DEF raised, u
      <4>3. QED BY <4>1, <4>2
    <3>2. \A s \in Streams : UserOf[s] \in Users
      BY DEF StreamAssumption
    <3>3. QED BY <1>0, <2>3, <3>1, <3>2
  <2>7. StreamsOf(u) \in SUBSET Streams /\ OfferLocked(StreamsOf(u), ev, raised)
    BY <1>2, <2>4 DEF DeliverToOwner
  <2>8. UNCHANGED <<id, logged, base, written>>
    BY <1>2 DEF DeliverToOwner, outside, client
  <2> HIDE DEF ev, raised, u
  <2>9. QED BY <2>2, <2>5, <2>6, <2>7, <2>8, OwnOffer
<1>3. ASSUME NEW S \in SUBSET streams, OfferLocked(S, Pings, latest),
             UNCHANGED <<id, outside, client>>
      PROVE  OwnMessagesOnly'
  <2>1. Pings \in [Users -> Events] /\ S \in SUBSET Streams
    BY EventTypes DEF TypeOK
  <2>2. \A s \in S : Pings[UserOf[s]].id \in OwnIds(s)
    <3>1. \A s \in S : s \in Streams /\ UserOf[s] \in Users
      BY <2>1 DEF StreamAssumption
    <3>2. \A v \in Users : Pings[v].id = latest[v]
      BY DEF Pings, Ping
    <3>3. QED BY <1>0, <3>1, <3>2
  <2>3. UNCHANGED <<id, logged, base, written>>
    BY <1>3 DEF outside, client
  <2>4. QED BY <1>0, <1>3, <2>1, <2>2, <2>3, OwnOffer
<1>4. CASE PingAll \/ \E s \in Streams : ServePing(s)
  BY <1>3, <1>4 DEF PingAll, ServePing
<1>5. CASE CloseStreams \/ (\E m \in Msgs : Receive(m)) \/ LookupFails
  BY <1>5, OwnUnchanged DEF CloseStreams, Receive, LookupFails, registry, outside, client
<1>6. ASSUME NEW s \in Streams, Replay(s)
      PROVE  OwnMessagesOnly'
  BY <1>6, OwnUnchanged
  DEF Replay, ReplayFetched, ReplayFails, PushStopped, registry, outside, client
<1>7. ASSUME NEW m \in Msgs, LogMessage(m) \/ LoseMessage(m) \/ Redeliver(m)
      PROVE  OwnMessagesOnly'
  BY <1>7, OwnUnchanged DEF LogMessage, LoseMessage, Redeliver, registry, client
<1>8. CASE UNCHANGED vars
  BY <1>8, OwnUnchanged DEF vars
<1>9. QED
  BY <1>1, <1>2, <1>4, <1>5, <1>6, <1>7, <1>8 DEF Next, Deliver

\* No id of another user's message ever reaches a client, in a ping, a
\* handshake or a live event, whatever is redelivered, lost or late.
THEOREM StreamOwnMessagesOnly == Spec => []OwnMessagesOnly
<1>1. StreamAssumption /\ Init => OwnMessagesOnly
  BY DEF Init, OwnMessagesOnly, StreamAssumption
<1>2. QED BY <1>1, OwnStep, StreamTypeOK, StreamAssumption, PTL DEF Spec

-----------------------------------------------------------------------------
(***************************************************************************)
(* The newest id covers what a stream was given.  A stream that has not    *)
(* started was given nothing, and a removed one does not come back.        *)
(***************************************************************************)
CoversInv ==
  /\ LatestCoversGot
  /\ \A s \in Streams : pc[s] = "idle" => out[s] = <<>> /\ written[s] = {}

LEMMA CoversUnchanged ==
  ASSUME CoversInv, streams' \subseteq streams,
         \A u \in Users : latest'[u] = latest[u], StreamAssumption, TypeOK,
         UNCHANGED <<out, written>>,
         \A s \in Streams : pc'[s] = "idle" => pc[s] = "idle"
  PROVE  CoversInv'
<1>1. \A s \in Streams : Got(s)' = Got(s)
  BY DEF Got
<1>2. \A s \in streams' : s \in streams /\ s \in Streams /\ UserOf[s] \in Users
  BY DEF TypeOK, StreamAssumption
<1>3. \A s \in streams : \A m \in Got(s) : m <= latest[UserOf[s]]
  BY DEF CoversInv, LatestCoversGot
<1>4. ASSUME NEW s \in streams', NEW m \in Got(s)'
      PROVE  m <= latest'[UserOf[s]]
  <2>1. s \in streams /\ m \in Got(s) /\ latest'[UserOf[s]] = latest[UserOf[s]]
    BY <1>1, <1>2
  <2>2. QED BY <2>1, <1>3
<1>5. LatestCoversGot'
  BY <1>4 DEF LatestCoversGot
<1>6. \A s \in Streams : pc'[s] = "idle" => out'[s] = <<>> /\ written'[s] = {}
  BY DEF CoversInv
<1>7. QED BY <1>5, <1>6 DEF CoversInv

LEMMA CoversRaised ==
  ASSUME CoversInv, streams' = streams, StreamAssumption, TypeOK, TypeOK',
         \A u \in Users : latest'[u] >= latest[u], UNCHANGED <<out, written>>,
         \A s \in Streams : pc'[s] = "idle" => pc[s] = "idle"
  PROVE  CoversInv'
<1>1. ASSUME NEW s \in streams, NEW m \in Got(s)
      PROVE  m <= latest'[UserOf[s]]
  <2>1. s \in Streams /\ UserOf[s] \in Users
    BY DEF TypeOK, StreamAssumption
  <2>2. m <= latest[UserOf[s]] /\ latest'[UserOf[s]] >= latest[UserOf[s]]
    BY <2>1 DEF CoversInv, LatestCoversGot
  <2>3. latest[UserOf[s]] \in Nat /\ latest'[UserOf[s]] \in Nat
    BY <2>1 DEF TypeOK, StreamAssumption
  <2>4. m \in Nat
    <3>1. out[s] \in Seq(Events) /\ written[s] \subseteq Msgs
      BY <2>1 DEF TypeOK
    <3>2. \A i \in 1..Len(out[s]) : out[s][i] \in Events
      BY <3>1
    <3>3. QED BY <3>1, <3>2 DEF Got, Events, Msgs
  <2>5. QED BY <2>2, <2>3, <2>4
<1>2. \A s \in Streams : Got(s)' = Got(s)
  BY DEF Got
<1>3. LatestCoversGot'
  BY <1>1, <1>2 DEF LatestCoversGot, TypeOK
<1>4. QED BY <1>3 DEF CoversInv

\* What an offer gives a stream.
LEMMA GotOffer ==
  ASSUME TypeOK, StreamAssumption, NEW S, NEW ev \in [Users -> Events], NEW newLatest,
         OfferLocked(S, ev, newLatest), UNCHANGED written, NEW s \in Streams
  PROVE  \A m \in Got(s)' : m \in Got(s) \/ (s \in S /\ ev[UserOf[s]].type = "irc" /\ m = ev[UserOf[s]].id)
<1>1. out[s] \in Seq(Events) /\ ev[UserOf[s]] \in Events
  BY DEF TypeOK, StreamAssumption
<1>2. CASE out'[s] = out[s]
  BY <1>2 DEF Got
<1>3. CASE s \in S /\ out'[s] = Append(out[s], ev[UserOf[s]])
  <2>1. \A i \in 1..Len(out'[s]) :
          \/ i \in 1..Len(out[s]) /\ out'[s][i] = out[s][i]
          \/ out'[s][i] = ev[UserOf[s]]
    BY <1>1, <1>3
  <2>2. QED BY <1>3, <2>1 DEF Got
<1>4. QED BY <1>2, <1>3 DEF OfferLocked

LEMMA CoversOffer ==
  ASSUME TypeOK, TypeOK', StreamAssumption, CoversInv, RegistryExact,
         NEW S \in SUBSET streams, NEW ev \in [Users -> Events], NEW newLatest,
         OfferLocked(S, ev, newLatest), UNCHANGED <<written, pc>>,
         \A u \in Users : newLatest[u] >= latest[u],
         \A s \in S : ev[UserOf[s]].type = "irc" => ev[UserOf[s]].id <= newLatest[UserOf[s]]
  PROVE  CoversInv'
<1>1. PICK slow \in SUBSET streams : RemoveLocked(slow, newLatest)
  BY DEF OfferLocked
<1>2. ASSUME NEW s \in streams', NEW m \in Got(s)'
      PROVE  m <= latest'[UserOf[s]]
  <2>1. s \in streams /\ s \in Streams /\ UserOf[s] \in Users
    BY <1>1 DEF RemoveLocked, TypeOK, StreamAssumption
  <2>2. StreamsOf(UserOf[s])' # {}
    BY <1>2 DEF StreamsOf
  <2>3. latest'[UserOf[s]] = newLatest[UserOf[s]]
    <3>1. UserOf[s] \notin UsersOf(slow) \/ ~(StreamsOf(UserOf[s]) \subseteq slow)
      BY <1>1, <1>2, <2>1 DEF RemoveLocked, StreamsOf
    <3>2. QED BY <1>1, <2>1, <3>1 DEF RemoveLocked
  <2>4. CASE m \in Got(s)
    <3>1. m <= latest[UserOf[s]] /\ newLatest[UserOf[s]] >= latest[UserOf[s]]
      BY <2>1, <2>4 DEF CoversInv, LatestCoversGot
    <3>2. latest[UserOf[s]] \in Nat /\ latest'[UserOf[s]] \in Nat
      BY <2>1 DEF TypeOK, StreamAssumption
    <3>3. m \in Nat
      <4>1. out[s] \in Seq(Events) /\ written[s] \subseteq Msgs
        BY <2>1 DEF TypeOK
      <4>2. \A i \in 1..Len(out[s]) : out[s][i] \in Events
        BY <4>1
      <4>3. QED BY <2>4, <4>1, <4>2 DEF Got, Events, Msgs
    <3>4. QED BY <2>3, <3>1, <3>2, <3>3
  <2>5. CASE s \in S /\ ev[UserOf[s]].type = "irc" /\ m = ev[UserOf[s]].id
    BY <2>3, <2>5
  <2>6. \A n \in Got(s)' : n \in Got(s)
                           \/ (s \in S /\ ev[UserOf[s]].type = "irc" /\ n = ev[UserOf[s]].id)
    BY <2>1, GotOffer
  <2>7. QED BY <1>2, <2>4, <2>5, <2>6
<1>3. ASSUME NEW s \in Streams, pc[s] = "idle"
      PROVE  out'[s] = <<>> /\ written'[s] = {}
  <2>1. s \notin streams
    BY <1>3 DEF RegistryExact, Served
  <2>2. out'[s] = out[s]
    BY <2>1 DEF OfferLocked
  <2>3. QED BY <1>3, <2>2 DEF CoversInv
<1>4. QED BY <1>2, <1>3 DEF CoversInv, LatestCoversGot

LEMMA CoversHandler ==
  ASSUME TypeOK, TypeOK', StreamAssumption, CoversInv, RegistryExact, NEW s \in Streams,
         Register(s) \/ Handler(s) \/ ClientGone(s)
  PROVE  CoversInv'
<1> USE DEF registry, client, Goto
<1>1. \A t \in Streams : pc'[t] = "idle" => pc[t] = "idle"
  BY DEF Register, Handler, ClientGone, CheckKnown, Query, RaiseQueried, ReadLatest,
         WriteHandshake, WriteOut, WriteReplay, LoopDone, Stop, Deregister, WaitReplay,
         Save, TypeOK
<1>2. CASE Register(s)
  <2>1. Got(s) = {}
    BY <1>2 DEF Register, CoversInv, Got
  <2>2. UNCHANGED <<latest, out, written>> /\ streams' = streams \cup {s}
    BY <1>2 DEF Register
  <2>3. LatestCoversGot'
    BY <2>1, <2>2 DEF CoversInv, LatestCoversGot, Got
  <2>4. QED BY <1>1, <2>2, <2>3 DEF CoversInv
<1>3. CASE CheckKnown(s) \/ Query(s) \/ ReadLatest(s) \/ WriteHandshake(s) \/ WriteReplay(s)
           \/ LoopDone(s) \/ ClientGone(s) \/ Stop(s) \/ WaitReplay(s) \/ Save(s)
  <2>1. UNCHANGED <<streams, latest, out, written>>
    BY <1>3 DEF CheckKnown, Query, ReadLatest, WriteHandshake, WriteReplay, LoopDone,
                ClientGone, Stop, WaitReplay, Save
  <2>2. QED BY <1>1, <2>1, CoversUnchanged
<1>4. CASE RaiseQueried(s)
  <2>1. UserOf[s] \in Users /\ id[s] \in 0..MaxMsg
    BY DEF StreamAssumption, TypeOK
  <2>2. \A u \in Users : latest'[u] >= latest[u]
    <3>1. latest' = latest \/ latest' = Raised(UserOf[s], id[s])
      BY <1>4 DEF RaiseQueried
    <3>2. \A u \in Users : latest[u] >= latest[u]
      BY DEF TypeOK
    <3>3. \A u \in Users : Raised(UserOf[s], id[s])[u] >= latest[u]
      BY <2>1, RaisedIsMax
    <3>4. QED BY <3>1, <3>2, <3>3
  <2>3. UNCHANGED <<streams, out, written>>
    BY <1>4 DEF RaiseQueried
  <2>4. QED BY <1>1, <2>2, <2>3, CoversRaised
<1>5. CASE WriteOut(s)
  <2>1. out[s] \in Seq(Events) /\ out[s] # <<>>
    BY <1>5 DEF WriteOut, TypeOK
  <2>2. /\ Head(out[s]) = out[s][1] /\ 1 \in 1..Len(out[s])
        /\ \A i \in 1..Len(Tail(out[s])) : /\ i + 1 \in 1..Len(out[s])
                                           /\ Tail(out[s])[i] = out[s][i + 1]
    BY <2>1
  <2>3. /\ out'[s] = Tail(out[s])
        /\ written'[s] = IF Head(out[s]).type = "irc" THEN written[s] \cup {Head(out[s]).id}
                         ELSE written[s]
    BY <1>5 DEF WriteOut, TypeOK
  <2>4. \A m \in Got(s)' : m \in Got(s)
    BY <2>2, <2>3 DEF Got
  <2>5. \A t \in Streams : t # s => out'[t] = out[t] /\ written'[t] = written[t]
    BY <1>5 DEF WriteOut, TypeOK
  <2>6. \A t \in Streams : \A m \in Got(t)' : m \in Got(t)
    BY <2>4, <2>5 DEF Got
  <2>7. UNCHANGED <<streams, latest, pc>> /\ pc[s] = "loop"
    BY <1>5 DEF WriteOut
  <2>8. LatestCoversGot'
    BY <2>6, <2>7 DEF CoversInv, LatestCoversGot, TypeOK
  <2>9. QED BY <2>5, <2>7, <2>8 DEF CoversInv
<1>6. CASE Deregister(s)
  <2>1. RemoveLocked({s}, latest) /\ UNCHANGED <<out, written>>
    BY <1>6 DEF Deregister
  <2>2. streams' \subseteq streams
    BY <2>1 DEF RemoveLocked
  <2>3. \A t \in streams' : latest'[UserOf[t]] = latest[UserOf[t]]
    <3>1. ASSUME NEW t \in streams'
          PROVE  latest'[UserOf[t]] = latest[UserOf[t]]
      <4>1. UserOf[t] \in Users /\ t \in streams /\ t # s
        BY <2>1, <2>2, <3>1 DEF RemoveLocked, TypeOK, StreamAssumption
      <4>2. ~(StreamsOf(UserOf[t]) \subseteq {s})
        BY <4>1 DEF StreamsOf
      <4>3. QED BY <2>1, <4>1, <4>2 DEF RemoveLocked
    <3>2. QED BY <3>1
  <2>4. LatestCoversGot'
    BY <2>1, <2>2, <2>3 DEF CoversInv, LatestCoversGot, Got
  <2>5. QED BY <1>1, <2>1, <2>4 DEF CoversInv
<1>7. QED
  BY <1>2, <1>3, <1>4, <1>5, <1>6 DEF Handler

LEMMA CoversStep ==
  TypeOK /\ TypeOK' /\ StreamAssumption /\ RegistryExact /\ CoversInv /\ [Next]_vars
    => CoversInv'
<1> SUFFICES ASSUME TypeOK, TypeOK', StreamAssumption, RegistryExact, CoversInv, [Next]_vars
             PROVE  CoversInv'
  OBVIOUS
<1>1. ASSUME NEW s \in Streams, Register(s) \/ Handler(s) \/ ClientGone(s)
      PROVE  CoversInv'
  BY <1>1, CoversHandler
<1>2. CASE DeliverToOwner
  <2> DEFINE u == OwnerOf[delivering]
             ev == [v \in Users |-> Irc(delivering)]
             raised == IF StreamsOf(u) # {} THEN Raised(u, delivering) ELSE latest
  <2>1. delivering \in Msgs /\ delivering \in 0..MaxMsg /\ u \in Users
    BY <1>2 DEF DeliverToOwner, TypeOK, StreamAssumption, Msgs
  <2>2. ev \in [Users -> Events] /\ \A v \in Users : ev[v].id = delivering
    BY <2>1, EventTypes DEF Irc
  <2>3. \A v \in Users : raised[v] >= latest[v]
    <3>1. \A v \in Users : latest[v] >= latest[v]
      BY DEF TypeOK
    <3>2. QED BY <2>1, <3>1, RaisedIsMax
  <2>4. \A s \in StreamsOf(u) : UserOf[s] = u
    BY DEF StreamsOf
  <2>5. \A s \in StreamsOf(u) : ev[UserOf[s]].id <= raised[UserOf[s]]
    <3>1. StreamsOf(u) # {} => raised[u] >= delivering
      BY <2>1, RaisedIsMax
    <3>2. raised[u] \in Nat /\ delivering \in Nat
      <4>1. MaxMsg \in Nat /\ latest \in [Users -> 0..MaxMsg]
        BY DEF TypeOK, StreamAssumption
      <4>2. Raised(u, delivering) \in [Users -> 0..MaxMsg]
        BY <2>1, <4>1 DEF Raised
      <4>3. raised \in [Users -> 0..MaxMsg]
        BY <4>1, <4>2
      <4>4. raised[u] \in 0..MaxMsg /\ delivering \in 0..MaxMsg
        BY <2>1, <4>3
      <4>5. QED BY <4>1, <4>4
    <3>3. QED BY <2>1, <2>2, <2>4, <3>1, <3>2
  <2>6. StreamsOf(u) \in SUBSET streams /\ OfferLocked(StreamsOf(u), ev, raised)
    BY <1>2 DEF DeliverToOwner, StreamsOf
  <2>7. UNCHANGED <<written, pc>>
    BY <1>2 DEF DeliverToOwner, client
  <2> HIDE DEF ev, raised, u
  <2>8. QED BY <2>2, <2>3, <2>5, <2>6, <2>7, CoversOffer
<1>3. ASSUME NEW S \in SUBSET streams, OfferLocked(S, Pings, latest), UNCHANGED <<pc, client>>
      PROVE  CoversInv'
  <2>1. Pings \in [Users -> Events]
    BY EventTypes
  <2>2. \A u \in Users : latest[u] >= latest[u]
    BY DEF TypeOK, StreamAssumption
  <2>3. \A s \in S : Pings[UserOf[s]].type # "irc"
    BY DEF Pings, Ping, TypeOK, StreamAssumption
  <2>4. UNCHANGED <<written, pc>>
    BY <1>3 DEF client
  <2>5. QED BY <1>3, <2>1, <2>2, <2>3, <2>4, CoversOffer
<1>4. CASE PingAll \/ \E s \in Streams : ServePing(s)
  BY <1>3, <1>4 DEF PingAll, ServePing
<1>5. ASSUME UNCHANGED <<streams, latest, out, written, pc>>
      PROVE  CoversInv'
  BY <1>5, CoversUnchanged
<1>6. CASE CloseStreams \/ (\E m \in Msgs : Receive(m)) \/ LookupFails
  BY <1>5, <1>6 DEF CloseStreams, Receive, LookupFails, registry, client
<1>7. ASSUME NEW s \in Streams, Replay(s)
      PROVE  CoversInv'
  BY <1>5, <1>7 DEF Replay, ReplayFetched, ReplayFails, PushStopped, registry, client
<1>8. ASSUME NEW m \in Msgs, LogMessage(m) \/ LoseMessage(m) \/ Redeliver(m)
      PROVE  CoversInv'
  BY <1>5, <1>8 DEF LogMessage, LoseMessage, Redeliver, registry, client
<1>9. CASE UNCHANGED vars
  BY <1>5, <1>9 DEF vars
<1>10. QED
  BY <1>1, <1>2, <1>4, <1>6, <1>7, <1>8, <1>9 DEF Next, Deliver

\* A ping sent to a registered stream never names an id older than a live
\* event the stream was given, however messages, queries and drops interleave.
THEOREM StreamLatestCoversGot == Spec => []LatestCoversGot
<1>1. Init => CoversInv
  BY DEF Init, CoversInv, LatestCoversGot
<1>2. CoversInv => LatestCoversGot
  BY DEF CoversInv
<1>3. QED
  BY <1>1, <1>2, CoversStep, StreamTypeOK, StreamRegistry, StreamAssumption, PTL DEF Spec

-----------------------------------------------------------------------------
(***************************************************************************)
(* No gap.  Log rows are published in the order of their ids, each is      *)
(* delivered at most once and its owner is found, the newest id query      *)
(* works, and no buffer overflows during the queries: then every message   *)
(* Deliver is done with is known to the table, to the query a handler is   *)
(* about to use, or to the client.  Clients that go away or read slowly,   *)
(* shutdown, messages lost on the way and a failing replay are all allowed.*)
(***************************************************************************)
Undisturbed == Env \cap {"reorder", "duplicate", "lookup", "query"} = {}

HandledOf(u) == {m \in handled : OwnerOf[m] = u}

\* The log has no holes, and messages come out of NSQ in order.
InOrder ==
  /\ \A n \in logged : \A m \in Msgs : m < n => m \in logged
  /\ \A m \in nsq : \A n \in handled : n < m
  /\ \A m \in nsq : delivering < m
  /\ delivering # 0 => \A n \in handled : n < delivering

\* A handler that looks up the newest id has not lost its stream.
SeedersIn == \A s \in Streams : pc[s] \in Seeding => s \in streams

\* An entry in the table covers every handled message of the user.
TableKnows == \A u \in Users : latest[u] # 0 => \A m \in HandledOf(u) : m <= latest[u]

\* So does a query result that will become the entry.
QueryKnows ==
  \A s \in Streams : pc[s] = "raise" /\ latest[UserOf[s]] = 0
                       => \A m \in HandledOf(UserOf[s]) : m <= id[s]

\* If there is none after the query, there was nothing to know.
Queried == {"read", "handshake", "loop"}
NothingToKnow ==
  \A s \in streams : pc[s] \in Queried /\ latest[UserOf[s]] = 0
                       => HandledOf(UserOf[s]) = {}

\* The client is, or is about to be, told of every handled message.
ClientKnows ==
  \A s \in Streams : ~done[s] =>
    /\ pc[s] = "handshake" => \A m \in HandledOf(UserOf[s]) : m <= id[s] \/ m \in Got(s)
    /\ pc[s] = "loop" => \A m \in HandledOf(UserOf[s]) : m <= base[s] \/ m \in Got(s)

GapInv == InOrder /\ SeedersIn /\ TableKnows /\ QueryKnows /\ NothingToKnow /\ ClientKnows

\* What the other theorems give.
Context ==
  /\ StreamAssumption /\ TypeOK /\ RegistryExact /\ LatestOnlyWhileStreaming
  /\ SeededInTime /\ Undisturbed

LEMMA HandledFacts ==
  ASSUME Context
  PROVE  /\ \A u \in Users : HandledOf(u) \subseteq handled
         /\ handled \subseteq Msgs /\ logged \subseteq Msgs /\ nsq \subseteq Msgs
         /\ \A m \in Msgs : m \in Nat /\ m > 0
         /\ \A u \in Users : latest[u] \in Nat
         /\ \A s \in Streams : UserOf[s] \in Users /\ id[s] \in Nat /\ base[s] \in Nat
         /\ delivering \in Nat
         /\ MaxMsg \in Nat
<1>1. MaxMsg \in Nat
  BY DEF Context, StreamAssumption
<1>2. handled \subseteq Msgs /\ logged \subseteq Msgs /\ nsq \subseteq Msgs
  BY DEF Context, TypeOK
<1>3. \A m \in Msgs : m \in Nat /\ m > 0
  BY <1>1 DEF Msgs
<1>4. /\ \A u \in Users : latest[u] \in Nat
      /\ \A s \in Streams : UserOf[s] \in Users /\ id[s] \in Nat /\ base[s] \in Nat
  BY <1>1 DEF Context, TypeOK, StreamAssumption
<1>5. delivering \in Nat
  BY <1>2, <1>3 DEF Context, TypeOK
<1>6. QED BY <1>1, <1>2, <1>3, <1>4, <1>5 DEF HandledOf

\* A step of a handler that leaves the log, the table and the events alone.
LEMMA GapMoves ==
  ASSUME Context, GapInv, NEW s \in Streams, NEW to \in Phases,
         UNCHANGED <<streams, latest, handled, delivering, logged, nsq>>,
         \A t \in Streams : Got(t)' = Got(t),
         \A t \in Streams : done'[t] = done[t] \/ (t = s /\ done'[t]),
         pc' = [pc EXCEPT ![s] = to],
         \A t \in Streams \ {s} : id'[t] = id[t] /\ base'[t] = base[t],
         to \in Seeding => s \in streams,
         to = "raise" /\ latest[UserOf[s]] = 0
           => \A m \in HandledOf(UserOf[s]) : m <= id'[s],
         to \in Queried /\ latest[UserOf[s]] = 0 /\ s \in streams
           => HandledOf(UserOf[s]) = {},
         to = "handshake" /\ ~done[s]
           => \A m \in HandledOf(UserOf[s]) : m <= id'[s] \/ m \in Got(s),
         to = "loop" /\ ~done[s]
           => \A m \in HandledOf(UserOf[s]) : m <= base'[s] \/ m \in Got(s)
  PROVE  GapInv'
<1>1. \A t \in Streams : pc'[t] = IF t = s THEN to ELSE pc[t]
  BY DEF Context, TypeOK
<1>2. \A u : HandledOf(u)' = HandledOf(u)
  BY DEF HandledOf
<1>3. \A t \in Streams : Got(t)' = Got(t)
  OBVIOUS
<1>4. InOrder' /\ TableKnows'
  BY <1>2 DEF GapInv, InOrder, TableKnows
<1>5. SeedersIn'
  BY <1>1 DEF GapInv, SeedersIn
<1>6. QueryKnows'
  BY <1>1, <1>2 DEF GapInv, QueryKnows
<1>7. NothingToKnow'
  <2>1. streams \subseteq Streams
    BY DEF Context, TypeOK
  <2>2. QED BY <1>1, <1>2, <2>1 DEF GapInv, NothingToKnow
<1>8. ClientKnows'
  <2>1. SUFFICES ASSUME NEW t \in Streams, ~done'[t]
                 PROVE  /\ pc'[t] = "handshake" => \A m \in HandledOf(UserOf[t]) : m <= id'[t] \/ m \in Got(t)
                        /\ pc'[t] = "loop" => \A m \in HandledOf(UserOf[t]) : m <= base'[t] \/ m \in Got(t)
    BY <1>2, <1>3 DEF ClientKnows
  <2>2. ~done[t]
    BY <2>1
  <2>3. CASE t = s
    BY <1>1, <2>2, <2>3
  <2>4. CASE t # s
    BY <1>1, <2>2, <2>4 DEF GapInv, ClientKnows
  <2>5. QED BY <2>3, <2>4
<1>9. QED BY <1>4, <1>5, <1>6, <1>7, <1>8 DEF GapInv

\* What the client was given stays given when it is written.
LEMMA GotWritten ==
  ASSUME TypeOK, NEW s \in Streams, WriteOut(s)
  PROVE  \A t \in Streams : Got(t)' = Got(t)
<1>1. out[s] \in Seq(Events) /\ out[s] # <<>>
  BY DEF WriteOut, TypeOK
<1>2. /\ Head(out[s]) = out[s][1] /\ Len(out[s]) \in Nat /\ 1 \in 1..Len(out[s])
      /\ Len(Tail(out[s])) = Len(out[s]) - 1
      /\ \A i \in 1..Len(Tail(out[s])) : Tail(out[s])[i] = out[s][i + 1]
  BY <1>1
<1>3. /\ out'[s] = Tail(out[s])
      /\ written'[s] = IF Head(out[s]).type = "irc" THEN written[s] \cup {Head(out[s]).id}
                       ELSE written[s]
      /\ \A t \in Streams \ {s} : out'[t] = out[t] /\ written'[t] = written[t]
  BY DEF WriteOut, TypeOK
<1>4. \A m \in Got(s)' : m \in Got(s)
  BY <1>2, <1>3 DEF Got
<1>5. ASSUME NEW m \in Got(s) PROVE m \in Got(s)'
  <2>1. CASE m \in written[s]
    BY <1>3, <2>1 DEF Got
  <2>2. ASSUME NEW i \in 1..Len(out[s]), out[s][i].type = "irc", m = out[s][i].id
        PROVE  m \in Got(s)'
    <3>1. CASE i = 1
      BY <1>2, <1>3, <2>2, <3>1 DEF Got
    <3>2. CASE i # 1
      <4>1. i - 1 \in 1..Len(Tail(out[s])) /\ Tail(out[s])[i - 1] = out[s][i]
        BY <1>2, <3>2
      <4>2. QED BY <1>3, <2>2, <4>1 DEF Got
    <3>3. QED BY <3>1, <3>2
  <2>3. QED BY <1>5, <2>1, <2>2 DEF Got
<1>6. \A t \in Streams \ {s} : Got(t)' = Got(t)
  BY <1>3 DEF Got
<1>7. QED BY <1>4, <1>5, <1>6

LEMMA GapRegister ==
  ASSUME Context, GapInv, NEW s \in Streams, Register(s)
  PROVE  GapInv'
<1>1. /\ streams' = streams \cup {s} /\ pc[s] = "idle" /\ pc' = [pc EXCEPT ![s] = "check"]
      /\ UNCHANGED <<latest, id, base, out, written, handled, delivering, logged, nsq>>
      /\ \A t \in Streams : done[t] => done'[t]
  BY DEF Register, Goto, outside, client, Context, TypeOK
<1>2. \A t \in Streams : pc'[t] = IF t = s THEN "check" ELSE pc[t]
  BY <1>1 DEF Context, TypeOK
<1>3. /\ \A u : HandledOf(u)' = HandledOf(u)
      /\ \A t \in Streams : Got(t)' = Got(t)
  BY <1>1 DEF HandledOf, Got
<1>4. InOrder' /\ TableKnows'
  BY <1>1, <1>3 DEF GapInv, InOrder, TableKnows
<1>5. SeedersIn' /\ QueryKnows'
  BY <1>1, <1>2, <1>3 DEF GapInv, SeedersIn, QueryKnows
<1>6. NothingToKnow'
  BY <1>1, <1>2, <1>3 DEF GapInv, NothingToKnow, Queried, Context, TypeOK
<1>7. ClientKnows'
  BY <1>1, <1>2, <1>3 DEF GapInv, ClientKnows
<1>8. QED BY <1>4, <1>5, <1>6, <1>7 DEF GapInv

\* The handler's steps that leave the table alone.
LEMMA GapQuiet ==
  ASSUME Context, GapInv, NEW s \in Streams,
         \/ CheckKnown(s) \/ Query(s) \/ ReadLatest(s) \/ WriteHandshake(s)
         \/ WriteOut(s) \/ WriteReplay(s) \/ LoopDone(s) \/ ClientGone(s) \/ Stop(s)
         \/ WaitReplay(s) \/ Save(s)
  PROVE  GapInv'
<1> USE DEF registry, outside, client, Goto, Seeding, Queried
<1>1. TypeOK /\ UserOf[s] \in Users /\ pc \in [Streams -> Phases]
  BY DEF Context, TypeOK, StreamAssumption
<1>2. CASE CheckKnown(s)
  <2>1. PICK to \in {"read", "query"} :
          pc' = [pc EXCEPT ![s] = to] /\ (to = "read" => latest[UserOf[s]] # 0)
    BY <1>2 DEF CheckKnown
  <2>2. s \in streams
    BY <1>2 DEF CheckKnown, GapInv, SeedersIn
  <2>3. UNCHANGED <<streams, latest, out, written, handled, delivering, logged, nsq, id, base, done>>
    BY <1>2 DEF CheckKnown
  <2>4. \A t \in Streams : Got(t)' = Got(t)
    BY <2>3 DEF Got
  <2>5. to \in Phases
    BY <2>1 DEF Phases
  <2>6. QED BY <2>1, <2>2, <2>3, <2>4, <2>5, GapMoves
<1>3. CASE Query(s)
  <2>1. s \in streams /\ pc' = [pc EXCEPT ![s] = "raise"]
    BY <1>3 DEF Query, GapInv, SeedersIn
  <2>2. PICK n \in 0..MaxMsg : IsNewest(n, LoggedFor(UserOf[s])) /\ id' = [id EXCEPT ![s] = n]
    BY <1>3 DEF Query, Context, Undisturbed
  <2>3. UNCHANGED <<streams, latest, out, written, handled, delivering, logged, nsq, base, done>>
    BY <1>3 DEF Query
  <2>4. \A t \in Streams : Got(t)' = Got(t)
    BY <2>3 DEF Got
  <2>5. id'[s] = n /\ \A t \in Streams \ {s} : id'[t] = id[t]
    BY <1>1, <2>2 DEF TypeOK
  <2>6. \A m \in HandledOf(UserOf[s]) : m <= id'[s]
    <3>1. HandledOf(UserOf[s]) \subseteq LoggedFor(UserOf[s])
      BY <1>1 DEF HandledOf, LoggedFor, TypeOK
    <3>2. QED BY <2>2, <2>5, <3>1 DEF IsNewest
  <2>7. "raise" \in Phases
    BY DEF Phases
  <2>8. QED BY <2>1, <2>3, <2>4, <2>5, <2>6, <2>7, GapMoves
<1>4. CASE ReadLatest(s)
  <2>1. pc[s] = "read" /\ pc' = [pc EXCEPT ![s] = "handshake"]
    BY <1>4 DEF ReadLatest
  <2>2. UNCHANGED <<streams, latest, out, written, handled, delivering, logged, nsq, base, done>>
    BY <1>4 DEF ReadLatest
  <2>3. \A t \in Streams : Got(t)' = Got(t)
    BY <2>2 DEF Got
  <2>4. id'[s] = latest[UserOf[s]] /\ \A t \in Streams \ {s} : id'[t] = id[t]
    BY <1>1, <1>4 DEF ReadLatest, TypeOK
  <2>5. latest[UserOf[s]] = 0 /\ s \in streams => HandledOf(UserOf[s]) = {}
    BY <2>1 DEF GapInv, NothingToKnow
  <2>6. ~done[s] => \A m \in HandledOf(UserOf[s]) : m <= id'[s]
    <3>1. ~done[s] => s \in streams
      BY <2>1 DEF Context, RegistryExact, Served
    <3>2. latest[UserOf[s]] # 0 => \A m \in HandledOf(UserOf[s]) : m <= latest[UserOf[s]]
      BY <1>1 DEF GapInv, TableKnows
    <3>3. QED BY <2>4, <2>5, <3>1, <3>2
  <2>7. "handshake" \in Phases
    BY DEF Phases
  <2>8. QED BY <2>1, <2>2, <2>3, <2>4, <2>5, <2>6, <2>7, GapMoves
<1>5. CASE WriteHandshake(s)
  <2>1. pc[s] = "handshake" /\ pc' = [pc EXCEPT ![s] = "loop"]
    BY <1>5 DEF WriteHandshake
  <2>2. UNCHANGED <<streams, latest, out, written, handled, delivering, logged, nsq, done>>
    BY <1>5 DEF WriteHandshake
  <2>3. \A t \in Streams : Got(t)' = Got(t)
    BY <2>2 DEF Got
  <2>4. base'[s] = id[s] /\ \A t \in Streams \ {s} : id'[t] = id[t] /\ base'[t] = base[t]
    BY <1>1, <1>5 DEF WriteHandshake, TypeOK
  <2>5. latest[UserOf[s]] = 0 /\ s \in streams => HandledOf(UserOf[s]) = {}
    BY <2>1 DEF GapInv, NothingToKnow
  <2>6. ~done[s] => \A m \in HandledOf(UserOf[s]) : m <= base'[s] \/ m \in Got(s)
    BY <2>1, <2>4 DEF GapInv, ClientKnows
  <2>7. "loop" \in Phases
    BY DEF Phases
  <2>8. QED BY <2>1, <2>2, <2>3, <2>4, <2>5, <2>6, <2>7, GapMoves
<1>6. CASE WriteOut(s) \/ WriteReplay(s)
  <2>1. /\ pc[s] = "loop"
        /\ UNCHANGED <<streams, latest, handled, delivering, logged, nsq, id, base, done, pc>>
    BY <1>6 DEF WriteOut, WriteReplay
  <2>2. \A t \in Streams : Got(t)' = Got(t)
    <3>1. CASE WriteReplay(s)
      BY <3>1 DEF WriteReplay, Got
    <3>2. QED BY <1>1, <1>6, <3>1, GotWritten
  <2>3. pc' = [pc EXCEPT ![s] = "loop"]
    BY <1>1, <2>1
  <2>4. latest[UserOf[s]] = 0 /\ s \in streams => HandledOf(UserOf[s]) = {}
    BY <2>1 DEF GapInv, NothingToKnow
  <2>5. ~done[s] => \A m \in HandledOf(UserOf[s]) : m <= base[s] \/ m \in Got(s)
    BY <2>1 DEF GapInv, ClientKnows
  <2>6. "loop" \in Phases
    BY DEF Phases
  <2>7. QED BY <2>1, <2>2, <2>3, <2>4, <2>5, <2>6, GapMoves
<1>7. CASE LoopDone(s) \/ ClientGone(s) \/ Stop(s) \/ WaitReplay(s) \/ Save(s)
  <2>1. PICK to \in {"stop", "deregister", "save", "ended"} : pc' = [pc EXCEPT ![s] = to]
    BY <1>7 DEF LoopDone, ClientGone, Stop, WaitReplay, Save
  <2>2. UNCHANGED <<streams, latest, out, written, handled, delivering, logged, nsq, base>>
    BY <1>7 DEF LoopDone, ClientGone, Stop, WaitReplay, Save
  <2>3. \A t \in Streams : Got(t)' = Got(t)
    BY <2>2 DEF Got
  <2>4. \A t \in Streams \ {s} : id'[t] = id[t]
    BY <1>1, <1>7 DEF LoopDone, ClientGone, Stop, WaitReplay, Save, TypeOK
  <2>5. \A t \in Streams : done'[t] = done[t] \/ (t = s /\ done'[t])
    BY <1>1, <1>7 DEF LoopDone, ClientGone, Stop, WaitReplay, Save, TypeOK
  <2>6. to \in Phases
    BY <2>1 DEF Phases
  <2>7. QED BY <2>1, <2>2, <2>3, <2>4, <2>5, <2>6, GapMoves
<1>8. QED BY <1>2, <1>3, <1>4, <1>5, <1>6, <1>7

\* The query's result becomes the entry, or an older one stays.
LEMMA GapRaise ==
  ASSUME Context, GapInv, NEW s \in Streams, RaiseQueried(s)
  PROVE  GapInv'
<1> DEFINE u == UserOf[s]
<1>1. TypeOK /\ u \in Users /\ latest[u] \in Nat /\ id[s] \in 0..MaxMsg /\ id[s] \in Nat
  BY HandledFacts DEF Context, TypeOK
<1>2. pc[s] = "raise" /\ s \in streams
  BY DEF RaiseQueried, Goto, GapInv, SeedersIn, Seeding
<1>3. latest' = Raised(u, id[s])
  BY <1>2 DEF RaiseQueried, StreamsOf
<1>4. UNCHANGED <<streams, out, written, handled, delivering, logged, nsq, base, done>>
  BY DEF RaiseQueried, client, outside
<1>5. \A t \in Streams : pc'[t] = IF t = s THEN "read" ELSE pc[t]
  BY <1>1 DEF RaiseQueried, Goto, TypeOK
<1>6. \A t \in Streams \ {s} : id'[t] = id[t]
  BY <1>1 DEF RaiseQueried, TypeOK
<1>7. /\ \A v : HandledOf(v)' = HandledOf(v)
      /\ \A t \in Streams : Got(t)' = Got(t)
  BY <1>4 DEF HandledOf, Got
<1>8. \A v \in Users : v # u => latest'[v] = latest[v]
  BY <1>1, <1>3 DEF Raised, TypeOK
<1>9. latest'[u] = (IF id[s] > latest[u] THEN id[s] ELSE latest[u])
  BY <1>1, <1>3 DEF Raised, TypeOK
<1>10. latest[u] = 0 => \A m \in HandledOf(u) : m <= id[s]
  BY <1>2 DEF GapInv, QueryKnows
<1>11. latest[u] # 0 => \A m \in HandledOf(u) : m <= latest[u]
  BY <1>1 DEF GapInv, TableKnows
<1>12. \A m \in HandledOf(u) : m \in Nat /\ m > 0
  BY <1>1, HandledFacts
<1> HIDE DEF u
<1>13. \A m \in HandledOf(u) : m <= latest'[u]
  <2>1. CASE id[s] > latest[u]
    BY <1>1, <1>9, <1>10, <1>11, <1>12, <2>1
  <2>2. CASE ~(id[s] > latest[u])
    <3>1. latest[u] = 0 => id[s] = 0
      BY <1>1, <2>2
    <3>2. QED BY <1>1, <1>9, <1>10, <1>11, <1>12, <2>2, <3>1
  <2>3. QED BY <2>1, <2>2
<1>14. latest'[u] = 0 => latest[u] = 0 /\ HandledOf(u) = {}
  <2>1. ASSUME latest'[u] = 0 PROVE latest[u] = 0
    BY <1>1, <1>9, <2>1
  <2>2. ASSUME latest'[u] = 0, NEW m \in HandledOf(u) PROVE FALSE
    <3>1. m \in Nat /\ m > 0 /\ m <= 0
      BY <1>12, <1>13, <2>2
    <3>2. QED BY <3>1
  <2>3. QED BY <2>1, <2>2
<1>15. \A v \in Users : latest'[v] = 0 => latest[v] = 0
  BY <1>8, <1>14
<1>16. InOrder'
  BY <1>4 DEF GapInv, InOrder
<1>17. SeedersIn'
  BY <1>4, <1>5 DEF GapInv, SeedersIn, Seeding
<1>18. TableKnows'
  <2>1. ASSUME NEW v \in Users, latest'[v] # 0, NEW m \in HandledOf(v)
        PROVE  m <= latest'[v]
    BY <1>8, <1>13, <2>1 DEF GapInv, TableKnows
  <2>2. QED BY <1>7, <2>1 DEF TableKnows
<1>19. \A t \in Streams : UserOf[t] \in Users
  BY HandledFacts
<1>20. QueryKnows'
  <2>1. ASSUME NEW t \in Streams, pc'[t] = "raise", latest'[UserOf[t]] = 0,
               NEW m \in HandledOf(UserOf[t])
        PROVE  m <= id'[t]
    <3>1. t # s /\ pc[t] = "raise" /\ id'[t] = id[t] /\ latest[UserOf[t]] = 0
      BY <1>5, <1>6, <1>15, <1>19, <2>1
    <3>2. QED BY <2>1, <3>1 DEF GapInv, QueryKnows
  <2>2. QED BY <1>7, <2>1 DEF QueryKnows
<1>21. NothingToKnow'
  <2>1. ASSUME NEW t \in streams, pc'[t] \in Queried, latest'[UserOf[t]] = 0
        PROVE  HandledOf(UserOf[t]) = {}
    <3>1. t \in Streams
      BY <1>1 DEF TypeOK
    <3>2. CASE t = s
      BY <1>14, <2>1, <3>2 DEF u
    <3>3. CASE t # s
      <4>1. pc[t] \in Queried /\ latest[UserOf[t]] = 0
        BY <1>5, <1>15, <1>19, <2>1, <3>1, <3>3
      <4>2. QED BY <4>1 DEF GapInv, NothingToKnow
    <3>4. QED BY <3>2, <3>3
  <2>2. QED BY <1>4, <1>7, <2>1 DEF NothingToKnow
<1>22. ClientKnows'
  <2>1. ASSUME NEW t \in Streams, pc'[t] \in {"handshake", "loop"}
        PROVE  pc[t] = pc'[t] /\ id'[t] = id[t]
    BY <1>5, <1>6, <2>1
  <2>2. QED BY <1>4, <1>7, <2>1 DEF GapInv, ClientKnows
<1>23. QED BY <1>16, <1>17, <1>18, <1>20, <1>21, <1>22 DEF GapInv

\* What a step that may remove streams does to the parts about the table: an
\* entry stays as long as its user keeps a stream, so it is enough that the
\* new values know everything.
LEMMA GapTable ==
  ASSUME Context, GapInv, NEW S \in SUBSET streams, NEW newLatest,
         RemoveLocked(S, newLatest), UNCHANGED <<pc, id>>,
         \A t \in S : pc[t] \notin Seeding,
         \A v \in Users : newLatest[v] = 0 => latest[v] = 0,
         \A v \in Users : newLatest[v] # 0 => \A m \in HandledOf(v)' : m <= newLatest[v],
         \A v \in Users : newLatest[v] = 0 /\ StreamsOf(v) # {} => HandledOf(v)' = HandledOf(v)
  PROVE  SeedersIn' /\ TableKnows' /\ QueryKnows' /\ NothingToKnow'
<1>1. TypeOK /\ StreamAssumption /\ streams' = streams \ S /\ streams \subseteq Streams
  BY DEF Context, TypeOK, RemoveLocked
<1>2. \A t \in Streams : UserOf[t] \in Users
  BY <1>1 DEF StreamAssumption
<1>3. \A t \in streams' : latest'[UserOf[t]] = newLatest[UserOf[t]]
  <2>1. ASSUME NEW t \in streams' PROVE latest'[UserOf[t]] = newLatest[UserOf[t]]
    <3>1. UserOf[t] \in Users /\ t \in StreamsOf(UserOf[t]) /\ t \notin S
      BY <1>1, <1>2 DEF StreamsOf
    <3>2. ~(StreamsOf(UserOf[t]) \subseteq S)
      BY <3>1
    <3>3. QED BY <3>1, <3>2 DEF RemoveLocked
  <2>2. QED BY <2>1
<1>4. SeedersIn'
  BY <1>1 DEF GapInv, SeedersIn
<1>5. TableKnows'
  <2>1. ASSUME NEW v \in Users, latest'[v] # 0 PROVE \A m \in HandledOf(v)' : m <= latest'[v]
    <3>1. latest'[v] = newLatest[v]
      BY <2>1 DEF RemoveLocked
    <3>2. QED BY <2>1, <3>1
  <2>2. QED BY <2>1 DEF TableKnows
<1>6. ASSUME NEW t \in streams', latest'[UserOf[t]] = 0
      PROVE  latest[UserOf[t]] = 0 /\ HandledOf(UserOf[t])' = HandledOf(UserOf[t])
  <2>1. t \in streams /\ t \in Streams /\ UserOf[t] \in Users
    BY <1>1, <1>2
  <2>2. newLatest[UserOf[t]] = 0 /\ StreamsOf(UserOf[t]) # {}
    BY <1>3, <1>6, <2>1 DEF StreamsOf
  <2>3. QED BY <2>1, <2>2
<1>7. QueryKnows'
  <2>1. ASSUME NEW t \in Streams, pc[t] = "raise", latest'[UserOf[t]] = 0
        PROVE  \A m \in HandledOf(UserOf[t])' : m <= id[t]
    <3>1. t \in streams'
      BY <1>1, <2>1 DEF GapInv, SeedersIn, Seeding
    <3>2. latest[UserOf[t]] = 0 /\ HandledOf(UserOf[t])' = HandledOf(UserOf[t])
      BY <1>6, <2>1, <3>1
    <3>3. QED BY <2>1, <3>2 DEF GapInv, QueryKnows
  <2>2. QED BY <2>1 DEF QueryKnows
<1>8. NothingToKnow'
  <2>1. ASSUME NEW t \in streams', pc[t] \in Queried, latest'[UserOf[t]] = 0
        PROVE  HandledOf(UserOf[t])' = {}
    <3>1. latest[UserOf[t]] = 0 /\ HandledOf(UserOf[t])' = HandledOf(UserOf[t])
      BY <1>6, <2>1
    <3>2. QED BY <1>1, <2>1, <3>1 DEF GapInv, NothingToKnow
  <2>2. QED BY <2>1 DEF NothingToKnow
<1>9. QED BY <1>4, <1>5, <1>7, <1>8

LEMMA GapDeregister ==
  ASSUME Context, GapInv, NEW s \in Streams, Deregister(s)
  PROVE  GapInv'
<1>1. /\ RemoveLocked({s}, latest) /\ pc[s] = "deregister"
      /\ pc' = [pc EXCEPT ![s] = "wait"]
      /\ UNCHANGED <<id, out, done, written, base, handled, delivering, logged, nsq>>
  BY DEF Deregister, Goto, client, outside
<1>2. TypeOK /\ StreamAssumption /\ streams \subseteq Streams
  BY DEF Context, TypeOK
<1>3. \A t \in Streams : pc'[t] = IF t = s THEN "wait" ELSE pc[t]
  BY <1>1, <1>2 DEF TypeOK
<1>4. /\ \A v : HandledOf(v)' = HandledOf(v)
      /\ \A t \in Streams : Got(t)' = Got(t)
  BY <1>1 DEF HandledOf, Got
<1>5. streams' = streams \ {s}
  BY <1>1 DEF RemoveLocked
<1>6. \A t \in Streams : UserOf[t] \in Users
  BY <1>2 DEF StreamAssumption
<1>7. \A t \in streams' : latest'[UserOf[t]] = latest[UserOf[t]]
  <2>1. ASSUME NEW t \in streams' PROVE latest'[UserOf[t]] = latest[UserOf[t]]
    <3>1. UserOf[t] \in Users /\ t \in StreamsOf(UserOf[t]) /\ t # s
      BY <1>2, <1>5, <1>6 DEF StreamsOf
    <3>2. ~(StreamsOf(UserOf[t]) \subseteq {s})
      BY <3>1
    <3>3. QED BY <1>1, <3>1, <3>2 DEF RemoveLocked
  <2>2. QED BY <2>1
<1>8. InOrder'
  BY <1>1 DEF GapInv, InOrder
<1>9. SeedersIn'
  BY <1>3, <1>5 DEF GapInv, SeedersIn, Seeding
<1>10. TableKnows'
  <2>1. \A v \in Users : latest'[v] # 0 => latest'[v] = latest[v]
    BY <1>1 DEF RemoveLocked
  <2>2. QED BY <1>4, <2>1 DEF GapInv, TableKnows
<1>11. QueryKnows'
  <2>1. ASSUME NEW t \in Streams, pc'[t] = "raise", latest'[UserOf[t]] = 0
        PROVE  pc[t] = "raise" /\ latest[UserOf[t]] = 0
    BY <1>3, <1>5, <1>7, <2>1 DEF GapInv, SeedersIn, Seeding
  <2>2. QED BY <1>1, <1>4, <2>1 DEF GapInv, QueryKnows
<1>12. NothingToKnow'
  <2>1. \A t \in streams' : t \in streams /\ t \in Streams /\ pc'[t] = pc[t]
    BY <1>2, <1>3, <1>5
  <2>2. QED BY <1>4, <1>7, <2>1 DEF GapInv, NothingToKnow
<1>13. ClientKnows'
  BY <1>1, <1>3, <1>4 DEF GapInv, ClientKnows
<1>14. QED BY <1>8, <1>9, <1>10, <1>11, <1>12, <1>13 DEF GapInv

\* What an offer leaves in place: what a client was given, and, unless it stops
\* the stream, the event.
LEMMA OfferGives ==
  ASSUME TypeOK, StreamAssumption, NEW S, NEW ev \in [Users -> Events], NEW newLatest,
         OfferLocked(S, ev, newLatest), UNCHANGED written, NEW s \in Streams
  PROVE  /\ Got(s) \subseteq Got(s)'
         /\ done[s] => done'[s]
         /\ s \in S /\ ev[UserOf[s]].type = "irc" => done'[s] \/ ev[UserOf[s]].id \in Got(s)'
<1>1. out[s] \in Seq(Events) /\ ev[UserOf[s]] \in Events
  BY DEF TypeOK, StreamAssumption
<1>2. done[s] => done'[s]
  BY DEF OfferLocked
<1>3. CASE out'[s] = Append(out[s], ev[UserOf[s]])
  <2>1. /\ Len(out'[s]) = Len(out[s]) + 1 /\ Len(out[s]) \in Nat
        /\ \A i \in 1..Len(out[s]) : out'[s][i] = out[s][i]
        /\ out'[s][Len(out[s]) + 1] = ev[UserOf[s]]
    BY <1>1, <1>3
  <2>2. \A i \in 1..Len(out[s]) : i \in 1..Len(out'[s])
    BY <2>1
  <2>3. Got(s) \subseteq Got(s)'
    BY <2>1, <2>2 DEF Got
  <2>4. Len(out[s]) + 1 \in 1..Len(out'[s])
    BY <2>1
  <2>5. ev[UserOf[s]].type = "irc" => ev[UserOf[s]].id \in Got(s)'
    BY <2>1, <2>4 DEF Got
  <2>6. QED BY <1>2, <2>3, <2>5
<1>4. CASE out'[s] # Append(out[s], ev[UserOf[s]])
  <2>1. out'[s] = out[s]
    BY <1>4 DEF OfferLocked
  <2>2. s \in S => done'[s]
    BY <1>4 DEF OfferLocked
  <2>3. Got(s) \subseteq Got(s)'
    BY <2>1 DEF Got
  <2>4. QED BY <1>2, <2>2, <2>3
<1>5. QED BY <1>3, <1>4

\* A ping is offered.
LEMMA GapPing ==
  ASSUME Context, GapInv, NEW S \in SUBSET streams, OfferLocked(S, Pings, latest),
         UNCHANGED <<pc, id, delivering, outside, handled, client>>
  PROVE  GapInv'
<1>1. TypeOK /\ StreamAssumption /\ streams \subseteq Streams /\ Pings \in [Users -> Events]
  BY EventTypes DEF Context, TypeOK
<1>2. PICK slow \in SUBSET streams :
        /\ RemoveLocked(slow, latest)
        /\ \A t \in slow : Len(out[t]) >= BufferSize
  BY DEF OfferLocked
<1>3. \A t \in slow : pc[t] \notin Seeding
  <2>1. \A t \in Streams : Len(out[t]) \in Nat
    BY <1>1 DEF TypeOK
  <2>2. BufferSize \in Nat
    BY <1>1 DEF StreamAssumption
  <2>3. \A t \in Streams : pc[t] \in Seeding => Len(out[t]) < BufferSize
    BY DEF Context, SeededInTime
  <2>4. QED BY <1>1, <1>2, <2>1, <2>2, <2>3
<1>4. \A v : HandledOf(v)' = HandledOf(v)
  BY DEF HandledOf
<1>5. InOrder'
  BY DEF GapInv, InOrder, outside
<1>6. SeedersIn' /\ TableKnows' /\ QueryKnows' /\ NothingToKnow'
  <2>1. \A v \in Users : latest[v] # 0 => \A m \in HandledOf(v)' : m <= latest[v]
    BY <1>4 DEF GapInv, TableKnows
  <2>2. QED BY <1>2, <1>3, <1>4, <2>1, GapTable
<1>7. ClientKnows'
  <2>1. UNCHANGED <<written, base>>
    BY DEF client
  <2>2. \A t \in Streams : Got(t) \subseteq Got(t)' /\ (done[t] => done'[t])
    BY <1>1, <2>1, OfferGives
  <2>3. QED BY <1>4, <2>1, <2>2 DEF GapInv, ClientKnows
<1>8. QED BY <1>5, <1>6, <1>7 DEF GapInv

\* A message is offered to its owner's streams: it is newer than all before.
LEMMA GapDeliver ==
  ASSUME Context, GapInv, DeliverToOwner
  PROVE  GapInv'
<1>0. PICK u \in Users : u = OwnerOf[delivering] /\ delivering \in Msgs
  BY DEF DeliverToOwner, Context, TypeOK, StreamAssumption
<1> DEFINE ev == [v \in Users |-> Irc(delivering)]
           raised == IF StreamsOf(u) # {} THEN Raised(u, delivering) ELSE latest
<1>1. TypeOK /\ StreamAssumption /\ streams \subseteq Streams /\ LatestOnlyWhileStreaming
  BY DEF Context, TypeOK
<1>2. delivering \in Msgs /\ delivering # 0 /\ delivering \in Nat
  BY <1>0, HandledFacts DEF DeliverToOwner
<1>3. /\ OfferLocked(StreamsOf(u), ev, raised)
      /\ handled' = handled \cup {delivering} /\ delivering' = 0
      /\ UNCHANGED <<pc, id, logged, nsq, base, written>>
  BY <1>0 DEF DeliverToOwner, outside, client
<1>4. ev \in [Users -> Events] /\ \A v \in Users : ev[v].type = "irc" /\ ev[v].id = delivering
  BY <1>1, <1>2, EventTypes DEF Irc
<1>5. \A m \in handled : m < delivering
  BY <1>2 DEF GapInv, InOrder
<1>6. /\ HandledOf(u)' = HandledOf(u) \cup {delivering}
      /\ \A v \in Users : v # u => HandledOf(v)' = HandledOf(v)
  BY <1>0, <1>3 DEF HandledOf
<1>7. InOrder'
  <2>1. \A m \in nsq : delivering < m
    BY DEF GapInv, InOrder
  <2>2. \A m \in nsq : m \in Nat /\ m > 0
    BY HandledFacts
  <2>3. QED BY <1>3, <2>1, <2>2 DEF GapInv, InOrder
<1>8. /\ \A v \in Users : v # u => raised[v] = latest[v]
      /\ StreamsOf(u) = {} => raised[u] = latest[u]
      /\ StreamsOf(u) # {} => raised[u] = IF delivering > latest[u] THEN delivering ELSE latest[u]
  BY <1>1, <1>2 DEF Raised, TypeOK
<1>9. \A v \in Users : raised[v] # 0 => \A m \in HandledOf(v)' : m <= raised[v]
  <2>1. SUFFICES ASSUME NEW v \in Users, raised[v] # 0, NEW m \in HandledOf(v)'
                 PROVE  m <= raised[v]
    OBVIOUS
  <2>2. latest[v] # 0 => \A n \in HandledOf(v) : n <= latest[v]
    BY DEF GapInv, TableKnows
  <2>3. CASE v # u
    BY <1>6, <1>8, <2>1, <2>2, <2>3
  <2>4. CASE v = u
    <3>1. StreamsOf(u) # {}
      BY <1>1, <1>2, <1>8, <2>1, <2>4 DEF LatestOnlyWhileStreaming
    <3>2. m <= delivering
      <4>1. m = delivering \/ m \in handled
        BY <1>6, <2>1, <2>4 DEF HandledOf
      <4>2. handled \subseteq Nat
        BY HandledFacts
      <4>3. \A n \in handled : n < delivering /\ n \in Nat
        BY <1>5, <4>2
      <4>4. QED BY <1>2, <4>1, <4>3
    <3>3. m \in Nat /\ latest[u] \in Nat
      <4>1. m = delivering \/ m \in handled
        BY <1>6, <2>1, <2>4 DEF HandledOf
      <4>2. QED BY <1>2, <4>1, HandledFacts
    <3> HIDE DEF raised
    <3>4. QED BY <1>2, <1>8, <2>1, <2>4, <3>1, <3>2, <3>3
  <2>5. QED BY <2>3, <2>4
<1>10. \A v \in Users : raised[v] = 0 => latest[v] = 0
  BY <1>2, <1>8, HandledFacts
<1>11. \A v \in Users : raised[v] = 0 /\ StreamsOf(v) # {} => HandledOf(v)' = HandledOf(v)
  <2>1. StreamsOf(u) # {} => raised[u] # 0
    BY <1>2, <1>8, HandledFacts
  <2>2. QED BY <1>6, <2>1
<1>12. StreamsOf(u) \subseteq streams
  BY DEF StreamsOf
<1>13. ASSUME NEW s \in Streams, ~done'[s], pc[s] \in {"handshake", "loop"}, UserOf[s] = u
       PROVE  delivering \in Got(s)'
  <2>1. ~done[s] /\ (s \in StreamsOf(u) => ev[UserOf[s]].id \in Got(s)')
    BY <1>1, <1>3, <1>4, <1>13, OfferGives DEF StreamAssumption
  <2>2. s \in streams
    BY <1>13, <2>1 DEF Context, RegistryExact, Served
  <2>3. QED BY <1>2, <1>4, <1>13, <2>1, <2>2 DEF StreamsOf
<1>14. \A s \in Streams : Got(s) \subseteq Got(s)' /\ (done[s] => done'[s])
  BY <1>1, <1>3, <1>4, OfferGives
<1> HIDE DEF ev, raised
<1>15. PICK slow \in SUBSET streams :
         /\ RemoveLocked(slow, raised)
         /\ \A t \in slow : Len(out[t]) >= BufferSize
  BY <1>3, <1>12 DEF OfferLocked
<1>16. \A t \in slow : pc[t] \notin Seeding
  <2>1. \A t \in Streams : Len(out[t]) \in Nat
    BY <1>1 DEF TypeOK
  <2>2. BufferSize \in Nat
    BY <1>1 DEF StreamAssumption
  <2>3. \A t \in Streams : pc[t] \in Seeding => Len(out[t]) < BufferSize
    BY DEF Context, SeededInTime
  <2>4. QED BY <1>1, <1>15, <2>1, <2>2, <2>3
<1>17. SeedersIn' /\ TableKnows' /\ QueryKnows' /\ NothingToKnow'
  BY <1>3, <1>9, <1>10, <1>11, <1>15, <1>16, GapTable
<1>18. ClientKnows'
  <2>1. SUFFICES ASSUME NEW s \in Streams, ~done'[s], pc[s] \in {"handshake", "loop"},
                        NEW m \in HandledOf(UserOf[s])'
                 PROVE  \/ m \in Got(s)'
                        \/ pc[s] = "handshake" /\ m <= id[s]
                        \/ pc[s] = "loop" /\ m <= base[s]
    BY <1>3 DEF ClientKnows
  <2>2. CASE m \in HandledOf(UserOf[s])
    <3>1. ~done[s] /\ Got(s) \subseteq Got(s)'
      BY <1>14, <2>1
    <3>2. QED BY <2>1, <2>2, <3>1 DEF GapInv, ClientKnows
  <2>3. CASE m \notin HandledOf(UserOf[s])
    <3>1. UserOf[s] = u /\ m = delivering
      BY <1>1, <1>6, <2>1, <2>3 DEF StreamAssumption
    <3>2. QED BY <1>13, <2>1, <3>1
  <2>4. QED BY <2>2, <2>3
<1>19. QED BY <1>7, <1>17, <1>18 DEF GapInv

\* A step that leaves the handlers and the table alone and delivers nothing.
LEMMA GapOutside ==
  ASSUME GapInv, InOrder',
         UNCHANGED <<streams, latest, pc, id, base, out, written, handled>>,
         \A s \in Streams : done[s] => done'[s]
  PROVE  GapInv'
<1>1. /\ \A v : HandledOf(v)' = HandledOf(v)
      /\ \A s \in Streams : Got(s)' = Got(s)
  BY DEF HandledOf, Got
<1>2. SeedersIn' /\ TableKnows' /\ QueryKnows' /\ NothingToKnow'
  BY <1>1 DEF GapInv, SeedersIn, TableKnows, QueryKnows, NothingToKnow
<1>3. ClientKnows'
  BY <1>1 DEF GapInv, ClientKnows
<1>4. QED BY <1>2, <1>3 DEF GapInv

\* The next message in order; without any stream there is nobody to miss it.
LEMMA GapReceive ==
  ASSUME Context, GapInv, NEW m \in Msgs, Receive(m)
  PROVE  GapInv'
<1>1. /\ m \in nsq /\ delivering = 0 /\ nsq' = nsq \ {m} /\ \A n \in nsq : m <= n
      /\ UNCHANGED <<streams, latest, pc, id, base, out, done, written, logged>>
  BY DEF Receive, Context, Undisturbed, registry, client
<1>2. \A n \in nsq : n \in Nat /\ n > 0
  BY HandledFacts
<1>3. m \in Nat /\ m > 0
  BY HandledFacts
<1>4. /\ \A n \in logged : \A k \in Msgs : k < n => k \in logged
      /\ \A n \in nsq : \A h \in handled : h < n
  BY DEF GapInv, InOrder
<1>5. \A n \in nsq' : m < n
  BY <1>1, <1>2, <1>3
<1>6. CASE streams = {}
  <2>1. handled' = handled \cup {m} /\ delivering' = delivering
    BY <1>6 DEF Receive
  <2>2. InOrder'
    BY <1>1, <1>2, <1>4, <1>5, <2>1 DEF InOrder
  <2>3. SeedersIn' /\ \A s \in Streams : pc[s] \notin Seeding
    BY <1>1, <1>6 DEF GapInv, SeedersIn
  <2>4. TableKnows'
    <3>1. \A u \in Users : latest[u] = 0
      BY <1>6 DEF Context, LatestOnlyWhileStreaming, StreamsOf
    <3>2. QED BY <1>1, <3>1 DEF TableKnows
  <2>5. QueryKnows' /\ NothingToKnow'
    BY <1>1, <1>6, <2>3 DEF QueryKnows, NothingToKnow, Seeding
  <2>6. ClientKnows'
    <3>1. \A s \in Streams : pc[s] \in Served => done[s]
      BY <1>6 DEF Context, RegistryExact
    <3>2. QED BY <1>1, <3>1 DEF ClientKnows, Served
  <2>7. QED BY <2>2, <2>3, <2>4, <2>5, <2>6 DEF GapInv
<1>7. CASE streams # {}
  <2>1. handled' = handled /\ delivering' = m
    BY <1>7 DEF Receive
  <2>2. InOrder'
    BY <1>1, <1>4, <1>5, <2>1 DEF InOrder
  <2>3. QED BY <1>1, <2>1, <2>2, GapOutside
<1>8. QED BY <1>6, <1>7

\* A new log row is newer than everything before.
LEMMA GapLog ==
  ASSUME Context, GapInv, NEW m \in Msgs, LogMessage(m) \/ LoseMessage(m)
  PROVE  GapInv'
<1>1. UNCHANGED <<streams, latest, pc, id, base, out, done, written, handled, delivering>>
  BY DEF LogMessage, LoseMessage, registry, client
<1>2. CASE LoseMessage(m)
  <2>1. InOrder'
    BY <1>1, <1>2 DEF LoseMessage, GapInv, InOrder
  <2>2. QED BY <1>1, <2>1, GapOutside
<1>3. CASE LogMessage(m)
  <2>1. /\ m \notin logged /\ \A n \in Msgs : n < m => n \in logged
        /\ logged' = logged \cup {m} /\ nsq' = nsq \cup {m}
    BY <1>3 DEF LogMessage, Context, Undisturbed
  <2>2. \A n \in logged : \A k \in Msgs : k < n => k \in logged
    BY DEF GapInv, InOrder
  <2>3. \A n \in logged : n \in Nat /\ m \in Nat /\ n < m
    <3>1. SUFFICES ASSUME NEW n \in logged PROVE n \in Nat /\ m \in Nat /\ n < m
      OBVIOUS
    <3>2. n \in Nat /\ m \in Nat
      BY HandledFacts
    <3>3. n # m /\ ~(m < n)
      BY <2>1, <2>2
    <3>4. QED BY <3>2, <3>3
  <2>4. handled \subseteq logged /\ delivering \in {0} \cup logged
    BY DEF Context, TypeOK
  <2>5. \A n \in logged' : \A k \in Msgs : k < n => k \in logged'
    BY <2>1, <2>2
  <2>6. \A n \in nsq' : \A h \in handled : h < n
    BY <2>1, <2>3, <2>4 DEF GapInv, InOrder
  <2>7. \A n \in nsq' : delivering < n
    <3>1. delivering < m
      BY <2>3, <2>4, HandledFacts
    <3>2. QED BY <2>1, <3>1 DEF GapInv, InOrder
  <2>8. InOrder'
    BY <1>1, <2>5, <2>6, <2>7 DEF GapInv, InOrder
  <2>9. QED BY <1>1, <2>8, GapOutside
<1>4. QED BY <1>2, <1>3

LEMMA GapStep ==
  ASSUME Context, GapInv, [Next]_vars
  PROVE  GapInv'
<1>1. ASSUME NEW s \in Streams, Register(s) \/ Handler(s) \/ ClientGone(s)
      PROVE  GapInv'
  BY <1>1, GapRegister, GapQuiet, GapRaise, GapDeregister DEF Handler
<1>2. ASSUME NEW s \in Streams, Replay(s)
      PROVE  GapInv'
  <2>1. UNCHANGED <<streams, latest, pc, id, base, out, done, written, handled, delivering, logged, nsq>>
    BY <1>2 DEF Replay, ReplayFetched, ReplayFails, PushStopped, registry, client, outside
  <2>2. InOrder'
    BY <2>1 DEF GapInv, InOrder
  <2>3. QED BY <2>1, <2>2, GapOutside
<1>3. CASE PingAll \/ \E s \in Streams : ServePing(s)
  BY <1>3, GapPing DEF PingAll, ServePing
<1>4. CASE CloseStreams
  <2>1. /\ UNCHANGED <<streams, latest, pc, id, base, out, written, handled, delivering, logged, nsq>>
        /\ \A s \in Streams : done[s] => done'[s]
    BY <1>4 DEF CloseStreams, registry, client, outside
  <2>2. InOrder'
    BY <2>1 DEF GapInv, InOrder
  <2>3. QED BY <2>1, <2>2, GapOutside
<1>5. CASE Deliver
  <2>1. ~LookupFails
    BY DEF LookupFails, Context, Undisturbed
  <2>2. QED BY <1>5, <2>1, GapReceive, GapDeliver DEF Deliver
<1>6. ASSUME NEW m \in Msgs, LogMessage(m) \/ LoseMessage(m) \/ Redeliver(m)
      PROVE  GapInv'
  <2>1. ~Redeliver(m)
    BY DEF Redeliver, Context, Undisturbed
  <2>2. QED BY <1>6, <2>1, GapLog
<1>7. CASE UNCHANGED vars
  <2>1. InOrder'
    BY <1>7 DEF vars, GapInv, InOrder
  <2>2. QED BY <1>7, <2>1, GapOutside DEF vars
<1>8. QED BY <1>1, <1>2, <1>3, <1>4, <1>5, <1>6, <1>7 DEF Next

LEMMA GapAlways ==
  ASSUME Undisturbed
  PROVE  Spec /\ []SeededInTime => [](GapInv /\ Context)
<1>1. Init => GapInv
  BY DEF Init, GapInv, InOrder, SeedersIn, TableKnows, QueryKnows, NothingToKnow,
         ClientKnows, HandledOf, Seeding, Queried
<1>2. TypeOK /\ RegistryExact /\ LatestOnlyWhileStreaming /\ SeededInTime => Context
  BY Undisturbed, StreamAssumption DEF Context
<1>3. Context /\ GapInv /\ [Next]_vars => GapInv'
  BY GapStep
<1>4. QED
  BY <1>1, <1>2, <1>3, StreamTypeOK, StreamRegistry, StreamLatestOnlyWhileStreaming, PTL
  DEF Spec

\* For any users, streams and messages: if log rows come in order and once, with
\* their owners, the queries work, and no stream overflows during them, a
\* connected client has, or was told by its handshake of, every message of its
\* user that was delivered.  Dropped slow clients, clients that leave, second
\* streams, shutdown and messages lost on the way do not open a gap
\* (serveStream's query after the registration, Deliver's one critical section).
THEOREM StreamNothingMissed ==
  ASSUME Undisturbed
  PROVE  Spec /\ []SeededInTime => []NothingMissed
<1>1. GapInv => NothingMissed
  BY DEF GapInv, ClientKnows, NothingMissed, Open, OwnHandled, HandledOf
<1>2. QED BY <1>1, GapAlways, PTL

\* Under the same conditions the id in a ping to a connected client is never
\* older than a message of its user that was delivered, so a client that lost
\* one notices (raiseLatestLocked, pingAll, servePing).
THEOREM StreamLatestCurrent ==
  ASSUME Undisturbed
  PROVE  Spec /\ []SeededInTime => []LatestCurrent
<1>1. GapInv /\ Context => LatestCurrent
  <2> SUFFICES ASSUME GapInv, Context, NEW s \in Streams, Open(s), NEW m \in OwnHandled(s)
               PROVE  m <= latest[UserOf[s]]
    BY DEF LatestCurrent
  <2>1. s \in streams /\ pc[s] \in Queried
    BY DEF Open, Context, RegistryExact, Served, Queried
  <2>2. m \in HandledOf(UserOf[s]) /\ UserOf[s] \in Users
    BY HandledFacts DEF OwnHandled, HandledOf
  <2>3. QED BY <2>1, <2>2 DEF GapInv, NothingToKnow, TableKnows
<1>2. QED BY <1>1, GapAlways, PTL

-----------------------------------------------------------------------------
(***************************************************************************)
(* The server implements ClientFeed.  Whether a client is connected, what  *)
(* its handshake said and what it was given change together in each step.  *)
(***************************************************************************)
LEMMA StatusIs ==
  ASSUME NEW s \in Streams
  PROVE  /\ Open(s) => Status(s) = "connected" /\ ~Beginning(s)
         /\ Beginning(s) => Status(s) = "new" /\ From(s) = 0 /\ Given(s) = {}
         /\ ~Open(s) /\ ~Beginning(s) => Status(s) = "gone" /\ From(s) = 0 /\ Given(s) = {}
         /\ Open(s)' => Status(s)' = "connected" /\ ~Beginning(s)'
         /\ Beginning(s)' => Status(s)' = "new" /\ From(s)' = 0 /\ Given(s)' = {}
         /\ ~Open(s)' /\ ~Beginning(s)' => Status(s)' = "gone" /\ From(s)' = 0 /\ Given(s)' = {}
BY DEF Open, Beginning, Status, From, Given

\* Streams may end, nothing else changes.
LEMMA FeedEnds ==
  ASSUME handled' = handled,
         \A s \in Streams : Open(s)' => Open(s) /\ base'[s] = base[s] /\ Got(s)' = Got(s),
         \A s \in Streams : Beginning(s)' => Beginning(s)
  PROVE  [Feed!Next]_Feed!feedVars
<1> DEFINE S == {s \in Streams : Status(s) # "gone" /\ Status(s)' = "gone"}
<1>1. \A s \in Streams :
        IF s \in S THEN Status(s)' = "gone" /\ From(s)' = 0 /\ Given(s)' = {}
        ELSE Status(s)' = Status(s) /\ From(s)' = From(s) /\ Given(s)' = Given(s)
  <2> SUFFICES ASSUME NEW s \in Streams
               PROVE  IF s \in S THEN Status(s)' = "gone" /\ From(s)' = 0 /\ Given(s)' = {}
                      ELSE Status(s)' = Status(s) /\ From(s)' = From(s) /\ Given(s)' = Given(s)
    OBVIOUS
  <2>1. CASE Open(s)'
    <3>1. Open(s) /\ base'[s] = base[s] /\ Got(s)' = Got(s)
      BY <2>1
    <3>2. From(s)' = From(s) /\ Given(s)' = Given(s)
      BY <2>1, <3>1 DEF From, Given
    <3>3. QED BY <2>1, <3>1, <3>2, StatusIs
  <2>2. CASE Beginning(s)'
    BY <2>2, StatusIs
  <2>3. CASE ~Open(s)' /\ ~Beginning(s)'
    BY <2>3, StatusIs
  <2>4. QED BY <2>1, <2>2, <2>3
<1>2. S \subseteq {s \in Streams : [t \in Streams |-> Status(t)][s] # "gone"}
  OBVIOUS
<1> HIDE DEF S
<1>3. CASE S = {}
  BY <1>1, <1>3 DEF Feed!feedVars
<1>4. CASE S # {}
  <2>1. Feed!Ends(S, [s \in Streams |-> Given(s)])
    BY <1>1 DEF Feed!Ends
  <2>2. Feed!Disconnect
    BY <1>2, <1>4, <2>1 DEF Feed!Disconnect
  <2>3. QED BY <2>2 DEF Feed!Next
<1>5. QED BY <1>3, <1>4

\* A message is delivered to its owner's streams.
LEMMA FeedDelivers ==
  ASSUME NEW m \in Msgs, \A n \in handled : n < m, handled' = handled \cup {m},
         \A s \in Streams : Open(s)' =>
           /\ Open(s) /\ base'[s] = base[s]
           /\ Got(s)' = IF OwnerOf[m] = UserOf[s] THEN Got(s) \cup {m} ELSE Got(s),
         \A s \in Streams : Beginning(s)' => Beginning(s),
         \A s \in Streams : OwnerOf[m] # UserOf[s] =>
           (Open(s) => Open(s)') /\ (Beginning(s) => Beginning(s)')
  PROVE  Feed!Next
<1> DEFINE S == {s \in Streams : OwnerOf[m] = UserOf[s] /\ Status(s)' = "gone"}
           given == [s \in Streams |-> IF Open(s) /\ OwnerOf[m] = UserOf[s]
                                       THEN Given(s) \cup {m} ELSE Given(s)]
<1>1. \A s \in Streams :
        IF s \in S THEN Status(s)' = "gone" /\ From(s)' = 0 /\ Given(s)' = {}
        ELSE Status(s)' = Status(s) /\ From(s)' = From(s) /\ Given(s)' = given[s]
  <2> SUFFICES ASSUME NEW s \in Streams
               PROVE  IF s \in S THEN Status(s)' = "gone" /\ From(s)' = 0 /\ Given(s)' = {}
                      ELSE Status(s)' = Status(s) /\ From(s)' = From(s) /\ Given(s)' = given[s]
    OBVIOUS
  <2>1. CASE Open(s)'
    <3>1. /\ Open(s) /\ base'[s] = base[s]
          /\ Got(s)' = IF OwnerOf[m] = UserOf[s] THEN Got(s) \cup {m} ELSE Got(s)
      BY <2>1
    <3>2. From(s)' = From(s) /\ Given(s)' = Got(s)' /\ Given(s) = Got(s)
      BY <2>1, <3>1 DEF From, Given
    <3>3. QED BY <2>1, <3>1, <3>2, StatusIs
  <2>2. CASE Beginning(s)'
    <3>1. Beginning(s) /\ ~Open(s)
      BY <2>2, StatusIs
    <3>2. QED BY <2>2, <3>1, StatusIs
  <2>3. CASE ~Open(s)' /\ ~Beginning(s)'
    <3>1. Status(s)' = "gone" /\ From(s)' = 0 /\ Given(s)' = {}
      BY <2>3, StatusIs
    <3>2. CASE OwnerOf[m] = UserOf[s]
      BY <3>1, <3>2
    <3>3. CASE OwnerOf[m] # UserOf[s]
      <4>1. ~Open(s) /\ ~Beginning(s)
        BY <2>3, <3>3
      <4>2. QED BY <3>1, <3>3, <4>1, StatusIs
    <3>4. QED BY <3>2, <3>3
  <2>4. QED BY <2>1, <2>2, <2>3
<1>2. S \subseteq {s \in Streams : m \in [t \in Streams |-> {k \in Msgs : OwnerOf[k] = UserOf[t]}][s]}
  OBVIOUS
<1>3. given = [s \in Streams |->
         IF /\ [t \in Streams |-> Status(t)][s] = "connected"
            /\ m \in [t \in Streams |-> {k \in Msgs : OwnerOf[k] = UserOf[t]}][s]
         THEN [t \in Streams |-> Given(t)][s] \cup {m} ELSE [t \in Streams |-> Given(t)][s]]
  BY StatusIs
<1> HIDE DEF S
<1>4. Feed!Ends(S, given)
  <2> HIDE DEF given
  <2>1. QED BY <1>1 DEF Feed!Ends
<1>5. Feed!Deliver(m)
  <2> HIDE DEF given
  <2>1. QED BY <1>2, <1>3, <1>4 DEF Feed!Deliver
<1>6. QED BY <1>5 DEF Feed!Next, Msgs

\* A client gets its handshake.
LEMMA FeedConnects ==
  ASSUME NEW s \in Streams, Beginning(s), Open(s)', base'[s] \in 0..MaxMsg, handled' = handled,
         Got(s)' = Got(s), Got(s) \subseteq OwnHandled(s), OwnHandled(s) \subseteq Msgs,
         \A m \in OwnHandled(s) : m <= base'[s] \/ m \in Got(s),
         \A t \in Streams \ {s} :
           Status(t)' = Status(t) /\ From(t)' = From(t) /\ Given(t)' = Given(t)
  PROVE  Feed!Next
<1>1. /\ Status(s) = "new" /\ Status(s)' = "connected"
      /\ From(s)' = base'[s] /\ Given(s)' = Got(s)
  BY StatusIs DEF From, Given
<1>2. Feed!Own(s) = OwnHandled(s)
  BY DEF Feed!Own, OwnHandled
<1>3. /\ [t \in Streams |-> Status(t)'] = [[t \in Streams |-> Status(t)] EXCEPT ![s] = "connected"]
      /\ [t \in Streams |-> From(t)'] = [[t \in Streams |-> From(t)] EXCEPT ![s] = base'[s]]
      /\ [t \in Streams |-> Given(t)'] = [[t \in Streams |-> Given(t)] EXCEPT ![s] = Got(s)]
  BY <1>1
<1>4. [t \in Streams |-> Status(t)][s] = "new"
  BY <1>1
<1>5. Got(s) \in SUBSET Feed!Own(s) /\ \A m \in Feed!Own(s) : m <= base'[s] \/ m \in Got(s)
  BY <1>2
<1>6. Feed!Connect(s)
  BY <1>3, <1>4, <1>5 DEF Feed!Connect
<1>7. QED BY <1>6 DEF Feed!Next

\* A client is only given messages that were delivered to its user.
GotDelivered == \A s \in Streams : Got(s) \subseteq OwnHandled(s)

LEMMA GotKept ==
  ASSUME GotDelivered, handled \subseteq handled', \A s \in Streams : Got(s)' = Got(s)
  PROVE  GotDelivered'
BY DEF GotDelivered, OwnHandled

LEMMA GotPinged ==
  ASSUME TypeOK, StreamAssumption, GotDelivered, NEW S, OfferLocked(S, Pings, latest),
         UNCHANGED written, handled' = handled
  PROVE  GotDelivered'
<1>1. Pings \in [Users -> Events] /\ \A s \in Streams : Pings[UserOf[s]].type # "irc"
  BY EventTypes DEF StreamAssumption, Pings, Ping
<1>2. ASSUME NEW s \in Streams PROVE \A m \in Got(s)' : m \in Got(s)
  <2>1. \A m \in Got(s)' : m \in Got(s) \/ (s \in S /\ Pings[UserOf[s]].type = "irc"
                                            /\ m = Pings[UserOf[s]].id)
    BY <1>1, GotOffer
  <2>2. QED BY <1>1, <2>1
<1>3. QED BY <1>2 DEF GotDelivered, OwnHandled

LEMMA GotStep ==
  ASSUME TypeOK, StreamAssumption, GotDelivered, [Next]_vars
  PROVE  GotDelivered'
<1> USE DEF registry, outside, client
<1>1. ASSUME UNCHANGED <<out, written>>, handled \subseteq handled' PROVE GotDelivered'
  BY <1>1, GotKept DEF Got
<1>2. ASSUME NEW s \in Streams, Register(s) \/ Handler(s) \/ ClientGone(s)
      PROVE  GotDelivered'
  <2>1. CASE WriteOut(s)
    <3>1. handled' = handled
      BY <2>1 DEF WriteOut
    <3>2. QED BY <2>1, <3>1, GotWritten, GotKept
  <2>2. CASE ~WriteOut(s)
    <3>1. UNCHANGED <<out, written, handled>>
      BY <1>2, <2>2 DEF Register, Handler, ClientGone, CheckKnown, Query, RaiseQueried,
                        ReadLatest, WriteHandshake, WriteReplay, LoopDone, Stop, Deregister,
                        WaitReplay, Save
    <3>2. QED BY <1>1, <3>1
  <2>3. QED BY <2>1, <2>2
<1>3. CASE PingAll \/ \E s \in Streams : ServePing(s)
  BY <1>3, GotPinged DEF PingAll, ServePing
<1>4. CASE DeliverToOwner
  <2> DEFINE m == delivering
             ev == [v \in Users |-> Irc(m)]
             raised == IF StreamsOf(OwnerOf[m]) # {} THEN Raised(OwnerOf[m], m) ELSE latest
  <2>1. m \in Msgs /\ ev \in [Users -> Events] /\ \A v \in Users : ev[v].id = m
    <3>1. m \in Msgs
      BY <1>4 DEF DeliverToOwner, TypeOK
    <3>2. QED BY <3>1, EventTypes DEF Irc
  <2>2. /\ OfferLocked(StreamsOf(OwnerOf[m]), ev, raised) /\ UNCHANGED written
        /\ handled' = handled \cup {m}
    BY <1>4 DEF DeliverToOwner
  <2> HIDE DEF ev, raised
  <2>3. ASSUME NEW s \in Streams, NEW n \in Got(s)' PROVE n \in OwnHandled(s)'
    <3>0. \A k \in Got(s)' :
            k \in Got(s) \/ (s \in StreamsOf(OwnerOf[m]) /\ ev[UserOf[s]].type = "irc"
                             /\ k = ev[UserOf[s]].id)
      BY <2>1, <2>2, GotOffer
    <3>1. n \in Got(s) \/ (s \in StreamsOf(OwnerOf[m]) /\ n = ev[UserOf[s]].id)
      BY <2>3, <3>0
    <3>2. UserOf[s] \in Users
      BY DEF StreamAssumption
    <3>3. QED BY <2>1, <2>2, <3>1, <3>2 DEF GotDelivered, OwnHandled, StreamsOf
  <2>4. QED BY <2>3 DEF GotDelivered
<1>5. CASE CloseStreams \/ (\E m \in Msgs : Receive(m)) \/ LookupFails
  <2>1. UNCHANGED <<out, written>> /\ handled \subseteq handled'
    BY <1>5 DEF CloseStreams, Receive, LookupFails
  <2>2. QED BY <1>1, <2>1
<1>6. ASSUME NEW s \in Streams, Replay(s)
      PROVE  GotDelivered'
  BY <1>1, <1>6 DEF Replay, ReplayFetched, ReplayFails, PushStopped
<1>7. ASSUME NEW m \in Msgs, LogMessage(m) \/ LoseMessage(m) \/ Redeliver(m)
      PROVE  GotDelivered'
  BY <1>1, <1>7 DEF LogMessage, LoseMessage, Redeliver
<1>8. CASE UNCHANGED vars
  BY <1>1, <1>8 DEF vars
<1>9. QED
  BY <1>2, <1>3, <1>4, <1>5, <1>6, <1>7, <1>8 DEF Next, Deliver

\* A step of a handler that gives its client nothing.
LEMMA FeedMoves ==
  ASSUME TypeOK, NEW s \in Streams, NEW to,
         pc' = [pc EXCEPT ![s] = to], UNCHANGED <<out, written, handled>>,
         \A t \in Streams : done[t] => done'[t],
         \A t \in Streams \ {s} : base'[t] = base[t],
         to = "loop" => done[s] \/ (pc[s] = "loop" /\ base'[s] = base[s]),
         to \in {"idle", "check", "query", "raise", "read", "handshake"}
           => pc[s] \in {"idle", "check", "query", "raise", "read", "handshake"}
  PROVE  [Feed!Next]_Feed!feedVars
<1>1. \A t \in Streams : pc'[t] = IF t = s THEN to ELSE pc[t]
  BY DEF TypeOK
<1>2. \A t \in Streams : Got(t)' = Got(t)
  BY DEF Got
<1>3. \A t \in Streams : Open(t)' => Open(t) /\ base'[t] = base[t] /\ Got(t)' = Got(t)
  BY <1>1, <1>2 DEF Open
<1>4. \A t \in Streams : Beginning(t)' => Beginning(t)
  BY <1>1 DEF Beginning
<1>5. QED BY <1>3, <1>4, FeedEnds

LEMMA FeedHandler ==
  ASSUME Context, GapInv, GotDelivered, NEW s \in Streams,
         Register(s) \/ Handler(s) \/ ClientGone(s)
  PROVE  [Feed!Next]_Feed!feedVars
<1> USE DEF registry, outside, client, Goto
<1>1. TypeOK /\ pc \in [Streams -> Phases]
  BY DEF Context, TypeOK
<1>2. CASE Register(s) \/ CheckKnown(s) \/ Query(s) \/ RaiseQueried(s) \/ ReadLatest(s)
  <2>1. PICK to \in {"check", "read", "query", "raise", "handshake"} :
          /\ pc' = [pc EXCEPT ![s] = to]
          /\ pc[s] \in {"idle", "check", "query", "raise", "read", "handshake"}
    BY <1>2 DEF Register, CheckKnown, Query, RaiseQueried, ReadLatest
  <2>2. UNCHANGED <<out, written, handled, base>>
    BY <1>2 DEF Register, CheckKnown, Query, RaiseQueried, ReadLatest
  <2>3. \A t \in Streams : done[t] => done'[t]
    BY <1>1, <1>2 DEF Register, CheckKnown, Query, RaiseQueried, ReadLatest, TypeOK
  <2>4. QED BY <1>1, <2>1, <2>2, <2>3, FeedMoves
<1>3. CASE WriteHandshake(s)
  <2>1. /\ pc[s] = "handshake" /\ pc' = [pc EXCEPT ![s] = "loop"]
        /\ UNCHANGED <<out, written, handled, done>>
        /\ base'[s] = id[s] /\ \A t \in Streams \ {s} : base'[t] = base[t]
    BY <1>1, <1>3 DEF WriteHandshake, TypeOK
  <2>2. CASE done[s]
    BY <1>1, <2>1, <2>2, FeedMoves
  <2>3. CASE ~done[s]
    <3>1. \A t \in Streams : pc'[t] = IF t = s THEN "loop" ELSE pc[t]
      BY <1>1, <2>1
    <3>2. \A t \in Streams : Got(t)' = Got(t)
      BY <2>1 DEF Got
    <3>3. Beginning(s) /\ Open(s)'
      BY <2>1, <2>3, <3>1 DEF Beginning, Open
    <3>4. \A t \in Streams \ {s} :
            Status(t)' = Status(t) /\ From(t)' = From(t) /\ Given(t)' = Given(t)
      BY <2>1, <3>1, <3>2 DEF Status, From, Given, Open, Beginning
    <3>5. \A m \in OwnHandled(s) : m <= base'[s] \/ m \in Got(s)
      BY <2>1, <2>3 DEF GapInv, ClientKnows, HandledOf, OwnHandled
    <3>6. base'[s] \in 0..MaxMsg /\ OwnHandled(s) \subseteq Msgs
      BY <1>1, <2>1 DEF TypeOK, OwnHandled
    <3>7. Got(s) \subseteq OwnHandled(s)
      BY DEF GotDelivered
    <3>8. Feed!Next
      BY <2>1, <3>2, <3>3, <3>4, <3>5, <3>6, <3>7, FeedConnects
    <3>9. QED BY <3>8
  <2>4. QED BY <2>2, <2>3
<1>4. CASE WriteOut(s)
  <2>1. UNCHANGED <<pc, done, base, handled>>
    BY <1>4 DEF WriteOut
  <2>2. \A t \in Streams : Open(t)' => Open(t) /\ base'[t] = base[t] /\ Got(t)' = Got(t)
    BY <1>1, <1>4, <2>1, GotWritten DEF Open
  <2>3. \A t \in Streams : Beginning(t)' => Beginning(t)
    BY <2>1 DEF Beginning
  <2>4. QED BY <2>1, <2>2, <2>3, FeedEnds
<1>5. CASE WriteReplay(s)
  <2>1. UNCHANGED <<out, written, handled, base, done, pc>> /\ pc[s] = "loop"
    BY <1>5 DEF WriteReplay
  <2>2. pc' = [pc EXCEPT ![s] = "loop"]
    BY <1>1, <2>1
  <2>3. QED BY <1>1, <2>1, <2>2, FeedMoves
<1>6. CASE LoopDone(s) \/ ClientGone(s) \/ Stop(s) \/ Deregister(s) \/ WaitReplay(s) \/ Save(s)
  <2>1. PICK to \in {"stop", "deregister", "wait", "save", "ended"} : pc' = [pc EXCEPT ![s] = to]
    BY <1>6 DEF LoopDone, ClientGone, Stop, Deregister, WaitReplay, Save
  <2>2. UNCHANGED <<out, written, handled, base>>
    BY <1>6 DEF LoopDone, ClientGone, Stop, Deregister, WaitReplay, Save
  <2>3. \A t \in Streams : done[t] => done'[t]
    BY <1>1, <1>6 DEF LoopDone, ClientGone, Stop, Deregister, WaitReplay, Save, TypeOK
  <2>4. QED BY <1>1, <2>1, <2>2, <2>3, FeedMoves
<1>7. QED BY <1>2, <1>3, <1>4, <1>5, <1>6 DEF Handler

\* What an offer does to the streams that are still open after it.
LEMMA OpenOffered ==
  ASSUME TypeOK, StreamAssumption, NEW S, NEW ev \in [Users -> Events], NEW newLatest,
         OfferLocked(S, ev, newLatest), UNCHANGED <<written, pc, base>>, NEW s \in Streams
  PROVE  /\ Open(s)' => Open(s) /\ base'[s] = base[s]
         /\ Beginning(s)' => Beginning(s)
         /\ s \notin S \/ ev[UserOf[s]].type # "irc" => Got(s)' = Got(s)
         /\ s \in S /\ ev[UserOf[s]].type = "irc" /\ ~done'[s]
              => Got(s)' = Got(s) \cup {ev[UserOf[s]].id}
         /\ s \notin S => (Open(s) => Open(s)') /\ (Beginning(s) => Beginning(s)')
<1>1. \A m \in Got(s)' :
        m \in Got(s) \/ (s \in S /\ ev[UserOf[s]].type = "irc" /\ m = ev[UserOf[s]].id)
  BY GotOffer
<1>2. /\ Got(s) \subseteq Got(s)'
      /\ done[s] => done'[s]
      /\ s \in S /\ ev[UserOf[s]].type = "irc" => done'[s] \/ ev[UserOf[s]].id \in Got(s)'
  BY OfferGives
<1>3. s \notin S => done'[s] = done[s]
  BY DEF OfferLocked, TypeOK
<1>4. pc'[s] = pc[s] /\ base'[s] = base[s]
  OBVIOUS
<1>5. /\ Open(s)' => Open(s)
      /\ Beginning(s)' => Beginning(s)
      /\ s \notin S => (Open(s) => Open(s)') /\ (Beginning(s) => Beginning(s)')
  BY <1>2, <1>3, <1>4 DEF Open, Beginning
<1>6. s \notin S \/ ev[UserOf[s]].type # "irc" => Got(s)' = Got(s)
  BY <1>1, <1>2
<1>7. s \in S /\ ev[UserOf[s]].type = "irc" /\ ~done'[s]
        => Got(s)' = Got(s) \cup {ev[UserOf[s]].id}
  BY <1>1, <1>2
<1>8. QED BY <1>4, <1>5, <1>6, <1>7

LEMMA FeedPings ==
  ASSUME TypeOK, StreamAssumption, NEW S, OfferLocked(S, Pings, latest),
         UNCHANGED <<pc, written, base, handled>>
  PROVE  [Feed!Next]_Feed!feedVars
<1>1. Pings \in [Users -> Events] /\ \A s \in Streams : Pings[UserOf[s]].type # "irc"
  BY EventTypes DEF StreamAssumption, Pings, Ping
<1>2. ASSUME NEW s \in Streams
      PROVE  /\ Open(s)' => Open(s) /\ base'[s] = base[s] /\ Got(s)' = Got(s)
             /\ Beginning(s)' => Beginning(s)
  BY <1>1, OpenOffered
<1>3. QED BY <1>2, FeedEnds

LEMMA FeedDeliver ==
  ASSUME Context, GapInv, DeliverToOwner
  PROVE  Feed!Next
<1> DEFINE m == delivering
           ev == [v \in Users |-> Irc(m)]
           raised == IF StreamsOf(OwnerOf[m]) # {} THEN Raised(OwnerOf[m], m) ELSE latest
           S == StreamsOf(OwnerOf[m])
<1>1. TypeOK /\ StreamAssumption /\ m \in Msgs
  BY DEF DeliverToOwner, Context, TypeOK
<1>2. ev \in [Users -> Events] /\ \A v \in Users : ev[v].type = "irc" /\ ev[v].id = m
  BY <1>1, EventTypes DEF Irc
<1>3. /\ OfferLocked(S, ev, raised) /\ handled' = handled \cup {m}
      /\ UNCHANGED <<pc, base, written>>
  BY DEF DeliverToOwner, client
<1>4. \A n \in handled : n < m
  BY DEF DeliverToOwner, GapInv, InOrder
<1>5. \A s \in S : OwnerOf[m] = UserOf[s]
  BY DEF StreamsOf
<1>6. \A s \in Streams : OwnerOf[m] = UserOf[s] /\ Open(s) => s \in S
  BY DEF Open, Context, RegistryExact, Served, StreamsOf
<1> HIDE DEF ev, raised, m, S
<1>7. ASSUME NEW s \in Streams
      PROVE  /\ Open(s)' => Open(s) /\ base'[s] = base[s]
             /\ Open(s)' => Got(s)' = IF OwnerOf[m] = UserOf[s] THEN Got(s) \cup {m} ELSE Got(s)
             /\ Beginning(s)' => Beginning(s)
             /\ OwnerOf[m] # UserOf[s]
                  => (Open(s) => Open(s)') /\ (Beginning(s) => Beginning(s)')
  <2>1. /\ Open(s)' => Open(s) /\ base'[s] = base[s]
        /\ Beginning(s)' => Beginning(s)
        /\ s \notin S \/ ev[UserOf[s]].type # "irc" => Got(s)' = Got(s)
        /\ s \in S /\ ev[UserOf[s]].type = "irc" /\ ~done'[s]
             => Got(s)' = Got(s) \cup {ev[UserOf[s]].id}
        /\ s \notin S => (Open(s) => Open(s)') /\ (Beginning(s) => Beginning(s)')
    BY <1>1, <1>2, <1>3, OpenOffered
  <2>2. ev[UserOf[s]].type = "irc" /\ ev[UserOf[s]].id = m
    BY <1>1, <1>2 DEF StreamAssumption
  <2>3. Open(s)' => ~done'[s]
    BY DEF Open
  <2>4. QED BY <1>5, <1>6, <2>1, <2>2, <2>3
<1>8. QED BY <1>1, <1>3, <1>4, <1>7, FeedDelivers

LEMMA FeedReceive ==
  ASSUME Context, GapInv, NEW m \in Msgs, Receive(m)
  PROVE  [Feed!Next]_Feed!feedVars
<1>1. UNCHANGED <<pc, base, out, done, written, streams>> /\ m \in nsq
  BY DEF Receive, registry, client
<1>2. \A s \in Streams : Got(s)' = Got(s) /\ (Open(s)' <=> Open(s))
                          /\ (Beginning(s)' <=> Beginning(s)) /\ base'[s] = base[s]
  BY <1>1 DEF Got, Open, Beginning
<1>3. CASE streams = {}
  <2>1. handled' = handled \cup {m}
    BY <1>3 DEF Receive
  <2>2. \A n \in handled : n < m
    BY <1>1 DEF GapInv, InOrder
  <2>3. \A s \in Streams : ~Open(s)
    BY <1>3 DEF Open, Context, RegistryExact, Served
  <2>4. Feed!Next
    BY <1>2, <2>1, <2>2, <2>3, FeedDelivers
  <2>5. QED BY <2>4
<1>4. CASE streams # {}
  <2>1. handled' = handled
    BY <1>4 DEF Receive
  <2>2. QED BY <1>2, <2>1, FeedEnds
<1>5. QED BY <1>3, <1>4

LEMMA FeedStep ==
  ASSUME Context, GapInv, GotDelivered, [Next]_vars
  PROVE  [Feed!Next]_Feed!feedVars
<1> USE DEF registry, outside, client
<1>1. ASSUME UNCHANGED <<pc, out, written, base, handled>>, \A s \in Streams : done[s] => done'[s]
      PROVE  [Feed!Next]_Feed!feedVars
  <2>1. ASSUME NEW s \in Streams
        PROVE  /\ Open(s)' => Open(s) /\ base'[s] = base[s] /\ Got(s)' = Got(s)
               /\ Beginning(s)' => Beginning(s)
    BY <1>1 DEF Open, Beginning, Got
  <2>2. QED BY <1>1, <2>1, FeedEnds
<1>2. ASSUME NEW s \in Streams, Register(s) \/ Handler(s) \/ ClientGone(s)
      PROVE  [Feed!Next]_Feed!feedVars
  BY <1>2, FeedHandler
<1>3. CASE PingAll \/ \E s \in Streams : ServePing(s)
  <2>1. TypeOK /\ StreamAssumption
    BY DEF Context
  <2>2. PICK S \in SUBSET Streams :
          OfferLocked(S, Pings, latest) /\ UNCHANGED <<pc, written, base, handled>>
    BY <1>3, <2>1 DEF PingAll, ServePing, TypeOK
  <2>3. QED BY <2>1, <2>2, FeedPings
<1>4. CASE Deliver
  <2>1. ~LookupFails
    BY DEF LookupFails, Context, Undisturbed
  <2>2. QED BY <1>4, <2>1, FeedReceive, FeedDeliver DEF Deliver
<1>5. CASE CloseStreams
  <2>1. UNCHANGED <<pc, out, written, base, handled>> /\ \A s \in Streams : done[s] => done'[s]
    BY <1>5 DEF CloseStreams
  <2>2. QED BY <1>1, <2>1
<1>6. ASSUME NEW s \in Streams, Replay(s)
      PROVE  [Feed!Next]_Feed!feedVars
  BY <1>1, <1>6 DEF Replay, ReplayFetched, ReplayFails, PushStopped
<1>7. ASSUME NEW m \in Msgs, LogMessage(m) \/ LoseMessage(m) \/ Redeliver(m)
      PROVE  [Feed!Next]_Feed!feedVars
  BY <1>1, <1>7 DEF LogMessage, LoseMessage, Redeliver
<1>8. CASE UNCHANGED vars
  BY <1>1, <1>8 DEF vars
<1>9. QED
  BY <1>2, <1>3, <1>4, <1>5, <1>6, <1>7, <1>8 DEF Next

\* Under the same conditions the server implements ClientFeed: handshakes,
\* queues, drops, departures and shutdown, interleaved with deliveries in any
\* way, give each client a feed that begins where its handshake says, has every
\* later message of its user and nobody else's, and ends for good (serveStream,
\* Deliver, offerLocked, CloseStreams).
THEOREM StreamImplementsFeed ==
  ASSUME Undisturbed
  PROVE  Spec /\ []SeededInTime => ClientsAreFed
<1>1. Init => GotDelivered /\ Feed!Init
  <2> SUFFICES ASSUME Init PROVE GotDelivered /\ Feed!Init
    OBVIOUS
  <2>1. \A s \in Streams : Got(s) = {} /\ pc[s] = "idle" /\ ~done[s] /\ handled = {}
    BY DEF Init, Got
  <2>2. \A s \in Streams : Status(s) = "new" /\ From(s) = 0 /\ Given(s) = {}
    BY <2>1 DEF Status, From, Given, Open, Beginning
  <2>3. QED BY <2>1, <2>2 DEF Init, GotDelivered, Feed!Init
<1>2. Context /\ GotDelivered /\ [Next]_vars => GotDelivered'
  BY GotStep DEF Context
<1>3. Context /\ GapInv /\ GotDelivered /\ [Next]_vars => [Feed!Next]_Feed!feedVars
  BY FeedStep
<1>4. QED BY <1>1, <1>2, <1>3, GapAlways, PTL DEF Spec, ClientsAreFed, Feed!Spec

\* So whoever keeps to ClientFeed leaves no gap and mixes no users up: the
\* promise is in its actions alone.
THEOREM FeedHasNoGap == Feed!Spec => []Feed!NoGap
<1>1. Feed!Init => Feed!NoGap
  BY DEF Feed!Init, Feed!NoGap
<1>2. Feed!NoGap /\ [Feed!Next]_Feed!feedVars => Feed!NoGap'
  <2> SUFFICES ASSUME Feed!NoGap, [Feed!Next]_Feed!feedVars PROVE Feed!NoGap'
    OBVIOUS
  <2>1. ASSUME NEW s \in Streams, Feed!Connect(s) PROVE Feed!NoGap'
    <3>1. PICK n \in 0..MaxMsg, early \in SUBSET Feed!Own(s) :
            /\ \A m \in Feed!Own(s) : m <= n \/ m \in early
            /\ [t \in Streams |-> From(t)]' = [[t \in Streams |-> From(t)] EXCEPT ![s] = n]
            /\ [t \in Streams |-> Given(t)]' = [[t \in Streams |-> Given(t)] EXCEPT ![s] = early]
      BY <2>1 DEF Feed!Connect
    <3>2. /\ [t \in Streams |-> Status(t)]'
               = [[t \in Streams |-> Status(t)] EXCEPT ![s] = "connected"]
          /\ handled' = handled
      BY <2>1 DEF Feed!Connect
    <3>3. \A t \in Streams : Feed!Own(t)' = Feed!Own(t)
      BY <3>2 DEF Feed!Own
    <3>4. \A t \in Streams :
            /\ Status(t)' = IF t = s THEN "connected" ELSE Status(t)
            /\ From(t)' = IF t = s THEN n ELSE From(t)
            /\ Given(t)' = IF t = s THEN early ELSE Given(t)
      BY <3>1, <3>2
    <3>5. ASSUME NEW t \in Streams, Status(t)' = "connected"
          PROVE  /\ \A m \in Feed!Own(t) : m <= From(t)' \/ m \in Given(t)'
                 /\ Given(t)' \subseteq Feed!Own(t)
      <4>1. CASE t = s
        BY <3>1, <3>4, <4>1
      <4>2. CASE t # s
        BY <3>4, <3>5, <4>2 DEF Feed!NoGap
      <4>3. QED BY <4>1, <4>2
    <3>6. QED BY <3>3, <3>5 DEF Feed!NoGap
  <2>2. CASE Feed!Disconnect
    BY <2>2 DEF Feed!Disconnect, Feed!Ends, Feed!NoGap, Feed!Own
  <2>3. ASSUME NEW m \in 1..MaxMsg, Feed!Deliver(m) PROVE Feed!NoGap'
    BY <2>3 DEF Feed!Deliver, Feed!Ends, Feed!NoGap, Feed!Own
  <2>4. CASE UNCHANGED Feed!feedVars
    BY <2>4 DEF Feed!feedVars, Feed!NoGap, Feed!Own
  <2>5. QED BY <2>1, <2>2, <2>3, <2>4 DEF Feed!Next
<1>3. QED BY <1>1, <1>2, PTL DEF Feed!Spec
=============================================================================
