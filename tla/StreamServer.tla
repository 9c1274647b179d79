---------------------------- MODULE StreamServer ----------------------------
(***************************************************************************)
(* The Server-Sent Events server (internal/stream/server.go, writer.go,    *)
(* nsq.go): the registry of open streams, each user's newest message id,   *)
(* one handler and one replay goroutine per stream, the single NSQ         *)
(* consumer that delivers logged messages, pings, and shutdown.            *)
(*                                                                         *)
(* One action is one critical section of s.mu or one blocking call, so     *)
(* every interleaving of the goroutines is a behaviour.  Message ids are   *)
(* the ids of log rows.  Bodies, ids of streams and times are left out.    *)
(***************************************************************************)
EXTENDS Integers, Sequences, FiniteSets

CONSTANTS
  Users,         \* people with an account
  Streams,       \* requests for the event stream; each is made at most once
  UserOf,        \* the user logged in by each request's session cookie
  MaxMsg,        \* bound: message ids are 1..MaxMsg
  OwnerOf,       \* the user who owns each message's connection
  BufferSize,    \* writer.go bufferSize
  ReplayEvents,  \* bound: events in one stream's replay
  Env            \* what the environment does, a subset of EnvKinds

Msgs == 1..MaxMsg

(***************************************************************************)
(* What may happen around the server.  gone: clients go away or stop       *)
(* reading; ping: pings; shutdown: SIGTERM; reorder: log rows and NSQ      *)
(* deliveries come in any order; lost: messages published while nsqd is    *)
(* unreachable; duplicate: NSQ delivers again; lookup: the owner lookup    *)
(* fails or knows no owner; query: the newest id query fails; replay:      *)
(* liercd or the database fails during the replay.                         *)
(***************************************************************************)
EnvKinds == {"gone", "ping", "shutdown", "reorder", "lost", "duplicate",
             "lookup", "query", "replay"}

ASSUME StreamAssumption ==
  /\ UserOf \in [Streams -> Users]
  /\ MaxMsg \in Nat
  /\ OwnerOf \in [Msgs -> Users]
  /\ BufferSize \in Nat \ {0}
  /\ ReplayEvents \in Nat
  /\ Env \subseteq EnvKinds

VARIABLES
  streams,     \* registered streams (Server.streams, all users together)
  latest,      \* newest message id per user; 0 is no entry (Server.latest)
  closed,      \* set by CloseStreams (Server.closed)
  pc,          \* where each stream's handler, serveStream, is
  id,          \* the handler's local message id (query result, then latest)
  out,         \* each stream's queue of pings and live events (stream.out)
  done,        \* each stream's done channel is closed (stream.done)
  replay,      \* where each stream's replay goroutine is
  left,        \* replay events the goroutine still has to push
  delivering,  \* the message Deliver is working on, 0 if none
  logged,      \* external: log rows in Postgres
  nsq,         \* external: messages published and not yet received
  handled,     \* history: messages Deliver has finished with
  base,        \* history: the id in each stream's handshake ping
  written      \* history: ids of the live events written to each client

vars == <<streams, latest, closed, pc, id, out, done, replay, left,
          delivering, logged, nsq, handled, base, written>>

registry == <<streams, latest>>
client   == <<base, written>>
outside  == <<logged, nsq>>

Irc(m)  == [type |-> "irc", id |-> m]
Ping(n) == [type |-> "ping", id |-> n]

StreamsOf(u) == {s \in streams : UserOf[s] = u}
UsersOf(S)   == {UserOf[s] : s \in S}
LoggedFor(u) == {m \in logged : OwnerOf[m] = u}

\* n is the largest of a set of ids, 0 if it is empty.
IsNewest(n, ids) == n \in {0} \cup ids /\ \A m \in ids : m <= n

\* Where a handler may be: before the request, in each step of serveStream,
\* in each step of its deferred close work, and after it.
Phases == {"idle", "check", "query", "raise", "read", "handshake", "loop",
           "stop", "deregister", "wait", "save", "ended"}
ReplayPhases == {"off", "calling", "pushing", "over"}
Events == [type : {"irc"}, id : Msgs] \cup [type : {"ping"}, id : 0..MaxMsg]

TypeOK ==
  /\ streams \subseteq Streams
  /\ latest \in [Users -> 0..MaxMsg]
  /\ closed \in BOOLEAN
  /\ pc \in [Streams -> Phases]
  /\ id \in [Streams -> 0..MaxMsg]
  /\ out \in [Streams -> Seq(Events)]
  /\ \A s \in Streams : Len(out[s]) <= BufferSize
  /\ done \in [Streams -> BOOLEAN]
  /\ replay \in [Streams -> ReplayPhases]
  /\ left \in [Streams -> 0..ReplayEvents]
  /\ delivering \in {0} \cup logged
  /\ logged \subseteq Msgs
  /\ nsq \subseteq logged
  /\ handled \subseteq logged
  /\ base \in [Streams -> 0..MaxMsg]
  /\ written \in [Streams -> SUBSET Msgs]

Init ==
  /\ streams = {}
  /\ latest = [u \in Users |-> 0]
  /\ closed = FALSE
  /\ pc = [s \in Streams |-> "idle"]
  /\ id = [s \in Streams |-> 0]
  /\ out = [s \in Streams |-> <<>>]
  /\ done = [s \in Streams |-> FALSE]
  /\ replay = [s \in Streams |-> "off"]
  /\ left = [s \in Streams |-> 0]
  /\ delivering = 0
  /\ logged = {}
  /\ nsq = {}
  /\ handled = {}
  /\ base = [s \in Streams |-> 0]
  /\ written = [s \in Streams |-> {}]

-----------------------------------------------------------------------------
(***************************************************************************)
(* Operations under s.mu.                                                  *)
(***************************************************************************)

\* Remove the streams S from the registry; a user whose last stream goes
\* loses its entry in latest, whose value is otherwise newLatest.
RemoveLocked(S, newLatest) ==
  /\ streams' = streams \ S
  /\ latest' = [u \in Users |->
       IF u \in UsersOf(S) /\ StreamsOf(u) \subseteq S THEN 0 ELSE newLatest[u]]

\* Mutation: the newest id is overwritten, whatever is known.
RaisedBlindly(u, n) == [latest EXCEPT ![u] = n]

\* Raise u's newest id to n unless a newer one is known.
Raised(u, n) == [latest EXCEPT ![u] = IF n > @ THEN n ELSE @]

\* Mutation: one event more than the buffer holds is queued.
OfferOneMore(S, ev, newLatest) ==
  LET open == {s \in S : ~done[s]}
      slow == {s \in open : Len(out[s]) > BufferSize}
  IN  /\ out' = [s \in Streams |-> IF s \in open \ slow
                                   THEN Append(out[s], ev[UserOf[s]]) ELSE out[s]]
      /\ done' = [s \in Streams |-> done[s] \/ s \in slow]
      /\ RemoveLocked(slow, newLatest)

\* Mutation: an event for a slow client is dropped instead of the client.
OfferDropsEvent(S, ev, newLatest) ==
  /\ out' = [s \in Streams |-> IF s \in S /\ ~done[s] /\ Len(out[s]) < BufferSize
                              THEN Append(out[s], ev[UserOf[s]]) ELSE out[s]]
  /\ RemoveLocked({}, newLatest)
  /\ UNCHANGED done

\* Queue ev[UserOf[s]] on every stream s of S.  A stopped stream ignores it;
\* one whose buffer is full is stopped and deregistered at once.
OfferLocked(S, ev, newLatest) ==
  LET open == {s \in S : ~done[s]}
      slow == {s \in open : Len(out[s]) >= BufferSize}
  IN  /\ out' = [s \in Streams |-> IF s \in open \ slow
                                   THEN Append(out[s], ev[UserOf[s]]) ELSE out[s]]
      /\ done' = [s \in Streams |-> done[s] \/ s \in slow]
      /\ RemoveLocked(slow, newLatest)

Pings == [u \in Users |-> Ping(latest[u])]

-----------------------------------------------------------------------------
(***************************************************************************)
(* The handler of stream s, serveStream.                                   *)
(***************************************************************************)
Goto(s, from, to) == pc[s] = from /\ pc' = [pc EXCEPT ![s] = to]

\* Mutation: a stream that starts during shutdown is not stopped.
RegisterUnstopped(s) ==
  /\ Goto(s, "idle", "check")
  /\ streams' = streams \cup {s}
  /\ UNCHANGED <<latest, closed, id, out, done, replay, left, delivering, outside,
                 handled, client>>

\* A request with a valid session starts and registers its stream; during
\* shutdown the stream is stopped first.
Register(s) ==
  /\ Goto(s, "idle", "check")
  /\ streams' = streams \cup {s}
  /\ done' = IF closed THEN [done EXCEPT ![s] = TRUE] ELSE done
  /\ UNCHANGED <<latest, closed, id, out, replay, left, delivering, outside,
                 handled, client>>

\* Mutation: a user's second stream relies on the first one's query.
CheckOthers(s) ==
  /\ Goto(s, "check", IF StreamsOf(UserOf[s]) # {s} THEN "read" ELSE "query")
  /\ UNCHANGED <<registry, closed, id, out, done, replay, left, delivering,
                 outside, handled, client>>

\* Query the newest id only if the user has no entry yet.
CheckKnown(s) ==
  /\ Goto(s, "check", IF latest[UserOf[s]] # 0 THEN "read" ELSE "query")
  /\ UNCHANGED <<registry, closed, id, out, done, replay, left, delivering,
                 outside, handled, client>>

\* LatestMessageID; a failure is logged and counts as 0.
Query(s) ==
  /\ Goto(s, "query", "raise")
  /\ \/ \E n \in 0..MaxMsg : /\ IsNewest(n, LoggedFor(UserOf[s]))
                              /\ id' = [id EXCEPT ![s] = n]
     \/ "query" \in Env /\ id' = [id EXCEPT ![s] = 0]
  /\ UNCHANGED <<registry, closed, out, done, replay, left, delivering,
                 outside, handled, client>>

\* Mutation: the queried id is kept even when the user's streams have gone.
RaiseQueriedAlways(s) ==
  /\ Goto(s, "raise", "read")
  /\ latest' = Raised(UserOf[s], id[s])
  /\ id' = [id EXCEPT ![s] = 0]
  /\ UNCHANGED <<streams, closed, out, done, replay, left, delivering,
                 outside, handled, client>>

\* The queried id counts only while the user has a stream.
RaiseQueried(s) ==
  /\ Goto(s, "raise", "read")
  /\ latest' = IF StreamsOf(UserOf[s]) # {}
               THEN Raised(UserOf[s], id[s]) ELSE latest
  /\ id' = [id EXCEPT ![s] = 0]
  /\ UNCHANGED <<streams, closed, out, done, replay, left, delivering,
                 outside, handled, client>>

ReadLatest(s) ==
  /\ Goto(s, "read", "handshake")
  /\ id' = [id EXCEPT ![s] = latest[UserOf[s]]]
  /\ UNCHANGED <<registry, closed, out, done, replay, left, delivering,
                 outside, handled, client>>

\* The handshake with its ping reaches the client, the replay starts.
WriteHandshake(s) ==
  /\ Goto(s, "handshake", "loop")
  /\ base' = [base EXCEPT ![s] = id[s]]
  /\ id' = [id EXCEPT ![s] = 0]
  /\ replay' = [replay EXCEPT ![s] = "calling"]
  /\ UNCHANGED <<registry, closed, out, done, left, delivering, outside,
                 handled, written>>

\* Mutation: a failed write is ignored and the stream carries on.
WriteOutUnchecked(s) ==
  /\ pc[s] = "loop"
  /\ out[s] # <<>>
  /\ out' = [out EXCEPT ![s] = Tail(@)]
  /\ UNCHANGED <<registry, closed, pc, id, done, replay, left, delivering,
                 outside, handled, client>>

\* Write the head of the queue.
WriteOut(s) ==
  /\ pc[s] = "loop"
  /\ out[s] # <<>>
  /\ out' = [out EXCEPT ![s] = Tail(@)]
  /\ written' = [written EXCEPT ![s] =
       IF Head(out[s]).type = "irc" THEN @ \cup {Head(out[s]).id} ELSE @]
  /\ UNCHANGED <<registry, closed, pc, id, done, replay, left, delivering,
                 outside, handled, base>>

\* Take a replay event from the goroutine and write it.
WriteReplay(s) ==
  /\ pc[s] = "loop"
  /\ replay[s] = "pushing"
  /\ LET more == left[s] > 1 /\ ~done[s]   \* the next push first looks at done
     IN  /\ left' = [left EXCEPT ![s] = IF more THEN @ - 1 ELSE 0]
         /\ replay' = [replay EXCEPT ![s] = IF more THEN "pushing" ELSE "over"]
  /\ UNCHANGED <<registry, closed, pc, id, out, done, delivering, outside,
                 handled, client>>

\* The loop sees done: shutdown, or dropped as a slow client.
LoopDone(s) ==
  /\ done[s]
  /\ Goto(s, "loop", "stop")
  /\ UNCHANGED <<registry, closed, id, out, done, replay, left, delivering,
                 outside, handled, client>>

\* A write fails or takes longer than WriteTimeout, or the client goes away.
ClientGone(s) ==
  /\ "gone" \in Env
  /\ pc[s] \in {"handshake", "loop"}
  /\ pc' = [pc EXCEPT ![s] = "stop"]
  /\ id' = [id EXCEPT ![s] = 0]
  /\ UNCHANGED <<registry, closed, out, done, replay, left, delivering,
                 outside, handled, client>>

\* Mutation: the close work starts without closing the done channel.
StopForgotten(s) ==
  /\ Goto(s, "stop", "deregister")
  /\ UNCHANGED <<registry, closed, id, out, done, replay, left, delivering,
                 outside, handled, client>>

\* The deferred close work: stop, deregister and cancel, wait for the replay
\* goroutine, save the channels and last login.
Stop(s) ==
  /\ Goto(s, "stop", "deregister")
  /\ done' = [done EXCEPT ![s] = TRUE]
  /\ UNCHANGED <<registry, closed, id, out, replay, left, delivering, outside,
                 handled, client>>

\* Mutation: a stream already stopped is taken to be deregistered.
DeregisterUnstopped(s) ==
  /\ Goto(s, "deregister", "wait")
  /\ RemoveLocked({s} \ {t \in Streams : done[t]}, latest)
  /\ UNCHANGED <<closed, id, out, done, replay, left, delivering, outside,
                 handled, client>>

Deregister(s) ==
  /\ Goto(s, "deregister", "wait")
  /\ RemoveLocked({s}, latest)
  /\ UNCHANGED <<closed, id, out, done, replay, left, delivering, outside,
                 handled, client>>

WaitReplay(s) ==
  /\ replay[s] \in {"off", "over"}
  /\ Goto(s, "wait", "save")
  /\ UNCHANGED <<registry, closed, id, out, done, replay, left, delivering,
                 outside, handled, client>>

Save(s) ==
  /\ Goto(s, "save", "ended")
  /\ UNCHANGED <<registry, closed, id, out, done, replay, left, delivering,
                 outside, handled, client>>

\* What the handler does by itself, as opposed to what its client does to it.
Handler(s) ==
  \/ CheckKnown(s) \/ Query(s) \/ RaiseQueried(s) \/ ReadLatest(s)
  \/ WriteHandshake(s) \/ WriteOut(s) \/ WriteReplay(s) \/ LoopDone(s)
  \/ Stop(s) \/ Deregister(s) \/ WaitReplay(s) \/ Save(s)

-----------------------------------------------------------------------------
(***************************************************************************)
(* The replay goroutine of stream s: it asks liercd about every connection *)
(* and then pushes the events one by one.  Each push waits for the writer  *)
(* or for done.                                                            *)
(***************************************************************************)
ReplayFetched(s) ==
  /\ replay[s] = "calling"
  /\ \E n \in 0..ReplayEvents :
       /\ left' = [left EXCEPT ![s] = n]
       /\ replay' = [replay EXCEPT ![s] = IF n = 0 THEN "over" ELSE "pushing"]
  /\ UNCHANGED <<registry, closed, pc, id, out, done, delivering, outside,
                 handled, client>>

\* A failed liercd request or lookup: nothing is sent.
ReplayFails(s) ==
  /\ replay[s] = "calling"
  /\ "replay" \in Env \/ pc[s] = "wait"
  /\ replay' = [replay EXCEPT ![s] = "over"]
  /\ UNCHANGED <<registry, closed, pc, id, out, done, left, delivering,
                 outside, handled, client>>

PushStopped(s) ==
  /\ replay[s] = "pushing"
  /\ done[s]
  /\ replay' = [replay EXCEPT ![s] = "over"]
  /\ left' = [left EXCEPT ![s] = 0]
  /\ UNCHANGED <<registry, closed, pc, id, out, done, delivering, outside,
                 handled, client>>

Replay(s) == ReplayFetched(s) \/ ReplayFails(s) \/ PushStopped(s)

-----------------------------------------------------------------------------
(***************************************************************************)
(* Deliver, called by the one NSQ handler goroutine for each message.      *)
(***************************************************************************)

\* Receive a message; with no stream open at all it is dropped.
Receive(m) ==
  /\ delivering = 0
  /\ m \in nsq
  /\ "reorder" \notin Env => \A n \in nsq : m <= n
  /\ nsq' = nsq \ {m}
  /\ IF streams = {}
     THEN handled' = handled \cup {m} /\ UNCHANGED delivering
     ELSE delivering' = m /\ UNCHANGED handled
  /\ UNCHANGED <<registry, closed, pc, id, out, done, replay, left, logged, client>>

\* Mutation: the event goes to every stream, whoever the owner is.
DeliverToAll ==
  /\ delivering # 0
  /\ OfferLocked(streams, [v \in Users |-> Irc(delivering)],
                 Raised(OwnerOf[delivering], delivering))
  /\ handled' = handled \cup {delivering}
  /\ delivering' = 0
  /\ UNCHANGED <<closed, pc, id, replay, left, outside, client>>

\* Mutation: the event is queued without raising the newest id.
DeliverUnraised ==
  /\ delivering # 0
  /\ OfferLocked(StreamsOf(OwnerOf[delivering]),
                 [v \in Users |-> Irc(delivering)], latest)
  /\ handled' = handled \cup {delivering}
  /\ delivering' = 0
  /\ UNCHANGED <<closed, pc, id, replay, left, outside, client>>

\* The owner is known: raise its newest id and queue the event on all its
\* streams, in one critical section.
DeliverToOwner ==
  /\ delivering # 0
  /\ LET u == OwnerOf[delivering]
     IN  OfferLocked(StreamsOf(u), [v \in Users |-> Irc(delivering)],
                     IF StreamsOf(u) # {} THEN Raised(u, delivering) ELSE latest)
  /\ handled' = handled \cup {delivering}
  /\ delivering' = 0
  /\ UNCHANGED <<closed, pc, id, replay, left, outside, client>>

\* The owner lookup fails, or the connection has no owner any more.
LookupFails ==
  /\ delivering # 0
  /\ "lookup" \in Env
  /\ handled' = handled \cup {delivering}
  /\ delivering' = 0
  /\ UNCHANGED <<registry, closed, pc, id, out, done, replay, left, outside, client>>

Deliver == (\E m \in Msgs : Receive(m)) \/ DeliverToOwner \/ LookupFails

-----------------------------------------------------------------------------
(***************************************************************************)
(* Pings and shutdown.                                                     *)
(***************************************************************************)
PingAll ==
  /\ "ping" \in Env
  /\ streams # {}
  /\ OfferLocked(streams, Pings, latest)
  /\ UNCHANGED <<closed, pc, id, replay, left, delivering, outside, handled, client>>

\* A wake ping; an unknown stream gets 404 and nothing changes.
ServePing(s) ==
  /\ "ping" \in Env
  /\ s \in streams
  /\ OfferLocked({s}, Pings, latest)
  /\ UNCHANGED <<closed, pc, id, replay, left, delivering, outside, handled, client>>

CloseStreams ==
  /\ "shutdown" \in Env
  /\ ~closed
  /\ closed' = TRUE
  /\ done' = [s \in Streams |-> done[s] \/ s \in streams]
  /\ UNCHANGED <<registry, pc, id, out, replay, left, delivering, outside,
                 handled, client>>

-----------------------------------------------------------------------------
(***************************************************************************)
(* External: the logger inserts log rows and publishes them on NSQ.        *)
(***************************************************************************)
LogMessage(m) ==
  /\ m \notin logged
  /\ "reorder" \notin Env => \A n \in Msgs : n < m => n \in logged
  /\ logged' = logged \cup {m}
  /\ nsq' = nsq \cup {m}
  /\ UNCHANGED <<registry, closed, pc, id, out, done, replay, left, delivering,
                 handled, client>>

\* Published while the server is not connected to nsqd.
LoseMessage(m) ==
  /\ "lost" \in Env
  /\ m \in nsq
  /\ nsq' = nsq \ {m}
  /\ UNCHANGED <<registry, closed, pc, id, out, done, replay, left, delivering,
                 logged, handled, client>>

\* NSQ delivers at least once: a handled message may come again.
Redeliver(m) ==
  /\ "duplicate" \in Env
  /\ m \in handled
  /\ nsq' = nsq \cup {m}
  /\ UNCHANGED <<registry, closed, pc, id, out, done, replay, left, delivering,
                 logged, handled, client>>

Next ==
  \/ \E s \in Streams : Register(s) \/ Handler(s) \/ ClientGone(s)
                        \/ Replay(s) \/ ServePing(s)
  \/ Deliver \/ PingAll \/ CloseStreams
  \/ \E m \in Msgs : LogMessage(m) \/ LoseMessage(m) \/ Redeliver(m)

Spec == Init /\ [][Next]_vars

(***************************************************************************)
(* The Go scheduler runs every goroutine that can run, every write ends or *)
(* fails within WriteTimeout, and every liercd request and query has a     *)
(* deadline or a cancelled context.  Clients, pings, the logger and NSQ    *)
(* faults are under no obligation.                                         *)
(***************************************************************************)
FairSpec ==
  /\ Spec
  /\ \A s \in Streams : WF_vars(Handler(s)) /\ WF_vars(Replay(s))
  /\ WF_vars(Deliver)

-----------------------------------------------------------------------------
(***************************************************************************)
(* Safety.                                                                 *)
(***************************************************************************)
Served == {"check", "query", "raise", "read", "handshake", "loop", "stop",
           "deregister"}

\* Every registered stream has a handler that will still deregister it, every
\* stream still being served and not stopped is registered, so it gets pings
\* and live events, and a dropped stream is unknown to wake pings at once: only
\* shutdown, or a handler on its way to deregister, leaves a stopped stream
\* registered (register, deregister, offerLocked, CloseStreams).
RegistryExact ==
  /\ \A s \in streams : pc[s] \in Served
  /\ \A s \in Streams : pc[s] \in Served /\ ~done[s] => s \in streams
  /\ \A s \in streams : done[s] => closed \/ pc[s] = "deregister"

\* A user's newest id is kept only while the user has a stream: neither a
\* query that ends late nor a dropped stream leaves an entry behind to grow
\* the table or to be taken for current (deregisterLocked, serveStream).
LatestOnlyWhileStreaming ==
  \A u \in Users : latest[u] # 0 => StreamsOf(u) # {}

\* Every id a client is told about, in a ping, a handshake or a live event,
\* is a message of its own user that is in the log.
OwnMessagesOnly ==
  \A s \in Streams :
    LET own == {0} \cup LoggedFor(UserOf[s])
    IN  /\ {latest[UserOf[s]], id[s], base[s]} \subseteq own
        /\ \A i \in 1..Len(out[s]) : out[s][i].id \in own
        /\ written[s] \subseteq own

\* The ids of the live events queued for s or written to its client.
Got(s) == written[s] \cup {out[s][i].id : i \in {j \in 1..Len(out[s]) : out[s][j].type = "irc"}}

\* While a stream is registered, its user's newest id is at least every live
\* event the stream was given, so a later ping never looks older than what
\* the client has (Deliver raises and queues in one critical section).
LatestCoversGot ==
  \A s \in streams : \A m \in Got(s) : m <= latest[UserOf[s]]

\* An open stream whose handshake was written: its client is connected.
Open(s) == pc[s] = "loop" /\ ~done[s]

OwnHandled(s) == {m \in handled : OwnerOf[m] = UserOf[s]}

\* No stream overflows its buffer while its handler still looks up the user's
\* newest id: 1024 events during two short queries.  Where it holds the next
\* two properties are asked for.
Seeding == {"check", "query", "raise"}
SeededInTime ==
  \A s \in Streams : pc[s] \in Seeding => Len(out[s]) < BufferSize

\* No gap: every message of the user that Deliver is done with is either
\* covered by the handshake's id or queued or written as a live event.
NothingMissed ==
  \A s \in Streams : Open(s) => \A m \in OwnHandled(s) : m <= base[s] \/ m \in Got(s)

\* What ClientFeed promises is what clients get: one is connected from its
\* handshake until its stream is stopped or the handler leaves the loop, and is
\* given what is queued for it (serveStream, offerLocked).
Beginning(s) == pc[s] \in {"idle", "check", "query", "raise", "read", "handshake"} /\ ~done[s]
Status(s) == IF Open(s) THEN "connected" ELSE IF Beginning(s) THEN "new" ELSE "gone"
From(s)   == IF Open(s) THEN base[s] ELSE 0
Given(s)  == IF Open(s) THEN Got(s) ELSE {}

Feed == INSTANCE ClientFeed WITH
  Theirs    <- [s \in Streams |-> {m \in Msgs : OwnerOf[m] = UserOf[s]}],
  delivered <- handled,
  status    <- [s \in Streams |-> Status(s)],
  from      <- [s \in Streams |-> From(s)],
  got       <- [s \in Streams |-> Given(s)]
ClientsAreFed == Feed!Spec

\* No hidden gap: a ping sent to an open stream now carries an id at least as
\* new as every message of the user that Deliver is done with.
LatestCurrent ==
  \A s \in Streams : Open(s) => \A m \in OwnHandled(s) : m <= latest[UserOf[s]]

\* While a user keeps a stream open the newest id is only ever raised.
LatestNeverFalls ==
  [][\A u \in Users : StreamsOf(u) # {} /\ StreamsOf(u)' # {}
                        => latest'[u] >= latest[u]]_vars

-----------------------------------------------------------------------------
(***************************************************************************)
(* Liveness.                                                               *)
(***************************************************************************)

\* A stream that is stopped, or whose client has gone, ends: its handler is
\* never stuck waiting for a replay goroutine that waits for the handler.
StoppedStreamEnds ==
  \A s \in Streams : done[s] \/ pc[s] = "stop" ~> pc[s] = "ended"

\* Shutdown drains: after CloseStreams every stream, also one that starts
\* later, ends.
ShutdownDrains ==
  \A s \in Streams : closed /\ pc[s] # "idle" ~> pc[s] = "ended"

\* A live event queued for a stream reaches its client or the stream ends,
\* however long the replay.
LiveEventArrives ==
  \A s \in Streams, m \in Msgs :
    m \in Got(s) ~> m \in written[s] \/ pc[s] = "ended"
=============================================================================
