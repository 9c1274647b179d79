# A formal model of lierc-api

lierc-api is the server side of a web IRC client: a Perl HTTP API, a Go server
for Server-Sent Events, and the operator's tool `lctl`. They share a Postgres
database and drive `liercd`, the program that keeps the IRC connections, over
HTTP. There is no lock between any two of them. This directory holds TLA+
modules translated from the source, TLC configurations that check them on small
instances, and proofs for every instance.

    tlc -config stream_registry.cfg MCStreamServer        model-check a run
    tlapm StreamServerProofs.tla                          check proofs

`PROJECT.json` maps every definition to the lines it models, and lists the
runs, the mutated definitions each property is known to catch, the hazards,
the disagreements found between code and documents, and the theorems.

## Inventory

| part | source | state | operations | what makes it correct |
|---|---|---|---|---|
| stream server | `internal/stream/server.go`, `writer.go`, `nsq.go` | under one mutex: open streams per user, newest message id per user, closed; per stream a bounded queue, a done channel, a replay goroutine | a request registers a stream, seeds the newest id, writes handshake and events, closes; NSQ `Deliver`; pings; wake pings; `CloseStreams` | registry exact; a client is told of every gap; nobody sees another user's messages; streams end |
| replay, channel saving | `internal/stream/replay.go` | none of its own; writes configs | events from liercd's status at opening; `saveChannels` at closing | the replay never blocks the close; a saved channel list loses nothing else |
| liercd client | `internal/liercd/liercd.go` | none | route by the row's column, `FindOrRecreate` | a request reaches the instance the connection is on |
| connections in the API | `lib/API/Controller/Connection.pm`, `Liercd.pm`, `DB.pm` | row per connection | start, delete, edit, save | row and liercd agree; at most five per user |
| move-connection(s) | `internal/lctl/move_connection.go`, `move_connections.go` | column | destroy, set the column, destroy again, create | runs on one instance; nothing is lost; dormant stays dormant |
| other lctl commands | `reconnect`, `revive`, `stop_inactive`, `delete_connections`, `check_connections`, `delete_users`, `prune`, `fix_config_encoding`, `reset` | rows | each a sequence of queries and liercd requests | no row without its stop; repairs do not lose edits |
| accounts | `lib/API/Controller/Auth.pm`, `SignedToken.pm`, `DB.pm` | user row: hash, legacy hash, verified, verify_sent | login, register, verify, resend, reset, confirm | a link works once; a reset password stays; one first network |
| settings rules | `internal/connconfig`, `lib/API/ConnectionConfig.pm` | none | clean, check host | Go and Perl agree |
| dispatch, sessions, proxy, ids | `lib/API/*.pm`, `internal/session`, `storable`, `proxy`, `ids` | none | decode, gate | the gate lets the right requests through |

Interactions: logger -> Postgres and NSQ -> stream server -> clients; stream
server, API and lctl -> liercd, each looking up the column first; API, stream
server, logger and lctl -> the same connection rows. The hard behaviours are
the interleavings of goroutines around the stream server's mutex, and those of
several programs on one connection, where every step can fail or be late.

## Modules

### StreamServer

One action is one critical section of `s.mu` or one blocking call.

| variable | code |
|---|---|
| `streams`, `latest`, `closed` | the fields of `Server` (the map of maps is flattened: `StreamsOf(u)`; 0 in `latest` is a missing key, ids start at 1) |
| `pc[s]`, `id[s]` | where the handler `serveStream` of request `s` is, and its local variable for an id |
| `out[s]`, `done[s]` | `stream.out` and whether `stream.done` is closed |
| `replay[s]`, `left[s]` | the replay goroutine: off, asking liercd, pushing, over; events still to push |
| `delivering` | the message `Deliver` holds between its first check and the lock |
| `logged`, `nsq` | external: log rows, messages in flight |
| `handled`, `base`, `written` | history: messages Deliver is done with, the id in each handshake, the ids each client was sent |

`Register` .. `Save` are the steps of `serveStream` in order, the deferred
function included. The select of the writer loop is the choice between
`WriteOut`, `WriteReplay`, `LoopDone` and `ClientGone`. `OfferLocked` offers to
a set of streams at once; the loops over the map in `Deliver`, `pingAll` and
`CloseStreams` run inside the lock, so nobody sees a part of them.

`Env` says what the surroundings do, so a run can ask a question with and
without, say, reordering: clients going away, pings, shutdown, messages out of
order, lost or repeated, failing lookups, queries and replays.

`ClientFeed` is what clients are promised while messages come in order, with
four variables and three actions: a client connects with an id in its handshake
that covers what was delivered before, each message goes to all clients of its
user or disconnects them, and clients are disconnected for good. `StreamServer` is
shown to implement it (`ClientsAreFed`, with `Feed == INSTANCE ClientFeed WITH
status <- ...`): a client is connected while its handler is in the loop and
`done` is open, and has what is queued for it.

### ConnectionLifecycle

One connection, its row (`row`, `column`), the instances `main` and `next`
(`runs`) and any number of actors. An actor makes one request or command; its
`kind` says which. A step is one query or one liercd request, so everything can
happen between any two of them. With `slow`, the lookup of the column and the
request it routes are two steps.

| kind | code |
|---|---|
| recreate | `FindOrRecreate` (Go, on opening a stream) and `find_or_recreate_connection` (Perl) |
| revive, reconnect, stop, wipe, move | lctl `revive`, `reconnect`, `stop-inactive`, `destroyAndDelete`, `moveOne` |
| start, edit, delete | `Connection.pm` |

liercd is external: `Status`, `Destroy`, `Create` are what the callers
rely on. What create does to a connection that runs already is not in this
repository, so both outcomes (old or new config) are allowed. A config is the
group of settings liercd connects with (`server_key`); what edit does when
they are unchanged is `EditSave`. `found` holds moveOne's `wasRunning` and
`slippedIn`. `stray` and `fresh` are history variables for the properties.

### Accounts, OneTimeLinks

One account and any number of requests about it. A step is one query, one
transaction, one request to liercd or one email; `pc` says where a request is.

| variable | code |
|---|---|
| `style`, `password`, `stamp` | `password_hash` and `password` of the user row: which of them is set, whose hash it is, and which of the hashes so far (salted hashes do not repeat, so equality of hashes is equality of `stamp`) |
| `verified`, `recent` | `verified`; `verify_sent` within the last minute |
| `lock` | the open transaction of `save_connection_limited` on the user row |
| `conns` | the user's connection rows: `Earlier` ones, which any account may have at first, and those that requests save |
| `mailed`, `expired` | links the user has got, and those that are too old |
| `typed`, `seen` | what a request was given and what it has read |
| `redeemed`, `intended`, `networks`, `firsts`, `claims` | history, for the properties |

`Register`, `Login`/`Upgrade`, `Verify`/`Mark`, `Reset`, `Resend`, and
`ConfirmCheck`/`Confirm` are the handlers of `Auth.pm`, `AdminReset` is `lctl
reset`, `HasNetwork`/`InsertNetwork` is `add_first_network` (with a default
network configured), `Start` .. `Undo` adds a connection, past the gate of
`Dispatch::handle`; an account that has not confirmed its address may have
connections from before, when the first network came with the signup (`Init`).
`Remove` is a delete in one step, whose own steps are in
`ConnectionLifecycle`. A reset link is named by the hash in its MAC; resending a
link is a link that has not expired. `Dies` fails a request anywhere, rolling
back its transaction.

`OneTimeLinks` is what reset links promise, with two variables: the hash
changes, or a link of the present hash is used and the hash changes. `Accounts`
is shown to implement it (`OneTime`, with `Links == INSTANCE OneTimeLinks WITH
hash <- stamp, used <- redeemed`).

### ConfigSaves

One connection's saved config and its writers. A config has four fields, one for
each group of keys with an owner of its own; a field is a text and whether its
UTF-8 is encoded twice. Each writer holds what it has read and what it will put.

| kind | code |
|---|---|
| fix | the loop of `fixConfigEncoding`: read, repair every string, compare-and-set |
| save, edit | `Connection.pm`; an edit reads twice (`edited_config`, then to compare), and destroys and creates if liercd's settings changed |
| channels | `saveChannels`: read the rows, ask liercd, write the config back |
| delete | the row and the connection go |

`LiveChanges` (IRC) and `LoggerMerges` (the logger's merge of one field into the
row) are external. `intended` and `lost` are history: what each field's owner
last wrote, and which fields a stale writer has overwritten since.

### Deletion

The lctl commands that delete rows, over tables of rows for users and their
connections. One command runs: it looks its targets up (`Find`), destroys
(`Destroy`), lets the log settle (`Settled`), deletes each target in one
transaction (`DeleteRows`) and sweeps the log (`Sweep`). A destroy that is
refused, or whose answer is lost after it took effect, skips the target. `PruneList`,
`PruneBatch` and `PruneSeen` are prune-logs and prune-seen. Meanwhile the
logger writes what running connections send, and the QUIT of a destroyed one,
the API adds connections, and a request that was let through inserts its row
late. History: `late` in a log row (written after the connection was swept),
`logged` (every row the logger wrote) and `rowless` (connections whose row was
gone at the start), which say what must still be there.

`destroyAndDelete` checks and sweeps for all its connections at once,
`deleteUsers` for each user; both are modelled for each target.

### Batches

The loops of `move-connections` and `revive` over a list of connections by id:
the list, `--dormant`'s questions, `--limit`, the pauses, the stop at the first
failed move, and revive's wait for an instance. One step is one connection; what
can happen inside a move is in `ConnectionLifecycle`. `burst` and `touched` are
history. Streams start and liercd stops connections meanwhile.

### ConnectionSettings

The rules for settings as pure operators, once as `ConnectionConfig.pm` has
them (`PerlClean`) and once as `connconfig` has them (`GoClean`), with what both
write alike shared (`ValidHost`, `CheckHost`). The texts are classes: where both
match the same pattern there is a good and a bad one, where they differ (the
nick) a sequence of classes of characters. `JSON` is what a user may send for
each key, and what `SettingsAssumption` asks of `Forms`. `Save` is the API
saving a form, `Check` is check-connections judging the row, `Resolves` a change
of the host's addresses in between.

`MCStreamServer`, `MCConnectionLifecycle`, `MCAccounts`, `MCSettings` and
`MCLctl` give the constants values. `MCLctl` puts the last four modules side by
side, one of them chosen in the initial state: they share no variables, so it
has the states of each alone, in one run. `StreamServerProofs`,
`ConnectionProofs`, `AccountsProofs`, `ConfigSavesProofs`, `DeletionProofs`,
`BatchesProofs`, `SettingsProofs` and `OneTimeLinks` hold the theorems.

## Runs

| run | asks | result |
|---|---|---|
| `stream_registry` | are registry and newest ids exact through drops, late queries, double deregistration, shutdown, disorder; do ids of one user stay out of another's streams | yes |
| `stream_gap` | in-order messages: is every handled message covered by the handshake or delivered, are newest ids never behind, and is the whole a `ClientFeed` | yes |
| `stream_live` | do stopped streams end, does shutdown drain, do live events arrive | yes, under `FairSpec` |
| `stream_reorder` | the same as `LatestCurrent`, messages out of order | no, see findings |
| `connection_moves` | do moves leave the connection where the column says, running if it was, with no row-less connection | yes |
| `connection_both` | does it run on at most one instance | no, see findings |
| `connection_wiped` | is a connection deleted by lctl stopped | no, see findings |
| `connection_edited` | is the saved config the running one | no, see findings |
| `accounts` | are reset links one-time links, does the first network come once, come at all, and never on top of earlier connections, do the limit and the pacing of emails hold | yes |
| `accounts_reset` | does a password that was reset stay | no, see findings |
| `lctl` | does a repair keep every text, and who can lose what to whom (`ConfigSaves`); is a target deleted whole or kept, and is the log swept (`Deletion`); are starts paced, dormant connections the only ones moved, failures where the command stops, and waits honoured (`Batches`); does check-connections keep what the API saves (`ConnectionSettings`) | yes |
| `settings_nick` | does `Clean` refuse what the API refuses | no, see findings |

Bounds. Two streams of one user are enough for every interaction in the
registry, which only asks whether the user has another stream; two users are
needed for isolation only. `stream_registry` has both: two streams and two
messages of one user, or (`Bounded`, of `MCStreamServer`) a stream and a
message of each of two users at once. The shutdown, which asks nothing of users
and ids, comes with one user and at most one message there, and with three
messages in `stream_gap`. `stream_live` has one stream: its properties are
about the threads of one stream, and one is enough to register late in a
shutdown; its second message is another user's. Two messages can be in order,
out of order, lost or repeated. `BufferSize` 1 makes a full buffer likely (1024
in the code); 2 in `stream_gap` lets events queue during the handshake, and its
third message makes that overflow (pings, which would too, are in
`stream_registry`; `stream_gap` asks what they would say). `stream_gap` and
`stream_reorder` leave out states in which a buffer overflows while its handler
looks up the newest id (`SeededInTime`): with a buffer of two that is common,
with 1024 it takes 1024 events in that time. The theorems about these
properties assume the same. The invariants of `stream_registry` are checked
with such states. Replays have up to two events: one held by the goroutine, one
more to push.

`connection_moves` gives three actors a list of teams: a move and a stream with
each other kind, two moves, a move with a start and a delete, commands without
a move. Every kind is in it. Two configs tell old from new. `lost` is not in
this run: see Limits. In the three small connection runs nothing fails, two
actors suffice, and only the order of their steps matters.

`accounts` has four requests: enough for two confirms of one link with a resend
and a start, or for three starts at a limit of two. One request does one thing,
so a session of a user is a choice of requests. `Minute` and `Expire` may come at
any time, which covers every length of the two lifetimes. Up to three
connections from before cover accounts below, at and above the limit. Two passwords tell
the old from the new. `accounts_reset` has no failures: the order is enough.

`lctl`, one part at a time. `ConfigSaves`: two writers of every two kinds, and
two texts: a lost update needs one writer between another's read and write. The
first text and one order of the two writers stand for the others, which are
alike (the kinds' order is fixed in `ConfigFirst`, instead of a symmetry that the
properties of the other parts would not allow). `Deletion`: two users, a
connection each and one that is added meanwhile, one of them perhaps without a
row of its own (it has left others), one invalid connection, two
log rows (one before and one after a sweep), batches of one row, and one late
request. `Batches`: three connections, batches of one and two, a limit of two
or none, a wait of one and a half probes or none. `ConnectionSettings`: each
setting in turn takes every class of every JSON type, with the others usual; host
and port vary together because of the exempt default network.

Deadlock is not checked: every request is answered, every client ends its stream, every actor finishes, the
messages run out.

Symmetry of a user's two streams is used for safety runs only; that of the
requests, and of the earlier connections, in `accounts`, whose properties treat
them alike.

Fairness (`FairSpec`, `stream_live`): weak fairness of each handler, each replay
goroutine and `Deliver`. The Go scheduler runs every goroutine that can run;
each write has a deadline (`WriteTimeout`), each query and liercd request a
context. Weak fairness of a handler as a whole says it does not idle, not that
its select takes one case in the end: a replay is finite (one status per
connection), live events are finite here, and `done` is a case of its own that
stays ready. Clients, pings, the logger and NSQ faults are not fair.

## Findings

1. `stream_reorder`: a first stream skips its seed query when `Deliver` has
   already raised the entry for it. The design says it is seeded, and that
   Deliver's value and the queried one are compared; with messages out of order,
   which the plan expects, pings can then be behind the log.
2. `connection_both`: a request is addressed before it is sent. A
   recreate that looked up the old column can arrive after the second destroy of
   a move, which the move does not look for again. The design's anti-goal, a
   connection on both instances, is reached.
3. `connection_wiped`: a stream opening in the settle time of
   `delete-connections` recreates the connection; its row then goes away.
4. `connection_edited`: a stream opening during an edit can leave liercd running
   the settings from before it, though the comment in `save` relies on the saved
   config being the one that runs.
5. `accounts_reset`: a login with a legacy hash reads the row, a reset of the
   password goes through, and the login then stores a new hash of the old
   password over it. The comment says the legacy hash is dropped "so it can't be
   used again", and `reset` "sets the password". `replace_password_hash`, which
   compares first, is there and used by `reset_confirm` only.
6. `settings_nick`: `nickRe` in `connconfig.go` asks of every character but the
   first that it be a letter, number, punctuation or symbol. A nick beginning with a
   combining mark or a control character is refused by the API and passed by
   `Clean`, whose comment promises the API's rule; the shared test cases have
   such characters at the second position or later.

Not checked by a run: `delete-users` says a user is "either fully deleted or left
as they were". A connection that the user adds between the lookup and the delete
is deleted with the user, but it is not destroyed in liercd, and its log and
private rows stay (`delete_users.go:137` works from the list read before).
`AllOrNothing` says of that connection that its row goes with the user, and
nothing of what is left of it. Of everything else it says which rows are there:
of a target that was deleted none, of all others every row of every table, the
log included.

Two further ways for the newest id to fall behind, met while bounding
`stream_gap`: a failed owner lookup in `Deliver` drops the message without
raising the id, and the guard on a late query result (`if the stream has not
already ended`) in fact asks for any stream of the user, so the late result of a
dropped stream can be the first entry of its successors.

## Proofs

All theorems are about `Spec` of the module for all values of the constants that
meet its named assumption; a further condition is named below and in the
theorem. Every invariant and action property of a passing run is proved, and for
each finding there is a theorem saying what the violation takes.

- `StreamServerProofs`: `StreamTypeOK`; `StreamRegistry` (`RegistryExact`);
  `StreamLatestOnlyWhileStreaming`; `StreamLatestNeverFalls`;
  `StreamOwnMessagesOnly`; `StreamLatestCoversGot`. The type invariant is needed
  for the queue lengths and the range of ids. The registry needs where a handler
  may be when its stream is not registered: idle, dropped (so `done`), or past
  deregistering. What a stream holds is its user's because the owner was looked
  up before the message was offered; it is covered by the newest id because both
  change in one critical section. Every action that shrinks the registry does so
  through `RemoveLocked`, and the lemmas about it carry the rest.

  `StreamNothingMissed` and `StreamLatestCurrent` hold if messages come in order
  and once and no lookup or query fails (`Undisturbed`), and no buffer overflows
  during the seeding (`SeededInTime`, a condition on the behaviour); clients
  leaving, pings, shutdown, messages lost in NSQ and slow clients may all
  happen. The invariant `GapInv` follows a handled message through the handshake:
  an entry in the table covers it, or else the query's result does (`QueryKnows`),
  or else there was none (`NothingToKnow`). That needs the log to have no holes
  (`InOrder`) and a seeding handler to be registered (`SeedersIn`): it is where
  the order of registering before querying matters, and where reordering breaks
  it (`stream_reorder`).

  `StreamImplementsFeed` is the refinement of `ClientFeed` under the same
  conditions: a handshake that is written to a live stream is `Connect`, which is
  what `ClientKnows` is for; `Deliver` with everybody it stops is `Deliver`; every
  other step ends streams or is invisible. `GotDelivered` (a client has only what
  was delivered to its user) is the one invariant it adds. `FeedHasNoGap` derives
  what `ClientFeed` is for from its actions alone.

- `ConnectionProofs`, for any number of actors in any teams.
  - `ConnectionTypeOK`, and `ConnectionOffColumn` (`OffColumnIsTransient`) with
    every failure. Lemma `Shapes` reduces each step to one of a few request and
    query shapes. The invariant adds to the property `Control` (only a
    move is at a move's steps, and whoever is about to send to a given instance,
    or set the column, holds one) and `Unstarted` (before its start a connection
    has no row, runs nowhere, and nobody else has found it): without the first a
    column change could be to nowhere or by someone who does not destroy again,
    without the second the row could appear over an instance that already runs it.
  - `ConnectionStillRunning`, with every failure. `Placed` says which kind
    of actor is at which step, with what it has read. `KeptAlive` says that
    once one of them has reported success the connection runs, or some actor's
    next steps create it or end in a reported failure (`Promises`): a move that
    has destroyed it has noted that it ran, a recreate that found it running is
    overtaken only by such a move.
  - `ConnectionNoOrphan` and `ConnectionNeverOnBoth`, if no reply is lost and
    nothing but starts, moves, stops and deletes works on the connection.
    `OneToken`: the running connection is a token that one instance has, or one
    actor who has stopped or not yet started it, and without a row nobody has it.
  - `PromptRequestsOnOne` and `NeverOnBothIfPrompt`, the other side of
    `connection_both`: if requests go out as soon as they are addressed (no
    `slow`) and there is one move, a connection with a row runs off its column
    only until the move's second destroy, or after a move that reported failure.
    `NothingStrays`: no create has gone to the instance left behind.
  - `WipedUnlessRead`, the other side of `connection_wiped`: what lctl deleted is
    stopped, whatever deletes, stops and later starters do, unless one of the
    actors that create connections had read its config before. `StopsFirst`: while
    it runs, nobody is past a destroy.
  - `SavedIsRunningIfAlone`, the other side of `connection_edited`: if no other
    such actor is under way while an edit is between its destroy and its update
    (`EditsAlone`), liercd runs the saved config, without moves. `Current`: who
    is about to create has the saved config, and nothing runs at the update.

- `AccountsProofs`, for any number of requests: `TypesHold`, with the lock held
  exactly at step "save"; `ResetLinksAreOneTime`, the refinement of
  `OneTimeLinks` (each step of `Accounts` is one of its two steps or leaves its
  variables alone), and from it `ResetLinksUsedOnce`; `OneFirstNetwork`, from
  `FirstInv` (there is one first confirmation, only its request is on the way to
  a network, and from then on the account is confirmed); `NothingUnconfirmed`,
  from `GateInv`: while the address is unconfirmed the account has earlier
  connections only and no request is past the gate; `NoNetworkOnTop`, from
  `SecondInv`: while an earlier connection is left, no network has come and
  nobody is about to save one, which holds because requests remove earlier
  connections and never add any; `ConfirmationsArePaced`; `LimitHolds`, from
  `LimitInv`: what the holder of the lock has counted still bounds the connections,
  since others can only remove one or add a first network meanwhile, unless all
  of them are earlier ones; `FirstNetworkComes`, from
  `Arriving` (after a first confirmation, without a failure or a removal, there
  is a connection or a request on its way to the insert). `NewHashesStay`, the
  other side of `accounts_reset`: an account that begins without an old hash keeps
  the password set last, since no request can then be about to upgrade one.

- `ConfigSavesProofs`, for any writers and texts: `ConfigTypes`;
  `LossesAreStaleReads` and `RepairsKeepText`. The inductive invariant adds
  `PutsBack` to the types and to `LostOnlyToStaleReads`: between its read and
  its write a repair puts back the texts it read, and every other writer puts
  back what it read in the fields that are not its own. So a write changes
  another's field only if that field changed since the read.
- `DeletionProofs`, for any users, connections, batches and bounds:
  `DeletionTypes`, `DeletedWholeOrKept`, `NothingLeftInTheLog`. The
  invariant has `Stepwise` (which stages targets are in at each phase), `Found`
  (what a target's list holds is not new, and what of it is destroyed does not
  run) and `LateOnly` (rows of swept connections came later; what prune-logs
  found does not come back), `Whole` (what is deleted is gone but for late rows)
  and `Others` (every user and connection that no deleted target takes along has
  all its rows; the log rows by comparison with `logged`). That targets do not
  share connections makes the deletion and the sweep of one leave the others whole.
- `BatchesProofs`, for any fleet, sizes, waits and probe: `BatchesTypes`,
  `BatchesArePaced` (the burst is the count modulo the batch, with a few facts
  about `%` proved there), `OnlyTheDormantMove`, `MovesStopAtTheFirstFailure`,
  `WaitsAreHonoured`. The type invariant is proved and not in a run.
- `SettingsProofs`, for any forms of JSON values and any answers of a resolver:
  `CleanedStays` (Go's `Clean` leaves what Perl's cleaned as it is), and from it
  `SavedIsValid` (`ApiSavesAreValid`); `CopiesAgree` (on a form of proper types
  whose nick does not begin with a mark the two give the same, refusals included:
  the other side of `settings_nick`, and both directions of it);
  `OtherTypesRefused`. There is a lemma for each setting.
- `OneTimeLinks`: `LinksUsedOnce`; every used link was for an older hash than the
  present one.

Only model-checked: the liveness properties of `stream_live` (liveness under
fairness is outside the proof system), and of course the six violations. What
creating a running connection does, what a resolver answers, and everything else
marked external is assumed as modelled, in the proofs as in the runs.

## Limits

- `WithinLimit` counts the connections a user added, and lets an account that was
  above the limit at first stay so; it gains none. The first network is saved
  without a count (`save_connection`), so a user who adds connections between
  the check for one and its insert ends with one more than the limit.
- One account: that two accounts can match one login (one's email, the other's
  username) and the uniqueness of names are left to the queries.

- `NoOrphan` and a lost reply: if the reply to start's create is lost, the
  row is undone while liercd runs the connection; `connection_moves` therefore
  has no lost replies, and the theorem about it assumes that there are none. The
  other three invariants of that run are proved with them.
- Bodies of messages, padding, times, the ids of streams, HTTP headers, logging
  and wording are left out.
- The age test of stop-inactive and the length of settle times: the model
  allows any time to pass anywhere, so log rows may come at any time after a
  destroy. `LogIsSwept` therefore says "written after the sweep", not "none".
- `ConfigSaves` follows one connection and what each writer does to it once.
  `saveChannels` writes to the row that liercd's status names, taken to be the
  connection's own. What creating a running connection does to its settings is
  liercd's: either.
- `LostOnlyToStaleReads` says what can be lost and to whom. That a stale writer
  loses a field at all is in the code (only the repair compares before it
  writes) and is what `lost` records.
- `Deletion` has one command at a time, one late request, and a private row
  inserted late stays for ever (no command removes it). check-connections
  judges the config it read at the start: an edit that repairs the settings
  meanwhile does not save the connection. Log ids are taken to become visible in
  order; delete-users' sweep looks only at ids above the newest it saw.
- `Batches` has one such command at a time and does not follow what happens
  after it has ended.
- `ConnectionSettings` has cleaned nicks only: an edit without a nick keeps the
  saved one unchecked, and check-connections may refuse that.

## Not modelled

- The read-only commands (`connection_list`, `connection_info`, `stats`,
  `user_info`, `inactive_users`), flag parsing and `ReadIDs`: they print what
  queries return and keep no state.
- The API's message search, history, preferences and web push: one query or one
  upsert a request. Inserts into `seen` and `private` are in `Deletion`, where
  they matter.
- Sessions, stored cookies, ids, the proxy's headers, statistics, the same-origin
  comparison: decoding and formatting, where a model at this level would assume
  what it checks.
- Which events a replay makes of a liercd status: data of one function without
  interleaving; that the replay gets through, or is abandoned, is in
  `StreamServer`.
- liercd, the logger, NSQ, Postgres and the resolver are external and modelled as
  the code relies on them.

## Layout and further work

The modules were written in the order above: first what users see (streams, the
life of a connection), then accounts, then the operator's commands. What is left
worth doing: "one connection, at most one instance" as a specification that a
prompt, undisturbed move implements (`PromptRequestsOnOne` is its invariant);
what pings say, in `ClientFeed`.
