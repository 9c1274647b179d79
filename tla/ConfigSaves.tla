----------------------------- MODULE ConfigSaves -----------------------------
(***************************************************************************)
(* The writers of one connection's saved config.  Each reads the whole     *)
(* config, changes the fields it owns and writes all of it back: the       *)
(* stream server's saveChannels, the API's save and edit, and lctl         *)
(* fix-config-encoding, which alone compares the row with what it read.    *)
(* The logger, external, merges what liercd reports.                       *)
(*                                                                         *)
(* A step is one query or one liercd request.  A field is a text and       *)
(* whether it is stored with its UTF-8 encoded twice, as the API once did. *)
(***************************************************************************)
EXTENDS Naturals

CONSTANTS
  Writers,  \* requests and commands, each made once
  Texts     \* non-ASCII texts; ASCII ones have one form only

VARIABLES
  saved,     \* the row's config, NoConfig once the row is deleted
  live,      \* what liercd runs and reports: a config, NoConfig if stopped
  job,       \* what each writer is, its next step, what it has read and will write
  intended,  \* history: what the owner of each field last wrote
  lost       \* history: fields overwritten by a writer that had read an older one

configVars == <<saved, live, job, intended, lost>>

\* names: Highlight and Alias, which liercd doesn't use; server: the others
\* but Nick and Channels, which liercd reports.
Fields == {"names", "server", "nick", "channels"}
Value  == [text : Texts, twice : BOOLEAN]
Config == [Fields -> Value]
NoConfig == [f \in {} |-> 0]
Right(t) == [text |-> t, twice |-> FALSE]

Kinds == {"fix", "save", "edit", "channels", "delete"}
Jobs ==
  [kind : Kinds, step : {"start"}, read : {NoConfig}, puts : {NoConfig}]
  \cup [kind : Kinds, read : Config, puts : Config,
        step : {"repair", "ask", "compare", "destroy", "write", "replace", "create"}]
  \cup [kind : {"none"}, step : {"over"}, read : {NoConfig}, puts : {NoConfig}]

ConfigTypeOK ==
  /\ saved \in Config \cup {NoConfig}
  /\ live \in Config \cup {NoConfig}
  /\ job \in [Writers -> Jobs]
  /\ intended \in Config
  /\ lost \subseteq Fields

\* A config saved before or after the API stopped encoding twice; liercd may
\* be running it.
ConfigInit ==
  /\ saved \in {[f \in Fields |-> [text |-> t, twice |-> b]] : t \in Texts, b \in BOOLEAN}
  /\ live \in {saved, NoConfig}
  /\ job \in [Writers -> [kind : Kinds, step : {"start"}, read : {NoConfig}, puts : {NoConfig}]]
  /\ intended = saved
  /\ lost = {}

-----------------------------------------------------------------------------
At(w, step) == job[w].step = step
Goes(w, step) == job' = [job EXCEPT ![w].step = step]
Ends(w) == job' = [job EXCEPT ![w] = [kind |-> "none", step |-> "over",
                                      read |-> NoConfig, puts |-> NoConfig]]

\* w, of kind k, has read the row and goes on with the config c to write.
Reads(w, k, step, c) ==
  /\ At(w, "start") /\ job[w].kind = k
  /\ job' = [job EXCEPT ![w] = [kind |-> k, step |-> step, read |-> saved, puts |-> c]]
  /\ UNCHANGED <<saved, live, intended, lost>>

\* undoDoubleUTF8 on each string: a text that is right already stays.
Repair(c) == [f \in Fields |-> Right(c[f].text)]

FixRead(w) ==
  /\ saved # NoConfig
  /\ Repair(saved) # saved
  /\ Reads(w, "fix", "repair", Repair(saved))

\* Mutation: the row is replaced whatever it has become.
FixBlindly(w) ==
  /\ At(w, "repair")
  /\ Ends(w)
  /\ IF saved # NoConfig
     THEN saved' = job[w].puts /\ intended' = Repair(saved) /\ lost' = {}
     ELSE UNCHANGED <<saved, intended, lost>>
  /\ UNCHANGED live

\* UPDATE ... WHERE config::text is what was read; otherwise it is skipped.
FixWrite(w) ==
  /\ At(w, "repair")
  /\ Ends(w)
  /\ IF saved = job[w].read
     THEN saved' = job[w].puts /\ intended' = job[w].puts /\ lost' = {}
     ELSE UNCHANGED <<saved, intended, lost>>
  /\ UNCHANGED live

\* save: only the names are the request's.
SaveRead(w) ==
  /\ saved # NoConfig
  /\ \E t \in Texts : Reads(w, "save", "write", [saved EXCEPT !.names = Right(t)])

\* Mutation: an edit takes the request's channels.
EditTakesChannels(w) ==
  /\ saved # NoConfig
  /\ \E t \in Texts : \E n \in {saved.nick, Right(t)} :
       Reads(w, "edit", "compare", [f \in Fields |-> IF f = "nick" THEN n ELSE Right(t)])

\* edit: everything is the request's but the channels, and the nick if it has
\* none.
EditRead(w) ==
  /\ saved # NoConfig
  /\ \E t \in Texts : \E n \in {saved.nick, Right(t)} :
       Reads(w, "edit", "compare", [f \in Fields |-> CASE f = "nick" -> n
                                                       [] f = "channels" -> saved[f]
                                                       [] OTHER -> Right(t)])

\* The second read: with the same server settings the row is just saved.
EditCompare(w) ==
  /\ At(w, "compare")
  /\ Goes(w, IF saved # NoConfig /\ \A f \in {"server", "nick"} : saved[f] = job[w].puts[f]
             THEN "write" ELSE "destroy")
  /\ UNCHANGED <<saved, live, intended, lost>>

EditDestroy(w) ==
  /\ At(w, "destroy")
  /\ Goes(w, "replace")
  /\ live' = NoConfig
  /\ UNCHANGED <<saved, intended, lost>>

\* saveChannels: the user's configs are read first, then liercd is asked.
ChannelsRead(w) == saved # NoConfig /\ Reads(w, "channels", "ask", saved)

\* Mutation: the answer for a connection that isn't running is saved too.
ChannelsAskAnyway(w) ==
  /\ At(w, "ask")
  /\ job' = [job EXCEPT ![w].step = "write",
                        ![w].puts = IF live = NoConfig THEN live ELSE [@ EXCEPT !.channels = live.channels]]
  /\ UNCHANGED <<saved, live, intended, lost>>

ChannelsAsk(w) ==
  /\ At(w, "ask")
  /\ live # NoConfig
  /\ job' = [job EXCEPT ![w].step = "write", ![w].puts = [@ EXCEPT !.channels = live.channels]]
  /\ UNCHANGED <<saved, live, intended, lost>>

\* What w sets on purpose.
Own(w) == CASE job[w].kind = "save" -> {"names"}
            [] job[w].kind = "channels" -> {"channels"}
            [] OTHER -> {"names", "server"} \cup
                 (IF job[w].puts.nick # job[w].read.nick THEN {"nick"} ELSE {})

\* update_connection and UpdateConfig: the whole config, if the row is there.
\* An edit that has destroyed the connection goes on to create it.
Write(w) ==
  /\ \/ At(w, "write") /\ Ends(w)
     \/ At(w, "replace") /\ Goes(w, "create")
  /\ IF saved # NoConfig
     THEN /\ saved' = job[w].puts
          /\ intended' = [f \in Fields |-> IF f \in Own(w) THEN saved'[f] ELSE intended[f]]
          /\ lost' = (lost \cup {f \in Fields : saved[f] # job[w].read[f]}) \ Own(w)
     ELSE UNCHANGED <<saved, intended, lost>>
  /\ UNCHANGED live

\* What creating a running connection does to its settings is liercd's.
Create(w) ==
  /\ At(w, "create")
  /\ Ends(w)
  /\ live' \in IF live = NoConfig THEN {job[w].puts} ELSE {job[w].puts, live}
  /\ UNCHANGED <<saved, intended, lost>>

\* The API or lctl deletes the connection.
DeleteRow(w) ==
  /\ At(w, "start") /\ job[w].kind = "delete"
  /\ Ends(w)
  /\ saved' = NoConfig
  /\ live' = NoConfig
  /\ UNCHANGED <<intended, lost>>

\* A query or a request fails, a config is refused, nothing is to repair, the
\* connection isn't running or has no channels, or the row isn't there to read.
GivesUp(w) ==
  /\ ~At(w, "over")
  /\ Ends(w)
  /\ UNCHANGED <<saved, live, intended, lost>>

\* External: the user joins, leaves or changes nick in IRC.
LiveChanges ==
  /\ live # NoConfig
  /\ \E f \in {"nick", "channels"}, t \in Texts : live' = [live EXCEPT ![f] = Right(t)]
  /\ UNCHANGED <<saved, job, intended, lost>>

\* External: the logger merges one field into the row as it is.
LoggerMerges ==
  /\ saved # NoConfig /\ live # NoConfig
  /\ \E f \in {"nick", "channels"} :
       /\ saved' = [saved EXCEPT ![f] = live[f]]
       /\ intended' = [intended EXCEPT ![f] = live[f]]
       /\ lost' = lost \ {f}
  /\ UNCHANGED <<live, job>>

ConfigNext ==
  \/ \E w \in Writers :
       \/ FixRead(w) \/ FixWrite(w) \/ SaveRead(w) \/ EditRead(w) \/ EditCompare(w)
       \/ EditDestroy(w) \/ ChannelsRead(w) \/ ChannelsAsk(w) \/ Write(w)
       \/ Create(w) \/ DeleteRow(w) \/ GivesUp(w)
  \/ LiveChanges \/ LoggerMerges

ConfigSpec == ConfigInit /\ [][ConfigNext]_configVars

-----------------------------------------------------------------------------
\* fix-config-encoding changes no text, whatever is written between its read
\* and its write: it only turns twice-encoded fields of the row as it is into
\* the same texts encoded once (its UPDATE's WHERE).
RepairKeepsText ==
  [][\A w \in Writers : At(w, "repair") /\ ~At(w, "repair")' /\ saved' # saved =>
       \A f \in Fields : \/ saved'[f] = saved[f]
                         \/ saved[f].twice /\ saved'[f] = Right(saved[f].text)]_configVars

\* Every field is what its owner last wrote, unless a writer that had read the
\* row before the field changed has written after it: no writer loses what it
\* had read and does not own (saveChannels, save, edited_config).
LostOnlyToStaleReads ==
  saved # NoConfig => \A f \in Fields : saved[f] = intended[f] \/ f \in lost
=============================================================================
