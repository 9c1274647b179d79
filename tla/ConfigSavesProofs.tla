-------------------------- MODULE ConfigSavesProofs --------------------------
(***************************************************************************)
(* Theorems about ConfigSaves, for any number of writers of every kind and *)
(* any texts.                                                              *)
(***************************************************************************)
EXTENDS ConfigSaves, TLAPS

Writing == {"compare", "destroy", "write", "replace", "create"}

\* fix-config-encoding puts back the texts it read; every other writer puts
\* back what it read and does not own.
PutsBack(w) ==
  /\ At(w, "repair") => job[w].puts = Repair(job[w].read)
  /\ At(w, "ask") => job[w].kind = "channels" /\ job[w].puts = job[w].read
  /\ job[w].step \in Writing =>
       \A f \in Fields : f \in Own(w) \/ job[w].puts[f] = job[w].read[f]

IInv == ConfigTypeOK /\ (\A w \in Writers : PutsBack(w)) /\ LostOnlyToStaleReads

LEMMA ConfigFields ==
  /\ \A c \in Config, f \in Fields : c[f].text \in Texts /\ c[f].twice \in BOOLEAN /\ c[f] \in Value
  /\ \A c \in Config : Repair(c) \in Config /\ DOMAIN c = Fields
  /\ \A c \in Config, f \in Fields, v \in Value :
       [c EXCEPT ![f] = v] \in Config
  /\ \A t \in Texts : Right(t) \in Value
  /\ NoConfig \notin Config
<1>1. \A c \in Config, f \in Fields : c[f].text \in Texts /\ c[f].twice \in BOOLEAN /\ c[f] \in Value
  BY DEF Config, Value
<1>2. \A t \in Texts : Right(t) \in Value
  BY DEF Right, Value
<1>3. \A c \in Config : Repair(c) \in Config /\ DOMAIN c = Fields
  BY <1>1, <1>2 DEF Repair, Config
<1>4. \A c \in Config, f \in Fields, v \in Value : [c EXCEPT ![f] = v] \in Config
  BY DEF Config
<1>5. NoConfig \notin Config
  <2>1. "nick" \in Fields /\ "nick" \notin DOMAIN NoConfig
    BY DEF Fields, NoConfig
  <2>2. \A c \in Config : "nick" \in DOMAIN c
    BY <2>1 DEF Config
  <2>3. QED BY <2>1, <2>2
<1>6. QED BY <1>1, <1>2, <1>3, <1>4, <1>5

-----------------------------------------------------------------------------
(***************************************************************************)
(* A writer's step is a step of its job and of nobody else's.              *)
(***************************************************************************)
Working == [kind : Kinds, read : Config, puts : Config,
            step : {"repair", "ask", "compare", "destroy", "write", "replace", "create"}]
EndedJob == [kind |-> "none", step |-> "over", read |-> NoConfig, puts |-> NoConfig]

OnlyJob(w, j) == job' = [job EXCEPT ![w] = j]

LEMMA JobTypes ==
  ASSUME ConfigTypeOK, NEW w \in Writers
  PROVE  /\ EndedJob \in Jobs /\ Working \subseteq Jobs /\ job[w] \in Jobs
         /\ job[w].step \in {"repair", "ask", "compare", "destroy", "write", "replace", "create"}
              => job[w] \in Working
<1>1. job[w] \in Jobs
  BY DEF ConfigTypeOK
<1>2. EndedJob \in Jobs
  BY DEF EndedJob, Jobs
<1>3. Working \subseteq Jobs
  BY DEF Working, Jobs
<1>4. job[w].step \in {"repair", "ask", "compare", "destroy", "write", "replace", "create"}
        => job[w] \in Working
  BY <1>1 DEF Jobs, Working
<1>5. QED BY <1>1, <1>2, <1>3, <1>4

\* The invariant about the jobs holds after w's step if it holds of its new job.
LEMMA JobKept ==
  ASSUME IInv, NEW w \in Writers, NEW j \in Jobs, OnlyJob(w, j), PutsBack(w)'
  PROVE  job' \in [Writers -> Jobs] /\ \A v \in Writers : PutsBack(v)'
<1>1. job' \in [Writers -> Jobs] /\ \A v \in Writers : v # w => job'[v] = job[v]
  BY DEF IInv, ConfigTypeOK, OnlyJob
<1>2. ASSUME NEW v \in Writers, v # w
      PROVE  PutsBack(v)'
  <2>1. job'[v] = job[v] /\ PutsBack(v)
    BY <1>1, <1>2 DEF IInv
  <2>2. QED BY <2>1 DEF PutsBack, At, Own
<1>3. QED BY <1>1, <1>2

LEMMA EndsKeeps ==
  ASSUME IInv, NEW w \in Writers, Ends(w)
  PROVE  job' \in [Writers -> Jobs] /\ \A v \in Writers : PutsBack(v)'
<1>1. OnlyJob(w, EndedJob) /\ EndedJob \in Jobs
  BY JobTypes DEF IInv, Ends, OnlyJob, EndedJob
<1>2. job'[w].step = "over"
  BY <1>1 DEF IInv, ConfigTypeOK, OnlyJob, EndedJob
<1>3. PutsBack(w)'
  BY <1>2 DEF PutsBack, At, Writing
<1>4. QED BY <1>1, <1>3, JobKept

\* w goes on to another step with what it has.
LEMMA GoesKeeps ==
  ASSUME IInv, NEW w \in Writers, NEW from \in Writing, NEW step \in Writing,
         At(w, from), Goes(w, step)
  PROVE  job' \in [Writers -> Jobs] /\ \A v \in Writers : PutsBack(v)'
<1>1. job[w] \in Working
  BY JobTypes DEF IInv, At, Writing
<1> DEFINE j == [job[w] EXCEPT !.step = step]
<1>2. j \in Working /\ j.kind = job[w].kind /\ j.read = job[w].read /\ j.puts = job[w].puts /\ j.step = step
  BY <1>1 DEF Working, Writing
<1>3. OnlyJob(w, j) /\ job'[w] = j
  BY DEF Goes, OnlyJob, IInv, ConfigTypeOK
<1>4. j \in Jobs
  BY <1>2, JobTypes DEF IInv
<1> HIDE DEF j
<1>5. Own(w)' = Own(w)
  BY <1>2, <1>3 DEF Own
<1>6. \A f \in Fields : f \in Own(w) \/ job[w].puts[f] = job[w].read[f]
  BY DEF IInv, PutsBack, At
<1>7. PutsBack(w)'
  BY <1>2, <1>3, <1>5, <1>6 DEF PutsBack, At, Writing
<1>8. QED BY <1>3, <1>4, <1>7, JobKept

\* w has read the row, and puts back what it doesn't own.
LEMMA ReadsKeeps ==
  ASSUME IInv, NEW w \in Writers, NEW k \in Kinds, NEW c \in Config,
         NEW step \in {"repair", "ask", "compare", "write"}, saved # NoConfig,
         Reads(w, k, step, c),
         step = "repair" => c = Repair(saved),
         step = "ask" => k = "channels" /\ c = saved,
         step \in {"compare", "write"} => k \in {"edit", "save"},
         k = "save" => \A f \in Fields : f = "names" \/ c[f] = saved[f],
         k = "edit" => c["channels"] = saved["channels"]
  PROVE  IInv'
<1> DEFINE j == [kind |-> k, step |-> step, read |-> saved, puts |-> c]
<1>1. saved \in Config
  BY DEF IInv, ConfigTypeOK
<1>2. j \in Working
  BY <1>1 DEF Working
<1>3. j \in Jobs
  BY <1>2, JobTypes DEF IInv
<1>4. OnlyJob(w, j) /\ job'[w] = j /\ UNCHANGED <<saved, live, intended, lost>>
  BY DEF Reads, OnlyJob, IInv, ConfigTypeOK
<1>5. j.kind = k /\ j.step = step /\ j.read = saved /\ j.puts = c
  OBVIOUS
<1> HIDE DEF j
<1>6. step \in Writing => \A f \in Fields : f \in Own(w)' \/ c[f] = saved[f]
  BY <1>4, <1>5 DEF Own, Fields, Writing
<1>7. PutsBack(w)'
  BY <1>4, <1>5, <1>6 DEF PutsBack, At, Writing
<1>8. job' \in [Writers -> Jobs] /\ \A v \in Writers : PutsBack(v)'
  BY <1>3, <1>4, <1>7, JobKept
<1>9. QED
  BY <1>4, <1>8 DEF IInv, ConfigTypeOK, LostOnlyToStaleReads

\* A step that changes the row's config to what its owners set, or not at all.
LEMMA RowKeeps ==
  ASSUME IInv, job' \in [Writers -> Jobs] /\ (\A v \in Writers : PutsBack(v)'),
         saved' \in Config \cup {NoConfig}, live' \in Config \cup {NoConfig},
         intended' \in Config, lost' \subseteq Fields,
         saved' # NoConfig =>
           \A f \in Fields : saved'[f] = intended'[f] \/ f \in lost'
  PROVE  IInv'
BY DEF IInv, ConfigTypeOK, LostOnlyToStaleReads

-----------------------------------------------------------------------------
LEMMA Reading ==
  ASSUME IInv, NEW w \in Writers, FixRead(w) \/ SaveRead(w) \/ EditRead(w) \/ ChannelsRead(w)
  PROVE  IInv'
<1> USE DEF Kinds
<1>1. saved # NoConfig => saved \in Config
  BY DEF IInv, ConfigTypeOK
<1>2. CASE FixRead(w)
  <2>1. saved # NoConfig /\ Reads(w, "fix", "repair", Repair(saved)) /\ Repair(saved) \in Config
    BY <1>1, <1>2, ConfigFields DEF FixRead
  <2>2. QED BY <2>1, ReadsKeeps
<1>3. CASE SaveRead(w)
  <2>1. PICK t \in Texts : Reads(w, "save", "write", [saved EXCEPT !.names = Right(t)])
    BY <1>3 DEF SaveRead
  <2> DEFINE c == [saved EXCEPT !.names = Right(t)]
  <2>2. saved # NoConfig /\ saved \in Config
    BY <1>1, <1>3 DEF SaveRead
  <2>3. c \in Config
    BY <2>2, ConfigFields DEF Fields
  <2>4. \A f \in Fields : f = "names" \/ c[f] = saved[f]
    BY <2>2 DEF Config
  <2>5. Reads(w, "save", "write", c)
    BY <2>1
  <2> HIDE DEF c
  <2>6. QED BY <2>2, <2>3, <2>4, <2>5, ReadsKeeps
<1>4. CASE EditRead(w)
  <2>1. PICK t \in Texts : \E n \in {saved.nick, Right(t)} :
          Reads(w, "edit", "compare", [f \in Fields |-> CASE f = "nick" -> n
                                                          [] f = "channels" -> saved[f]
                                                          [] OTHER -> Right(t)])
    BY <1>4 DEF EditRead
  <2>2. PICK n \in {saved.nick, Right(t)} :
          Reads(w, "edit", "compare", [f \in Fields |-> CASE f = "nick" -> n
                                                          [] f = "channels" -> saved[f]
                                                          [] OTHER -> Right(t)])
    BY <2>1
  <2> DEFINE c == [f \in Fields |-> CASE f = "nick" -> n
                                      [] f = "channels" -> saved[f]
                                      [] OTHER -> Right(t)]
  <2>3. saved # NoConfig /\ saved \in Config
    BY <1>1, <1>4 DEF EditRead
  <2>4. n \in Value /\ Right(t) \in Value /\ saved["channels"] \in Value
    BY <2>3, ConfigFields DEF Fields
  <2>5. c \in Config
    BY <2>4 DEF Config
  <2>6. c["channels"] = saved["channels"]
    BY DEF Fields
  <2>7. Reads(w, "edit", "compare", c)
    BY <2>2
  <2> HIDE DEF c
  <2>8. QED BY <2>3, <2>5, <2>6, <2>7, ReadsKeeps
<1>5. CASE ChannelsRead(w)
  <2>1. saved # NoConfig /\ Reads(w, "channels", "ask", saved) /\ saved \in Config
    BY <1>1, <1>5 DEF ChannelsRead
  <2>2. QED BY <2>1, ReadsKeeps
<1>6. QED BY <1>2, <1>3, <1>4, <1>5

LEMMA Asking ==
  ASSUME IInv, NEW w \in Writers, ChannelsAsk(w)
  PROVE  IInv'
<1>1. job[w] \in Working /\ job[w].kind = "channels" /\ job[w].puts = job[w].read
  BY JobTypes DEF ChannelsAsk, IInv, PutsBack, At
<1>2. live \in Config
  BY DEF ChannelsAsk, IInv, ConfigTypeOK
<1> DEFINE c == [job[w].puts EXCEPT !.channels = live.channels]
           j == [job[w] EXCEPT !.step = "write", !.puts = c]
<1>3. c \in Config
  <2>1. job[w].puts \in Config /\ live["channels"] \in Value
    BY <1>1, <1>2, ConfigFields DEF Working, Fields
  <2>2. QED BY <2>1, ConfigFields DEF Fields
<1>4. \A f \in Fields : f = "channels" \/ c[f] = job[w].read[f]
  BY <1>1 DEF Working, Config
<1> HIDE DEF c
<1>5. j \in Working /\ j.kind = "channels" /\ j.step = "write" /\ j.read = job[w].read /\ j.puts = c
  BY <1>1, <1>3 DEF Working
<1>6. OnlyJob(w, j) /\ job'[w] = j
  BY DEF ChannelsAsk, OnlyJob, IInv, ConfigTypeOK, c
<1>7. j \in Jobs
  BY <1>5, JobTypes DEF IInv
<1> HIDE DEF j
<1>8. PutsBack(w)'
  BY <1>4, <1>5, <1>6 DEF PutsBack, At, Own
<1>9. job' \in [Writers -> Jobs] /\ \A v \in Writers : PutsBack(v)'
  BY <1>6, <1>7, <1>8, JobKept
<1>10. UNCHANGED <<saved, live, intended, lost>>
  BY DEF ChannelsAsk
<1>11. QED BY <1>9, <1>10 DEF IInv, ConfigTypeOK, LostOnlyToStaleReads

LEMMA Repairing ==
  ASSUME IInv, NEW w \in Writers, FixWrite(w)
  PROVE  IInv'
<1>1. job' \in [Writers -> Jobs] /\ \A v \in Writers : PutsBack(v)'
  BY EndsKeeps DEF FixWrite
<1>2. job[w].puts \in Config
  BY JobTypes DEF FixWrite, At, Working, IInv
<1>3. CASE saved = job[w].read
  BY <1>1, <1>2, <1>3, RowKeeps DEF FixWrite, IInv, ConfigTypeOK
<1>4. CASE saved # job[w].read
  <2>1. UNCHANGED <<saved, live, intended, lost>>
    BY <1>4 DEF FixWrite
  <2>2. QED BY <1>1, <2>1 DEF IInv, ConfigTypeOK, LostOnlyToStaleReads
<1>5. QED BY <1>3, <1>4

\* What w does not own goes back as w read it: where the row is still the same
\* it stays, and where it isn't the field is among the lost ones.
LEMMA Writes ==
  ASSUME IInv, NEW w \in Writers, Write(w)
  PROVE  IInv'
<1>1. job' \in [Writers -> Jobs] /\ \A v \in Writers : PutsBack(v)'
  BY EndsKeeps, GoesKeeps DEF Write, Writing
<1>2. /\ job[w].puts \in Config
      /\ \A f \in Fields : f \in Own(w) \/ job[w].puts[f] = job[w].read[f]
  BY JobTypes DEF Write, At, Working, IInv, PutsBack, Writing
<1>3. CASE saved # NoConfig
  <2>1. /\ saved' = job[w].puts /\ live' = live
        /\ intended' = [f \in Fields |-> IF f \in Own(w) THEN job[w].puts[f] ELSE intended[f]]
        /\ lost' = (lost \cup {f \in Fields : saved[f] # job[w].read[f]}) \ Own(w)
    BY <1>3 DEF Write
  <2>2. intended' \in Config /\ lost' \subseteq Fields
    BY <1>2, <2>1, ConfigFields DEF IInv, ConfigTypeOK, Config
  <2>3. ASSUME NEW f \in Fields
        PROVE  saved'[f] = intended'[f] \/ f \in lost'
    <3>1. CASE f \in Own(w)
      BY <2>1, <3>1
    <3>2. CASE f \notin Own(w) /\ saved[f] = job[w].read[f]
      <4>1. saved'[f] = saved[f] /\ intended'[f] = intended[f]
        BY <1>2, <2>1, <3>2
      <4>2. saved[f] = intended[f] \/ f \in lost
        BY <1>3 DEF IInv, LostOnlyToStaleReads
      <4>3. QED BY <2>1, <3>2, <4>1, <4>2
    <3>3. CASE f \notin Own(w) /\ saved[f] # job[w].read[f]
      BY <2>1, <3>3
    <3>4. QED BY <3>1, <3>2, <3>3
  <2>4. saved' \in Config /\ live' \in Config \cup {NoConfig}
    BY <1>2, <2>1 DEF IInv, ConfigTypeOK
  <2>5. QED BY <1>1, <2>2, <2>3, <2>4, RowKeeps
<1>4. CASE saved = NoConfig
  <2>1. UNCHANGED <<saved, live, intended, lost>>
    BY <1>4 DEF Write
  <2>2. QED BY <1>1, <2>1 DEF IInv, ConfigTypeOK, LostOnlyToStaleReads
<1>5. QED BY <1>3, <1>4

\* The remaining steps leave the row, or take it away.
LEMMA Others ==
  ASSUME IInv, NEW w \in Writers,
         EditCompare(w) \/ EditDestroy(w) \/ Create(w) \/ DeleteRow(w) \/ GivesUp(w)
  PROVE  IInv'
<1>1. job' \in [Writers -> Jobs] /\ \A v \in Writers : PutsBack(v)'
  <2>1. CASE EditCompare(w)
    <3>1. At(w, "compare") /\ \E step \in {"write", "destroy"} : Goes(w, step)
      BY <2>1 DEF EditCompare
    <3>2. QED BY <3>1, GoesKeeps DEF Writing
  <2>2. CASE EditDestroy(w)
    BY <2>2, GoesKeeps DEF EditDestroy, Writing
  <2>3. CASE Create(w) \/ DeleteRow(w) \/ GivesUp(w)
    BY <2>3, EndsKeeps DEF Create, DeleteRow, GivesUp
  <2>4. QED BY <2>1, <2>2, <2>3
<1>2. /\ live' \in Config \cup {NoConfig}
      /\ UNCHANGED saved \/ saved' = NoConfig
      /\ UNCHANGED <<intended, lost>>
  <2>1. CASE Create(w)
    <3>1. job[w].puts \in Config
      BY <2>1, JobTypes DEF Create, At, Working, IInv
    <3>2. QED BY <2>1, <3>1 DEF Create, IInv, ConfigTypeOK
  <2>2. CASE ~Create(w)
    BY <2>2 DEF EditCompare, EditDestroy, DeleteRow, GivesUp, IInv, ConfigTypeOK
  <2>3. QED BY <2>1, <2>2
<1>3. QED BY <1>1, <1>2 DEF IInv, ConfigTypeOK, LostOnlyToStaleReads

LEMMA Outside ==
  ASSUME IInv, LiveChanges \/ LoggerMerges
  PROVE  IInv'
<1>1. \A v \in Writers : PutsBack(v)'
  BY DEF LiveChanges, LoggerMerges, IInv, PutsBack, At, Own
<1>2. CASE LiveChanges
  <2>1. live' \in Config
    <3>1. PICK f \in {"nick", "channels"}, t \in Texts : live' = [live EXCEPT ![f] = Right(t)]
      BY <1>2 DEF LiveChanges
    <3>2. live \in Config /\ f \in Fields /\ Right(t) \in Value
      BY <1>2, ConfigFields DEF LiveChanges, IInv, ConfigTypeOK, Fields
    <3>3. QED BY <3>1, <3>2, ConfigFields
  <2>2. UNCHANGED <<saved, job, intended, lost>>
    BY <1>2 DEF LiveChanges
  <2>3. QED BY <1>1, <2>1, <2>2 DEF IInv, ConfigTypeOK, LostOnlyToStaleReads
<1>3. CASE LoggerMerges
  <2>1. PICK f \in {"nick", "channels"} :
          /\ saved' = [saved EXCEPT ![f] = live[f]]
          /\ intended' = [intended EXCEPT ![f] = live[f]]
          /\ lost' = lost \ {f}
    BY <1>3 DEF LoggerMerges
  <2>2. /\ saved \in Config /\ live \in Config /\ intended \in Config /\ f \in Fields
        /\ saved # NoConfig
    BY <1>3 DEF LoggerMerges, IInv, ConfigTypeOK, Fields
  <2>3. live[f] \in Value
    BY <2>2, ConfigFields
  <2>4. saved' \in Config /\ intended' \in Config
    BY <2>1, <2>2, <2>3, ConfigFields
  <2>5. \A g \in Fields : saved'[g] = intended'[g] \/ g \in lost'
    BY <2>1, <2>2 DEF IInv, LostOnlyToStaleReads, Config
  <2>6. UNCHANGED <<live, job>>
    BY <1>3 DEF LoggerMerges
  <2>7. QED BY <1>1, <2>1, <2>4, <2>5, <2>6 DEF IInv, ConfigTypeOK, LostOnlyToStaleReads
<1>4. QED BY <1>2, <1>3

LEMMA StepKeeps == IInv /\ [ConfigNext]_configVars => IInv'
<1> SUFFICES ASSUME IInv, [ConfigNext]_configVars
             PROVE  IInv'
  OBVIOUS
<1>1. ASSUME NEW w \in Writers, FixRead(w) \/ SaveRead(w) \/ EditRead(w) \/ ChannelsRead(w)
      PROVE  IInv'
  BY <1>1, Reading
<1>2. ASSUME NEW w \in Writers, ChannelsAsk(w) \/ FixWrite(w) \/ Write(w)
      PROVE  IInv'
  BY <1>2, Asking, Repairing, Writes
<1>3. ASSUME NEW w \in Writers,
             EditCompare(w) \/ EditDestroy(w) \/ Create(w) \/ DeleteRow(w) \/ GivesUp(w)
      PROVE  IInv'
  BY <1>3, Others
<1>4. CASE LiveChanges \/ LoggerMerges
  BY <1>4, Outside
<1>5. CASE UNCHANGED configVars
  BY <1>5 DEF configVars, IInv, ConfigTypeOK, LostOnlyToStaleReads, PutsBack, At, Own
<1>6. QED BY <1>1, <1>2, <1>3, <1>4, <1>5 DEF ConfigNext

LEMMA InitHolds == ConfigInit => IInv
<1> SUFFICES ASSUME ConfigInit PROVE IInv
  OBVIOUS
<1>1. saved \in Config /\ live \in Config \cup {NoConfig} /\ intended = saved /\ lost = {}
  <2>1. PICK t \in Texts, b \in BOOLEAN : saved = [f \in Fields |-> [text |-> t, twice |-> b]]
    BY DEF ConfigInit
  <2>2. saved \in Config
    BY <2>1 DEF Config, Value
  <2>3. QED BY <2>2 DEF ConfigInit
<1>2. job \in [Writers -> Jobs] /\ \A w \in Writers : job[w].step = "start"
  BY DEF ConfigInit, Jobs
<1>3. \A w \in Writers : PutsBack(w)
  BY <1>2 DEF PutsBack, At, Writing
<1>4. QED BY <1>1, <1>2, <1>3 DEF IInv, ConfigTypeOK, LostOnlyToStaleReads

-----------------------------------------------------------------------------
\* Whatever the writers do, the row and liercd hold a whole config or none, and
\* every writer puts back a whole one (update_connection, UpdateConfig, create).
THEOREM ConfigTypes == ConfigSpec => []ConfigTypeOK
<1>1. IInv => ConfigTypeOK
  BY DEF IInv
<1>2. QED BY <1>1, InitHolds, StepKeeps, PTL DEF ConfigSpec

\* Any number of API requests, closing streams, repairs and log entries: a field
\* differs from what its owner last wrote only after a writer has put back an
\* older one it had read (saveChannels, save, edited_config).
THEOREM LossesAreStaleReads == ConfigSpec => []LostOnlyToStaleReads
<1>1. IInv => LostOnlyToStaleReads
  BY DEF IInv
<1>2. QED BY <1>1, InitHolds, StepKeeps, PTL DEF ConfigSpec

\* fix-config-encoding never changes a text, since its UPDATE writes over
\* nothing but what it has read.
THEOREM RepairsKeepText == ConfigSpec => RepairKeepsText
<1> DEFINE Same(w) == At(w, "repair") /\ ~At(w, "repair")' /\ saved' # saved =>
             \A f \in Fields : \/ saved'[f] = saved[f]
                               \/ saved[f].twice /\ saved'[f] = Right(saved[f].text)
<1>1. ASSUME IInv, [ConfigNext]_configVars, NEW w \in Writers
      PROVE  Same(w)
  <2> SUFFICES ASSUME At(w, "repair"), ~At(w, "repair")', saved' # saved
               PROVE  \A f \in Fields : \/ saved'[f] = saved[f]
                                        \/ saved[f].twice /\ saved'[f] = Right(saved[f].text)
    OBVIOUS
  <2>1. saved = job[w].read /\ saved' = job[w].puts
    <3>1. FixWrite(w)
      <4>1. ASSUME NEW v \in Writers, v # w,
                   \/ FixRead(v) \/ FixWrite(v) \/ SaveRead(v) \/ EditRead(v) \/ EditCompare(v)
                   \/ EditDestroy(v) \/ ChannelsRead(v) \/ ChannelsAsk(v) \/ Write(v)
                   \/ Create(v) \/ DeleteRow(v) \/ GivesUp(v)
            PROVE  job'[w] = job[w]
        BY <1>1, <4>1 DEF FixRead, FixWrite, SaveRead, EditRead, EditCompare, EditDestroy,
             ChannelsRead, ChannelsAsk, Write, Create, DeleteRow, GivesUp, Reads, Goes, Ends,
             IInv, ConfigTypeOK
      <4>2. ~(FixRead(w) \/ SaveRead(w) \/ EditRead(w) \/ EditCompare(w) \/ EditDestroy(w)
              \/ ChannelsRead(w) \/ ChannelsAsk(w) \/ Write(w) \/ Create(w) \/ DeleteRow(w))
        BY DEF FixRead, SaveRead, EditRead, EditCompare, EditDestroy, ChannelsRead,
               ChannelsAsk, Write, Create, DeleteRow, Reads, At
      <4>3. ~GivesUp(w) /\ ~LiveChanges /\ ~LoggerMerges /\ ~UNCHANGED configVars
        BY DEF GivesUp, LiveChanges, LoggerMerges, configVars, At
      <4>4. QED BY <1>1, <4>1, <4>2, <4>3 DEF ConfigNext, At
    <3>2. QED BY <3>1 DEF FixWrite
  <2>2. saved \in Config /\ saved' = Repair(saved)
    <3>1. job[w] \in Working
      BY <1>1, JobTypes DEF IInv, At
    <3>2. QED BY <1>1, <2>1, <3>1 DEF IInv, PutsBack, Working
  <2>3. ASSUME NEW f \in Fields
        PROVE  \/ saved'[f] = saved[f]
               \/ saved[f].twice /\ saved'[f] = Right(saved[f].text)
    <3>1. saved'[f] = Right(saved[f].text) /\ saved[f] \in Value
      BY <2>2, ConfigFields DEF Repair
    <3>2. QED BY <3>1 DEF Right, Value
  <2>4. QED BY <2>3
<1>2. IInv /\ [ConfigNext]_configVars => [\A w \in Writers : Same(w)]_configVars
  BY <1>1
<1>3. QED
  BY <1>2, InitHolds, StepKeeps, PTL DEF ConfigSpec, RepairKeepsText
=============================================================================
