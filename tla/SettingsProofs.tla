---------------------------- MODULE SettingsProofs ----------------------------
(***************************************************************************)
(* Theorems about ConnectionSettings, for every set of forms and answers:  *)
(* what the API saves is valid for lctl check-connections, and where the   *)
(* two copies of the rules agree.                                          *)
(***************************************************************************)
EXTENDS ConnectionSettings, TLAPS

-----------------------------------------------------------------------------
(***************************************************************************)
(* Setting by setting: what the API made of a value stays as it is.        *)
(***************************************************************************)
LEMMA HostStays ==
  ASSUME NEW v, PerlHost(v) # Refused
  PROVE  GoHost(PerlHost(v)) = PerlHost(v)
<1>1. ValidHost(v.body) /\ PerlHost(v) = Str(v.body)
  BY DEF PerlHost, Text
<1>2. /\ IsStr(Str(v.body)) /\ Str(v.body).body = v.body
      /\ Trim(Str(v.body)) = Str(v.body)
  BY DEF IsStr, Str, Trim
<1>3. QED BY <1>1, <1>2 DEF GoHost

LEMMA PortStays ==
  ASSUME NEW v, PerlPort(v) # Refused
  PROVE  GoPort(PerlPort(v)) = PerlPort(v)
<1>1. PICK b \in {"default", "good"} : PerlPort(v) = [is |-> "number", pad |-> FALSE, body |-> b]
  BY DEF PerlPort
<1>2. GoPort([is |-> "number", pad |-> FALSE, body |-> b]) = [is |-> "number", pad |-> FALSE, body |-> b]
  BY DEF GoPort
<1>3. QED BY <1>1, <1>2

LEMMA NickStays ==
  ASSUME NEW v, PerlNick(v) # Refused
  PROVE  GoNick(PerlNick(v)) = PerlNick(v)
<1>1. /\ PerlNick(v) = Str(v.body)
      /\ PerlNickRe(v.body) /\ Length(v.body) = "short" /\ v.body # <<"reserved">>
      /\ \A i \in 1..Len(v.body) : v.body[i] # "banned"
  BY DEF PerlNick, Text
<1>2. GoNickRe(v.body)
  BY <1>1 DEF PerlNickRe, GoNickRe
<1>3. /\ IsStr(Str(v.body)) /\ Str(v.body).body = v.body
      /\ Trim(Str(v.body)) = Str(v.body)
  BY DEF IsStr, Str, Trim
<1>4. QED BY <1>1, <1>2, <1>3 DEF GoNick

LEMMA TextStays ==
  ASSUME NEW v, PerlText(v) # Refused
  PROVE  GoText(PerlText(v)) = PerlText(v)
<1>1. PerlText(v) = Null \/ (v.body = "good" /\ PerlText(v) = Str(v.body))
  BY DEF PerlText, Text, Scalar
<1>2. GoText(Null) = Null
  BY DEF GoText, Null
<1>3. GoText(Str("good")) = Str("good")
  BY DEF GoText, Str, IsStr, Trim
<1>4. QED BY <1>1, <1>2, <1>3

LEMMA PassKept ==
  ASSUME NEW p, NEW b, b # "bad", b = "" => p
  PROVE  GoPass([is |-> "string", pad |-> p, body |-> b]) = [is |-> "string", pad |-> p, body |-> b]
<1> DEFINE r == [is |-> "string", pad |-> p, body |-> b]
<1>1. r.is = "string" /\ r.body = b
  OBVIOUS
<1>2. r.pad <=> p
  OBVIOUS
<1> HIDE DEF r
<1>3. GoPass(r) = r
  BY <1>1, <1>2 DEF GoPass, IsStr
<1>4. QED BY <1>3 DEF r

LEMMA PassStays ==
  ASSUME NEW v, PerlPass(v) # Refused
  PROVE  GoPass(PerlPass(v)) = PerlPass(v)
<1>1. GoPass(Null) = Null
  BY DEF GoPass, Null
<1>2. CASE PerlPass(v) = Null
  BY <1>1, <1>2
<1>3. CASE PerlPass(v) # Null
  <2>1. v.body # "bad" /\ (v.body = "" => v.pad)
    BY <1>3 DEF PerlPass
  <2>2. PerlPass(v) = [is |-> "string", pad |-> v.pad, body |-> v.body]
    BY <1>3 DEF PerlPass
  <2>3. QED BY <2>1, <2>2, PassKept
<1>4. QED BY <1>2, <1>3

LEMMA ListKept ==
  ASSUME NEW S, \A x \in S : x = Str(x.body) /\ x.body \notin {"", "bad"}
  PROVE  GoList(List(S)) = List(S)
<1>1. \A x \in S : IsStr(x) /\ x.body # "bad" /\ Trim(x) = x /\ x.body # ""
  <2>1. \A b : IsStr(Str(b)) /\ Trim(Str(b)) = Str(b)
    BY DEF IsStr, Str, Trim
  <2>2. QED BY <2>1
<1>2. {Trim(x) : x \in {y \in S : y.body # ""}} = S
  BY <1>1
<1>3. List(S).is = "list" /\ List(S).items = S
  BY DEF List
<1>4. QED BY <1>1, <1>2, <1>3 DEF GoList

LEMMA ListStays ==
  ASSUME NEW v, PerlList(v) # Refused
  PROVE  GoList(PerlList(v)) = PerlList(v)
<1> DEFINE S == {Text(x) : x \in {y \in v.items : y.body # ""}}
<1>1. CASE PerlList(v) = List({})
  <2>1. GoList(List({})) = List({})
    BY ListKept
  <2>2. QED BY <1>1, <2>1
<1>2. CASE PerlList(v) # List({})
  <2>1. PerlList(v) = List(S) /\ \A x \in v.items : x.body # "bad"
    BY <1>2 DEF PerlList
  <2>2. \A x \in v.items : Text(x) = Str(x.body) /\ Text(x).body = x.body
    BY DEF Text, Str
  <2>3. \A x \in S : x = Str(x.body) /\ x.body \notin {"", "bad"}
    BY <2>1, <2>2
  <2> HIDE DEF S
  <2>4. QED BY <2>1, <2>3, ListKept
<1>3. QED BY <1>1, <1>2

LEMMA BoolStays ==
  ASSUME NEW v
  PROVE  GoBool(PerlBool(v)) = PerlBool(v)
<1>1. \A b : GoBool(Bool(b)) = Bool(b)
  BY DEF GoBool, Bool
<1>2. QED BY <1>1 DEF PerlBool

-----------------------------------------------------------------------------
(***************************************************************************)
(* Whole forms.                                                            *)
(***************************************************************************)
\* What the API cleaned, Clean leaves as it is, whatever the user had sent.
THEOREM CleanedStays ==
  ASSUME NEW f, PerlClean(f) # Refused
  PROVE  GoClean(PerlClean(f)) = PerlClean(f)
<1> DEFINE c == [Host |-> PerlHost(f.Host), Port |-> PerlPort(f.Port), Nick |-> PerlNick(f.Nick),
                 User |-> PerlText(f.User), Alias |-> PerlText(f.Alias), Pass |-> PerlPass(f.Pass),
                 Channels |-> PerlList(f.Channels), Highlight |-> PerlList(f.Highlight),
                 Ssl |-> PerlBool(f.Ssl)]
<1>1. PerlClean(f) = c /\ \A k \in Keys : c[k] # Refused
  BY DEF PerlClean, AllOr
<1>2. /\ c.Host = PerlHost(f.Host) /\ c.Port = PerlPort(f.Port) /\ c.Nick = PerlNick(f.Nick)
      /\ c.User = PerlText(f.User) /\ c.Alias = PerlText(f.Alias) /\ c.Pass = PerlPass(f.Pass)
      /\ c.Channels = PerlList(f.Channels) /\ c.Highlight = PerlList(f.Highlight)
      /\ c.Ssl = PerlBool(f.Ssl)
  OBVIOUS
<1>3. c = [Host |-> c.Host, Port |-> c.Port, Nick |-> c.Nick, User |-> c.User, Alias |-> c.Alias,
           Pass |-> c.Pass, Channels |-> c.Channels, Highlight |-> c.Highlight, Ssl |-> c.Ssl]
  OBVIOUS
<1> HIDE DEF c
<1>4. /\ c.Host # Refused /\ c.Port # Refused /\ c.Nick # Refused /\ c.User # Refused
      /\ c.Alias # Refused /\ c.Pass # Refused /\ c.Channels # Refused /\ c.Highlight # Refused
  BY <1>1 DEF Keys
<1>5. /\ GoHost(c.Host) = c.Host /\ GoPort(c.Port) = c.Port /\ GoNick(c.Nick) = c.Nick
      /\ GoText(c.User) = c.User /\ GoText(c.Alias) = c.Alias /\ GoPass(c.Pass) = c.Pass
  BY <1>2, <1>4, HostStays, PortStays, NickStays, TextStays, PassStays
<1>6. /\ GoList(c.Channels) = c.Channels /\ GoList(c.Highlight) = c.Highlight
      /\ GoBool(c.Ssl) = c.Ssl
  BY <1>2, <1>4, ListStays, BoolStays
<1>7. GoClean(c) = AllOr(c)
  BY <1>3, <1>5, <1>6 DEF GoClean
<1>8. AllOr(c) = c
  BY <1>1 DEF AllOr
<1>9. QED BY <1>1, <1>7, <1>8

-----------------------------------------------------------------------------
(***************************************************************************)
(* The saved row.                                                          *)
(***************************************************************************)
RowValid ==
  /\ row = Null => problem = "?"
  /\ row \notin {Null, Refused} =>
       /\ GoClean(row) = row
       /\ ~wandered => CheckHost(row, answer) = ""
       /\ problem # "invalid"
       /\ problem \in {"unresolved", "private"} => wandered

LEMMA RowStep ==
  ASSUME RowValid, [SettingsNext]_settingsVars
  PROVE  RowValid'
<1>1. CASE Save
  <2> DEFINE c == PerlClean(form)
  <2>1. row = Null /\ problem = "?" /\ UNCHANGED <<answer, problem, wandered>>
    BY <1>1 DEF Save, RowValid
  <2>2. CASE c = Refused \/ CheckHost(c, answer) # ""
    <3>1. row' = Refused
      BY <1>1, <2>2 DEF Save
    <3>2. QED BY <2>1, <3>1 DEF RowValid
  <2>3. CASE c # Refused /\ CheckHost(c, answer) = ""
    <3>1. row' = c
      BY <1>1, <2>3 DEF Save
    <3>2. GoClean(c) = c
      BY <2>3, CleanedStays
    <3>3. GoClean(row') = row' /\ CheckHost(row', answer') = ""
      BY <2>1, <2>3, <3>1, <3>2
    <3>4. problem' = "?"
      BY <2>1
    <3>5. QED BY <3>3, <3>4 DEF RowValid
  <2>4. QED BY <2>2, <2>3
<1>2. CASE Resolves
  <2>1. row # Null /\ problem = "?" /\ wandered' /\ UNCHANGED <<row, problem>>
    BY <1>2 DEF Resolves
  <2>2. row' \notin {Null, Refused} => GoClean(row') = row'
    BY <2>1 DEF RowValid
  <2>3. QED BY <2>1, <2>2 DEF RowValid
<1>3. CASE Check
  <2>1. /\ row \notin {Null, Refused} /\ UNCHANGED <<row, answer, wandered>>
        /\ GoClean(row) = row
    BY <1>3 DEF Check, RowValid
  <2>2. PICK dns \in BOOLEAN : problem' = Problem(row, answer, dns)
    BY <1>3 DEF Check
  <2>3. problem' = "" \/ problem' = CheckHost(row, answer)
    BY <2>1, <2>2 DEF Problem
  <2>4. CheckHost(row, answer) \in {"", "unresolved", "private"}
    BY DEF CheckHost
  <2>5. problem' # "invalid"
    BY <2>3, <2>4
  <2>6. ~wandered => CheckHost(row, answer) = ""
    BY <2>1 DEF RowValid
  <2>7. problem' \in {"unresolved", "private"} => wandered'
    BY <2>1, <2>3, <2>6
  <2>8. ~wandered' => CheckHost(row', answer') = ""
    BY <2>1, <2>6
  <2>9. QED BY <2>1, <2>5, <2>7, <2>8 DEF RowValid
<1>4. CASE UNCHANGED settingsVars
  BY <1>4 DEF settingsVars, RowValid
<1>5. QED BY <1>1, <1>2, <1>3, <1>4 DEF SettingsNext

\* For any form and any answers of the resolver: what the API saves is what
\* check-connections would save itself, and it finds nothing wrong with it
\* unless the host has come to resolve to something else (clean, check_host;
\* Clean, CheckHost, connectionProblem).
THEOREM SavedIsValid == SettingsSpec => []ApiSavesAreValid
<1>1. SettingsInit => RowValid
  BY DEF SettingsInit, RowValid
<1>2. RowValid => ApiSavesAreValid
  BY DEF RowValid, ApiSavesAreValid
<1>3. QED BY <1>1, <1>2, RowStep, PTL DEF SettingsSpec

-----------------------------------------------------------------------------
(***************************************************************************)
(* The two copies of the rules.                                            *)
(***************************************************************************)
\* Settings with their proper JSON types, the items of lists included.
ProperlyTyped(f) ==
  /\ Typed(f)
  /\ \A k \in {"Channels", "Highlight"} : f[k].is = "list" => \A x \in f[k].items : IsStr(x)

\* The one difference: a nick that starts with a combining mark.
MarkFirst(v) == IsStr(v) /\ v.body # <<>> /\ v.body[1] = "mark"

LEMMA TextIsTrim ==
  ASSUME NEW v, IsStr(v)
  PROVE  Text(v) = Trim(v) /\ Scalar(v)
BY DEF IsStr, Text, Trim, Str, Scalar

LEMMA HostAgrees ==
  ASSUME NEW v, v.is \in {"null", "string"}
  PROVE  GoHost(v) = PerlHost(v)
BY TextIsTrim DEF GoHost, PerlHost, IsStr, Scalar

LEMMA NickAgrees ==
  ASSUME NEW v, v.is = "null" \/ (v.is = "string" /\ v.body \in Seq(NickChars)), ~MarkFirst(v)
  PROVE  GoNick(v) = PerlNick(v)
<1>1. CASE v.is = "null"
  BY <1>1 DEF GoNick, PerlNick, IsStr, Scalar
<1>2. CASE v.is = "string" /\ v.body \in Seq(NickChars)
  <2>1. IsStr(v) /\ Scalar(v) /\ Text(v) = Trim(v)
    BY <1>2, TextIsTrim DEF IsStr
  <2>2. GoNickRe(v.body) <=> PerlNickRe(v.body)
    <3>1. v.body # <<>> => v.body[1] # "mark"
      BY <2>1 DEF MarkFirst
    <3>2. Len(v.body) \in Nat
      BY <1>2
    <3>3. \A i \in 1..Len(v.body) : i = 1 \/ i \in 2..Len(v.body)
      BY <3>2
    <3>4. 2..Len(v.body) \subseteq 1..Len(v.body)
      BY <3>2
    <3>5. QED BY <3>1, <3>3, <3>4 DEF GoNickRe, PerlNickRe
  <2>3. QED BY <2>1, <2>2 DEF GoNick, PerlNick
<1>3. QED BY <1>1, <1>2

LEMMA TextAgrees ==
  ASSUME NEW v, v.is \in {"null", "string"}
  PROVE  GoText(v) = PerlText(v)
BY TextIsTrim DEF GoText, PerlText, IsStr, Scalar

LEMMA PortAgrees ==
  ASSUME NEW v, v = Null \/ v \in [is : {"number"}, pad : {FALSE}, body : Bodies("Port")]
  PROVE  GoPort(v) = PerlPort(v)
<1>1. CASE v = Null
  <2>1. v.is = "null"
    BY <1>1 DEF Null
  <2>2. QED BY <2>1 DEF GoPort, PerlPort, Scalar
<1>2. CASE v \in [is : {"number"}, pad : {FALSE}, body : Bodies("Port")]
  <2>1. v.is = "number" /\ v.pad = FALSE /\ Scalar(v)
    BY <1>2 DEF Scalar
  <2>2. QED BY <2>1 DEF GoPort, PerlPort
<1>3. QED BY <1>1, <1>2

LEMMA PassAgrees ==
  ASSUME NEW B, NEW v, v = Null \/ v \in [is : {"string"}, pad : BOOLEAN, body : B]
  PROVE  GoPass(v) = PerlPass(v)
<1>1. CASE v = Null
  <2>1. v.is = "null"
    BY <1>1 DEF Null
  <2>2. QED BY <2>1 DEF GoPass, PerlPass
<1>2. CASE v \in [is : {"string"}, pad : BOOLEAN, body : B]
  <2>1. v = [is |-> "string", pad |-> v.pad, body |-> v.body]
    BY <1>2
  <2>2. v.is = "string" /\ IsStr(v) /\ Scalar(v)
    BY <1>2 DEF IsStr, Scalar
  <2>3. QED BY <2>1, <2>2 DEF GoPass, PerlPass
<1>3. QED BY <1>1, <1>2

LEMMA ListAgrees ==
  ASSUME NEW v, v.is \in {"null", "list"}, v.is = "list" => \A x \in v.items : IsStr(x)
  PROVE  GoList(v) = PerlList(v)
<1>1. CASE v.is = "null"
  BY <1>1 DEF GoList, PerlList
<1>2. CASE v.is = "list"
  <2>1. \A x \in v.items : IsStr(x) /\ Scalar(x) /\ Text(x) = Trim(x)
    BY <1>2, TextIsTrim
  <2>2. {Trim(x) : x \in {y \in v.items : y.body # ""}} = {Text(x) : x \in {y \in v.items : y.body # ""}}
    BY <2>1
  <2>3. QED BY <1>2, <2>1, <2>2 DEF GoList, PerlList
<1>3. QED BY <1>1, <1>2

LEMMA BoolAgrees ==
  ASSUME NEW v, v = Null \/ v \in [is : {"bool"}, true : BOOLEAN]
  PROVE  GoBool(v) = PerlBool(v)
<1>1. CASE v = Null
  <2>1. v.is = "null" /\ ~Scalar(v)
    BY <1>1 DEF Null, Scalar
  <2>2. GoBool(v) = Bool(FALSE)
    BY <2>1 DEF GoBool
  <2>3. (v.is = "list" \/ (v.is = "bool" /\ v.true) \/ (Scalar(v) /\ (v.pad \/ v.body \notin {"", "0"}))) = FALSE
    BY <2>1
  <2>4. QED BY <2>2, <2>3 DEF PerlBool
<1>2. CASE v \in [is : {"bool"}, true : BOOLEAN]
  <2>1. v.is = "bool" /\ v.true \in BOOLEAN /\ v = [is |-> "bool", true |-> v.true] /\ ~Scalar(v)
    BY <1>2 DEF Scalar
  <2>2. GoBool(v) = v
    BY <2>1 DEF GoBool
  <2>3. (v.is = "list" \/ (v.is = "bool" /\ v.true) \/ (Scalar(v) /\ (v.pad \/ v.body \notin {"", "0"}))) = v.true
    BY <2>1
  <2>4. PerlBool(v) = Bool(v.true)
    BY <2>3 DEF PerlBool
  <2>5. QED BY <2>1, <2>2, <2>4 DEF Bool
<1>3. QED BY <1>1, <1>2

\* A value of a key that has the type t, or is null.
LEMMA OfType ==
  ASSUME NEW B, NEW v \in {Null} \cup [is : {"bool"}, true : BOOLEAN] \cup Scalars(B) \cup Lists(B)
  PROVE  /\ v.is \in {"null", "number"} => v = Null \/ v \in [is : {"number"}, pad : {FALSE}, body : B]
         /\ v.is \in {"null", "string"} => v = Null \/ v \in [is : {"string"}, pad : BOOLEAN, body : B]
         /\ v.is \in {"null", "bool"} => v = Null \/ v \in [is : {"bool"}, true : BOOLEAN]
<1>1. v = Null => v.is = "null"
  BY DEF Null
<1>2. v \in [is : {"bool"}, true : BOOLEAN] => v.is = "bool"
  OBVIOUS
<1>3. v \in [is : {"string"}, pad : BOOLEAN, body : B] => v.is = "string"
  OBVIOUS
<1>4. v \in [is : {"number"}, pad : {FALSE}, body : B] => v.is = "number"
  OBVIOUS
<1>5. v \in Lists(B) => v.is = "list"
  BY DEF Lists
<1>6. \/ v = Null \/ v \in [is : {"bool"}, true : BOOLEAN] \/ v \in Lists(B)
      \/ v \in [is : {"string"}, pad : BOOLEAN, body : B]
      \/ v \in [is : {"number"}, pad : {FALSE}, body : B]
  BY DEF Scalars
<1>7. QED BY <1>1, <1>2, <1>3, <1>4, <1>5, <1>6

\* Clean accepts and saves just what the API does, if the settings have their
\* proper types and the nick does not start with a mark: the one place where
\* the two patterns differ (connconfig.go: "Go must match every case with
\* proper JSON types").
THEOREM CopiesAgree ==
  ASSUME NEW f \in Forms, ProperlyTyped(f), ~MarkFirst(f.Nick)
  PROVE  GoClean(f) = PerlClean(f)
<1>1. \A k \in Keys : f[k] \in JSON(k)
  BY SettingsAssumption DEF SettingsAssumption
<1>2. /\ f.Host.is \in {"null", "string"} /\ f.Nick.is \in {"null", "string"}
      /\ f.User.is \in {"null", "string"} /\ f.Alias.is \in {"null", "string"}
      /\ f.Pass.is \in {"null", "string"} /\ f.Port.is \in {"null", "number"}
      /\ f.Ssl.is \in {"null", "bool"}
      /\ f.Channels.is \in {"null", "list"} /\ f.Highlight.is \in {"null", "list"}
      /\ f.Channels.is = "list" => \A x \in f.Channels.items : IsStr(x)
      /\ f.Highlight.is = "list" => \A x \in f.Highlight.items : IsStr(x)
  BY DEF ProperlyTyped, Typed
<1>3. GoHost(f.Host) = PerlHost(f.Host)
  BY <1>2, HostAgrees
<1>4. GoText(f.User) = PerlText(f.User) /\ GoText(f.Alias) = PerlText(f.Alias)
  BY <1>2, TextAgrees
<1>5. GoList(f.Channels) = PerlList(f.Channels) /\ GoList(f.Highlight) = PerlList(f.Highlight)
  BY <1>2, ListAgrees
<1>6. GoPort(f.Port) = PerlPort(f.Port)
  <2>1. f.Port \in JSON("Port")
    BY <1>1 DEF Keys
  <2>2. f.Port = Null \/ f.Port \in [is : {"number"}, pad : {FALSE}, body : Bodies("Port")]
    BY <1>2, <2>1, OfType DEF JSON
  <2>3. QED BY <2>2, PortAgrees
<1>7. GoPass(f.Pass) = PerlPass(f.Pass)
  <2>1. f.Pass \in JSON("Pass")
    BY <1>1 DEF Keys
  <2>2. f.Pass = Null \/ f.Pass \in [is : {"string"}, pad : BOOLEAN, body : Bodies("Pass")]
    BY <1>2, <2>1, OfType DEF JSON
  <2>3. QED BY <2>2, PassAgrees
<1>8. GoBool(f.Ssl) = PerlBool(f.Ssl)
  <2>1. f.Ssl \in JSON("Ssl")
    BY <1>1 DEF Keys
  <2>2. f.Ssl = Null \/ f.Ssl \in [is : {"bool"}, true : BOOLEAN]
    BY <1>2, <2>1, OfType DEF JSON
  <2>3. QED BY <2>2, BoolAgrees
<1>9. GoNick(f.Nick) = PerlNick(f.Nick)
  <2>1. f.Nick \in JSON("Nick")
    BY <1>1 DEF Keys
  <2>2. f.Nick = Null \/ f.Nick \in [is : {"string"}, pad : BOOLEAN, body : Bodies("Nick")]
    BY <1>2, <2>1, OfType DEF JSON
  <2>3. Bodies("Nick") = Seq(NickChars)
    BY DEF Bodies
  <2>4. f.Nick.is = "null" \/ (f.Nick.is = "string" /\ f.Nick.body \in Seq(NickChars))
    BY <2>2, <2>3 DEF Null
  <2>5. QED BY <2>4, NickAgrees
<1>10. QED BY <1>3, <1>4, <1>5, <1>6, <1>7, <1>8, <1>9 DEF GoClean, PerlClean

\* Settings with a value of another type are refused: Clean follows none of
\* Perl's conversions (connconfig.go: "and refuse the rest").
THEOREM OtherTypesRefused ==
  ASSUME NEW f \in Forms, ~ProperlyTyped(f)
  PROVE  GoClean(f) = Refused
<1>1. SUFFICES ASSUME GoClean(f) # Refused PROVE ProperlyTyped(f)
  OBVIOUS
<1> DEFINE c == [Host |-> GoHost(f.Host), Port |-> GoPort(f.Port), Nick |-> GoNick(f.Nick),
                 User |-> GoText(f.User), Alias |-> GoText(f.Alias), Pass |-> GoPass(f.Pass),
                 Channels |-> GoList(f.Channels), Highlight |-> GoList(f.Highlight),
                 Ssl |-> GoBool(f.Ssl)]
<1>2. \A k \in Keys : c[k] # Refused
  BY <1>1 DEF GoClean, AllOr
<1>3. /\ c.Host = GoHost(f.Host) /\ c.Port = GoPort(f.Port) /\ c.Nick = GoNick(f.Nick)
      /\ c.User = GoText(f.User) /\ c.Alias = GoText(f.Alias) /\ c.Pass = GoPass(f.Pass)
      /\ c.Channels = GoList(f.Channels) /\ c.Highlight = GoList(f.Highlight)
      /\ c.Ssl = GoBool(f.Ssl)
  OBVIOUS
<1> HIDE DEF c
<1>4. /\ GoHost(f.Host) # Refused /\ GoPort(f.Port) # Refused /\ GoNick(f.Nick) # Refused
      /\ GoText(f.User) # Refused /\ GoText(f.Alias) # Refused /\ GoPass(f.Pass) # Refused
      /\ GoList(f.Channels) # Refused /\ GoList(f.Highlight) # Refused /\ GoBool(f.Ssl) # Refused
  BY <1>2, <1>3 DEF Keys
<1>5. f.Host.is = "string" /\ f.Nick.is = "string" /\ f.Port.is = "number"
  BY <1>4 DEF GoHost, GoNick, GoPort, IsStr
<1>6. /\ f.User.is \in {"null", "string"} /\ f.Alias.is \in {"null", "string"}
      /\ f.Pass.is \in {"null", "string"} /\ f.Ssl.is \in {"null", "bool"}
  BY <1>4 DEF GoText, GoPass, GoBool, IsStr
<1>7. \A v : GoList(v) # Refused
               => v.is \in {"null", "list"} /\ (v.is = "list" => \A x \in v.items : IsStr(x))
  BY DEF GoList
<1>8. /\ f.Channels.is \in {"null", "list"} /\ f.Highlight.is \in {"null", "list"}
      /\ f.Channels.is = "list" => \A x \in f.Channels.items : IsStr(x)
      /\ f.Highlight.is = "list" => \A x \in f.Highlight.items : IsStr(x)
  BY <1>4, <1>7
<1>9. QED BY <1>5, <1>6, <1>8 DEF ProperlyTyped, Typed

=============================================================================
