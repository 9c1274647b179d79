-------------------------- MODULE ConnectionSettings --------------------------
(***************************************************************************)
(* The rules for a connection's settings, twice: ConnectionConfig.pm, by   *)
(* which the API cleans what a user sends before it is saved, and its copy *)
(* in connconfig, by which lctl check-connections judges what was saved.   *)
(*                                                                         *)
(* A setting is a JSON value: its type and, for strings and numbers, the   *)
(* text: whether there is space around it, and a body.  Where both copies  *)
(* match the same pattern the body is "good" or "bad"; where they are      *)
(* written differently it is a sequence of classes of characters (Nick) or *)
(* of labels (Host).  SASL is treated as Ssl.                              *)
(***************************************************************************)
EXTENDS Naturals, Sequences

CONSTANTS
  Forms,    \* requests: a value for each of the Keys
  Answers   \* what a resolver can answer: sets of addresses

VARIABLES
  form,      \* the settings a user sends
  answer,    \* what Host resolves to
  row,       \* the saved config, Refused if the API refused the form
  problem,   \* what check-connections finds: "" if valid, "?" before
  wandered   \* history: the answer changed after the API asked

settingsVars == <<form, answer, row, problem, wandered>>

Keys == {"Host", "Port", "Nick", "User", "Pass", "Channels", "Highlight", "Alias", "Ssl"}
Null    == [is |-> "null"]       \* missing is the same
Refused == [is |-> "refused"]
Str(b)  == [is |-> "string", pad |-> FALSE, body |-> b]
List(S) == [is |-> "list", items |-> S]
Bool(b) == [is |-> "bool", true |-> b]

\* "one" is a digit, "mark" a mark, control or format character, "wide" takes
\* more than 32 bytes, and "reserved" stands for a whole reserved name.
NickChars == {"letter", "one", "sigil", "banned", "mark", "wide", "reserved"}
\* "octet" is a number up to 255 in ASCII digits, "10" one that makes an address
\* private, "digits" any other number, "default" DEFAULT_NETWORK_HOST.
Labels == {"name", "default", "octet", "10", "digits", "bad"}

\* What a user may send for each key: null, a truth value, a string, a number,
\* which has no space around it, or a list of those two.
Bodies(k) == CASE k = "Host" -> Seq(Labels)
               [] k = "Nick" -> Seq(NickChars)
               [] k = "Port" -> {"default", "good", "6667.0", "bad"}
               [] k = "Ssl"  -> {"", "0", "1"}
               [] OTHER      -> {"", "good", "bad"}
Scalars(B) == [is : {"string"}, pad : BOOLEAN, body : B] \cup [is : {"number"}, pad : {FALSE}, body : B]
Lists(B) == [is : {"list"}, items : SUBSET Scalars(B)]
JSON(k) == {Null} \cup [is : {"bool"}, true : BOOLEAN] \cup Scalars(Bodies(k)) \cup Lists(Bodies(k))

ASSUME SettingsAssumption ==
  \A f \in Forms : \A k \in Keys : f[k] \in JSON(k)

-----------------------------------------------------------------------------
(***************************************************************************)
(* What the two copies write alike.                                        *)
(***************************************************************************)
Trim(v) == [is |-> v.is, pad |-> FALSE, body |-> v.body]
Literal(labels) == Len(labels) = 4 /\ \A i \in 1..4 : labels[i] \in {"octet", "10"}

\* validHost, valid_host.
ValidHost(labels) ==
  \/ Literal(labels)
  \/ /\ labels # <<>>
     /\ labels[Len(labels)] \notin {"octet", "10", "digits"}
     /\ \A i \in 1..Len(labels) : labels[i] # "bad"

\* BlockedIP, blocked_ip: a mapped address is the IPv4 address it carries; one
\* with a zone, or what is no address, is blocked.
BlockedIP(ip) == ip \notin {"public", "mapped public"}

\* Exempt, and CheckHost's verdict: "" if the host may be used.
Exempt(c) == c.Host.body = <<"default">> /\ c.Port.body = "default"
CheckHost(c, resolved) ==
  LET ips == IF Literal(c.Host.body)
             THEN {IF c.Host.body[1] = "10" THEN "private" ELSE "public"}
             ELSE resolved
  IN  IF Exempt(c) \/ (ips # {} /\ \A ip \in ips : ~BlockedIP(ip)) THEN ""
      ELSE IF ips = {} THEN "unresolved" ELSE "private"

-----------------------------------------------------------------------------
(***************************************************************************)
(* ConnectionConfig.pm: numbers are texts too.                             *)
(***************************************************************************)
Scalar(v) == v.is \in {"string", "number"}
Text(v) == Str(v.body)

PerlHost(v) == IF Scalar(v) /\ ValidHost(v.body) THEN Text(v) ELSE Refused

\* A JSON 6667.0 is a number like 6667, a string "6667.0" isn't.
PerlPort(v) ==
  IF Scalar(v) /\ v.body \in {"default", "good"} \cup (IF v.is = "number" THEN {"6667.0"} ELSE {})
  THEN [is |-> "number", pad |-> FALSE, body |-> IF v.body = "6667.0" THEN "good" ELSE v.body]
  ELSE Refused

Length(n) == IF \E i \in 1..Len(n) : n[i] = "wide" THEN "long" ELSE "short"
PerlNickRe(n) ==
  /\ n # <<>> /\ n[1] # "sigil"
  /\ \A i \in 1..Len(n) : n[i] # "mark"
PerlNick(v) ==
  IF /\ Scalar(v) /\ PerlNickRe(v.body)
     /\ \A i \in 1..Len(v.body) : v.body[i] # "banned"
     /\ Length(v.body) = "short"
     /\ v.body # <<"reserved">>
  THEN Text(v) ELSE Refused

\* User and Alias.
PerlText(v) ==
  IF v.is = "null" \/ (Scalar(v) /\ v.body = "") THEN Null
  ELSE IF Scalar(v) /\ v.body = "good" THEN Text(v) ELSE Refused

PerlPass(v) ==
  IF v.is = "null" \/ (Scalar(v) /\ v.body = "" /\ ~v.pad) THEN Null
  ELSE IF Scalar(v) /\ v.body # "bad"
  THEN [is |-> "string", pad |-> v.pad, body |-> v.body] ELSE Refused

\* Mutation: only strings are taken as they are, numbers stay numbers.
PerlListKeeps(v) ==
  IF v.is = "null" THEN List({})
  ELSE IF v.is = "list" /\ \A x \in v.items : Scalar(x) /\ x.body # "bad"
  THEN List({Trim(x) : x \in {y \in v.items : y.body # ""}}) ELSE Refused

\* Channels and Highlight.
PerlList(v) ==
  IF v.is = "null" THEN List({})
  ELSE IF v.is = "list" /\ \A x \in v.items : Scalar(x) /\ x.body # "bad"
  THEN List({Text(x) : x \in {y \in v.items : y.body # ""}}) ELSE Refused

PerlBool(v) == Bool(\/ v.is = "list"
                    \/ v.is = "bool" /\ v.true
                    \/ Scalar(v) /\ (v.pad \/ v.body \notin {"", "0"}))

AllOr(c) == IF \E k \in Keys : c[k] = Refused THEN Refused ELSE c

\* clean.
PerlClean(f) ==
  AllOr([Host |-> PerlHost(f.Host), Port |-> PerlPort(f.Port), Nick |-> PerlNick(f.Nick),
         User |-> PerlText(f.User), Alias |-> PerlText(f.Alias), Pass |-> PerlPass(f.Pass),
         Channels |-> PerlList(f.Channels), Highlight |-> PerlList(f.Highlight),
         Ssl |-> PerlBool(f.Ssl)])

-----------------------------------------------------------------------------
(***************************************************************************)
(* connconfig: every setting has its proper type.                          *)
(***************************************************************************)
IsStr(v) == v.is = "string"

GoHost(v) == IF IsStr(v) /\ ValidHost(v.body) THEN Trim(v) ELSE Refused

GoPort(v) ==
  IF v.is = "number" /\ v.body \in {"default", "good", "6667.0"}
  THEN [is |-> "number", pad |-> v.pad, body |-> IF v.body = "6667.0" THEN "good" ELSE v.body]
  ELSE Refused

\* The first character is any but a sigil.
GoNickRe(n) ==
  /\ n # <<>> /\ n[1] # "sigil"
  /\ \A i \in 2..Len(n) : n[i] # "mark"
GoNick(v) ==
  IF /\ IsStr(v) /\ GoNickRe(v.body)
     /\ \A i \in 1..Len(v.body) : v.body[i] # "banned"
     /\ Length(v.body) = "short"
     /\ v.body # <<"reserved">>
  THEN Trim(v) ELSE Refused

GoText(v) ==
  IF v.is = "null" \/ (IsStr(v) /\ v.body = "") THEN Null
  ELSE IF IsStr(v) /\ v.body = "good" THEN Trim(v) ELSE Refused

GoPass(v) ==
  IF v.is = "null" \/ (IsStr(v) /\ v.body = "" /\ ~v.pad) THEN Null
  ELSE IF IsStr(v) /\ v.body # "bad" THEN v ELSE Refused

GoList(v) ==
  IF v.is = "null" THEN List({})
  ELSE IF v.is = "list" /\ \A x \in v.items : IsStr(x) /\ x.body # "bad"
  THEN List({Trim(x) : x \in {y \in v.items : y.body # ""}}) ELSE Refused

GoBool(v) == IF v.is = "null" THEN Bool(FALSE) ELSE IF v.is = "bool" THEN v ELSE Refused

\* Clean.
GoClean(f) ==
  AllOr([Host |-> GoHost(f.Host), Port |-> GoPort(f.Port), Nick |-> GoNick(f.Nick),
         User |-> GoText(f.User), Alias |-> GoText(f.Alias), Pass |-> GoPass(f.Pass),
         Channels |-> GoList(f.Channels), Highlight |-> GoList(f.Highlight),
         Ssl |-> GoBool(f.Ssl)])

\* connectionProblem, with or without --no-dns.
Problem(f, resolved, dns) ==
  IF GoClean(f) = Refused THEN "invalid"
  ELSE IF dns THEN CheckHost(GoClean(f), resolved) ELSE ""

-----------------------------------------------------------------------------
SettingsInit ==
  /\ form \in Forms
  /\ answer \in Answers
  /\ row = Null
  /\ problem = "?"
  /\ wandered = FALSE

\* create and edit: clean, then check_host.
Save ==
  /\ row = Null
  /\ LET c == PerlClean(form)
     IN  row' = IF c = Refused \/ CheckHost(c, answer) # "" THEN Refused ELSE c
  /\ UNCHANGED <<form, answer, problem, wandered>>

\* External: the host's addresses change.
Resolves ==
  /\ row # Null /\ problem = "?"
  /\ answer' \in Answers \ {answer}
  /\ wandered' = TRUE
  /\ UNCHANGED <<form, row, problem>>

Check ==
  /\ row \notin {Null, Refused} /\ problem = "?"
  /\ \E dns \in BOOLEAN : problem' = Problem(row, answer, dns)
  /\ UNCHANGED <<form, answer, row, wandered>>

SettingsNext == Save \/ Resolves \/ Check
SettingsSpec == SettingsInit /\ [][SettingsNext]_settingsVars

-----------------------------------------------------------------------------
\* What clean lets the API save, check-connections finds valid and would save
\* just the same, unless the host has come to resolve to something else: so it
\* deletes no connection the API would keep (ConnectionConfig.pm and Clean).
\* Aside are nicks an edit keeps from an older row, which clean doesn't see.
ApiSavesAreValid ==
  row \notin {Null, Refused} =>
    /\ GoClean(row) = row
    /\ problem # "invalid"
    /\ problem \in {"unresolved", "private"} => wandered

\* The settings have their proper JSON types.
Typed(f) ==
  /\ f.Port.is \in {"null", "number"}
  /\ f.Ssl.is \in {"null", "bool"}
  /\ \A k \in {"Channels", "Highlight"} : f[k].is \in {"null", "list"}
  /\ \A k \in {"Host", "Nick", "User", "Alias", "Pass"} : f[k].is \in {"null", "string"}

\* Once the API has refused properly typed settings, Clean refuses them too
\* (connconfig.go's comment: Go must match every case with proper JSON types).
RefusesWhatApiRefuses ==
  row = Refused /\ Typed(form) /\ PerlClean(form) = Refused => GoClean(form) = Refused
=============================================================================
