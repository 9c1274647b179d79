----------------------------- MODULE MCSettings -----------------------------
(* Forms for TLC: one setting takes every kind of value, the others usual   *)
(* ones; Host and Port, which Exempt compares, vary together.               *)
EXTENDS ConnectionSettings

Strings(S) == {[is |-> "string", pad |-> p, body |-> b] : p \in BOOLEAN, b \in S}
Numbers(S) == {[is |-> "number", pad |-> FALSE, body |-> b] : b \in S}
Numeric == [k \in {"Channels", "Highlight"} |-> IF k = "Highlight" THEN "good" ELSE "bad"]

Hosts == {<<>>, <<"name">>, <<"default">>, <<"name", "octet">>, <<"name", "digits">>,
          <<"name", "name">>, <<"bad", "name">>, <<"octet", "octet", "octet", "octet">>,
          <<"10", "octet", "octet", "octet">>, <<"octet", "octet", "octet", "digits">>}
Nicks == UNION {[1..n -> NickChars \ {"reserved"}] : n \in 0..2} \cup {<<"reserved">>}
Ports == {"default", "good", "6667.0", "bad"}

Values == [k \in Keys |-> {Null, Bool(TRUE)} \cup
  CASE k = "Host" -> Strings(Hosts) \cup Numbers({<<"octet">>, <<"octet", "octet">>})
    [] k = "Port" -> Strings(Ports) \cup Numbers(Ports)
    [] k = "Nick" -> Strings(Nicks) \cup Numbers({<<"one">>, <<"one", "one">>})
    [] k \in {"User", "Alias", "Pass"} -> Strings({"", "good", "bad"}) \cup Numbers({"good"})
    [] k \in {"Channels", "Highlight"} ->
         LET items == Strings({"", "good", "bad"}) \cup Numbers({Numeric[k]})
         IN  {List({})} \cup {List({x, y}) : x, y \in items}
    [] k = "Ssl" -> {Bool(FALSE), List({})} \cup Strings({"", "1"}) \cup Numbers({"0", "1"})]

Usual == [k \in Keys |->
  CASE k = "Host" -> Str(<<"name">>)
    [] k = "Port" -> [is |-> "number", pad |-> FALSE, body |-> "default"]
    [] k = "Nick" -> Str(<<"letter">>)
    [] OTHER -> Null]

MCForms == UNION {{[Usual EXCEPT ![k] = v] : v \in Values[k]} : k \in Keys}
           \cup {[Usual EXCEPT !.Host = h, !.Port = p] : h \in Values.Host, p \in Values.Port}
MCAnswers == {{}, {"public"}, {"mapped public", "public"}, {"mapped private", "public"}, {"zoned"}}
=============================================================================
