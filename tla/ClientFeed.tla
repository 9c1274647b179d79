----------------------------- MODULE ClientFeed -----------------------------
(***************************************************************************)
(* What the clients of the stream server are promised while messages come  *)
(* in order (serveStream, Deliver): a client that is connected was told by *)
(* its handshake up to which id to look for messages in the log, and gets  *)
(* every later one.  A client that can't be given one is disconnected, and *)
(* so knows that it has to look again; its stream does not come back.      *)
(***************************************************************************)
EXTENDS Naturals

CONSTANTS
  Streams,  \* each is opened once at most
  MaxMsg,   \* messages are 1..MaxMsg
  Theirs    \* for each stream the messages of its user

VARIABLES
  delivered,  \* messages that were given to their users
  status,     \* of each stream: "new", "connected" or "gone"
  from,       \* the id in a connected client's handshake
  got         \* the later messages a connected client was given

feedVars == <<delivered, status, from, got>>

Own(s) == delivered \cap Theirs[s]

Init ==
  /\ delivered = {}
  /\ status = [s \in Streams |-> "new"]
  /\ from = [s \in Streams |-> 0]
  /\ got = [s \in Streams |-> {}]

\* The client gets its handshake.  Messages that were delivered while it was
\* made may come once more, none is left out.
Connect(s) ==
  /\ UNCHANGED delivered
  /\ status[s] = "new"
  /\ status' = [status EXCEPT ![s] = "connected"]
  /\ \E n \in 0..MaxMsg, early \in SUBSET Own(s) :
       /\ \A m \in Own(s) : m <= n \/ m \in early
       /\ from' = [from EXCEPT ![s] = n]
       /\ got' = [got EXCEPT ![s] = early]

\* The streams S end, the others go on with what they were given.
Ends(S, given) ==
  /\ status' = [s \in Streams |-> IF s \in S THEN "gone" ELSE status[s]]
  /\ from' = [s \in Streams |-> IF s \in S THEN 0 ELSE from[s]]
  /\ got' = [s \in Streams |-> IF s \in S THEN {} ELSE given[s]]

\* Clients leave, are too slow for a ping, or are sent away at shutdown.
Disconnect ==
  /\ UNCHANGED delivered
  /\ \E S \in SUBSET {s \in Streams : status[s] # "gone"} : S # {} /\ Ends(S, got)

\* The next message is given to all clients of its user, or they are gone.
Deliver(m) ==
  /\ delivered' = delivered \cup {m}
  /\ \A n \in delivered : n < m
  /\ \E S \in SUBSET {s \in Streams : m \in Theirs[s]} :
       Ends(S, [s \in Streams |-> IF status[s] = "connected" /\ m \in Theirs[s]
                                  THEN got[s] \cup {m} ELSE got[s]])

Next == (\E s \in Streams : Connect(s)) \/ Disconnect \/ (\E m \in 1..MaxMsg : Deliver(m))

Spec == Init /\ [][Next]_feedVars

-----------------------------------------------------------------------------
\* A connected client has, or was told of, all that its user was given, and
\* nothing of anybody else's (serveStream's handshake, Deliver).
NoGap ==
  \A s \in Streams : status[s] = "connected" =>
    /\ \A m \in Own(s) : m <= from[s] \/ m \in got[s]
    /\ got[s] \subseteq Own(s)
=============================================================================
