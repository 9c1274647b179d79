------------------------------ MODULE Accounts ------------------------------
(***************************************************************************)
(* One account (lib/API/Controller/Auth.pm, SignedToken.pm, the user row's *)
(* part of DB.pm, lctl reset): signing up, logging in with an old or a new *)
(* kind of password hash, confirming the email address, resetting the      *)
(* password through an emailed link, the first network and the limit on    *)
(* connections.                                                            *)
(*                                                                         *)
(* Each request is served by a worker process.  One step is one query, one *)
(* transaction or one call to liercd or the mail server.  A transaction    *)
(* that locks the user's row and goes on is two steps with the row locked  *)
(* between them.  Sessions are signed cookies that nothing here revokes;   *)
(* every request that needs one has one.  Salted hashes never repeat, so   *)
(* the hash is the number of times it was changed.                         *)
(***************************************************************************)
EXTENDS Naturals, Sequences, FiniteSets

CONSTANTS
  Requests,        \* requests about the account, each made at most once
  Earlier,         \* connections the account may have had before all of these
  Passwords,
  MaxConnections,  \* Limits.pm connections
  Env              \* what goes wrong, a subset of EnvKinds

\* die: a query fails or the worker ends between two steps; mail: an email is
\* not sent; liercd: liercd does not create a connection.
EnvKinds == {"die", "mail", "liercd"}

Nobody == "nobody"

ASSUME AccountsAssumption ==
  /\ IsFiniteSet(Requests)
  /\ Nobody \notin Requests
  /\ IsFiniteSet(Earlier) /\ Earlier \cap Requests = {}
  /\ MaxConnections \in Nat
  /\ Env \subseteq EnvKinds

VARIABLES
  style,     \* "none" before the signup, "legacy" with an old hash, or "new"
  password,  \* the password the stored hash is of
  stamp,     \* how often the stored hash was changed
  verified,  \* user.verified: "null", "false" or "true"
  recent,    \* verify_sent is less than a minute ago
  lock,      \* the request that holds the lock on the user's row
  conns,     \* the user's connections: the earlier ones, and others named by the
             \* request that saved them
  mailed,    \* the links in the user's mailbox
  expired,   \* those whose time has passed
  pc,        \* each request's next step
  typed,     \* the password in the request
  seen,      \* what it read: the hash, or the number of connections
  redeemed,  \* history: the hashes whose reset links were used, in order
  intended,  \* history: the password set last by a signup or a reset
  networks,  \* history: the requests that saved a first network
  firsts,    \* history: the requests that confirmed the address first
  claims     \* history: requests that claimed a confirmation email this minute

vars == <<style, password, stamp, verified, recent, lock, conns, mailed, expired,
          pc, typed, seen, redeemed, intended, networks, firsts, claims>>

credentials == <<style, password, stamp, redeemed, intended>>
address     == <<verified, recent, firsts, claims>>
mailbox     == <<mailed, expired>>
rows        == <<conns, networks>>

ResetLink(n) == [purpose |-> "reset", print |-> n]
VerifyLink   == [purpose |-> "verify", print |-> 0]   \* the address never changes

MailSteps == {"signup mail", "resend mail", "reset mail"}
FirstSteps == {"has", "insert"}
Steps == MailSteps \cup FirstSteps \cup
         {"begin", "upgrade", "mark", "confirm", "count", "save", "create", "undo"}
Ends  == {"ok", "removed", "failed"}

TypeOK ==
  /\ style \in {"none", "legacy", "new"}
  /\ password \in Passwords
  /\ stamp \in Nat
  /\ verified \in {"null", "false", "true"}
  /\ recent \in BOOLEAN
  /\ lock \in Requests \cup {Nobody}
  /\ \A p \in Requests : pc[p] = "save" <=> lock = p
  /\ conns \subseteq Requests \cup Earlier
  /\ mailed \subseteq [purpose : {"reset", "verify"}, print : Nat]
  /\ expired \subseteq mailed
  /\ pc \in [Requests -> Steps \cup Ends]
  /\ typed \in [Requests -> Passwords]
  /\ seen \in [Requests -> Nat]
  /\ redeemed \in Seq(Nat)
  /\ intended \in Passwords
  /\ networks \subseteq Requests
  /\ firsts \subseteq Requests
  /\ claims \subseteq Requests

\* Nobody has signed up yet, or somebody has: with an old hash before the
\* address had to be confirmed, or with a new one and a link in the mailbox.  Any
\* account may have connections already, one that never confirmed its address too:
\* it may have signed up when the first network came with the signup.
Init ==
  /\ \E account \in {<<"none", "false">>, <<"legacy", "null">>, <<"new", "null">>,
                     <<"new", "false">>, <<"new", "true">>} :
       style = account[1] /\ verified = account[2]
  /\ password \in Passwords
  /\ stamp = 0
  /\ recent = FALSE
  /\ lock = Nobody
  /\ conns \in SUBSET IF style = "none" THEN {} ELSE Earlier
  /\ mailed = IF verified = "false" /\ style # "none" THEN {VerifyLink} ELSE {}
  /\ expired = {}
  /\ pc = [p \in Requests |-> "begin"]
  /\ typed = [p \in Requests |-> password]
  /\ seen = [p \in Requests |-> 0]
  /\ redeemed = <<>>
  /\ intended = password
  /\ networks = {}
  /\ firsts = {}
  /\ claims = {}

-----------------------------------------------------------------------------
Goto(p, from, to) == pc[p] = from /\ pc' = [pc EXCEPT ![p] = to]

\* No other transaction holds the user's row.
RowFree == lock = Nobody

\* A new hash of pw is stored and the old one dropped.
StoreHash(pw) ==
  /\ style' = "new"
  /\ password' = pw
  /\ stamp' = stamp + 1

\* The address is confirmed; the first time it earns the first network.
MarkVerified(p) ==
  /\ verified' = "true"
  /\ firsts' = IF verified = "false" THEN firsts \cup {p} ELSE firsts
  /\ UNCHANGED <<recent, claims>>

\* Mutation: every confirmation counts as the first.
AfterAnyMark == "has"

\* Where a request goes on, seen from before its MarkVerified.
AfterMark == IF verified = "false" THEN "has" ELSE "ok"

-----------------------------------------------------------------------------
(***************************************************************************)
(* Signing up and logging in.                                              *)
(***************************************************************************)

\* The username and the email address are unique.
Register(p, pw) ==
  /\ Goto(p, "begin", IF style = "none" THEN "signup mail" ELSE "failed")
  /\ IF style = "none"
     THEN /\ StoreHash(pw)
          /\ intended' = pw
          /\ recent' = TRUE
          /\ claims' = {p}
     ELSE UNCHANGED <<style, password, stamp, intended, recent, claims>>
  /\ UNCHANGED <<redeemed, verified, firsts, lock, rows, mailbox, typed, seen>>

\* The password is checked against the row that was read; an old hash is then
\* replaced.
Login(p, pw) ==
  /\ Goto(p, "begin", IF style = "none" \/ pw # password THEN "failed"
                      ELSE IF style = "legacy" THEN "upgrade" ELSE "ok")
  /\ typed' = [typed EXCEPT ![p] = pw]
  /\ UNCHANGED <<credentials, address, lock, rows, mailbox, seen>>

Upgrade(p) ==
  /\ RowFree
  /\ Goto(p, "upgrade", "ok")
  /\ StoreHash(typed[p])
  /\ UNCHANGED <<redeemed, intended, address, lock, rows, mailbox, typed, seen>>

\* lctl reset.
AdminReset(p, pw) ==
  /\ RowFree
  /\ Goto(p, "begin", IF style = "none" THEN "failed" ELSE "ok")
  /\ IF style = "none"
     THEN UNCHANGED <<style, password, stamp, intended>>
     ELSE StoreHash(pw) /\ intended' = pw
  /\ UNCHANGED <<redeemed, address, lock, rows, mailbox, typed, seen>>

-----------------------------------------------------------------------------
(***************************************************************************)
(* Emails and links.                                                       *)
(***************************************************************************)

\* The email goes out after the response.
SendMail(p, step, link) ==
  /\ Goto(p, step, "ok")
  /\ \/ /\ mailed' = mailed \cup {link}
        /\ expired' = expired \ {link}
     \/ "mail" \in Env /\ UNCHANGED mailbox
  /\ UNCHANGED <<credentials, address, lock, rows, typed, seen>>

SignupMail(p) == SendMail(p, "signup mail", VerifyLink)
ResendMail(p) == SendMail(p, "resend mail", VerifyLink)
ResetMail(p)  == SendMail(p, "reset mail", ResetLink(seen[p]))

\* Mutation: the time of the new email is not recorded.
ResendUnrecorded(p) ==
  /\ RowFree
  /\ LET due == style # "none" /\ verified = "false" /\ ~recent
     IN  /\ Goto(p, "begin", IF due THEN "resend mail" ELSE "ok")
         /\ claims' = IF due THEN claims \cup {p} ELSE claims
  /\ UNCHANGED <<credentials, verified, firsts, recent, lock, rows, mailbox, typed, seen>>

\* At most once a minute; the update checks and records that.
Resend(p) ==
  /\ RowFree
  /\ LET due == style # "none" /\ verified = "false" /\ ~recent
     IN  /\ Goto(p, "begin", IF due THEN "resend mail" ELSE "ok")
         /\ recent' = (recent \/ due)
         /\ claims' = IF due THEN claims \cup {p} ELSE claims
  /\ UNCHANGED <<credentials, verified, firsts, lock, rows, mailbox, typed, seen>>

Minute ==
  /\ recent
  /\ recent' = FALSE
  /\ claims' = {}
  /\ UNCHANGED <<credentials, verified, firsts, lock, rows, mailbox, pc, typed, seen>>

Expire(link) ==
  /\ link \in mailed \ expired
  /\ expired' = expired \cup {link}
  /\ UNCHANGED <<credentials, address, lock, rows, mailed, pc, typed, seen>>

\* A reset is asked for; the link will carry the hash that was read.
Reset(p) ==
  /\ Goto(p, "begin", IF style = "none" THEN "ok" ELSE "reset mail")
  /\ seen' = [seen EXCEPT ![p] = stamp]
  /\ UNCHANGED <<credentials, address, lock, rows, mailbox, typed>>

\* A link in the mailbox is followed to confirm the address.
Verify(p) ==
  /\ VerifyLink \in mailed
  /\ Goto(p, "begin", IF VerifyLink \in expired THEN "failed" ELSE "mark")
  /\ UNCHANGED <<credentials, address, lock, rows, mailbox, typed, seen>>

Mark(p) ==
  /\ RowFree
  /\ Goto(p, "mark", AfterMark)
  /\ MarkVerified(p)
  /\ UNCHANGED <<credentials, lock, rows, mailbox, typed, seen>>

\* A reset link is checked against the row that was read.
ConfirmCheck(p, n, pw) ==
  /\ ResetLink(n) \in mailed
  /\ Goto(p, "begin", IF n = stamp /\ ResetLink(n) \notin expired
                      THEN "confirm" ELSE "failed")
  /\ seen' = [seen EXCEPT ![p] = n]
  /\ typed' = [typed EXCEPT ![p] = pw]
  /\ UNCHANGED <<credentials, address, lock, rows, mailbox>>

\* Mutation: the hash is replaced whatever it is by now.
ConfirmUnchecked(p) ==
  /\ RowFree
  /\ Goto(p, "confirm", AfterMark)
  /\ StoreHash(typed[p])
  /\ intended' = typed[p]
  /\ redeemed' = Append(redeemed, seen[p])
  /\ MarkVerified(p)
  /\ UNCHANGED <<lock, rows, mailbox, typed, seen>>

\* Mutation: whether it was the first confirmation is lost with the transaction.
ConfirmForgetsFirst(p) ==
  /\ RowFree
  /\ seen[p] = stamp
  /\ Goto(p, "confirm", "ok")
  /\ StoreHash(typed[p])
  /\ intended' = typed[p]
  /\ redeemed' = Append(redeemed, seen[p])
  /\ MarkVerified(p)
  /\ UNCHANGED <<lock, rows, mailbox, typed, seen>>

\* One transaction: the hash is replaced if it is still the one the link was
\* checked against, and the address is confirmed.
Confirm(p) ==
  /\ RowFree
  /\ seen[p] = stamp
  /\ Goto(p, "confirm", AfterMark)
  /\ StoreHash(typed[p])
  /\ intended' = typed[p]
  /\ redeemed' = Append(redeemed, seen[p])
  /\ MarkVerified(p)
  /\ UNCHANGED <<lock, rows, mailbox, typed, seen>>

ConfirmLate(p) ==
  /\ RowFree
  /\ seen[p] # stamp
  /\ Goto(p, "confirm", "failed")
  /\ UNCHANGED <<credentials, address, lock, rows, mailbox, typed, seen>>

-----------------------------------------------------------------------------
(***************************************************************************)
(* The first network, and connections the user adds and removes.           *)
(***************************************************************************)
\* Mutation: whoever confirms first gets a network, without a look at what the
\* account has.
HasNetworkUnasked(p) ==
  /\ Goto(p, "has", "insert")
  /\ UNCHANGED <<credentials, address, lock, rows, mailbox, typed, seen>>

HasNetwork(p) ==
  /\ Goto(p, "has", IF conns = {} THEN "insert" ELSE "ok")
  /\ UNCHANGED <<credentials, address, lock, rows, mailbox, typed, seen>>

\* Saved without looking at the limit; liercd is then asked to create it,
\* and its answer changes nothing here.
InsertNetwork(p) ==
  /\ Goto(p, "insert", "ok")
  /\ conns' = conns \cup {p}
  /\ networks' = networks \cup {p}
  /\ UNCHANGED <<credentials, address, lock, mailbox, typed, seen>>

\* A signed in user adds a connection; an unconfirmed account can't.
Start(p) ==
  /\ Goto(p, "begin", IF style = "none" \/ verified = "false" THEN "failed" ELSE "count")
  /\ UNCHANGED <<credentials, address, lock, rows, mailbox, typed, seen>>

\* Mutation: the connections are counted before the row is locked.
CountUnlocked(p) ==
  /\ Goto(p, "count", "save")
  /\ seen' = [seen EXCEPT ![p] = Cardinality(conns)]
  /\ UNCHANGED <<credentials, address, lock, rows, mailbox, typed>>

\* SELECT ... FOR UPDATE, and the count.
Count(p) ==
  /\ RowFree
  /\ Goto(p, "count", "save")
  /\ lock' = p
  /\ seen' = [seen EXCEPT ![p] = Cardinality(conns)]
  /\ UNCHANGED <<credentials, address, rows, mailbox, typed>>

\* Mutation: the transaction stays open when the limit is reached.
SaveStaysOpen(p) ==
  /\ Goto(p, "save", IF seen[p] < MaxConnections THEN "create" ELSE "failed")
  /\ conns' = IF seen[p] < MaxConnections THEN conns \cup {p} ELSE conns
  /\ lock' = IF seen[p] < MaxConnections THEN Nobody ELSE lock
  /\ UNCHANGED <<credentials, address, networks, mailbox, typed, seen>>

Save(p) ==
  /\ Goto(p, "save", IF seen[p] < MaxConnections THEN "create" ELSE "failed")
  /\ conns' = IF seen[p] < MaxConnections THEN conns \cup {p} ELSE conns
  /\ lock' = Nobody
  /\ UNCHANGED <<credentials, address, networks, mailbox, typed, seen>>

Create(p) ==
  /\ \/ Goto(p, "create", "ok")
     \/ "liercd" \in Env /\ Goto(p, "create", "undo")
  /\ UNCHANGED <<credentials, address, lock, rows, mailbox, typed, seen>>

Undo(p) ==
  /\ Goto(p, "undo", "failed")
  /\ conns' = conns \ {p}
  /\ UNCHANGED <<credentials, address, lock, networks, mailbox, typed, seen>>

\* The user deletes a connection, which was checked to be theirs.
Remove(p, c) ==
  /\ c \in conns
  /\ verified # "false"
  /\ Goto(p, "begin", "removed")
  /\ conns' = conns \ {c}
  /\ UNCHANGED <<credentials, address, lock, networks, mailbox, typed, seen>>

\* A query fails, which rolls its transaction back, or the worker ends.
Dies(p) ==
  /\ "die" \in Env
  /\ pc[p] \in Steps \ {"begin"}
  /\ Goto(p, pc[p], "failed")
  /\ lock' = IF lock = p THEN Nobody ELSE lock
  /\ UNCHANGED <<credentials, address, rows, mailbox, typed, seen>>

-----------------------------------------------------------------------------
SignIn(p) == \/ \E pw \in Passwords : Register(p, pw) \/ Login(p, pw) \/ AdminReset(p, pw)
             \/ Upgrade(p)
Mail(p)   == SignupMail(p) \/ ResendMail(p) \/ ResetMail(p) \/ Resend(p) \/ Reset(p)
Follow(p) == \/ Verify(p) \/ Mark(p) \/ Confirm(p) \/ ConfirmLate(p)
             \/ \E n \in 0..stamp, pw \in Passwords : ConfirmCheck(p, n, pw)
Connect(p) == \/ HasNetwork(p) \/ InsertNetwork(p)
              \/ Start(p) \/ Count(p) \/ Save(p) \/ Create(p) \/ Undo(p)
              \/ \E c \in Requests \cup Earlier : Remove(p, c)

Next ==
  \/ \E p \in Requests : SignIn(p) \/ Mail(p) \/ Follow(p) \/ Connect(p) \/ Dies(p)
  \/ Minute
  \/ \E link \in mailed : Expire(link)

Spec == Init /\ [][Next]_vars

-----------------------------------------------------------------------------
(***************************************************************************)
(* Properties.                                                             *)
(***************************************************************************)
Quiet == \A p \in Requests : pc[p] \in Ends \cup {"begin"}

\* Reset links are one-time links for the hash they were made for, however
\* requests, confirms and other changes of the password interleave
\* (reset_confirm's replace_password_hash).
Links == INSTANCE OneTimeLinks WITH hash <- stamp, used <- redeemed
OneTime == Links!Spec

\* An account gets one first network at most (mark_verified's first).
FirstNetworkOnce == Cardinality(networks) <= 1

\* The limit holds for the connections a user adds, however many requests add
\* one at once: an account that had more of them to begin with gets none, and only
\* the first network may come on top (save_connection_limited's lock on the
\* user's row).
WithinLimit ==
  conns \ networks \subseteq Earlier \/ Cardinality(conns \ networks) <= MaxConnections

\* An account that signed up when a network came with the signup gets no second
\* one: none comes while a connection from then is left, however its first
\* confirmation, the adding and the removing of connections interleave
\* (add_first_network: "one that already has a connection gets none").
NoSecondNetwork == networks # {} => conns \cap Earlier = {}

\* The first confirmation brings a network, whichever link it came by, if
\* nothing failed and nothing was removed (add_first_network).
FirstNetworkArrives ==
  Quiet /\ firsts # {} /\ (\A p \in Requests : pc[p] \in {"begin", "ok"})
    => conns # {}

\* One confirmation email a minute, that of the signup included (resend_verify:
\* "at most once a minute (counting the one sent at signup)").
MailPaced == Cardinality(claims) <= 1

\* The password is the one set last by a signup, a reset link or the operator
\* (reset: "Sets the password of the user"; set_password_hash drops the old
\* hash "so it can't be used again").
PasswordStays == style # "none" => password = intended
=============================================================================
