--------------------------- MODULE AccountsProofs ---------------------------
(***************************************************************************)
(* Proofs about Accounts: its types, that reset links are one-time links,  *)
(* that an account gets one first network, none on top of an earlier       *)
(* connection, and stays within the limit, that an unconfirmed account     *)
(* adds nothing, and that emails are paced.                                *)
(***************************************************************************)
EXTENDS Accounts, FiniteSetTheorems, TLAPS

-----------------------------------------------------------------------------
(***************************************************************************)
(* Types.  The parts of TypeOK that an action can disturb.                 *)
(***************************************************************************)
CredentialsOK ==
  /\ style \in {"none", "legacy", "new"}
  /\ password \in Passwords
  /\ stamp \in Nat
  /\ redeemed \in Seq(Nat)
  /\ intended \in Passwords

AddressOK ==
  /\ verified \in {"null", "false", "true"}
  /\ recent \in BOOLEAN
  /\ firsts \subseteq Requests
  /\ claims \subseteq Requests

RequestsOK ==
  /\ pc \in [Requests -> Steps \cup Ends]
  /\ typed \in [Requests -> Passwords]
  /\ seen \in [Requests -> Nat]

LockOK ==
  /\ lock \in Requests \cup {Nobody}
  /\ \A p \in Requests : pc[p] = "save" <=> lock = p

RowsOK == conns \subseteq Requests \cup Earlier /\ networks \subseteq Requests

MailOK ==
  /\ mailed \subseteq [purpose : {"reset", "verify"}, print : Nat]
  /\ expired \subseteq mailed

TypeInv == CredentialsOK /\ AddressOK /\ RequestsOK /\ LockOK /\ RowsOK /\ MailOK

LEMMA TypeParts == TypeInv => TypeOK
BY DEF TypeInv, TypeOK, CredentialsOK, AddressOK, RequestsOK, LockOK, RowsOK, MailOK

LEMMA TypeInit == Init => TypeInv
<1> SUFFICES ASSUME Init PROVE TypeInv
  OBVIOUS
<1>1. style \in {"none", "legacy", "new"} /\ verified \in {"null", "false", "true"}
  BY DEF Init
<1>2. /\ password \in Passwords /\ intended = password /\ stamp = 0 /\ redeemed = <<>>
      /\ recent = FALSE /\ firsts = {} /\ claims = {}
      /\ conns \subseteq Earlier /\ networks = {}
      /\ expired = {} /\ lock = Nobody
  BY DEF Init
<1>3. CredentialsOK
  BY <1>1, <1>2 DEF CredentialsOK
<1>4. AddressOK /\ RowsOK
  BY <1>1, <1>2 DEF AddressOK, RowsOK
<1>5. /\ pc = [p \in Requests |-> "begin"] /\ typed = [p \in Requests |-> password]
      /\ seen = [p \in Requests |-> 0]
  BY DEF Init
<1>6. RequestsOK
  BY <1>2, <1>5 DEF RequestsOK, Steps
<1>7. LockOK
  BY <1>2, <1>5, AccountsAssumption DEF LockOK
<1>8. mailed = {} \/ mailed = {VerifyLink}
  BY DEF Init
<1>9. MailOK
  BY <1>2, <1>8 DEF MailOK, VerifyLink
<1>10. QED BY <1>3, <1>4, <1>6, <1>7, <1>9 DEF TypeInv

\* A request that neither takes nor releases the lock goes on.
LEMMA MovesOn ==
  ASSUME RequestsOK, LockOK, NEW p \in Requests,
         NEW to \in (Steps \cup Ends) \ {"save"},
         pc[p] # "save", pc' = [pc EXCEPT ![p] = to], lock' = lock
  PROVE  pc' \in [Requests -> Steps \cup Ends] /\ LockOK'
<1>1. pc' \in [Requests -> Steps \cup Ends]
  BY DEF RequestsOK
<1>2. \A q \in Requests : pc'[q] = IF q = p THEN to ELSE pc[q]
  BY DEF RequestsOK
<1>3. LockOK'
  BY <1>2 DEF LockOK
<1>4. QED BY <1>1, <1>3
-----------------------------------------------------------------------------
(***************************************************************************)
(* Each action keeps the types.                                            *)
(***************************************************************************)
Link == [purpose : {"reset", "verify"}, print : Nat]

LEMMA RegisterType ==
  ASSUME TypeInv, NEW p \in Requests, NEW pw \in Passwords, Register(p, pw)
  PROVE  TypeInv'
<1>1. CredentialsOK'
  <2>1. CASE style = "none"
    <3>1. style' = "new" /\ password' = pw /\ stamp' = stamp + 1
      BY <2>1 DEF Register, StoreHash
    <3>2. intended' = pw /\ redeemed' = redeemed
      BY <2>1 DEF Register
    <3>3. QED BY <3>1, <3>2 DEF TypeInv, CredentialsOK
  <2>2. CASE style # "none"
    BY <2>2 DEF TypeInv, CredentialsOK, Register
  <2>3. QED BY <2>1, <2>2
<1>2. verified' = verified /\ firsts' = firsts
  BY DEF Register
<1>3. (recent' = TRUE /\ claims' = {p}) \/ (recent' = recent /\ claims' = claims)
  BY DEF Register
<1>4. AddressOK'
  BY <1>2, <1>3 DEF TypeInv, AddressOK
<1>5. RowsOK' /\ MailOK'
  BY DEF TypeInv, RowsOK, MailOK, Register, rows, mailbox
<1>6. typed' \in [Requests -> Passwords] /\ seen' \in [Requests -> Nat]
  BY DEF TypeInv, RequestsOK, Register
<1>7. \E to \in (Steps \cup Ends) \ {"save"} :
        pc[p] # "save" /\ pc' = [pc EXCEPT ![p] = to]
  BY DEF Register, Goto, Steps, Ends, FirstSteps, MailSteps
<1>8. lock' = lock
  BY DEF Register
<1>9. QED BY <1>1, <1>4, <1>5, <1>6, <1>7, <1>8, MovesOn DEF TypeInv, RequestsOK

LEMMA LoginType ==
  ASSUME TypeInv, NEW p \in Requests, NEW pw \in Passwords, Login(p, pw)
  PROVE  TypeInv'
<1>1. CredentialsOK' /\ AddressOK' /\ RowsOK' /\ MailOK'
  BY DEF TypeInv, CredentialsOK, AddressOK, RequestsOK, RowsOK, MailOK, Login, credentials, address, rows, mailbox
<1>2. typed' \in [Requests -> Passwords] /\ seen' \in [Requests -> Nat]
  BY DEF TypeInv, CredentialsOK, RequestsOK, Login, credentials, rows
<1>3. \E to \in (Steps \cup Ends) \ {"save"} :
        pc[p] # "save" /\ pc' = [pc EXCEPT ![p] = to]
  BY DEF Login, Goto, Steps, Ends, FirstSteps, MailSteps
<1>4. lock' = lock
  BY DEF Login
<1>5. QED BY <1>1, <1>2, <1>3, <1>4, MovesOn DEF TypeInv, RequestsOK

LEMMA UpgradeType ==
  ASSUME TypeInv, NEW p \in Requests, Upgrade(p)
  PROVE  TypeInv'
<1>1. CredentialsOK' /\ AddressOK' /\ RowsOK' /\ MailOK'
  BY DEF TypeInv, CredentialsOK, AddressOK, RequestsOK, RowsOK, MailOK, Upgrade, credentials, address, rows, mailbox, StoreHash, RowFree
<1>2. typed' \in [Requests -> Passwords] /\ seen' \in [Requests -> Nat]
  BY DEF TypeInv, CredentialsOK, RequestsOK, Upgrade, StoreHash, RowFree, credentials, rows
<1>3. \E to \in (Steps \cup Ends) \ {"save"} :
        pc[p] # "save" /\ pc' = [pc EXCEPT ![p] = to]
  BY DEF Upgrade, Goto, Steps, Ends, FirstSteps, MailSteps, StoreHash, RowFree
<1>4. lock' = lock
  BY DEF Upgrade, StoreHash, RowFree
<1>5. QED BY <1>1, <1>2, <1>3, <1>4, MovesOn DEF TypeInv, RequestsOK

LEMMA AdminResetType ==
  ASSUME TypeInv, NEW p \in Requests, NEW pw \in Passwords, AdminReset(p, pw)
  PROVE  TypeInv'
<1>1. CredentialsOK' /\ AddressOK' /\ RowsOK' /\ MailOK'
  BY DEF TypeInv, CredentialsOK, AddressOK, RequestsOK, RowsOK, MailOK, AdminReset, credentials, address, rows, mailbox, StoreHash, RowFree
<1>2. typed' \in [Requests -> Passwords] /\ seen' \in [Requests -> Nat]
  BY DEF TypeInv, CredentialsOK, RequestsOK, AdminReset, StoreHash, RowFree, credentials, rows
<1>3. \E to \in (Steps \cup Ends) \ {"save"} :
        pc[p] # "save" /\ pc' = [pc EXCEPT ![p] = to]
  BY DEF AdminReset, Goto, Steps, Ends, FirstSteps, MailSteps, StoreHash, RowFree
<1>4. lock' = lock
  BY DEF AdminReset, StoreHash, RowFree
<1>5. QED BY <1>1, <1>2, <1>3, <1>4, MovesOn DEF TypeInv, RequestsOK

LEMMA SendMailType ==
  ASSUME TypeInv, NEW p \in Requests, NEW step \in MailSteps, NEW link \in Link, SendMail(p, step, link)
  PROVE  TypeInv'
<1>1. CredentialsOK' /\ AddressOK' /\ RowsOK' /\ MailOK'
  BY DEF TypeInv, CredentialsOK, AddressOK, RequestsOK, RowsOK, MailOK, SendMail, credentials, address, rows, mailbox, MailSteps, Link
<1>2. typed' \in [Requests -> Passwords] /\ seen' \in [Requests -> Nat]
  BY DEF TypeInv, CredentialsOK, RequestsOK, SendMail, MailSteps, Link, credentials, rows
<1>3. \E to \in (Steps \cup Ends) \ {"save"} :
        pc[p] # "save" /\ pc' = [pc EXCEPT ![p] = to]
  BY DEF SendMail, Goto, Steps, Ends, FirstSteps, MailSteps, MailSteps, Link
<1>4. lock' = lock
  BY DEF SendMail, MailSteps, Link
<1>5. QED BY <1>1, <1>2, <1>3, <1>4, MovesOn DEF TypeInv, RequestsOK

LEMMA ResendType ==
  ASSUME TypeInv, NEW p \in Requests, Resend(p)
  PROVE  TypeInv'
<1>1. CredentialsOK' /\ AddressOK' /\ RowsOK' /\ MailOK'
  BY DEF TypeInv, CredentialsOK, AddressOK, RequestsOK, RowsOK, MailOK, Resend, credentials, address, rows, mailbox, RowFree
<1>2. typed' \in [Requests -> Passwords] /\ seen' \in [Requests -> Nat]
  BY DEF TypeInv, CredentialsOK, RequestsOK, Resend, RowFree, credentials, rows
<1>3. \E to \in (Steps \cup Ends) \ {"save"} :
        pc[p] # "save" /\ pc' = [pc EXCEPT ![p] = to]
  BY DEF Resend, Goto, Steps, Ends, FirstSteps, MailSteps, RowFree
<1>4. lock' = lock
  BY DEF Resend, RowFree
<1>5. QED BY <1>1, <1>2, <1>3, <1>4, MovesOn DEF TypeInv, RequestsOK

LEMMA ResetType ==
  ASSUME TypeInv, NEW p \in Requests, Reset(p)
  PROVE  TypeInv'
<1>1. CredentialsOK' /\ AddressOK' /\ RowsOK' /\ MailOK'
  BY DEF TypeInv, CredentialsOK, AddressOK, RequestsOK, RowsOK, MailOK, Reset, credentials, address, rows, mailbox
<1>2. typed' \in [Requests -> Passwords] /\ seen' \in [Requests -> Nat]
  BY DEF TypeInv, CredentialsOK, RequestsOK, Reset, credentials, rows
<1>3. \E to \in (Steps \cup Ends) \ {"save"} :
        pc[p] # "save" /\ pc' = [pc EXCEPT ![p] = to]
  BY DEF Reset, Goto, Steps, Ends, FirstSteps, MailSteps
<1>4. lock' = lock
  BY DEF Reset
<1>5. QED BY <1>1, <1>2, <1>3, <1>4, MovesOn DEF TypeInv, RequestsOK

LEMMA VerifyType ==
  ASSUME TypeInv, NEW p \in Requests, Verify(p)
  PROVE  TypeInv'
<1>1. CredentialsOK' /\ AddressOK' /\ RowsOK' /\ MailOK'
  BY DEF TypeInv, CredentialsOK, AddressOK, RequestsOK, RowsOK, MailOK, Verify, credentials, address, rows, mailbox
<1>2. typed' \in [Requests -> Passwords] /\ seen' \in [Requests -> Nat]
  BY DEF TypeInv, CredentialsOK, RequestsOK, Verify, credentials, rows
<1>3. \E to \in (Steps \cup Ends) \ {"save"} :
        pc[p] # "save" /\ pc' = [pc EXCEPT ![p] = to]
  BY DEF Verify, Goto, Steps, Ends, FirstSteps, MailSteps
<1>4. lock' = lock
  BY DEF Verify
<1>5. QED BY <1>1, <1>2, <1>3, <1>4, MovesOn DEF TypeInv, RequestsOK

LEMMA MarkType ==
  ASSUME TypeInv, NEW p \in Requests, Mark(p)
  PROVE  TypeInv'
<1>1. CredentialsOK' /\ AddressOK' /\ RowsOK' /\ MailOK'
  BY DEF TypeInv, CredentialsOK, AddressOK, RequestsOK, RowsOK, MailOK, Mark, credentials, address, rows, mailbox, MarkVerified, AfterMark, RowFree
<1>2. typed' \in [Requests -> Passwords] /\ seen' \in [Requests -> Nat]
  BY DEF TypeInv, CredentialsOK, RequestsOK, Mark, MarkVerified, AfterMark, RowFree, credentials, rows
<1>3. \E to \in (Steps \cup Ends) \ {"save"} :
        pc[p] # "save" /\ pc' = [pc EXCEPT ![p] = to]
  BY DEF Mark, Goto, Steps, Ends, FirstSteps, MailSteps, MarkVerified, AfterMark, RowFree
<1>4. lock' = lock
  BY DEF Mark, MarkVerified, AfterMark, RowFree
<1>5. QED BY <1>1, <1>2, <1>3, <1>4, MovesOn DEF TypeInv, RequestsOK

LEMMA ConfirmCheckType ==
  ASSUME TypeInv, NEW p \in Requests, NEW n \in Nat, NEW pw \in Passwords, ConfirmCheck(p, n, pw)
  PROVE  TypeInv'
<1>1. CredentialsOK' /\ AddressOK' /\ RowsOK' /\ MailOK'
  BY DEF TypeInv, CredentialsOK, AddressOK, RequestsOK, RowsOK, MailOK, ConfirmCheck, credentials, address, rows, mailbox
<1>2. typed' \in [Requests -> Passwords] /\ seen' \in [Requests -> Nat]
  BY DEF TypeInv, CredentialsOK, RequestsOK, ConfirmCheck, credentials, rows
<1>3. \E to \in (Steps \cup Ends) \ {"save"} :
        pc[p] # "save" /\ pc' = [pc EXCEPT ![p] = to]
  BY DEF ConfirmCheck, Goto, Steps, Ends, FirstSteps, MailSteps
<1>4. lock' = lock
  BY DEF ConfirmCheck
<1>5. QED BY <1>1, <1>2, <1>3, <1>4, MovesOn DEF TypeInv, RequestsOK

LEMMA ConfirmType ==
  ASSUME TypeInv, NEW p \in Requests, Confirm(p)
  PROVE  TypeInv'
<1>1. CredentialsOK' /\ AddressOK' /\ RowsOK' /\ MailOK'
  BY DEF TypeInv, CredentialsOK, AddressOK, RequestsOK, RowsOK, MailOK, Confirm, credentials, address, rows, mailbox, MarkVerified, AfterMark, StoreHash, RowFree
<1>2. typed' \in [Requests -> Passwords] /\ seen' \in [Requests -> Nat]
  BY DEF TypeInv, CredentialsOK, RequestsOK, Confirm, MarkVerified, AfterMark, StoreHash, RowFree, credentials, rows
<1>3. \E to \in (Steps \cup Ends) \ {"save"} :
        pc[p] # "save" /\ pc' = [pc EXCEPT ![p] = to]
  BY DEF Confirm, Goto, Steps, Ends, FirstSteps, MailSteps, MarkVerified, AfterMark, StoreHash, RowFree
<1>4. lock' = lock
  BY DEF Confirm, MarkVerified, AfterMark, StoreHash, RowFree
<1>5. QED BY <1>1, <1>2, <1>3, <1>4, MovesOn DEF TypeInv, RequestsOK

LEMMA ConfirmLateType ==
  ASSUME TypeInv, NEW p \in Requests, ConfirmLate(p)
  PROVE  TypeInv'
<1>1. CredentialsOK' /\ AddressOK' /\ RowsOK' /\ MailOK'
  BY DEF TypeInv, CredentialsOK, AddressOK, RequestsOK, RowsOK, MailOK, ConfirmLate, credentials, address, rows, mailbox, RowFree
<1>2. typed' \in [Requests -> Passwords] /\ seen' \in [Requests -> Nat]
  BY DEF TypeInv, CredentialsOK, RequestsOK, ConfirmLate, RowFree, credentials, rows
<1>3. \E to \in (Steps \cup Ends) \ {"save"} :
        pc[p] # "save" /\ pc' = [pc EXCEPT ![p] = to]
  BY DEF ConfirmLate, Goto, Steps, Ends, FirstSteps, MailSteps, RowFree
<1>4. lock' = lock
  BY DEF ConfirmLate, RowFree
<1>5. QED BY <1>1, <1>2, <1>3, <1>4, MovesOn DEF TypeInv, RequestsOK

LEMMA HasNetworkType ==
  ASSUME TypeInv, NEW p \in Requests, HasNetwork(p)
  PROVE  TypeInv'
<1>1. CredentialsOK' /\ AddressOK' /\ RowsOK' /\ MailOK'
  BY DEF TypeInv, CredentialsOK, AddressOK, RequestsOK, RowsOK, MailOK, HasNetwork, credentials, address, rows, mailbox
<1>2. typed' \in [Requests -> Passwords] /\ seen' \in [Requests -> Nat]
  BY DEF TypeInv, CredentialsOK, RequestsOK, HasNetwork, credentials, rows
<1>3. \E to \in (Steps \cup Ends) \ {"save"} :
        pc[p] # "save" /\ pc' = [pc EXCEPT ![p] = to]
  BY DEF HasNetwork, Goto, Steps, Ends, FirstSteps, MailSteps
<1>4. lock' = lock
  BY DEF HasNetwork
<1>5. QED BY <1>1, <1>2, <1>3, <1>4, MovesOn DEF TypeInv, RequestsOK

LEMMA InsertNetworkType ==
  ASSUME TypeInv, NEW p \in Requests, InsertNetwork(p)
  PROVE  TypeInv'
<1>1. CredentialsOK' /\ AddressOK' /\ RowsOK' /\ MailOK'
  BY DEF TypeInv, CredentialsOK, AddressOK, RequestsOK, RowsOK, MailOK, InsertNetwork, credentials, address, rows, mailbox
<1>2. typed' \in [Requests -> Passwords] /\ seen' \in [Requests -> Nat]
  BY DEF TypeInv, CredentialsOK, RequestsOK, InsertNetwork, credentials, rows
<1>3. \E to \in (Steps \cup Ends) \ {"save"} :
        pc[p] # "save" /\ pc' = [pc EXCEPT ![p] = to]
  BY DEF InsertNetwork, Goto, Steps, Ends, FirstSteps, MailSteps
<1>4. lock' = lock
  BY DEF InsertNetwork
<1>5. QED BY <1>1, <1>2, <1>3, <1>4, MovesOn DEF TypeInv, RequestsOK

LEMMA StartType ==
  ASSUME TypeInv, NEW p \in Requests, Start(p)
  PROVE  TypeInv'
<1>1. CredentialsOK' /\ AddressOK' /\ RowsOK' /\ MailOK'
  BY DEF TypeInv, CredentialsOK, AddressOK, RequestsOK, RowsOK, MailOK, Start, credentials, address, rows, mailbox
<1>2. typed' \in [Requests -> Passwords] /\ seen' \in [Requests -> Nat]
  BY DEF TypeInv, CredentialsOK, RequestsOK, Start, credentials, rows
<1>3. \E to \in (Steps \cup Ends) \ {"save"} :
        pc[p] # "save" /\ pc' = [pc EXCEPT ![p] = to]
  BY DEF Start, Goto, Steps, Ends, FirstSteps, MailSteps
<1>4. lock' = lock
  BY DEF Start
<1>5. QED BY <1>1, <1>2, <1>3, <1>4, MovesOn DEF TypeInv, RequestsOK

LEMMA CreateType ==
  ASSUME TypeInv, NEW p \in Requests, Create(p)
  PROVE  TypeInv'
<1>1. CredentialsOK' /\ AddressOK' /\ RowsOK' /\ MailOK'
  BY DEF TypeInv, CredentialsOK, AddressOK, RequestsOK, RowsOK, MailOK, Create, credentials, address, rows, mailbox
<1>2. typed' \in [Requests -> Passwords] /\ seen' \in [Requests -> Nat]
  BY DEF TypeInv, CredentialsOK, RequestsOK, Create, credentials, rows
<1>3. \E to \in (Steps \cup Ends) \ {"save"} :
        pc[p] # "save" /\ pc' = [pc EXCEPT ![p] = to]
  BY DEF Create, Goto, Steps, Ends, FirstSteps, MailSteps
<1>4. lock' = lock
  BY DEF Create
<1>5. QED BY <1>1, <1>2, <1>3, <1>4, MovesOn DEF TypeInv, RequestsOK

LEMMA UndoType ==
  ASSUME TypeInv, NEW p \in Requests, Undo(p)
  PROVE  TypeInv'
<1>1. CredentialsOK' /\ AddressOK' /\ RowsOK' /\ MailOK'
  BY DEF TypeInv, CredentialsOK, AddressOK, RequestsOK, RowsOK, MailOK, Undo, credentials, address, rows, mailbox
<1>2. typed' \in [Requests -> Passwords] /\ seen' \in [Requests -> Nat]
  BY DEF TypeInv, CredentialsOK, RequestsOK, Undo, credentials, rows
<1>3. \E to \in (Steps \cup Ends) \ {"save"} :
        pc[p] # "save" /\ pc' = [pc EXCEPT ![p] = to]
  BY DEF Undo, Goto, Steps, Ends, FirstSteps, MailSteps
<1>4. lock' = lock
  BY DEF Undo
<1>5. QED BY <1>1, <1>2, <1>3, <1>4, MovesOn DEF TypeInv, RequestsOK

LEMMA RemoveType ==
  ASSUME TypeInv, NEW p \in Requests, NEW c \in Requests \cup Earlier, Remove(p, c)
  PROVE  TypeInv'
<1>1. CredentialsOK' /\ AddressOK' /\ RowsOK' /\ MailOK'
  BY DEF TypeInv, CredentialsOK, AddressOK, RequestsOK, RowsOK, MailOK, Remove, credentials, address, rows, mailbox
<1>2. typed' \in [Requests -> Passwords] /\ seen' \in [Requests -> Nat]
  BY DEF TypeInv, CredentialsOK, RequestsOK, Remove, credentials, rows
<1>3. \E to \in (Steps \cup Ends) \ {"save"} :
        pc[p] # "save" /\ pc' = [pc EXCEPT ![p] = to]
  BY DEF Remove, Goto, Steps, Ends, FirstSteps, MailSteps
<1>4. lock' = lock
  BY DEF Remove
<1>5. QED BY <1>1, <1>2, <1>3, <1>4, MovesOn DEF TypeInv, RequestsOK

LEMMA CountType ==
  ASSUME AccountsAssumption, TypeInv, NEW p \in Requests, Count(p)
  PROVE  TypeInv'
<1>1. CredentialsOK' /\ AddressOK' /\ RowsOK' /\ MailOK'
  BY DEF TypeInv, CredentialsOK, AddressOK, RowsOK, MailOK, Count, credentials, address, rows, mailbox
<1>2. Cardinality(conns) \in Nat
  <2>1. IsFiniteSet(Requests \cup Earlier)
    BY FS_Union DEF AccountsAssumption
  <2>2. QED BY <2>1, FS_Subset, FS_CardinalityType DEF TypeInv, RowsOK
<1>3. typed' \in [Requests -> Passwords] /\ seen' \in [Requests -> Nat]
  BY <1>2 DEF TypeInv, RequestsOK, Count
<1>4. pc' = [pc EXCEPT ![p] = "save"] /\ lock = Nobody /\ lock' = p
  BY DEF Count, Goto, RowFree
<1>5. pc' \in [Requests -> Steps \cup Ends] /\ \A q \in Requests : pc'[q] = IF q = p THEN "save" ELSE pc[q]
  BY <1>4 DEF TypeInv, RequestsOK, Steps
<1>6. LockOK'
  BY <1>4, <1>5 DEF AccountsAssumption, TypeInv, LockOK
<1>7. QED BY <1>1, <1>3, <1>5, <1>6 DEF TypeInv, RequestsOK

\* The holder of the lock releases it and goes on.
LEMMA Releases ==
  ASSUME AccountsAssumption, RequestsOK, LockOK, NEW p \in Requests,
         NEW to \in (Steps \cup Ends) \ {"save"},
         pc' = [pc EXCEPT ![p] = to], lock' = IF lock = p THEN Nobody ELSE lock
  PROVE  pc' \in [Requests -> Steps \cup Ends] /\ LockOK'
<1>1. pc' \in [Requests -> Steps \cup Ends]
  BY DEF RequestsOK
<1>2. \A q \in Requests : pc'[q] = IF q = p THEN to ELSE pc[q]
  BY DEF RequestsOK
<1>3. LockOK'
  BY <1>2 DEF AccountsAssumption, LockOK
<1>4. QED BY <1>1, <1>3

LEMMA SaveType ==
  ASSUME AccountsAssumption, TypeInv, NEW p \in Requests, Save(p)
  PROVE  TypeInv'
<1>1. CredentialsOK' /\ AddressOK' /\ RowsOK' /\ MailOK'
  BY DEF TypeInv, CredentialsOK, AddressOK, RowsOK, MailOK, Save, credentials, address, mailbox
<1>2. typed' \in [Requests -> Passwords] /\ seen' \in [Requests -> Nat]
  BY DEF TypeInv, RequestsOK, Save
<1>3. \E to \in (Steps \cup Ends) \ {"save"} : pc' = [pc EXCEPT ![p] = to]
  <2>1. pc' = [pc EXCEPT ![p] = "create"] \/ pc' = [pc EXCEPT ![p] = "failed"]
    BY DEF Save, Goto
  <2>2. QED BY <2>1 DEF Steps, Ends
<1>4. lock' = IF lock = p THEN Nobody ELSE lock
  <2>1. pc[p] = "save" /\ lock' = Nobody
    BY DEF Save, Goto
  <2>2. lock = p
    BY <2>1 DEF TypeInv, LockOK
  <2>3. QED BY <2>1, <2>2
<1>5. QED BY <1>1, <1>2, <1>3, <1>4, Releases DEF TypeInv, RequestsOK

LEMMA DiesType ==
  ASSUME AccountsAssumption, TypeInv, NEW p \in Requests, Dies(p)
  PROVE  TypeInv'
<1>1. CredentialsOK' /\ AddressOK' /\ RowsOK' /\ MailOK'
  BY DEF TypeInv, CredentialsOK, AddressOK, RowsOK, MailOK, Dies, credentials, address, rows, mailbox
<1>2. typed' \in [Requests -> Passwords] /\ seen' \in [Requests -> Nat]
  BY DEF TypeInv, RequestsOK, Dies
<1>3. \E to \in (Steps \cup Ends) \ {"save"} : pc' = [pc EXCEPT ![p] = to]
  BY DEF Dies, Goto, Ends
<1>4. QED BY <1>1, <1>2, <1>3, Releases DEF TypeInv, RequestsOK, Dies

\* What happens without a request, and a step that changes nothing.
LEMMA QuietType ==
  ASSUME TypeInv, \/ Minute
                  \/ \E link \in mailed : Expire(link)
                  \/ UNCHANGED vars
  PROVE  TypeInv'
<1>1. CredentialsOK' /\ AddressOK' /\ RowsOK'
  BY DEF TypeInv, CredentialsOK, AddressOK, RowsOK, Minute, Expire, vars, credentials, address, rows
<1>2. MailOK'
  BY DEF TypeInv, MailOK, Minute, Expire, vars, mailbox
<1>3. pc' = pc /\ typed' = typed /\ seen' = seen /\ lock' = lock
  BY DEF Minute, Expire, vars
<1>4. RequestsOK' /\ LockOK'
  BY <1>3 DEF TypeInv, RequestsOK, LockOK
<1>5. QED BY <1>1, <1>2, <1>4 DEF TypeInv

\* The state has its types: in particular a request holds the lock exactly while
\* its transaction on the user's row is open (save_connection_limited).
THEOREM TypesAreKept == Spec => []TypeInv
<1>1. TypeInv /\ [Next]_vars => TypeInv'
  <2> SUFFICES ASSUME TypeInv, [Next]_vars PROVE TypeInv'
    OBVIOUS
  <2>1. ASSUME NEW p \in Requests, SignIn(p) PROVE TypeInv'
    BY <2>1, RegisterType, LoginType, UpgradeType, AdminResetType DEF SignIn
  <2>2. ASSUME NEW p \in Requests, Mail(p) PROVE TypeInv'
    <3>1. VerifyLink \in Link /\ ResetLink(seen[p]) \in Link
      BY DEF Link, VerifyLink, ResetLink, TypeInv, RequestsOK
    <3>2. CASE SignupMail(p) \/ ResendMail(p) \/ ResetMail(p)
      BY <3>1, <3>2, SendMailType DEF SignupMail, ResendMail, ResetMail, MailSteps
    <3>3. CASE Resend(p) \/ Reset(p)
      BY <3>3, ResendType, ResetType
    <3>4. QED BY <2>2, <3>2, <3>3 DEF Mail
  <2>3. ASSUME NEW p \in Requests, Follow(p) PROVE TypeInv'
    <3>1. \A n \in 0..stamp : n \in Nat
      OBVIOUS
    <3>2. QED
      BY <2>3, <3>1, VerifyType, MarkType, ConfirmType, ConfirmLateType, ConfirmCheckType DEF Follow
  <2>4. ASSUME NEW p \in Requests, Connect(p) PROVE TypeInv'
    BY <2>4, AccountsAssumption, HasNetworkType, InsertNetworkType, StartType, CountType, SaveType, CreateType,
       UndoType, RemoveType DEF Connect
  <2>5. ASSUME NEW p \in Requests, Dies(p) PROVE TypeInv'
    BY <2>5, DiesType, AccountsAssumption
  <2>6. CASE Minute \/ (\E link \in mailed : Expire(link)) \/ UNCHANGED vars
    BY <2>6, QuietType
  <2>7. QED BY <2>1, <2>2, <2>3, <2>4, <2>5, <2>6 DEF Next
<1>2. QED BY TypeInit, <1>1, PTL DEF Spec

\* The type invariant the runs check.
THEOREM TypesHold == Spec => []TypeOK
<1>1. QED BY TypesAreKept, TypeParts, PTL

-----------------------------------------------------------------------------
(***************************************************************************)
(* Reset links are one-time links.                                         *)
(***************************************************************************)
SameLinks == stamp' = stamp /\ redeemed' = redeemed

LEMMA LinkSteps ==
  ASSUME [Next]_vars
  PROVE  [Links!Next]_<<stamp, redeemed>>
<1> USE DEF Links!Next, Links!Change, Links!Redeem
<1>1. ASSUME NEW p \in Requests, SignIn(p) PROVE SameLinks \/ Links!Change
  <2>1. ASSUME NEW pw \in Passwords, Register(p, pw) \/ Login(p, pw) \/ AdminReset(p, pw)
        PROVE  SameLinks \/ Links!Change
    BY <2>1 DEF Register, Login, AdminReset, StoreHash, credentials, SameLinks
  <2>2. CASE Upgrade(p)
    BY <2>2 DEF Upgrade, StoreHash
  <2>3. QED BY <1>1, <2>1, <2>2 DEF SignIn
<1>2. ASSUME NEW p \in Requests, Mail(p) PROVE SameLinks
  BY <1>2 DEF Mail, SignupMail, ResendMail, ResetMail, SendMail, Resend, Reset, credentials, SameLinks
<1>3. ASSUME NEW p \in Requests, Follow(p) PROVE SameLinks \/ Links!Redeem
  <2>1. CASE Confirm(p)
    BY <2>1 DEF Confirm, StoreHash
  <2>2. CASE Verify(p) \/ Mark(p) \/ ConfirmLate(p)
    BY <2>2 DEF Verify, Mark, ConfirmLate, credentials, SameLinks
  <2>3. ASSUME NEW n \in 0..stamp, NEW pw \in Passwords, ConfirmCheck(p, n, pw) PROVE SameLinks
    BY <2>3 DEF ConfirmCheck, credentials, SameLinks
  <2>4. QED BY <1>3, <2>1, <2>2, <2>3 DEF Follow
<1>4. ASSUME NEW p \in Requests, Connect(p) \/ Dies(p) PROVE SameLinks
  BY <1>4 DEF Connect, HasNetwork, InsertNetwork, Start, Count, Save, Create, Undo, Remove, Dies,
     credentials, SameLinks
<1>5. CASE Minute \/ (\E link \in mailed : Expire(link)) \/ UNCHANGED vars
  BY <1>5 DEF Minute, Expire, vars, credentials, SameLinks
<1>6. QED BY <1>1, <1>2, <1>3, <1>4, <1>5 DEF Next, SameLinks

\* However requests, confirms and other changes of the password interleave,
\* reset links are what OneTimeLinks says they are (reset_confirm's check in
\* replace_password_hash, and that no other change touches the links).
THEOREM ResetLinksAreOneTime == Spec => OneTime
<1>1. Init => Links!Init
  BY DEF Init, Links!Init
<1>2. QED BY <1>1, LinkSteps, PTL DEF Spec, OneTime, Links!Spec

\* So no reset link, and no two made for the same password, work twice
\* (SignedToken: "so a used link dies").
THEOREM ResetLinksUsedOnce == Spec => []Links!UsedOnce
<1>1. QED BY ResetLinksAreOneTime, Links!LinksUsedOnce DEF OneTime

-----------------------------------------------------------------------------
(***************************************************************************)
(* One confirmation email a minute.                                        *)
(***************************************************************************)
PacedInv ==
  /\ claims # {} => recent
  /\ \A a, b \in claims : a = b

LEMMA AtMostOne ==
  ASSUME NEW S, \A a, b \in S : a = b
  PROVE  Cardinality(S) <= 1
<1>1. CASE S = {}
  BY <1>1, FS_EmptySet
<1>2. CASE S # {}
  <2>1. PICK a \in S : S = {a}
    BY <1>2
  <2>2. QED BY <2>1, FS_Singleton
<1>3. QED BY <1>1, <1>2

\* A confirmation email is claimed only when a minute has passed since the last
\* one (resend_verify's update, register's verify_sent).
THEOREM ConfirmationsArePaced == Spec => []MailPaced
<1>1. Init => PacedInv
  BY DEF Init, PacedInv
<1>2. PacedInv /\ [Next]_vars => PacedInv'
  <2> SUFFICES ASSUME PacedInv, [Next]_vars PROVE PacedInv'
    OBVIOUS
  <2> DEFINE Same == claims' = claims /\ recent' = recent
  <2>1. Same => PacedInv'
    BY DEF PacedInv
  <2> HIDE DEF Same
  <2>2. ASSUME NEW p \in Requests, SignIn(p) PROVE PacedInv'
    <3>1. ASSUME NEW pw \in Passwords, Register(p, pw) PROVE PacedInv'
      <4>1. CASE style = "none"
        <5>1. claims' = {p} /\ recent'
          BY <3>1, <4>1 DEF Register
        <5>2. QED BY <5>1 DEF PacedInv
      <4>2. CASE style # "none"
        BY <3>1, <4>2, <2>1 DEF Register, Same
      <4>3. QED BY <4>1, <4>2
    <3>2. ASSUME NEW pw \in Passwords, Login(p, pw) \/ AdminReset(p, pw) PROVE Same
      BY <3>2 DEF Login, AdminReset, address, Same
    <3>3. CASE Upgrade(p)
      BY <3>3, <2>1 DEF Upgrade, address, Same
    <3>4. QED BY <2>1, <2>2, <3>1, <3>2, <3>3 DEF SignIn
  <2>3. ASSUME NEW p \in Requests, Mail(p) PROVE PacedInv'
    <3>1. CASE Resend(p)
      <4>1. CASE recent
        <5>1. claims' = claims /\ recent'
          BY <3>1, <4>1 DEF Resend
        <5>2. QED BY <5>1 DEF PacedInv
      <4>2. CASE ~recent
        <5>1. claims = {}
          BY <4>2 DEF PacedInv
        <5>2. (claims' = {p} /\ recent') \/ claims' = {}
          BY <3>1, <4>2, <5>1 DEF Resend
        <5>3. QED BY <5>2 DEF PacedInv
      <4>3. QED BY <4>1, <4>2
    <3>2. CASE SignupMail(p) \/ ResendMail(p) \/ ResetMail(p) \/ Reset(p)
      BY <3>2, <2>1 DEF SignupMail, ResendMail, ResetMail, SendMail, Reset, address, Same
    <3>3. QED BY <2>3, <3>1, <3>2 DEF Mail
  <2>4. ASSUME NEW p \in Requests, Follow(p) PROVE Same
    BY <2>4 DEF Follow, Verify, Mark, Confirm, ConfirmLate, ConfirmCheck, MarkVerified, address, Same
  <2>5. ASSUME NEW p \in Requests, Connect(p) \/ Dies(p) PROVE Same
    BY <2>5 DEF Connect, HasNetwork, InsertNetwork, Start, Count, Save, Create, Undo, Remove, Dies,
       address, Same
  <2>6. CASE Minute
    BY <2>6 DEF Minute, PacedInv
  <2>7. CASE (\E link \in mailed : Expire(link)) \/ UNCHANGED vars
    BY <2>7, <2>1 DEF Expire, vars, address, Same
  <2>8. QED BY <2>1, <2>2, <2>3, <2>4, <2>5, <2>6, <2>7 DEF Next
<1>3. PacedInv => MailPaced
  BY AtMostOne DEF PacedInv, MailPaced
<1>4. QED BY <1>1, <1>2, <1>3, PTL DEF Spec

-----------------------------------------------------------------------------
(***************************************************************************)
(* One first network, and nothing for an unconfirmed account.              *)
(***************************************************************************)
\* Steps only a confirmed account's request is at.
OpenSteps == FirstSteps \cup {"count", "save", "create", "undo"}

FirstInv ==
  /\ \A a, b \in firsts : a = b
  /\ networks \subseteq firsts
  /\ \A p \in Requests : pc[p] \in FirstSteps => p \in firsts
  /\ firsts # {} => verified = "true"

GateInv ==
  verified = "false" => conns \subseteq Earlier /\ \A p \in Requests : pc[p] \notin OpenSteps

\* A step that confirms nothing and enters no first network's steps.
LEMMA FirstKept ==
  ASSUME RequestsOK, FirstInv, NEW p \in Requests, NEW to,
         pc' = [pc EXCEPT ![p] = to], to \in FirstSteps => pc[p] \in FirstSteps,
         verified' = verified, firsts' = firsts,
         networks' = networks \/ (pc[p] \in FirstSteps /\ networks' = networks \cup {p})
  PROVE  FirstInv'
<1>1. \A q \in Requests : pc'[q] = IF q = p THEN to ELSE pc[q]
  BY DEF RequestsOK
<1>2. \A q \in Requests : pc'[q] \in FirstSteps => q \in firsts'
  BY <1>1 DEF FirstInv
<1>3. networks' \subseteq firsts'
  BY DEF FirstInv
<1>4. QED BY <1>2, <1>3 DEF FirstInv

\* A step of an unconfirmed account enters no open steps and saves nothing.
LEMMA GateKept ==
  ASSUME RequestsOK, GateInv, NEW p \in Requests, NEW to,
         pc' = [pc EXCEPT ![p] = to], verified' = verified,
         verified = "false" /\ pc[p] \notin OpenSteps => to \notin OpenSteps /\ conns' \subseteq conns
  PROVE  GateInv'
<1> SUFFICES ASSUME verified' = "false"
             PROVE  conns' \subseteq Earlier /\ \A q \in Requests : pc'[q] \notin OpenSteps
  BY DEF GateInv
<1>1. conns \subseteq Earlier /\ \A q \in Requests : pc[q] \notin OpenSteps
  BY DEF GateInv
<1>2. to \notin OpenSteps /\ conns' \subseteq Earlier
  BY <1>1
<1>3. \A q \in Requests : pc'[q] = IF q = p THEN to ELSE pc[q]
  BY DEF RequestsOK
<1>4. QED BY <1>1, <1>2, <1>3

\* A confirmation, which sends the first one on to the first network.
LEMMA Marked ==
  ASSUME RequestsOK, FirstInv, NEW p \in Requests, MarkVerified(p),
         pc' = [pc EXCEPT ![p] = AfterMark], networks' = networks
  PROVE  FirstInv' /\ GateInv'
<1>1. verified' = "true"
  BY DEF MarkVerified
<1>2. \A q \in Requests : pc'[q] = IF q = p THEN AfterMark ELSE pc[q]
  BY DEF RequestsOK
<1>3. CASE verified = "false"
  <2>1. firsts = {} /\ firsts' = {p}
    BY <1>3 DEF MarkVerified, FirstInv
  <2>2. \A q \in Requests : pc'[q] \in FirstSteps => q \in firsts'
    BY <1>2, <2>1 DEF FirstInv
  <2>3. networks' \subseteq firsts' /\ \A a, b \in firsts' : a = b
    BY <2>1 DEF FirstInv
  <2>4. QED BY <1>1, <2>2, <2>3 DEF FirstInv, GateInv
<1>4. CASE verified # "false"
  <2>1. firsts' = firsts /\ AfterMark \notin FirstSteps
    BY <1>4 DEF MarkVerified, AfterMark, FirstSteps
  <2>2. \A q \in Requests : pc'[q] \in FirstSteps => q \in firsts'
    BY <1>2, <2>1 DEF FirstInv
  <2>3. QED BY <1>1, <2>1, <2>2 DEF FirstInv, GateInv
<1>5. QED BY <1>3, <1>4

LEMMA ConfirmedStep ==
  ASSUME RequestsOK, FirstInv, GateInv, [Next]_vars
  PROVE  FirstInv' /\ GateInv'
<1> USE DEF OpenSteps, FirstSteps, MailSteps, Ends, Goto
<1>1. ASSUME NEW p \in Requests, SignIn(p) PROVE FirstInv' /\ GateInv'
  <2>1. PICK to \in {"signup mail", "upgrade", "ok", "failed"} : pc' = [pc EXCEPT ![p] = to]
    BY <1>1 DEF SignIn, Register, Login, Upgrade, AdminReset
  <2>2. verified' = verified /\ firsts' = firsts /\ networks' = networks /\ conns' = conns
    BY <1>1 DEF SignIn, Register, Login, Upgrade, AdminReset, address, rows
  <2>3. QED BY <2>1, <2>2, FirstKept, GateKept
<1>2. ASSUME NEW p \in Requests, Mail(p) PROVE FirstInv' /\ GateInv'
  <2>1. PICK to \in {"resend mail", "reset mail", "ok"} : pc' = [pc EXCEPT ![p] = to]
    BY <1>2 DEF Mail, SignupMail, ResendMail, ResetMail, SendMail, Resend, Reset
  <2>2. verified' = verified /\ firsts' = firsts /\ networks' = networks /\ conns' = conns
    BY <1>2 DEF Mail, SignupMail, ResendMail, ResetMail, SendMail, Resend, Reset, address, rows
  <2>3. QED BY <2>1, <2>2, FirstKept, GateKept
<1>3. ASSUME NEW p \in Requests, Follow(p) PROVE FirstInv' /\ GateInv'
  <2>1. CASE Mark(p) \/ Confirm(p)
    BY <2>1, Marked DEF Mark, Confirm, rows
  <2>2. ASSUME \/ Verify(p) \/ ConfirmLate(p)
               \/ \E n \in 0..stamp, pw \in Passwords : ConfirmCheck(p, n, pw)
        PROVE  FirstInv' /\ GateInv'
    <3>1. PICK to \in {"mark", "confirm", "failed"} : pc' = [pc EXCEPT ![p] = to]
      BY <2>2 DEF Verify, ConfirmLate, ConfirmCheck
    <3>2. verified' = verified /\ firsts' = firsts /\ networks' = networks /\ conns' = conns
      BY <2>2 DEF Verify, ConfirmLate, ConfirmCheck, address, rows
    <3>3. QED BY <3>1, <3>2, FirstKept, GateKept
  <2>3. QED BY <1>3, <2>1, <2>2 DEF Follow
<1>4. ASSUME NEW p \in Requests, Connect(p) PROVE FirstInv' /\ GateInv'
  <2>1. verified' = verified /\ firsts' = firsts
    BY <1>4 DEF Connect, HasNetwork, InsertNetwork, Start, Count, Save, Create, Undo, Remove, address
  <2>2. CASE HasNetwork(p) \/ InsertNetwork(p)
    <3>1. PICK to \in {"insert", "ok"} : pc' = [pc EXCEPT ![p] = to]
      BY <2>2 DEF HasNetwork, InsertNetwork
    <3>2. pc[p] \in FirstSteps /\ networks' \in {networks, networks \cup {p}}
      BY <2>2 DEF HasNetwork, InsertNetwork, rows
    <3>3. QED BY <2>1, <3>1, <3>2, FirstKept, GateKept
  <2>3. ASSUME Start(p) \/ Count(p) \/ Save(p) \/ Create(p) \/ Undo(p) \/ \E c \in Requests \cup Earlier : Remove(p, c)
        PROVE  FirstInv' /\ GateInv'
    <3>1. PICK to \in {"count", "save", "create", "undo", "ok", "removed", "failed"} :
            pc' = [pc EXCEPT ![p] = to]
      BY <2>3 DEF Start, Count, Save, Create, Undo, Remove
    <3>2. networks' = networks
      BY <2>3 DEF Start, Count, Save, Create, Undo, Remove, rows
    <3>3. verified = "false" /\ pc[p] \notin OpenSteps
            => pc' = [pc EXCEPT ![p] = "failed"] /\ conns' = conns
      BY <2>3 DEF Start, Count, Save, Create, Undo, Remove, rows
    <3>4. \A q \in Requests : pc'[q] = IF q = p THEN to ELSE pc[q]
      BY <3>1 DEF RequestsOK
    <3>5. verified = "false" /\ pc[p] \notin OpenSteps => to = "failed" /\ conns' = conns
      BY <3>3, <3>4 DEF RequestsOK
    <3>6. QED BY <2>1, <3>1, <3>2, <3>5, FirstKept, GateKept
  <2>4. QED BY <1>4, <2>2, <2>3 DEF Connect
<1>5. ASSUME NEW p \in Requests, Dies(p) PROVE FirstInv' /\ GateInv'
  <2>1. pc' = [pc EXCEPT ![p] = "failed"]
    BY <1>5 DEF Dies
  <2>2. verified' = verified /\ firsts' = firsts /\ networks' = networks /\ conns' = conns
    BY <1>5 DEF Dies, address, rows
  <2>3. QED BY <2>1, <2>2, FirstKept, GateKept
<1>6. CASE Minute \/ (\E link \in mailed : Expire(link)) \/ UNCHANGED vars
  <2>1. verified' = verified /\ firsts' = firsts /\ networks' = networks /\ conns' = conns /\ pc' = pc
    BY <1>6 DEF Minute, Expire, vars, address, rows
  <2>2. QED BY <2>1 DEF FirstInv, GateInv
<1>7. QED BY <1>1, <1>2, <1>3, <1>4, <1>5, <1>6 DEF Next

LEMMA ConfirmedAlways == Spec => [](FirstInv /\ GateInv)
<1>1. Init => FirstInv /\ GateInv
  BY DEF Init, FirstInv, GateInv, OpenSteps, FirstSteps
<1>2. TypeInv /\ FirstInv /\ GateInv /\ [Next]_vars => FirstInv' /\ GateInv'
  BY ConfirmedStep DEF TypeInv
<1>3. QED BY <1>1, <1>2, TypesAreKept, PTL DEF Spec

\* Only the first confirmation goes on to a first network, so an account gets
\* one at most (mark_verified's first, add_first_network).
THEOREM OneFirstNetwork == Spec => []FirstNetworkOnce
<1>1. FirstInv => FirstNetworkOnce
  <2> SUFFICES ASSUME FirstInv PROVE FirstNetworkOnce
    OBVIOUS
  <2>1. \A a, b \in networks : a = b
    BY DEF FirstInv
  <2>2. QED BY <2>1, AtMostOne DEF FirstNetworkOnce
<1>2. QED BY <1>1, ConfirmedAlways, PTL

\* An account with an unconfirmed address has no connection but earlier ones,
\* and no request is on its way to another (Dispatch handle's gate).
THEOREM NothingUnconfirmed ==
  Spec => [](verified = "false" =>
               conns \subseteq Earlier /\ \A p \in Requests : pc[p] \notin OpenSteps)
<1>1. GateInv => (verified = "false" =>
                    conns \subseteq Earlier /\ \A p \in Requests : pc[p] \notin OpenSteps)
  BY DEF GateInv
<1>2. QED BY <1>1, ConfirmedAlways, PTL

-----------------------------------------------------------------------------
(***************************************************************************)
(* No second network.                                                      *)
(***************************************************************************)
\* Once add_first_network has found no connection there is no earlier one, and
\* none comes back while the network is on its way or after.
SecondInv ==
  networks # {} \/ (\E p \in Requests : pc[p] = "insert") => conns \cap Earlier = {}

\* A step that leaves no more of the earlier connections, and goes on to a network
\* only without them.
LEMMA SecondKept ==
  ASSUME RequestsOK, SecondInv, NEW p \in Requests, NEW to,
         pc' = [pc EXCEPT ![p] = to], conns' \cap Earlier \subseteq conns,
         to = "insert" => conns \cap Earlier = {},
         networks' = networks \/ pc[p] = "insert"
  PROVE  SecondInv'
<1>1. \A q \in Requests : pc'[q] = IF q = p THEN to ELSE pc[q]
  BY DEF RequestsOK
<1>2. SUFFICES ASSUME networks' # {} \/ \E q \in Requests : pc'[q] = "insert"
               PROVE  conns \cap Earlier = {}
  BY DEF SecondInv
<1>3. QED BY <1>1, <1>2 DEF SecondInv

LEMMA SecondStep ==
  ASSUME RequestsOK, SecondInv, [Next]_vars
  PROVE  SecondInv'
<1> USE DEF FirstSteps, MailSteps, Goto
<1>1. ASSUME NEW p \in Requests, SignIn(p) \/ Mail(p) \/ Follow(p) PROVE SecondInv'
  <2>1. UNCHANGED rows
    BY <1>1 DEF SignIn, Register, Login, Upgrade, AdminReset, Mail, SignupMail, ResendMail,
       ResetMail, SendMail, Resend, Reset, Follow, Verify, Mark, Confirm, ConfirmLate, ConfirmCheck
  <2>2. PICK to \in {"signup mail", "upgrade", "ok", "failed", "resend mail", "reset mail", "mark",
                     "confirm", "has"} : pc' = [pc EXCEPT ![p] = to]
    BY <1>1 DEF SignIn, Register, Login, Upgrade, AdminReset, Mail, SignupMail, ResendMail,
       ResetMail, SendMail, Resend, Reset, Follow, Verify, Mark, Confirm, ConfirmLate, ConfirmCheck,
       AfterMark
  <2>3. conns' = conns /\ networks' = networks
    BY <2>1 DEF rows
  <2>4. QED BY <2>2, <2>3, SecondKept
<1>2. ASSUME NEW p \in Requests, Connect(p) PROVE SecondInv'
  <2>1. CASE HasNetwork(p)
    <3>1. pc' = [pc EXCEPT ![p] = IF conns = {} THEN "insert" ELSE "ok"]
      BY <2>1 DEF HasNetwork
    <3>2. conns' = conns /\ networks' = networks
      BY <2>1 DEF HasNetwork, rows
    <3>3. (IF conns = {} THEN "insert" ELSE "ok") = "insert" => conns \cap Earlier = {}
      OBVIOUS
    <3>4. QED BY <3>1, <3>2, <3>3, SecondKept
  <2>2. CASE InsertNetwork(p)
    <3>1. pc[p] = "insert" /\ pc' = [pc EXCEPT ![p] = "ok"] /\ conns' = conns \cup {p}
      BY <2>2 DEF InsertNetwork
    <3>2. conns' \cap Earlier \subseteq conns
      BY <3>1, AccountsAssumption DEF AccountsAssumption
    <3>3. QED BY <3>1, <3>2, SecondKept
  <2>3. ASSUME \/ Start(p) \/ Count(p) \/ Save(p) \/ Create(p) \/ Undo(p)
               \/ \E c \in Requests \cup Earlier : Remove(p, c)
        PROVE  SecondInv'
    <3>1. PICK to \in {"count", "save", "create", "undo", "ok", "removed", "failed"} :
            pc' = [pc EXCEPT ![p] = to]
      BY <2>3 DEF Start, Count, Save, Create, Undo, Remove
    <3>2. networks' = networks /\ conns' \subseteq conns \cup {p}
      BY <2>3 DEF Start, Count, Save, Create, Undo, Remove, rows
    <3>3. conns' \cap Earlier \subseteq conns
      BY <3>2, AccountsAssumption DEF AccountsAssumption
    <3>4. QED BY <3>1, <3>2, <3>3, SecondKept
  <2>4. QED BY <1>2, <2>1, <2>2, <2>3 DEF Connect
<1>3. ASSUME NEW p \in Requests, Dies(p) PROVE SecondInv'
  <2>1. pc' = [pc EXCEPT ![p] = "failed"] /\ conns' = conns /\ networks' = networks
    BY <1>3 DEF Dies, rows
  <2>2. QED BY <2>1, SecondKept
<1>4. CASE Minute \/ (\E link \in mailed : Expire(link)) \/ UNCHANGED vars
  <2>1. conns' = conns /\ networks' = networks /\ pc' = pc
    BY <1>4 DEF Minute, Expire, vars, rows
  <2>2. QED BY <2>1 DEF SecondInv
<1>5. QED BY <1>1, <1>2, <1>3, <1>4 DEF Next

\* For any number of requests and earlier connections: while one of these is
\* left, no first network has come and none is being saved beside it
\* (add_first_network).
THEOREM NoNetworkOnTop == Spec => []NoSecondNetwork
<1>1. Init => SecondInv
  BY DEF Init, SecondInv
<1>2. TypeInv /\ SecondInv /\ [Next]_vars => SecondInv'
  BY SecondStep DEF TypeInv
<1>3. SecondInv => NoSecondNetwork
  BY DEF SecondInv, NoSecondNetwork
<1>4. QED BY <1>1, <1>2, <1>3, TypesAreKept, PTL DEF Spec

-----------------------------------------------------------------------------
(***************************************************************************)
(* The limit on connections.                                               *)
(***************************************************************************)
Added == conns \ networks

\* What the holder of the lock counted still bounds the connections.
LimitInv ==
  /\ Added \subseteq Earlier \/ Cardinality(Added) <= MaxConnections
  /\ \A p \in Requests : pc[p] = "save" => Cardinality(Added) <= seen[p]

LEMMA AddedFinite ==
  ASSUME RowsOK
  PROVE  /\ IsFiniteSet(conns) /\ Cardinality(conns) \in Nat
         /\ IsFiniteSet(Added) /\ Cardinality(Added) \in Nat
         /\ Cardinality(Added) <= Cardinality(conns)
<1>1. IsFiniteSet(conns)
  <2>1. IsFiniteSet(Requests \cup Earlier)
    BY FS_Union, AccountsAssumption DEF AccountsAssumption
  <2>2. QED BY <2>1, FS_Subset DEF RowsOK
<1>2. Added \in SUBSET conns
  BY DEF Added
<1>3. QED BY <1>1, <1>2, FS_Subset, FS_CardinalityType

\* A step that adds no connection but a first network.
LEMMA LimitKept ==
  ASSUME TypeInv, LimitInv, NEW p \in Requests, NEW to,
         pc' = [pc EXCEPT ![p] = to], to # "save", Added' \subseteq Added,
         \A q \in Requests : q # p => seen'[q] = seen[q]
  PROVE  LimitInv'
<1>1. RowsOK /\ RequestsOK
  BY DEF TypeInv
<1>2. Cardinality(Added') <= Cardinality(Added) /\ Cardinality(Added') \in Nat
  BY <1>1, AddedFinite, FS_Subset, FS_CardinalityType
<1>3. Added' \subseteq Earlier \/ Cardinality(Added') <= MaxConnections
  BY <1>1, <1>2, AddedFinite, AccountsAssumption DEF LimitInv, AccountsAssumption
<1>4. ASSUME NEW q \in Requests, pc'[q] = "save" PROVE Cardinality(Added') <= seen'[q]
  <2>1. q # p /\ pc[q] = "save"
    BY <1>1, <1>4 DEF RequestsOK
  <2>2. seen'[q] = seen[q] /\ seen[q] \in Nat /\ Cardinality(Added) <= seen[q]
    BY <1>1, <2>1 DEF LimitInv, RequestsOK
  <2>3. QED BY <1>1, <1>2, <2>2, AddedFinite
<1>5. QED BY <1>3, <1>4 DEF LimitInv

LEMMA CountLimit ==
  ASSUME TypeInv, LimitInv, NEW p \in Requests, Count(p)
  PROVE  LimitInv'
<1>1. Added' = Added /\ RowsOK /\ RequestsOK
  BY DEF Count, rows, Added, TypeInv
<1>2. ASSUME NEW q \in Requests, pc'[q] = "save" PROVE Cardinality(Added') <= seen'[q]
  <2>1. CASE q = p
    <3>1. seen'[q] = Cardinality(conns)
      BY <1>1, <2>1 DEF Count, RequestsOK
    <3>2. QED BY <1>1, <3>1, AddedFinite
  <2>2. CASE q # p
    <3>1. pc[q] = "save" /\ seen'[q] = seen[q]
      BY <1>1, <1>2, <2>2 DEF Count, Goto, RequestsOK
    <3>2. QED BY <1>1, <3>1 DEF LimitInv
  <2>3. QED BY <2>1, <2>2
<1>3. QED BY <1>1, <1>2 DEF LimitInv

\* Only one request is at "save" at a time, so no count is outdated by it.
LEMMA SaveLimit ==
  ASSUME TypeInv, LimitInv, NEW p \in Requests, Save(p)
  PROVE  LimitInv'
<1>1. RowsOK /\ RequestsOK
  BY DEF TypeInv
<1>2. TypeInv' /\ lock' = Nobody
  BY SaveType, AccountsAssumption DEF Save
<1>3. \A q \in Requests : pc'[q] # "save"
  BY <1>2, AccountsAssumption DEF TypeInv, LockOK, AccountsAssumption
<1>4. pc[p] = "save" /\ seen[p] \in Nat /\ Cardinality(Added) <= seen[p]
  BY <1>1 DEF Save, Goto, LimitInv, RequestsOK
<1>5. Added' \subseteq Earlier \/ Cardinality(Added') <= MaxConnections
  <2>1. CASE seen[p] < MaxConnections
    <3>1. Added' \in SUBSET (Added \cup {p})
      BY <2>1 DEF Save, Added
    <3>2. IsFiniteSet(Added \cup {p}) /\ Cardinality(Added \cup {p}) <= Cardinality(Added) + 1
      <4>1. IsFiniteSet(Added) /\ Cardinality(Added) \in Nat
        BY <1>1, AddedFinite
      <4>2. /\ IsFiniteSet(Added \cup {p})
            /\ Cardinality(Added \cup {p})
                 = IF p \in Added THEN Cardinality(Added) ELSE Cardinality(Added) + 1
        BY <4>1, FS_AddElement
      <4>3. QED BY <4>1, <4>2
    <3>3. Cardinality(Added') <= Cardinality(Added \cup {p}) /\ Cardinality(Added') \in Nat
          /\ Cardinality(Added \cup {p}) \in Nat
      BY <3>1, <3>2, FS_Subset, FS_CardinalityType
    <3>4. Cardinality(Added) \in Nat /\ MaxConnections \in Nat
      BY <1>1, AddedFinite, AccountsAssumption DEF AccountsAssumption
    <3>5. Cardinality(Added') <= Cardinality(Added) + 1
      BY <3>2, <3>3, <3>4
    <3>6. Cardinality(Added) + 1 <= MaxConnections
      BY <1>4, <2>1, <3>4
    <3>7. QED BY <3>3, <3>4, <3>5, <3>6
  <2>2. CASE ~(seen[p] < MaxConnections)
    <3>1. Added' = Added
      BY <2>2 DEF Save, Added
    <3>2. QED BY <3>1 DEF LimitInv
  <2>3. QED BY <2>1, <2>2
<1>6. QED BY <1>3, <1>5 DEF LimitInv

LEMMA LimitStep ==
  ASSUME TypeInv, LimitInv, [Next]_vars
  PROVE  LimitInv'
<1> USE DEF FirstSteps, MailSteps, Ends, Goto
<1>1. ASSUME NEW p \in Requests, SignIn(p) PROVE LimitInv'
  <2>1. \E to \in {"signup mail", "upgrade", "ok", "failed"} : pc' = [pc EXCEPT ![p] = to]
    BY <1>1 DEF SignIn, Register, Login, Upgrade, AdminReset
  <2>2. Added' = Added /\ seen' = seen
    BY <1>1 DEF SignIn, Register, Login, Upgrade, AdminReset, rows, Added
  <2>3. QED BY <2>1, <2>2, LimitKept
<1>2. ASSUME NEW p \in Requests, Mail(p) PROVE LimitInv'
  <2>1. \E to \in {"resend mail", "reset mail", "ok"} : pc' = [pc EXCEPT ![p] = to]
    BY <1>2 DEF Mail, SignupMail, ResendMail, ResetMail, SendMail, Resend, Reset
  <2>2. Added' = Added /\ \A q \in Requests : q # p => seen'[q] = seen[q]
    BY <1>2 DEF Mail, SignupMail, ResendMail, ResetMail, SendMail, Resend, Reset, rows, Added,
       TypeInv, RequestsOK
  <2>3. QED BY <2>1, <2>2, LimitKept
<1>3. ASSUME NEW p \in Requests, Follow(p) PROVE LimitInv'
  <2>1. \E to \in {"mark", "confirm", "has", "ok", "failed"} : pc' = [pc EXCEPT ![p] = to]
    BY <1>3 DEF Follow, Verify, Mark, Confirm, ConfirmLate, ConfirmCheck, AfterMark
  <2>2. Added' = Added /\ \A q \in Requests : q # p => seen'[q] = seen[q]
    BY <1>3 DEF Follow, Verify, Mark, Confirm, ConfirmLate, ConfirmCheck, rows, Added,
       TypeInv, RequestsOK
  <2>3. QED BY <2>1, <2>2, LimitKept
<1>4. ASSUME NEW p \in Requests, Connect(p) PROVE LimitInv'
  <2>1. CASE Count(p) \/ Save(p)
    BY <2>1, CountLimit, SaveLimit
  <2>2. ASSUME \/ HasNetwork(p) \/ InsertNetwork(p) \/ Start(p) \/ Create(p) \/ Undo(p)
               \/ \E c \in Requests \cup Earlier : Remove(p, c)
        PROVE  LimitInv'
    <3>1. \E to \in {"insert", "count", "undo", "ok", "removed", "failed"} :
            pc' = [pc EXCEPT ![p] = to]
      BY <2>2 DEF HasNetwork, InsertNetwork, Start, Create, Undo, Remove
    <3>2. Added' \subseteq Added /\ seen' = seen
      BY <2>2 DEF HasNetwork, InsertNetwork, Start, Create, Undo, Remove, rows, Added
    <3>3. QED BY <3>1, <3>2, LimitKept
  <2>3. QED BY <1>4, <2>1, <2>2 DEF Connect
<1>5. ASSUME NEW p \in Requests, Dies(p) PROVE LimitInv'
  <2>1. pc' = [pc EXCEPT ![p] = "failed"] /\ Added' = Added /\ seen' = seen
    BY <1>5 DEF Dies, rows, Added
  <2>2. QED BY <2>1, LimitKept
<1>6. CASE Minute \/ (\E link \in mailed : Expire(link)) \/ UNCHANGED vars
  <2>1. Added' = Added /\ pc' = pc /\ seen' = seen
    BY <1>6 DEF Minute, Expire, vars, rows, Added
  <2>2. QED BY <2>1 DEF LimitInv
<1>7. QED BY <1>1, <1>2, <1>3, <1>4, <1>5, <1>6 DEF Next

\* A user never adds a connection beyond the limit, however many requests add one
\* at once; a first network may come on top (save_connection_limited).
THEOREM LimitHolds == Spec => []WithinLimit
<1>1. Init => LimitInv
  <2> SUFFICES ASSUME Init PROVE LimitInv
    OBVIOUS
  <2>1. Added \subseteq Earlier /\ \A p \in Requests : pc[p] # "save"
    BY DEF Init, Added
  <2>2. QED BY <2>1 DEF LimitInv
<1>2. TypeInv /\ LimitInv /\ [Next]_vars => LimitInv'
  BY LimitStep
<1>3. LimitInv => WithinLimit
  BY DEF LimitInv, WithinLimit, Added
<1>4. QED BY <1>1, <1>2, <1>3, TypesAreKept, PTL DEF Spec

-----------------------------------------------------------------------------
(***************************************************************************)
(* The first network arrives.                                              *)
(***************************************************************************)
\* A request that failed, is about to, or has removed a connection.
Mishaps == {"failed", "removed", "undo"}

\* Without mishaps a confirmed account has a connection or a request that is
\* still on its way to the first network.
Arriving ==
  firsts # {} /\ (\A p \in Requests : pc[p] \notin Mishaps)
    => conns # {} \/ \E p \in Requests : pc[p] \in FirstSteps

\* A step that is itself a mishap, goes on to the first network, leaves a
\* connection behind, or changes nothing that matters here.
LEMMA ArrivingKept ==
  ASSUME RequestsOK, Arriving, NEW p \in Requests, NEW to,
         pc' = [pc EXCEPT ![p] = to],
         pc[p] \in Mishaps => to \in Mishaps,
         \/ to \in Mishaps
         \/ to \in FirstSteps
         \/ conns' # {}
         \/ firsts' = firsts /\ conns' = conns /\ pc[p] \notin FirstSteps
  PROVE  Arriving'
<1>1. \A q \in Requests : pc'[q] = IF q = p THEN to ELSE pc[q]
  BY DEF RequestsOK
<1>2. SUFFICES ASSUME \A q \in Requests : pc'[q] \notin Mishaps,
                      firsts' # {}, conns' = {}
               PROVE  \E q \in Requests : pc'[q] \in FirstSteps
  BY DEF Arriving
<1>3. to \notin Mishaps
  BY <1>1, <1>2
<1>4. CASE to \in FirstSteps
  BY <1>1, <1>4
<1>5. CASE firsts' = firsts /\ conns' = conns /\ pc[p] \notin FirstSteps
  <2>1. \A q \in Requests : pc[q] \notin Mishaps
    BY <1>1, <1>2, <1>3
  <2>2. PICK q \in Requests : pc[q] \in FirstSteps
    BY <1>2, <1>5, <2>1 DEF Arriving
  <2>3. pc'[q] \in FirstSteps
    BY <1>1, <1>5, <2>2
  <2>4. QED BY <2>3
<1>6. QED BY <1>2, <1>3, <1>4, <1>5

LEMMA ArrivingStep ==
  ASSUME RequestsOK, Arriving, [Next]_vars
  PROVE  Arriving'
<1> USE DEF Mishaps, FirstSteps, MailSteps, Ends, Goto
<1>1. ASSUME NEW p \in Requests, SignIn(p) PROVE Arriving'
  <2>1. PICK to \in {"signup mail", "upgrade", "ok", "failed"} : pc' = [pc EXCEPT ![p] = to]
    BY <1>1 DEF SignIn, Register, Login, Upgrade, AdminReset
  <2>2. firsts' = firsts /\ conns' = conns /\ pc[p] \in {"begin", "upgrade"}
    BY <1>1 DEF SignIn, Register, Login, Upgrade, AdminReset, address, rows
  <2>3. QED BY <2>1, <2>2, ArrivingKept
<1>2. ASSUME NEW p \in Requests, Mail(p) PROVE Arriving'
  <2>1. PICK to \in {"resend mail", "reset mail", "ok"} : pc' = [pc EXCEPT ![p] = to]
    BY <1>2 DEF Mail, SignupMail, ResendMail, ResetMail, SendMail, Resend, Reset
  <2>2. firsts' = firsts /\ conns' = conns /\ pc[p] \in MailSteps \cup {"begin"}
    BY <1>2 DEF Mail, SignupMail, ResendMail, ResetMail, SendMail, Resend, Reset, address, rows
  <2>3. QED BY <2>1, <2>2, ArrivingKept
<1>3. ASSUME NEW p \in Requests, Follow(p) PROVE Arriving'
  <2>1. ASSUME Mark(p) \/ Confirm(p) PROVE Arriving'
    <3>1. pc' = [pc EXCEPT ![p] = AfterMark] /\ pc[p] \in {"mark", "confirm"} /\ conns' = conns
      BY <2>1 DEF Mark, Confirm, rows
    <3>2. AfterMark = "has" \/ firsts' = firsts
      BY <2>1 DEF Mark, Confirm, MarkVerified, AfterMark
    <3>3. QED BY <3>1, <3>2, ArrivingKept
  <2>2. ASSUME \/ Verify(p) \/ ConfirmLate(p)
               \/ \E n \in 0..stamp, pw \in Passwords : ConfirmCheck(p, n, pw)
        PROVE  Arriving'
    <3>1. PICK to \in {"mark", "confirm", "failed"} : pc' = [pc EXCEPT ![p] = to]
      BY <2>2 DEF Verify, ConfirmLate, ConfirmCheck
    <3>2. firsts' = firsts /\ conns' = conns /\ pc[p] \in {"begin", "confirm"}
      BY <2>2 DEF Verify, ConfirmLate, ConfirmCheck, address, rows
    <3>3. QED BY <3>1, <3>2, ArrivingKept
  <2>3. QED BY <1>3, <2>1, <2>2 DEF Follow
<1>4. ASSUME NEW p \in Requests, Connect(p) PROVE Arriving'
  <2>1. CASE HasNetwork(p)
    <3>1. pc' = [pc EXCEPT ![p] = IF conns = {} THEN "insert" ELSE "ok"] /\ pc[p] = "has"
      BY <2>1 DEF HasNetwork
    <3>2. conns' = conns
      BY <2>1 DEF HasNetwork, rows
    <3>3. QED BY <3>1, <3>2, ArrivingKept
  <2>2. CASE InsertNetwork(p)
    <3>1. pc' = [pc EXCEPT ![p] = "ok"] /\ pc[p] = "insert" /\ conns' # {}
      BY <2>2 DEF InsertNetwork
    <3>2. QED BY <3>1, ArrivingKept
  <2>3. CASE Save(p)
    <3>1. PICK to \in {"create", "failed"} : pc' = [pc EXCEPT ![p] = to]
      BY <2>3 DEF Save
    <3>2. pc[p] = "save" /\ firsts' = firsts /\ (conns' = conns \/ conns' = conns \cup {p})
      BY <2>3 DEF Save, address
    <3>3. QED BY <3>1, <3>2, ArrivingKept
  <2>4. CASE Undo(p) \/ \E c \in Requests \cup Earlier : Remove(p, c)
    <3>1. \E to \in {"failed", "removed"} : pc' = [pc EXCEPT ![p] = to]
      BY <2>4 DEF Undo, Remove
    <3>2. QED BY <3>1, ArrivingKept
  <2>5. CASE Start(p) \/ Count(p) \/ Create(p)
    <3>1. PICK to \in {"count", "save", "ok", "undo", "failed"} : pc' = [pc EXCEPT ![p] = to]
      BY <2>5 DEF Start, Count, Create
    <3>2. firsts' = firsts /\ conns' = conns /\ pc[p] \in {"begin", "count", "create"}
      BY <2>5 DEF Start, Count, Create, address, rows
    <3>3. QED BY <3>1, <3>2, ArrivingKept
  <2>6. QED BY <1>4, <2>1, <2>2, <2>3, <2>4, <2>5 DEF Connect
<1>5. ASSUME NEW p \in Requests, Dies(p) PROVE Arriving'
  <2>1. pc' = [pc EXCEPT ![p] = "failed"]
    BY <1>5 DEF Dies
  <2>2. QED BY <2>1, ArrivingKept
<1>6. CASE Minute \/ (\E link \in mailed : Expire(link)) \/ UNCHANGED vars
  <2>1. firsts' = firsts /\ conns' = conns /\ pc' = pc
    BY <1>6 DEF Minute, Expire, vars, address, rows
  <2>2. QED BY <2>1 DEF Arriving
<1>7. QED BY <1>1, <1>2, <1>3, <1>4, <1>5, <1>6 DEF Next

\* For any number of requests at once: when the address has been confirmed,
\* nothing failed and nothing was removed, the account has a connection when the
\* requests are over, whichever link confirmed it (mark_verified's first,
\* add_first_network).
THEOREM FirstNetworkComes == Spec => []FirstNetworkArrives
<1>1. Init => Arriving
  BY DEF Init, Arriving
<1>2. TypeInv /\ Arriving /\ [Next]_vars => Arriving'
  BY ArrivingStep DEF TypeInv
<1>3. Arriving => FirstNetworkArrives
  BY DEF Arriving, FirstNetworkArrives, Mishaps, FirstSteps
<1>4. QED BY <1>1, <1>2, <1>3, TypesAreKept, PTL DEF Spec

-----------------------------------------------------------------------------
(***************************************************************************)
(* Passwords stay.  An account with an old hash can lose a reset password  *)
(* to a login that read the row before (run accounts_reset).  That is the  *)
(* only way: without an old hash no request has one to replace.            *)
(***************************************************************************)
Upgraded ==
  /\ style # "legacy"
  /\ \A p \in Requests : pc[p] # "upgrade"
  /\ PasswordStays

\* A request that leaves the passwords alone.
LEMMA UpgradedKept ==
  ASSUME Upgraded, NEW p \in Requests, NEW to \in (Steps \cup Ends) \ {"upgrade"},
         pc' = [pc EXCEPT ![p] = to], UNCHANGED credentials
  PROVE  Upgraded'
<1>1. style' = style /\ password' = password /\ intended' = intended
  BY DEF credentials
<1>2. \A q \in Requests : pc'[q] # "upgrade"
  BY DEF Upgraded
<1>3. QED BY <1>1, <1>2 DEF Upgraded, PasswordStays

\* One that stores the hash of a password and intends it.
LEMMA UpgradedStored ==
  ASSUME Upgraded, NEW p \in Requests, NEW to \in (Steps \cup Ends) \ {"upgrade"},
         NEW pw, pc' = [pc EXCEPT ![p] = to], StoreHash(pw), intended' = pw
  PROVE  Upgraded'
<1>1. style' = "new" /\ password' = intended'
  BY DEF StoreHash
<1>2. \A q \in Requests : pc'[q] # "upgrade"
  BY DEF Upgraded
<1>3. QED BY <1>1, <1>2 DEF Upgraded, PasswordStays

LEMMA UpgradedStep ==
  ASSUME RequestsOK, Upgraded, [Next]_vars
  PROVE  Upgraded'
<1> USE DEF Goto, Steps, Ends, FirstSteps, MailSteps
<1>1. ASSUME NEW p \in Requests, SignIn(p) PROVE Upgraded'
  <2>1. ASSUME NEW pw \in Passwords, Register(p, pw) PROVE Upgraded'
    <3>1. PICK to \in {"signup mail", "failed"} : pc' = [pc EXCEPT ![p] = to]
      BY <2>1 DEF Register
    <3>2. \/ StoreHash(pw) /\ intended' = pw
          \/ UNCHANGED credentials
      BY <2>1 DEF Register, credentials
    <3>3. QED BY <3>1, <3>2, UpgradedKept, UpgradedStored
  <2>2. ASSUME NEW pw \in Passwords, Login(p, pw) PROVE Upgraded'
    <3>1. PICK to \in {"failed", "ok"} : pc' = [pc EXCEPT ![p] = to]
      BY <2>2 DEF Login, Upgraded
    <3>2. UNCHANGED credentials
      BY <2>2 DEF Login
    <3>3. QED BY <3>1, <3>2, UpgradedKept
  <2>3. ASSUME NEW pw \in Passwords, AdminReset(p, pw) PROVE Upgraded'
    <3>1. PICK to \in {"ok", "failed"} : pc' = [pc EXCEPT ![p] = to]
      BY <2>3 DEF AdminReset
    <3>2. \/ StoreHash(pw) /\ intended' = pw
          \/ UNCHANGED credentials
      BY <2>3 DEF AdminReset, credentials
    <3>3. QED BY <3>1, <3>2, UpgradedKept, UpgradedStored
  <2>4. ~Upgrade(p)
    BY DEF Upgrade, Upgraded
  <2>5. QED BY <1>1, <2>1, <2>2, <2>3, <2>4 DEF SignIn
<1>2. ASSUME NEW p \in Requests, Mail(p) PROVE Upgraded'
  <2>1. PICK to \in {"ok", "resend mail", "reset mail"} : pc' = [pc EXCEPT ![p] = to]
    BY <1>2 DEF Mail, SignupMail, ResendMail, ResetMail, SendMail, Resend, Reset
  <2>2. UNCHANGED credentials
    BY <1>2 DEF Mail, SignupMail, ResendMail, ResetMail, SendMail, Resend, Reset
  <2>3. QED BY <2>1, <2>2, UpgradedKept
<1>3. ASSUME NEW p \in Requests, Follow(p) PROVE Upgraded'
  <2>1. CASE Confirm(p)
    <3>1. PICK to \in {"has", "ok"} : pc' = [pc EXCEPT ![p] = to]
      BY <2>1 DEF Confirm, AfterMark
    <3>2. StoreHash(typed[p]) /\ intended' = typed[p]
      BY <2>1 DEF Confirm
    <3>3. QED BY <3>1, <3>2, UpgradedStored
  <2>2. CASE Verify(p) \/ Mark(p) \/ ConfirmLate(p)
             \/ \E n \in 0..stamp, pw \in Passwords : ConfirmCheck(p, n, pw)
    <3>1. PICK to \in {"mark", "confirm", "failed", "has", "ok"} : pc' = [pc EXCEPT ![p] = to]
      BY <2>2 DEF Verify, Mark, AfterMark, ConfirmLate, ConfirmCheck
    <3>2. UNCHANGED credentials
      BY <2>2 DEF Verify, Mark, ConfirmLate, ConfirmCheck
    <3>3. QED BY <3>1, <3>2, UpgradedKept
  <2>3. QED BY <1>3, <2>1, <2>2 DEF Follow
<1>4. ASSUME NEW p \in Requests, Connect(p) \/ Dies(p) PROVE Upgraded'
  <2>1. PICK to \in {"insert", "ok", "count", "failed", "save", "create", "undo", "removed"} :
          pc' = [pc EXCEPT ![p] = to]
    BY <1>4 DEF Connect, HasNetwork, InsertNetwork, Start, Count, Save, Create, Undo, Remove, Dies
  <2>2. UNCHANGED credentials
    BY <1>4 DEF Connect, HasNetwork, InsertNetwork, Start, Count, Save, Create, Undo, Remove, Dies
  <2>3. QED BY <2>1, <2>2, UpgradedKept
<1>5. CASE Minute \/ (\E link \in mailed : Expire(link)) \/ UNCHANGED vars
  <2>1. UNCHANGED credentials /\ pc' = pc
    BY <1>5 DEF Minute, Expire, vars, credentials
  <2>2. style' = style /\ password' = password /\ intended' = intended
    BY <2>1 DEF credentials
  <2>3. QED BY <2>1, <2>2 DEF Upgraded, PasswordStays
<1>6. QED BY <1>1, <1>2, <1>3, <1>4, <1>5 DEF Next

\* An account that does not begin with an old hash keeps the password that was
\* set last, whatever logins, resets, links and the operator do at once: the
\* loss needs the login that upgrades an old hash (login, set_password_hash).
THEOREM NewHashesStay == Spec /\ style # "legacy" => []PasswordStays
<1>1. Init /\ style # "legacy" => Upgraded
  BY DEF Init, Upgraded, PasswordStays
<1>2. TypeInv /\ Upgraded /\ [Next]_vars => Upgraded'
  BY UpgradedStep DEF TypeInv
<1>3. Upgraded => PasswordStays
  BY DEF Upgraded
<1>4. QED BY <1>1, <1>2, <1>3, TypesAreKept, PTL DEF Spec

=============================================================================
