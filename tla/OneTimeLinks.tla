---------------------------- MODULE OneTimeLinks ----------------------------
(***************************************************************************)
(* What reset links promise (lib/API/SignedToken.pm): a link is good for   *)
(* the password hash it was made for.  Whatever changes the hash, and a    *)
(* reset through a link is such a change, leaves every older link dead.    *)
(***************************************************************************)
EXTENDS Naturals, Sequences, TLAPS

VARIABLES
  hash,  \* how often the password hash has changed
  used   \* the hashes whose links were used, in order

Init ==
  /\ hash = 0
  /\ used = <<>>

\* The password is set without a link.
Change ==
  /\ hash' = hash + 1
  /\ UNCHANGED used

\* A link made for the present hash is used.
Redeem ==
  /\ used' = Append(used, hash)
  /\ hash' = hash + 1

Next == Change \/ Redeem

Spec == Init /\ [][Next]_<<hash, used>>

\* The links for one hash are used once at most (SignedToken: "so a used link
\* dies").
UsedOnce ==
  \A i, j \in 1..Len(used) : used[i] = used[j] => i = j

\* Every used link was for an older hash than the present one.
UsedInv ==
  /\ hash \in Nat
  /\ used \in Seq(Nat)
  /\ \A i \in 1..Len(used) : used[i] < hash
  /\ UsedOnce

\* A reset link that was used can't be used again, nor can another one that was
\* made for the same password (SignedToken.pm, reset_confirm).
THEOREM LinksUsedOnce == Spec => []UsedOnce
<1>1. Init => UsedInv
  BY DEF Init, UsedInv, UsedOnce
<1>2. UsedInv /\ [Next]_<<hash, used>> => UsedInv'
  <2> SUFFICES ASSUME UsedInv, [Next]_<<hash, used>>
               PROVE  UsedInv'
    OBVIOUS
  <2>1. CASE Change
    BY <2>1 DEF Change, UsedInv, UsedOnce
  <2>2. CASE Redeem
    <3>1. used' \in Seq(Nat) /\ Len(used') = Len(used) + 1 /\ hash' = hash + 1
      BY <2>2 DEF Redeem, UsedInv
    <3>2. \A i \in 1..Len(used') :
            used'[i] = IF i = Len(used) + 1 THEN hash ELSE used[i]
      BY <2>2 DEF Redeem, UsedInv
    <3> DEFINE n == Len(used)
    <3>3. /\ n \in Nat
          /\ \A i \in 1..n : used[i] \in Nat /\ used[i] < hash /\ used'[i] = used[i]
          /\ used'[n + 1] = hash
          /\ hash \in Nat
      BY <3>1, <3>2 DEF UsedInv
    <3> HIDE DEF n
    <3>4. \A i \in 1..(n + 1) : i \in 1..n \/ i = n + 1
      BY <3>3
    <3>5. \A i \in 1..(n + 1) : used'[i] < hash + 1
      BY <3>3, <3>4
    <3>6. \A i, j \in 1..n : used'[i] = used'[j] => i = j
      BY <3>3 DEF UsedInv, UsedOnce, n
    <3>7. \A i, j \in 1..(n + 1) : used'[i] = used'[j] => i = j
      BY <3>3, <3>4, <3>6
    <3>8. Len(used') = n + 1
      BY <3>1 DEF n
    <3>9. UsedOnce'
      BY <3>7, <3>8 DEF UsedOnce
    <3>10. /\ hash' \in Nat
           /\ used' \in Seq(Nat)
      BY <3>1, <3>3
    <3>11. \A i \in 1..Len(used') : used'[i] < hash'
      BY <3>1, <3>5, <3>8
    <3>12. QED
      BY <3>9, <3>10, <3>11 DEF UsedInv
  <2>3. CASE UNCHANGED <<hash, used>>
    BY <2>3 DEF UsedInv, UsedOnce
  <2>4. QED
    BY <2>1, <2>2, <2>3 DEF Next
<1>3. UsedInv => UsedOnce
  BY DEF UsedInv
<1>4. QED
  BY <1>1, <1>2, <1>3, PTL DEF Spec
=============================================================================
