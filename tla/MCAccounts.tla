----------------------------- MODULE MCAccounts -----------------------------
(***************************************************************************)
(* Small instances of Accounts for TLC.                                    *)
(***************************************************************************)
EXTENDS Accounts, TLC

\* An earlier connection is a model value no action tells from another, too.
RequestSymmetry == Permutations(Requests) \cup Permutations(Earlier)
=============================================================================
