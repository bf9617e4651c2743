----------------------------- MODULE MCAccounts -----------------------------
(* Small instances of Accounts for TLC.                                    *)
EXTENDS Accounts, TLC

\* Calls and users are interchangeable.
Symmetry == Permutations(Call) \cup Permutations(User)
=============================================================================
