------------------------------ MODULE MCAdmin ------------------------------
(* Small instances of Admin for TLC. *)
EXTENDS Admin, TLC

Symmetry == Permutations(Call) \cup Permutations(Tab) \cup Permutations(Value \ {Initial})
=============================================================================
