---------------------------- MODULE MCExtension ----------------------------
(* Small instances of Extension for TLC: a browser, no desktop agent.      *)
EXTENDS Extension

\* Handlers, and request slots, are interchangeable in every safety property.
Symmetry == Permutations(Request) \cup Permutations(Task)

MCOwnerOf == << >>
=============================================================================
