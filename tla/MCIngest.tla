------------------------------ MODULE MCIngest ------------------------------
(* Small instances of Ingest for TLC.                                      *)
EXTENDS Ingest, TLC

CONSTANTS u1, u2, d1, d2

\* d1 and d2 are agent devices of u1 and u2; with one worker, of the same one.
MCOwnerOf == [d \in AgentDevice |-> IF d = d1 \/ User = {u1} THEN u1 ELSE u2]

\* Request slots are interchangeable in every safety property.
Symmetry == Permutations(Request)
=============================================================================
