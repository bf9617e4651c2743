---------------------------- MODULE MCAgentSync ----------------------------
(* Small instances of AgentSync for TLC: one worker and their devices.     *)
EXTENDS AgentSync, TLC

CONSTANTS u1

MCOwnerOf == [d \in AgentDevice |-> u1]

\* Request slots are interchangeable in every safety property.
Symmetry == Permutations(Request)
=============================================================================
