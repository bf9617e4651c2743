------------------------------ MODULE EventLog ------------------------------
(***************************************************************************)
(* What the agent and the ingest service promise together about events,    *)
(* with everything else forgotten: an event is recorded, may then be       *)
(* stored on the server, and is acknowledged (so that it may be forgotten  *)
(* locally) only once it is stored.  Nothing is ever undone.               *)
(***************************************************************************)
CONSTANT Event

VARIABLES
  recorded,  \* events in the agent's buffer, sent or not
  stored,    \* events in the server's table
  acked      \* events the agent regards as sent

logVars == <<recorded, stored, acked>>

LogInit == recorded = {} /\ stored = {} /\ acked = {}

RecordEvent(e) ==
  /\ e \notin recorded
  /\ recorded' = recorded \cup {e}
  /\ UNCHANGED <<stored, acked>>

\* A batch arrives; events that are there already are left as they are.
Store(B) ==
  /\ B \subseteq recorded
  /\ stored' = stored \cup B
  /\ UNCHANGED <<recorded, acked>>

Acknowledge(B) ==
  /\ B \subseteq stored
  /\ acked' = acked \cup B
  /\ UNCHANGED <<recorded, stored>>

LogNext ==
  \/ \E e \in Event : RecordEvent(e)
  \/ \E B \in SUBSET Event : Store(B) \/ Acknowledge(B)

LogSpec == LogInit /\ [][LogNext]_logVars
=============================================================================
