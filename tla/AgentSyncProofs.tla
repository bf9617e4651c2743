-------------------------- MODULE AgentSyncProofs --------------------------
(***************************************************************************)
(* The desktop agent and the backend together: type correctness, the       *)
(* session ids the agent holds, what the server stores and in which order, *)
(* and that the two implement the event log, for every number of workers,  *)
(* devices, request slots and events, and every batch size.                *)
(***************************************************************************)
EXTENDS AgentSync, IngestProofs, SequenceTheorems, FiniteSetTheorems

(***************************************************************************)
(* First layer: types, and what a thread knows when it sends a request.    *)
(* The requests themselves are those of IngestProofs, whose invariant is   *)
(* carried over: what the agent sends is what a client of Ingest may send. *)
(***************************************************************************)
AgentTypes ==
  /\ identity \in AgentDevice \cup {NoDevice}
  /\ workday \in BOOLEAN
  /\ private \in BOOLEAN
  /\ pending \in Csid \cup {0}
  /\ sid \in Csid \cup {0}
  /\ keychain \in AgentDevice \cup {NoDevice}
  /\ buffer \in Seq(BufferedEvent)
  /\ Len(buffer) <= MaxEvents
  /\ enrolled \subseteq AgentDevice
  /\ main \in MainState
  /\ monitor \in MonitorState
  /\ ender \in EnderState
  /\ sync \in SyncState

\* A thread that is about to send has read a device, and a session id where it sends one.
ThreadsReady ==
  /\ ender.pc = "clear" => ender.device \in AgentDevice
  /\ sync.pc # "idle" => sync.device \in AgentDevice
  /\ sync.pc = "take" => sync.sid # 0

\* Neither the agent nor Stop Workday ever asks for a browser session.
AgentRequests == \A r \in Request : reqs[r].kind \notin {"meStart", "meEvents"}

TypeInv == IngestInv /\ AgentTypes /\ ThreadsReady /\ AgentRequests

-----------------------------------------------------------------------------
(* What a step does to the backend.                                        *)

\* Steps that have nothing to do with the backend.
LocalStep ==
  \/ Monitor \/ TrayEnd \/ TogglePrivate \/ StampReadSession \/ StampAppend \/ Logout
  \/ ForgetIdentity \/ Enroll \/ EndCommand \/ SyncTick \/ SyncGate \/ SyncEnsure
  \/ SyncSession

LEMMA LocalStepQuiet == LocalStep => UNCHANGED ingestVars
BY DEF LocalStep, Monitor, MonitorPoll, MonitorReadSession, MonitorAppend, TrayEnd,
   TogglePrivate, StampReadSession, StampAppend, Logout, ForgetIdentity, Enroll, EndCommand,
   SyncTick, SyncGate, SyncEnsure, SyncSession

LEMMA NextCases ==
  [Next]_vars =>
    \/ LocalStep \/ StartWorkday \/ EndClear \/ SyncPending \/ SyncStarted \/ SyncTake
    \/ SyncPosted \/ SyncTimeout \/ Restart \/ StopInBrowser \/ Backend \/ UNCHANGED vars
BY DEF Next, LocalStep, MainThread, Commands, Sync

\* A request as the agent, or the dashboard for it, sends one.
Sendable(n) ==
  /\ n \in RequestRecord
  /\ OnItsWay(n)
  /\ n.pc \in {"parse", "findActive", "findCsid", "findOwned"}
  /\ n.kind \in {"start", "end", "events", "meEnd"}

\* The agent's request for a session, its batch and its end of the session.
LEMMA StartSendable ==
  ASSUME AgentTypes, ThreadsReady, sync.pc = "pending", pending # 0
  PROVE  LET n == AgentStart(SyncLoop, sync.device, pending)
         IN Sendable(n) /\ n.client = SyncLoop /\ n.kind = "start"
<1>1. SyncLoop \in Client /\ sync.device \in AgentDevice /\ pending \in Csid
  BY AgentAssumption DEF AgentTypes, ThreadsReady
<1> QED BY <1>1, AgentStartSent DEF Sendable

LEMMA TakeBatchRecorded ==
  ASSUME AgentTypes, NEW c
  PROVE  /\ TakeBatch(c) \subseteq Recorded
         /\ TakeBatch(c) \in SUBSET Event
         /\ \A i \in TakeBatch(c) : buffer[i].session = c /\ ~buffer[i].synced
<1>1. Len(buffer) \in Nat
  BY LenProperties DEF AgentTypes
<1>2. Recorded \subseteq Event
  BY <1>1, AgentAssumption DEF Recorded, AgentTypes
<1> QED BY <1>2 DEF TakeBatch, Unsynced

LEMMA EventsSendable ==
  ASSUME AgentTypes, ThreadsReady, sync.pc = "take", NEW bad \in BOOLEAN
  PROVE  LET n == AgentEvents(SyncLoop, sync.device, sync.sid, TakeBatch(sync.sid), bad)
         IN /\ Sendable(n) /\ n.client = SyncLoop /\ n.kind = "events"
            /\ n.csid = sync.sid /\ n.batch = TakeBatch(sync.sid)
<1>1. SyncLoop \in Client /\ sync.device \in AgentDevice
  BY AgentAssumption DEF ThreadsReady
<1>2. sync.sid \in Csid
  BY DEF AgentTypes, ThreadsReady, SyncState
<1>3. TakeBatch(sync.sid) \in SUBSET Event
  BY TakeBatchRecorded
<1> QED BY <1>1, <1>2, <1>3, AgentEventsSent DEF Sendable

LEMMA EndSendable ==
  ASSUME AgentTypes, ThreadsReady, ender.pc = "clear", ender.sid # 0, NEW t \in EndTime
  PROVE  LET n == AgentEnd(NoClient, ender.device, ender.sid, t)
         IN Sendable(n) /\ n.client = NoClient /\ n.kind = "end"
<1>1. ender.device \in AgentDevice /\ ender.sid \in Csid
  BY DEF AgentTypes, ThreadsReady, EnderState
<1> QED BY <1>1, AgentEndSent DEF Sendable

LEMMA StopSendable ==
  ASSUME NEW u \in User, NEW t \in EndTime
  PROVE  LET n == MeEnd(NoClient, u, t)
         IN Sendable(n) /\ n.client = NoClient /\ n.kind = "meEnd"
BY MeEndSent DEF Sendable

\* Whatever the agent does, the backend sees at most one of its own steps.
LEMMA BackendStep ==
  ASSUME TypeInv, [Next]_vars
  PROVE  \/ UNCHANGED <<browsers, sessions, rows, reqs>> /\ issued' \in 0..MaxSessions
         \/ \E r \in Request : Serve(r) \/ Lose(r) \/ GiveUp(r) \/ Receive(r)
         \/ \E r \in Request, n \in RequestRecord : Sendable(n) /\ Send(r, n)
<1> DEFINE Goal ==
             \/ UNCHANGED <<browsers, sessions, rows, reqs>> /\ issued' \in 0..MaxSessions
             \/ \E r \in Request : Serve(r) \/ Lose(r) \/ GiveUp(r) \/ Receive(r)
             \/ \E r \in Request, n \in RequestRecord : Sendable(n) /\ Send(r, n)
<1>1. issued \in 0..MaxSessions
  BY DEF TypeInv, IngestInv, IngestTypeOK
<1>2. CASE UNCHANGED ingestVars
  BY <1>1, <1>2 DEF ingestVars
<1>3. CASE LocalStep
  BY <1>2, <1>3, LocalStepQuiet
<1>4. CASE StartWorkday
  BY <1>1, <1>4, IngestAssumption DEF StartWorkday
<1>5. CASE EndClear
  <2>1. CASE ender.sid = 0
    BY <1>2, <1>5, <2>1 DEF EndClear
  <2>2. CASE ender.sid # 0
    <3> PICK r \in Request, t \in EndTime :
          Send(r, AgentEnd(NoClient, ender.device, ender.sid, t))
      BY <1>5, <2>2 DEF EndClear
    <3> DEFINE n == AgentEnd(NoClient, ender.device, ender.sid, t)
    <3>1. Sendable(n)
      BY <1>5, <2>2, EndSendable DEF EndClear, TypeInv
    <3> QED BY <3>1 DEF Sendable
  <2> QED BY <2>1, <2>2
<1>6. CASE SyncPending
  <2>1. CASE pending = 0
    BY <1>2, <1>6, <2>1 DEF SyncPending
  <2>2. CASE pending # 0
    <3> PICK r \in Request : Send(r, AgentStart(SyncLoop, sync.device, pending))
      BY <1>6, <2>2 DEF SyncPending
    <3> DEFINE n == AgentStart(SyncLoop, sync.device, pending)
    <3>1. Sendable(n)
      BY <1>6, <2>2, StartSendable DEF SyncPending, TypeInv
    <3> QED BY <3>1 DEF Sendable
  <2> QED BY <2>1, <2>2
<1>7. CASE SyncTake
  <2> DEFINE B == TakeBatch(sync.sid)
             bad == \E i \in B : buffer[i].malformed
             n == AgentEvents(SyncLoop, sync.device, sync.sid, B, bad)
  <2>1. CASE UNCHANGED ingestVars
    BY <1>2, <2>1
  <2>2. CASE \E r \in Request : Send(r, n)
    <3>1. bad \in BOOLEAN /\ sync.pc = "take"
      BY <1>7 DEF SyncTake
    <3> HIDE DEF bad
    <3>2. Sendable(n)
      BY <3>1, EventsSendable DEF TypeInv
    <3> QED BY <2>2, <3>2 DEF Sendable
  <2> QED BY <1>7, <2>1, <2>2 DEF SyncTake
<1>8. CASE SyncStarted \/ SyncPosted \/ SyncTimeout
  BY <1>8 DEF SyncStarted, SyncPosted, SyncTimeout
<1>9. CASE Restart
  BY <1>2, <1>9 DEF Restart
<1>10. CASE StopInBrowser
  <2> PICK r \in Request, u \in User, t \in EndTime : Send(r, MeEnd(NoClient, u, t))
    BY <1>10 DEF StopInBrowser
  <2> QED BY StopSendable DEF Sendable
<1>11. CASE Backend
  BY <1>11 DEF Backend, Served
<1>12. CASE UNCHANGED vars
  BY <1>2, <1>12 DEF vars
<1> QED BY <1>3, <1>4, <1>5, <1>6, <1>7, <1>8, <1>9, <1>10, <1>11, <1>12, NextCases

\* The invariant of the ingest service survives, its tables only grow, and no request of
\* another kind comes in.
LEMMA BackendPart ==
  ASSUME TypeInv, [Next]_vars
  PROVE  IngestInv' /\ Grows /\ AgentRequests'
<1> DEFINE Goal == IngestInv' /\ Grows /\ AgentRequests'
<1>0. IngestInv /\ AgentRequests /\ reqs \in [Request -> RequestRecord]
  BY DEF TypeInv, IngestInv, IngestTypeOK
<1>1. CASE UNCHANGED <<browsers, sessions, rows, reqs>> /\ issued' \in 0..MaxSessions
  BY <1>0, <1>1, UnchangedGrows DEF IngestInv, IngestTypeOK, EndedIffClosed, AgentRequests
<1>2. ASSUME NEW r \in Request, Serve(r) \/ Lose(r) PROVE Goal
  <2>1. IngestInv' /\ Grows
    BY <1>0, <1>2, NextOK DEF IngestNext
  <2> PICK n \in RequestRecord : reqs' = [reqs EXCEPT ![r] = n] /\ Progress(reqs[r], n)
    BY <1>0, <1>2, ServeProgress
  <2>2. n.kind \notin {"meStart", "meEvents"}
    BY <1>0 DEF Progress, Free, AgentRequests
  <2>3. AgentRequests'
    BY <1>0, <2>2 DEF AgentRequests
  <2> QED BY <2>1, <2>3
<1>3. ASSUME NEW r \in Request, GiveUp(r) PROVE Goal
  <2>1. IngestInv' /\ Grows
    BY <1>0, <1>3, NextOK DEF IngestNext
  <2> PICK n \in RequestRecord : reqs' = [reqs EXCEPT ![r] = n] /\ Abandoned(reqs[r], n)
    BY <1>0, <1>3, GiveUpAbandons
  <2>2. n.kind \notin {"meStart", "meEvents"}
    BY <1>0 DEF Abandoned, Free, AgentRequests
  <2>3. AgentRequests'
    BY <1>0, <2>2 DEF AgentRequests
  <2> QED BY <2>1, <2>3
<1>4. ASSUME NEW r \in Request, Receive(r) PROVE Goal
  <2>1. IngestInv' /\ Grows
    BY <1>0, <1>4, NextOK DEF IngestNext
  <2>2. AgentRequests'
    BY <1>0, <1>4 DEF AgentRequests, Receive, Free
  <2> QED BY <2>1, <2>2
<1>5. ASSUME NEW r \in Request, NEW n \in RequestRecord, Sendable(n), Send(r, n) PROVE Goal
  <2>1. IngestInv' /\ Grows
    BY <1>0, <1>5, SendOK, UnchangedGrows DEF Sendable, Send
  <2>2. AgentRequests'
    BY <1>0, <1>5 DEF AgentRequests, Send, Sendable
  <2> QED BY <2>1, <2>2
<1> QED BY <1>1, <1>2, <1>3, <1>4, <1>5, BackendStep
-----------------------------------------------------------------------------
(* What a step does to the agent.                                          *)

\* A new row for the buffer, in the session and of the kind a thread has noted.
NewRow(s, k) == [session |-> s, malformed |-> Malformed(k), synced |-> FALSE]

\* Recording appends one row or none.
LEMMA RecordAppends ==
  ASSUME buffer \in Seq(BufferedEvent), Len(buffer) <= MaxEvents,
         NEW s \in Csid \cup {0}, NEW k, Record(s, k)
  PROVE  /\ buffer' \in Seq(BufferedEvent) /\ Len(buffer') <= MaxEvents
         /\ \/ UNCHANGED buffer
            \/ /\ Len(buffer') = Len(buffer) + 1 /\ Len(buffer) \in Nat
               /\ Len(buffer) + 1 \in Event
               /\ buffer'[Len(buffer) + 1] = NewRow(s, k)
               /\ \A i \in Recorded : buffer'[i] = buffer[i]
<1> DEFINE new == NewRow(s, k)
<1>1. new \in BufferedEvent
  BY DEF NewRow, BufferedEvent, Malformed
<1>2. Len(buffer) \in Nat /\ MaxEvents \in Nat /\ Event = 1..MaxEvents
  BY LenProperties, AgentAssumption
<1>3. UNCHANGED buffer \/ (Len(buffer) < MaxEvents /\ buffer' = Append(buffer, new))
  BY DEF Record, NewRow
<1> HIDE DEF new
<1>4. ASSUME Len(buffer) < MaxEvents, buffer' = Append(buffer, new)
      PROVE  /\ buffer' \in Seq(BufferedEvent) /\ Len(buffer') = Len(buffer) + 1
             /\ buffer'[Len(buffer) + 1] = new
             /\ \A i \in Recorded : buffer'[i] = buffer[i]
  BY <1>1, <1>4, AppendProperties DEF Recorded
<1> QED BY <1>2, <1>3, <1>4 DEF new

\* Marking touches the mark of the marked rows and nothing else.
LEMMA MarkKeeps ==
  ASSUME buffer \in Seq(BufferedEvent), NEW B, MarkSynced(B)
  PROVE  /\ buffer' \in Seq(BufferedEvent) /\ Len(buffer') = Len(buffer)
         /\ \A i \in Recorded :
              /\ buffer'[i].session = buffer[i].session
              /\ buffer'[i].malformed = buffer[i].malformed
              /\ buffer'[i].synced <=> buffer[i].synced \/ i \in B
<1>1. Len(buffer) \in Nat /\ buffer \in [Recorded -> BufferedEvent]
  BY LenProperties DEF Recorded
<1>2. ASSUME NEW i \in Recorded
      PROVE  /\ buffer'[i] \in BufferedEvent
             /\ buffer'[i].session = buffer[i].session
             /\ buffer'[i].malformed = buffer[i].malformed
             /\ buffer'[i].synced <=> buffer[i].synced \/ i \in B
  <2>1. buffer[i] \in BufferedEvent
    BY <1>1
  <2>2. buffer'[i] = [buffer[i] EXCEPT !.synced = buffer[i].synced \/ i \in B]
    BY DEF MarkSynced
  <2> QED BY <2>1, <2>2 DEF BufferedEvent
<1>3. buffer' \in [Recorded -> BufferedEvent]
  BY <1>2 DEF MarkSynced
<1>4. buffer' \in Seq(BufferedEvent)
  BY <1>1, <1>3, SeqDef DEF Recorded
<1>5. DOMAIN buffer' = 1..Len(buffer') /\ Len(buffer') \in Nat
  BY <1>4, LenProperties
<1>6. DOMAIN buffer' = 1..Len(buffer)
  BY <1>3 DEF Recorded
<1>7. Len(buffer') = Len(buffer)
  BY <1>1, <1>5, <1>6
<1> QED BY <1>2, <1>4, <1>7

LEMMA IdleTypes ==
  /\ IdleMain \in MainState /\ IdleMain.pc = "idle" /\ IdleMain.sid = 0
  /\ IdleMonitor \in MonitorState /\ IdleMonitor.pc = "idle" /\ IdleMonitor.sid = 0
  /\ IdleEnder \in EnderState /\ IdleEnder.pc = "idle" /\ IdleEnder.sid = 0
  /\ IdleSync \in SyncState /\ IdleSync.pc = "idle" /\ IdleSync.sid = 0
BY DEF IdleMain, IdleMonitor, IdleEnder, IdleSync, MainState, MonitorState, EnderState,
   SyncState, EventKind

LEMMA MonitorTypes ==
  ASSUME AgentTypes, ThreadsReady, Monitor
  PROVE  AgentTypes' /\ ThreadsReady'
<1>1. CASE MonitorPoll
  <2>1. monitor' \in MonitorState
    BY <1>1 DEF MonitorPoll, AgentTypes, MonitorState, EventKind
  <2> QED BY <1>1, <2>1 DEF MonitorPoll, AgentTypes, ThreadsReady, inner, disk
<1>2. CASE MonitorReadSession
  <2>1. monitor' \in MonitorState
    BY <1>2 DEF MonitorReadSession, AgentTypes, MonitorState
  <2> QED BY <1>2, <2>1 DEF MonitorReadSession, AgentTypes, ThreadsReady, inner, disk
<1>3. CASE MonitorAppend
  <2>1. monitor.sid \in Csid \cup {0} /\ Record(monitor.sid, monitor.kind)
    BY <1>3 DEF MonitorAppend, AgentTypes, MonitorState
  <2>2. buffer' \in Seq(BufferedEvent) /\ Len(buffer') <= MaxEvents
    BY <2>1, RecordAppends DEF AgentTypes
  <2>3. monitor' \in MonitorState
    BY <1>3, IdleTypes DEF MonitorAppend, MonitorState, EventKind
  <2> QED BY <1>3, <2>2, <2>3 DEF MonitorAppend, AgentTypes, ThreadsReady, inner
<1> QED BY <1>1, <1>2, <1>3 DEF Monitor

LEMMA MainThreadTypes ==
  ASSUME IngestInv, AgentTypes, ThreadsReady, MainThread
  PROVE  AgentTypes' /\ ThreadsReady'
<1>1. CASE StartWorkday
  <2>1. issued + 1 \in Csid
    BY <1>1, IngestAssumption DEF StartWorkday, IngestInv, IngestTypeOK, Csid
  <2> QED BY <1>1, <2>1 DEF StartWorkday, AgentTypes, ThreadsReady, disk, threads
<1>2. CASE TrayEnd
  BY <1>2 DEF TrayEnd, ClearWorkday, AgentTypes, ThreadsReady, disk, threads
<1>3. CASE TogglePrivate
  <2>1. main' \in MainState
    BY <1>3 DEF TogglePrivate, AgentTypes, MainState, EventKind
  <2> QED BY <1>3, <2>1 DEF TogglePrivate, AgentTypes, ThreadsReady, disk
<1>4. CASE StampReadSession
  <2>1. main' \in MainState
    BY <1>4 DEF StampReadSession, AgentTypes, MainState
  <2> QED BY <1>4, <2>1 DEF StampReadSession, AgentTypes, ThreadsReady, inner, disk
<1>5. CASE StampAppend
  <2>1. main.sid \in Csid \cup {0} /\ Record(main.sid, main.kind)
    BY <1>5 DEF StampAppend, AgentTypes, MainState
  <2>2. buffer' \in Seq(BufferedEvent) /\ Len(buffer') <= MaxEvents
    BY <2>1, RecordAppends DEF AgentTypes
  <2>3. main' \in MainState
    BY <1>5, IdleTypes DEF StampAppend
  <2> QED BY <1>5, <2>2, <2>3 DEF StampAppend, AgentTypes, ThreadsReady, inner
<1>6. CASE Logout
  <2>1. main' \in MainState
    BY <1>6 DEF Logout, AgentTypes, MainState
  <2> QED BY <1>6, <2>1 DEF Logout, ClearWorkday, AgentTypes, ThreadsReady, disk
<1>7. CASE ForgetIdentity
  <2>1. main' \in MainState
    BY <1>7, IdleTypes DEF ForgetIdentity
  <2> QED BY <1>7, <2>1 DEF ForgetIdentity, AgentTypes, ThreadsReady
<1> QED BY <1>1, <1>2, <1>3, <1>4, <1>5, <1>6, <1>7 DEF MainThread

LEMMA CommandsTypes ==
  ASSUME AgentTypes, ThreadsReady, Commands
  PROVE  AgentTypes' /\ ThreadsReady'
<1>1. CASE Enroll
  BY <1>1 DEF Enroll, AgentTypes, ThreadsReady, threads
<1>2. CASE EndCommand
  <2>1. ender' \in EnderState /\ ender'.device \in AgentDevice
    BY <1>2 DEF EndCommand, AgentTypes, EnderState
  <2> QED BY <1>2, <2>1 DEF EndCommand, AgentTypes, ThreadsReady, inner, disk
<1>3. CASE EndClear
  <2>1. ender' \in EnderState /\ ender'.pc = "idle"
    BY <1>3, IdleTypes DEF EndClear
  <2> QED BY <1>3, <2>1 DEF EndClear, ClearWorkday, AgentTypes, ThreadsReady, disk
<1> QED BY <1>1, <1>2, <1>3 DEF Commands

LEMMA SyncTypes ==
  ASSUME IngestInv, AgentTypes, ThreadsReady, Sync
  PROVE  AgentTypes' /\ ThreadsReady'
<1>1. CASE SyncTick
  <2>1. sync' \in SyncState /\ sync'.pc = "gate" /\ sync'.device \in AgentDevice
    BY <1>1 DEF SyncTick, AgentTypes, SyncState
  <2> QED BY <1>1, <2>1 DEF SyncTick, AgentTypes, ThreadsReady, inner, disk
<1>2. CASE SyncGate
  <2>1. /\ sync' \in SyncState /\ sync'.pc # "take" /\ sync'.device = sync.device
        /\ sync.pc # "idle"
    BY <1>2 DEF SyncGate, AgentTypes, SyncState
  <2> QED BY <1>2, <2>1 DEF SyncGate, AgentTypes, ThreadsReady, inner, disk
<1>3. CASE SyncEnsure
  <2>1. /\ sync' \in SyncState /\ sync'.pc # "take" /\ sync'.device = sync.device
        /\ sync.pc # "idle"
    BY <1>3 DEF SyncEnsure, AgentTypes, SyncState
  <2> QED BY <1>3, <2>1 DEF SyncEnsure, AgentTypes, ThreadsReady, inner, disk
<1>4. CASE SyncPending
  <2>1. /\ sync' \in SyncState /\ sync'.pc # "take" /\ sync.pc # "idle"
        /\ sync'.pc = "idle" \/ sync'.device = sync.device
    BY <1>4, IdleTypes DEF SyncPending, AgentTypes, SyncState
  <2> QED BY <1>4, <2>1 DEF SyncPending, AgentTypes, ThreadsReady, inner, disk
<1>5. CASE SyncStarted
  <2> PICK r \in Request :
        \/ /\ sid' = reqs[r].csid
           /\ sync' = [sync EXCEPT !.pc = "session"]
        \/ sync' = IdleSync /\ UNCHANGED sid
    BY <1>5 DEF SyncStarted
  <2>1. /\ sync' \in SyncState /\ sync'.pc # "take" /\ sync.pc # "idle"
        /\ sync'.pc = "idle" \/ sync'.device = sync.device
    BY <1>5, IdleTypes DEF SyncStarted, AgentTypes, SyncState
  <2>2. sid' \in Csid \cup {0}
    BY DEF AgentTypes, IngestInv, IngestTypeOK, RequestRecord
  <2> QED BY <1>5, <2>1, <2>2 DEF SyncStarted, AgentTypes, ThreadsReady, disk
<1>6. CASE SyncSession
  <2>1. CASE sid = 0
    BY <1>6, <2>1, IdleTypes DEF SyncSession, AgentTypes, ThreadsReady, inner, disk
  <2>2. CASE sid # 0
    <3>1. sync' = [sync EXCEPT !.pc = "take", !.sid = sid]
      BY <1>6, <2>2 DEF SyncSession
    <3>2. sync' \in SyncState /\ sync'.device = sync.device /\ sync'.sid # 0
      BY <2>2, <3>1 DEF AgentTypes, SyncState
    <3> QED BY <1>6, <3>2 DEF SyncSession, AgentTypes, ThreadsReady, inner, disk
  <2> QED BY <2>1, <2>2
<1>7. CASE SyncTake
  <2> DEFINE B == TakeBatch(sync.sid)
  <2>0. B \in SUBSET Event
    BY TakeBatchRecorded
  <2>1. sync' = IdleSync \/ sync' = [sync EXCEPT !.pc = "posting", !.batch = B]
    BY <1>7 DEF SyncTake
  <2> HIDE DEF B
  <2>2. /\ sync' \in SyncState /\ sync'.pc # "take"
        /\ sync'.pc = "idle" \/ sync'.device = sync.device
    BY <2>0, <2>1, IdleTypes DEF AgentTypes, SyncState
  <2>3. sync.pc = "take" /\ UNCHANGED <<inner, disk, enrolled, main, monitor, ender>>
    BY <1>7 DEF SyncTake
  <2> QED BY <2>2, <2>3 DEF AgentTypes, ThreadsReady, inner, disk
<1>8. CASE SyncPosted
  <2>1. sync' \in SyncState /\ sync'.pc = "idle"
    BY <1>8, IdleTypes DEF SyncPosted
  <2>2. MarkSynced(sync.batch) \/ UNCHANGED buffer
    BY <1>8 DEF SyncPosted
  <2>3. buffer' \in Seq(BufferedEvent) /\ Len(buffer') <= MaxEvents
    BY <2>2, MarkKeeps DEF AgentTypes
  <2> QED BY <1>8, <2>1, <2>3 DEF SyncPosted, AgentTypes, ThreadsReady, inner
<1>9. CASE SyncTimeout
  <2>1. sync' \in SyncState /\ sync'.pc = "idle"
    BY <1>9, IdleTypes DEF SyncTimeout
  <2> QED BY <1>9, <2>1 DEF SyncTimeout, AgentTypes, ThreadsReady, inner, disk
<1> QED BY <1>1, <1>2, <1>3, <1>4, <1>5, <1>6, <1>7, <1>8, <1>9 DEF Sync

LEMMA WorldTypes ==
  ASSUME AgentTypes, ThreadsReady, Restart \/ StopInBrowser \/ Backend \/ UNCHANGED vars
  PROVE  AgentTypes' /\ ThreadsReady'
<1>1. CASE Restart
  BY <1>1, IdleTypes DEF Restart, AgentTypes, ThreadsReady, disk
<1>2. CASE UNCHANGED <<inner, disk, enrolled, threads>>
  BY <1>2 DEF AgentTypes, ThreadsReady, inner, disk, threads
<1> QED BY <1>1, <1>2 DEF StopInBrowser, Backend, Served, vars

LEMMA TypeInvNext ==
  ASSUME TypeInv, [Next]_vars
  PROVE  TypeInv' /\ Grows
<1>1. IngestInv' /\ Grows /\ AgentRequests'
  BY BackendPart
<1>2. AgentTypes' /\ ThreadsReady'
  BY MonitorTypes, MainThreadTypes, CommandsTypes, SyncTypes, WorldTypes DEF TypeInv, Next
<1> QED BY <1>1, <1>2 DEF TypeInv

LEMMA TypeInvInit == Init => TypeInv
<1> SUFFICES ASSUME Init PROVE TypeInv
  OBVIOUS
<1>1. IngestInv
  BY InitOK DEF Init
<1>2. buffer \in Seq(BufferedEvent) /\ Len(buffer) <= MaxEvents
  BY EmptySeq, AgentAssumption DEF Init
<1>3. AgentTypes /\ ThreadsReady
  BY <1>2, IdleTypes DEF Init, AgentTypes, ThreadsReady
<1>4. AgentRequests
  BY DEF Init, IngestInit, AgentRequests, Free
<1> QED BY <1>1, <1>3, <1>4 DEF TypeInv

LEMMA TypeInvariant == Spec => []TypeInv
<1> QED BY TypeInvInit, TypeInvNext, PTL DEF Spec

\* The agent, its buffer and the backend keep their types: no thread ever sends a device or
\* a session id it has not read, and no request is made for one.
THEOREM AgentTypeCorrect == Spec => []TypeOK
<1>1. TypeInv => TypeOK
  BY DEF TypeInv, AgentTypes, IngestInv, TypeOK
<1> QED BY <1>1, TypeInvariant, PTL
-----------------------------------------------------------------------------
(***************************************************************************)
(* Second layer: the sync loop waits for one request at a time, and that   *)
(* request is the one its program counter says.  A reply is therefore      *)
(* never taken for the reply to another request.                           *)
(***************************************************************************)
Awaited(q, s) ==
  /\ q.pc # "free"
  /\ \/ s.pc = "starting" /\ q.kind = "start"
     \/ s.pc = "posting" /\ q.kind = "events" /\ q.csid = s.sid /\ q.batch = s.batch

OneWaits ==
  /\ \A r \in Request : reqs[r].client = SyncLoop => Awaited(reqs[r], sync)
  /\ \A r, s \in Request : reqs[r].client = SyncLoop /\ reqs[s].client = SyncLoop => r = s

NobodyWaits == \A r \in Request : reqs[r].client # SyncLoop

LEMMA SomebodyIsAwaited ==
  ASSUME OneWaits, sync.pc \notin {"starting", "posting"}
  PROVE  NobodyWaits
BY DEF OneWaits, Awaited, NobodyWaits

LEMMA ClientsDiffer == NoClient # SyncLoop /\ Free.client # SyncLoop
BY IngestAssumption, AgentAssumption DEF Free

\* A new request of the sync loop is the only one.
LEMMA SentWaits ==
  ASSUME TypeInv, NobodyWaits, NEW r \in Request, NEW n \in RequestRecord, Send(r, n),
         Awaited(n, sync')
  PROVE  OneWaits'
<1>1. reqs' = [reqs EXCEPT ![r] = n] /\ reqs \in [Request -> RequestRecord]
  BY DEF Send, TypeInv, IngestInv, IngestTypeOK
<1>2. \A x \in Request : reqs'[x].client = SyncLoop => x = r /\ reqs'[x] = n
  BY <1>1 DEF NobodyWaits
<1> QED BY <1>2 DEF OneWaits

\* A request of somebody else does not disturb the one that is awaited.
LEMMA OtherSentWaits ==
  ASSUME TypeInv, OneWaits, NEW r \in Request, NEW n \in RequestRecord, Send(r, n),
         n.client = NoClient, UNCHANGED sync
  PROVE  OneWaits'
<1>1. reqs' = [reqs EXCEPT ![r] = n] /\ reqs \in [Request -> RequestRecord]
  BY DEF Send, TypeInv, IngestInv, IngestTypeOK
<1>2. \A x \in Request : reqs'[x].client = SyncLoop => reqs'[x] = reqs[x]
  BY <1>1, ClientsDiffer
<1> QED BY <1>2 DEF OneWaits, Awaited

\* Once its request is received or given up nobody waits.
LEMMA LastOneGone ==
  ASSUME TypeInv, OneWaits, NEW r \in Request, reqs[r].client = SyncLoop,
         Receive(r) \/ GiveUp(r)
  PROVE  NobodyWaits'
<1>1. reqs \in [Request -> RequestRecord] /\ IngestInv
  BY DEF TypeInv, IngestInv, IngestTypeOK
<1>2. PICK n : reqs' = [reqs EXCEPT ![r] = n] /\ n.client # SyncLoop
  <2>1. CASE Receive(r)
    BY <2>1, ClientsDiffer DEF Receive
  <2>2. CASE GiveUp(r)
    BY <1>1, <2>2, GiveUpAbandons, ClientsDiffer DEF Abandoned
  <2> QED BY <2>1, <2>2
<1>3. \A x \in Request : reqs'[x].client # SyncLoop
  BY <1>1, <1>2 DEF OneWaits
<1> QED BY <1>3 DEF NobodyWaits

LEMMA NobodyWaitsFine == NobodyWaits' => OneWaits'
BY DEF NobodyWaits, OneWaits

LEMMA OneWaitsNext ==
  ASSUME TypeInv, OneWaits, [Next]_vars
  PROVE  OneWaits'
<1>0. reqs \in [Request -> RequestRecord] /\ IngestInv /\ AgentRequests
  BY DEF TypeInv, IngestInv, IngestTypeOK
<1>1. CASE UNCHANGED <<reqs, sync>>
  BY <1>1 DEF OneWaits, Awaited
<1>2. CASE sync.pc \notin {"starting", "posting"} /\ UNCHANGED reqs
  BY <1>2, SomebodyIsAwaited, NobodyWaitsFine DEF NobodyWaits
<1>3. CASE LocalStep
  <2>1. UNCHANGED reqs
    BY <1>3, LocalStepQuiet DEF ingestVars
  <2>2. UNCHANGED sync \/ sync.pc \notin {"starting", "posting"}
    BY <1>3 DEF LocalStep, Monitor, MonitorPoll, MonitorReadSession, MonitorAppend, TrayEnd,
       TogglePrivate, StampReadSession, StampAppend, Logout, ForgetIdentity, Enroll,
       EndCommand, SyncTick, SyncGate, SyncEnsure, SyncSession, threads
  <2> QED BY <1>1, <1>2, <2>1, <2>2
<1>4. CASE StartWorkday \/ UNCHANGED vars
  BY <1>1, <1>4 DEF StartWorkday, threads, vars, ingestVars
<1>5. CASE EndClear
  <2>1. CASE ender.sid = 0
    BY <1>1, <1>5, <2>1 DEF EndClear, ingestVars
  <2>2. CASE ender.sid # 0
    <3> PICK r \in Request, t \in EndTime :
          Send(r, AgentEnd(NoClient, ender.device, ender.sid, t))
      BY <1>5, <2>2 DEF EndClear
    <3> DEFINE n == AgentEnd(NoClient, ender.device, ender.sid, t)
    <3>1. n \in RequestRecord /\ n.client = NoClient
      BY <1>5, <2>2, EndSendable DEF EndClear, TypeInv, Sendable
    <3>2. UNCHANGED sync
      BY <1>5 DEF EndClear
    <3> QED BY <3>1, <3>2, OtherSentWaits
  <2> QED BY <2>1, <2>2
<1>6. CASE SyncPending
  <2>1. CASE pending = 0
    BY <1>2, <1>6, <2>1 DEF SyncPending, ingestVars
  <2>2. CASE pending # 0
    <3> PICK r \in Request : Send(r, AgentStart(SyncLoop, sync.device, pending))
      BY <1>6, <2>2 DEF SyncPending
    <3> DEFINE n == AgentStart(SyncLoop, sync.device, pending)
    <3>1. n \in RequestRecord /\ n.kind = "start" /\ n.pc # "free"
      BY <1>6, <2>2, StartSendable DEF SyncPending, TypeInv, Sendable
    <3>2. sync'.pc = "starting"
      BY <1>6, <2>2 DEF SyncPending, TypeInv, AgentTypes, SyncState
    <3>3. NobodyWaits
      BY <1>6, SomebodyIsAwaited DEF SyncPending
    <3> HIDE DEF n
    <3>4. Awaited(n, sync')
      BY <3>1, <3>2 DEF Awaited
    <3>5. Send(r, n)
      BY DEF n
    <3> QED BY <3>1, <3>3, <3>4, <3>5, SentWaits
  <2> QED BY <2>1, <2>2
<1>7. CASE SyncTake
  <2> DEFINE B == TakeBatch(sync.sid)
             bad == \E i \in B : buffer[i].malformed
             n == AgentEvents(SyncLoop, sync.device, sync.sid, B, bad)
  <2>1. sync.pc = "take" /\ NobodyWaits
    BY <1>7, SomebodyIsAwaited DEF SyncTake
  <2>2. CASE UNCHANGED ingestVars
    BY <1>2, <2>1, <2>2 DEF ingestVars
  <2>3. CASE \E r \in Request : Send(r, n) /\ sync' = [sync EXCEPT !.pc = "posting", !.batch = B]
    <3>1. bad \in BOOLEAN
      OBVIOUS
    <3> HIDE DEF bad
    <3>2. n \in RequestRecord /\ n.pc # "free" /\ n.kind = "events" /\ n.csid = sync.sid
          /\ n.batch = B
      BY <2>1, <3>1, EventsSendable DEF TypeInv, Sendable
    <3> HIDE DEF n
    <3> PICK r \in Request : Send(r, n) /\ sync' = [sync EXCEPT !.pc = "posting", !.batch = B]
      BY <2>3
    <3> HIDE DEF B
    <3>3. sync'.pc = "posting" /\ sync'.sid = sync.sid /\ sync'.batch = B
      BY DEF TypeInv, AgentTypes, SyncState
    <3>4. Awaited(n, sync')
      BY <3>2, <3>3 DEF Awaited
    <3> QED BY <2>1, <3>2, <3>4, SentWaits
  <2> QED BY <1>7, <2>2, <2>3 DEF SyncTake
<1>8. CASE SyncStarted \/ SyncPosted \/ SyncTimeout
  BY <1>8, LastOneGone, NobodyWaitsFine DEF SyncStarted, SyncPosted, SyncTimeout
<1>9. CASE Restart
  <2>1. CASE Waiting(SyncLoop)
    BY <1>9, <2>1, LastOneGone, NobodyWaitsFine DEF Restart
  <2>2. CASE ~Waiting(SyncLoop)
    BY <1>9, <2>2, NobodyWaitsFine DEF Restart, Waiting, NobodyWaits, ingestVars
  <2> QED BY <2>1, <2>2
<1>10. CASE StopInBrowser
  <2> PICK r \in Request, u \in User, t \in EndTime : Send(r, MeEnd(NoClient, u, t))
    BY <1>10 DEF StopInBrowser
  <2> DEFINE n == MeEnd(NoClient, u, t)
  <2>1. n \in RequestRecord /\ n.client = NoClient
    BY StopSendable DEF Sendable
  <2>2. UNCHANGED sync
    BY <1>10 DEF StopInBrowser, threads
  <2> QED BY <2>1, <2>2, OtherSentWaits
<1>11. CASE Backend
  <2> PICK r \in Request : Serve(r) \/ Lose(r)
    BY <1>11 DEF Backend, Served
  <2> PICK n \in RequestRecord : reqs' = [reqs EXCEPT ![r] = n] /\ Progress(reqs[r], n)
    BY <1>0, ServeProgress
  <2>1. UNCHANGED sync
    BY <1>11 DEF Backend, Served, threads
  <2>2. /\ n.client = SyncLoop => reqs[r].client = SyncLoop
        /\ n.client = SyncLoop => (Awaited(reqs[r], sync) => Awaited(n, sync))
    BY ClientsDiffer DEF Progress, Awaited
  <2>3. \A x \in Request :
          reqs'[x].client = SyncLoop => reqs[x].client = SyncLoop /\ Awaited(reqs'[x], sync)
    BY <1>0, <2>2 DEF OneWaits
  <2> QED BY <2>1, <2>3 DEF OneWaits
<1> QED BY <1>3, <1>4, <1>5, <1>6, <1>7, <1>8, <1>9, <1>10, <1>11, NextCases

LEMMA OneWaitsInvariant == Spec => [](TypeInv /\ OneWaits)
<1>1. Init => OneWaits
  BY ClientsDiffer DEF Init, IngestInit, OneWaits
<1> QED BY <1>1, TypeInvInit, TypeInvNext, OneWaitsNext, PTL DEF Spec
-----------------------------------------------------------------------------
(* The session ids the agent holds.                                        *)

\* A session id is none or one the backend has handed out.
Known(c, S) == c # 0 => S[c].state # "none"

LEMMA StillKnown ==
  ASSUME Grows, NEW c \in Csid \cup {0}, Known(c, sessions)
  PROVE  Known(c, sessions')
BY DEF Grows, Known

ThreadsKnown ==
  /\ Known(sid, sessions) /\ Known(main.sid, sessions) /\ Known(monitor.sid, sessions)
  /\ Known(ender.sid, sessions) /\ Known(sync.sid, sessions)

BufferKnown == \A i \in Recorded : Known(buffer[i].session, sessions)

LEMMA KnownParts == KnownSessions <=> ThreadsKnown /\ BufferKnown
BY DEF KnownSessions, ThreadsKnown, BufferKnown, Known

Held == {sid, main.sid, monitor.sid, ender.sid, sync.sid, 0}

LEMMA HeldTypes == AgentTypes => Held \subseteq Csid \cup {0}
BY DEF AgentTypes, Held, MainState, MonitorState, EnderState, SyncState

\* Session ids are copied between threads and forgotten; only the reply of session/start
\* brings in a new one.
LEMMA HeldStep ==
  ASSUME TypeInv, [Next]_vars, ~SyncStarted
  PROVE  Held' \subseteq Held
<1>1. AgentTypes
  BY DEF TypeInv
<1>2. CASE Monitor
  <2>1. monitor'.sid \in {monitor.sid, sid, 0} /\ UNCHANGED <<inner, main, ender, sync>>
    BY <1>1, <1>2, IdleTypes DEF Monitor, MonitorPoll, MonitorReadSession, MonitorAppend,
       AgentTypes, MonitorState
  <2> QED BY <2>1 DEF Held, inner
<1>3. CASE MainThread
  <2>1. /\ sid' \in {sid, 0} /\ main'.sid \in {main.sid, sid, 0}
        /\ UNCHANGED <<monitor, ender, sync>>
    BY <1>1, <1>3, IdleTypes DEF MainThread, StartWorkday, TrayEnd, TogglePrivate,
       StampReadSession, StampAppend, Logout, ForgetIdentity, ClearWorkday, AgentTypes,
       MainState, inner, threads
  <2> QED BY <2>1 DEF Held
<1>4. CASE Commands
  <2>1. /\ sid' \in {sid, 0} /\ ender'.sid \in {ender.sid, sid, 0}
        /\ UNCHANGED <<main, monitor, sync>>
    BY <1>1, <1>4, IdleTypes DEF Commands, Enroll, EndCommand, EndClear, ClearWorkday,
       AgentTypes, EnderState, inner, threads
  <2> QED BY <2>1 DEF Held
<1>5. CASE Sync
  <2>1. /\ UNCHANGED <<sid, main, monitor, ender>>
        /\ \/ sync' = IdleSync
           \/ \E p : sync' = [sync EXCEPT !.pc = p]
           \/ \E p, d : sync' = [sync EXCEPT !.pc = p, !.device = d]
           \/ \E p : sync' = [sync EXCEPT !.pc = p, !.sid = sid]
           \/ \E p, B : sync' = [sync EXCEPT !.pc = p, !.batch = B]
    BY <1>5 DEF Sync, SyncTick, SyncGate, SyncEnsure, SyncPending, SyncSession, SyncTake,
       SyncPosted, SyncTimeout, inner
  <2>2. sync'.sid \in {sync.sid, sid, 0}
    BY <1>1, <2>1, IdleTypes DEF AgentTypes, SyncState
  <2> QED BY <2>1, <2>2 DEF Held
<1>6. CASE Restart
  BY <1>6, IdleTypes DEF Restart, Held
<1>7. CASE StopInBrowser \/ Backend \/ UNCHANGED vars
  BY <1>7 DEF StopInBrowser, Backend, Served, vars, inner, threads, Held
<1> QED BY <1>2, <1>3, <1>4, <1>5, <1>6, <1>7 DEF Next

\* Whatever a step does to the buffer, it is one of three things.
LEMMA BufferStep ==
  ASSUME TypeInv, [Next]_vars
  PROVE  \/ UNCHANGED buffer
         \/ UNCHANGED ingestVars /\ \E s \in Held, k \in EventKind : Record(s, k)
         \/ \E r \in Request : /\ reqs[r].client = SyncLoop /\ reqs[r].pc = "ok"
                               /\ sync.pc = "posting" /\ Receive(r) /\ MarkSynced(sync.batch)
<1>1. CASE LocalStep
  <2>1. CASE MonitorAppend \/ StampAppend
    <3>1. UNCHANGED ingestVars
      BY <1>1, LocalStepQuiet
    <3>2. monitor.sid \in Held /\ main.sid \in Held
      BY DEF Held
    <3>3. monitor.kind \in EventKind /\ main.kind \in EventKind
      BY DEF TypeInv, AgentTypes, MonitorState, MainState
    <3> QED BY <2>1, <3>1, <3>2, <3>3 DEF MonitorAppend, StampAppend
  <2>2. CASE ~(MonitorAppend \/ StampAppend)
    BY <1>1, <2>2 DEF LocalStep, Monitor, MonitorPoll, MonitorReadSession, TrayEnd,
       TogglePrivate, StampReadSession, Logout, ForgetIdentity, Enroll, EndCommand, SyncTick,
       SyncGate, SyncEnsure, SyncSession, disk
  <2> QED BY <2>1, <2>2
<1>2. CASE SyncPosted
  BY <1>2 DEF SyncPosted
<1>3. CASE \/ StartWorkday \/ EndClear \/ SyncPending \/ SyncStarted \/ SyncTake \/ SyncTimeout
           \/ Restart \/ StopInBrowser \/ Backend \/ UNCHANGED vars
  BY <1>3 DEF StartWorkday, EndClear, SyncPending, SyncStarted, SyncTake, SyncTimeout, Restart,
     StopInBrowser, Backend, Served, vars, disk
<1> QED BY <1>1, <1>2, <1>3, NextCases

LEMMA KnownNext ==
  ASSUME TypeInv, OneWaits, KnownSessions, [Next]_vars
  PROVE  KnownSessions'
<1>1. TypeInv' /\ Grows /\ AgentTypes
  BY TypeInvNext DEF TypeInv
<1>2. ThreadsKnown /\ BufferKnown
  BY KnownParts
<1>3. \A c \in Held : c \in Csid \cup {0} /\ Known(c, sessions)
  BY <1>1, <1>2, HeldTypes DEF ThreadsKnown, Held, Known
<1>4. \A c \in Held : Known(c, sessions')
  BY <1>1, <1>3, StillKnown
<1>5. ThreadsKnown'
  <2>1. CASE ~SyncStarted
    BY <1>4, <2>1, HeldStep DEF Held, ThreadsKnown
  <2>2. CASE SyncStarted
    <3> PICK r \in Request :
          /\ reqs[r].client = SyncLoop
          /\ Receive(r)
          /\ \/ reqs[r].pc = "ok" /\ sid' = reqs[r].csid
             \/ UNCHANGED sid
      BY <2>2 DEF SyncStarted
    <3>1. sync.pc = "starting" /\ UNCHANGED <<sessions, main, monitor, ender>>
      BY <2>2 DEF SyncStarted, Receive
    <3>2. reqs[r].kind = "start"
      BY <3>1 DEF OneWaits, Awaited
    <3>3. reqs[r].pc = "ok" => Known(reqs[r].csid, sessions)
      BY <3>2 DEF TypeInv, IngestInv, RequestOK, Relies, Known
    <3>4. Known(sid', sessions)
      BY <1>2, <3>3 DEF ThreadsKnown
    <3>5. sync'.sid = sync.sid \/ sync'.sid = 0
      BY <1>1, <2>2, IdleTypes DEF SyncStarted, AgentTypes, SyncState
    <3>6. Known(sync'.sid, sessions)
      BY <1>2, <3>5 DEF ThreadsKnown, Known
    <3> QED BY <1>2, <3>1, <3>4, <3>6 DEF ThreadsKnown
  <2> QED BY <2>1, <2>2
<1>6. BufferKnown'
  <2>0. \A i \in Recorded : buffer[i].session \in Csid \cup {0}
    <3>1. \A i \in Recorded : buffer[i] \in BufferedEvent
      BY <1>1, ElementOfSeq DEF AgentTypes, Recorded
    <3> QED BY <3>1 DEF BufferedEvent
  <2>1. \A i \in Recorded : Known(buffer[i].session, sessions')
    BY <1>1, <1>2, <2>0, StillKnown DEF BufferKnown
  <2>2. CASE UNCHANGED buffer
    BY <2>1, <2>2 DEF BufferKnown, Recorded
  <2>3. ASSUME NEW s \in Held, NEW k \in EventKind, Record(s, k)
        PROVE  BufferKnown'
    <3>1. Known(s, sessions') /\ s \in Csid \cup {0}
      BY <1>3, <1>4
    <3>2. CASE UNCHANGED buffer
      BY <2>2, <3>2
    <3>3. CASE /\ Len(buffer') = Len(buffer) + 1 /\ Len(buffer) \in Nat
               /\ buffer'[Len(buffer) + 1] = NewRow(s, k)
               /\ \A i \in Recorded : buffer'[i] = buffer[i]
      <4>1. NewRow(s, k).session = s
        BY DEF NewRow
      <4>2. \A i \in Recorded' : i \in Recorded \/ i = Len(buffer) + 1
        BY <3>3 DEF Recorded
      <4> QED BY <2>1, <3>1, <3>3, <4>1, <4>2 DEF BufferKnown
    <3> QED BY <1>1, <2>3, <3>1, <3>2, <3>3, RecordAppends DEF AgentTypes
  <2>4. CASE MarkSynced(sync.batch)
    BY <1>1, <2>1, <2>4, MarkKeeps DEF AgentTypes, BufferKnown, Recorded
  <2> QED BY <2>2, <2>3, <2>4, BufferStep
<1>7. (KnownSessions <=> ThreadsKnown /\ BufferKnown)'
  BY DEF KnownSessions, ThreadsKnown, BufferKnown, Known
<1> QED BY <1>5, <1>6, <1>7

\* Every session id the agent keeps, in its state, in a thread or with a buffered event, is
\* one the backend has handed out: start_workday draws an id of its own, and state.rs only
\* ever keeps what the reply of session/start brought.
THEOREM SessionsAreKnown == Spec => []KnownSessions
<1>1. Init => KnownSessions
  BY IdleTypes, EmptySeq DEF Init, KnownSessions, Recorded
<1> QED BY <1>1, KnownNext, TypeInvNext, OneWaitsNext, OneWaitsInvariant, PTL DEF Spec
-----------------------------------------------------------------------------
(***************************************************************************)
(* Third layer: what the server stores.  A batch under way holds events of *)
(* the session it is posted to, and with an event every older one of the   *)
(* session that is not stored yet; what is marked is stored.               *)
(***************************************************************************)
NoGap(c, B) ==
  \A i, j \in Recorded :
    i < j /\ buffer[i].session = c /\ j \in B => i \in B \/ <<c, i>> \in rows

CarriesEvents(q) == q.kind = "events" /\ q.pc # "free"

BatchOf(c, B) == \A i \in B : i \in Recorded /\ buffer[i].session = c

BatchesSound ==
  \A r \in Request :
    CarriesEvents(reqs[r]) => BatchOf(reqs[r].csid, reqs[r].batch)

BatchesGapless ==
  \A r \in Request :
    CarriesEvents(reqs[r]) => NoGap(reqs[r].csid, reqs[r].batch)

SyncedStored == \A i \in Recorded : buffer[i].synced => <<buffer[i].session, i>> \in rows

StorageInv == BatchesSound /\ BatchesGapless /\ SyncedStored /\ StoredOnce /\ StoredInOrder

\* take_batch leaves nothing older behind: what precedes an event of the batch is in it.
LEMMA TakeBatchOldest ==
  ASSUME AgentTypes, NEW c, NEW i \in Unsynced(c), NEW j \in TakeBatch(c), i < j
  PROVE  i \in TakeBatch(c)
<1> DEFINE U == Unsynced(c)
           Before(n) == {k \in U : k < n}
<1>1. Len(buffer) \in Nat
  BY LenProperties DEF AgentTypes
<1>2. U \subseteq 1..Len(buffer) /\ i \in Nat /\ j \in Nat
  BY <1>1 DEF Unsynced, Recorded, TakeBatch
<1>3. IsFiniteSet(1..Len(buffer))
  BY <1>1, FS_Interval
<1>4. IsFiniteSet(Before(j)) /\ Before(j) \subseteq 1..Len(buffer)
  BY <1>2, <1>3, FS_Subset
<1>5. Before(i) \subseteq Before(j)
  BY <1>2
<1>6. Cardinality(Before(i)) <= Cardinality(Before(j)) /\ IsFiniteSet(Before(i))
  BY <1>4, <1>5, FS_Subset
<1>7. Cardinality(Before(i)) \in Nat /\ Cardinality(Before(j)) \in Nat
  BY <1>4, <1>6, FS_CardinalityType
<1>8. Cardinality(Before(j)) < BatchSize
  BY DEF TakeBatch
<1>9. Cardinality(Before(i)) < BatchSize
  BY <1>6, <1>7, <1>8, AgentAssumption
<1> QED BY <1>9 DEF TakeBatch

\* The batch that is about to be posted is sound and gapless.
LEMMA TakeBatchSound ==
  ASSUME AgentTypes, SyncedStored, NEW c
  PROVE  BatchOf(c, TakeBatch(c)) /\ NoGap(c, TakeBatch(c))
<1>1. BatchOf(c, TakeBatch(c))
  BY TakeBatchRecorded DEF BatchOf
<1>2. ASSUME NEW i \in Recorded, NEW j \in Recorded, i < j, buffer[i].session = c,
             j \in TakeBatch(c)
      PROVE  i \in TakeBatch(c) \/ <<c, i>> \in rows
  <2>1. CASE buffer[i].synced
    BY <1>2, <2>1 DEF SyncedStored
  <2>2. CASE ~buffer[i].synced
    BY <1>2, <2>2, TakeBatchOldest DEF Unsynced
  <2> QED BY <2>1, <2>2
<1> QED BY <1>1, <1>2 DEF NoGap

\* The buffer keeps what it holds, and what is added comes last.
BufferGrows ==
  /\ \A i \in Recorded : i \in Recorded' /\ buffer'[i].session = buffer[i].session
  /\ \A i \in Recorded', j \in Recorded : i \notin Recorded => ~(i < j)
  /\ \A i \in Recorded' : i \notin Recorded => ~buffer'[i].synced

LEMMA BufferGrowsNext ==
  ASSUME TypeInv, [Next]_vars
  PROVE  BufferGrows
<1>1. buffer \in Seq(BufferedEvent) /\ Len(buffer) <= MaxEvents /\ Len(buffer) \in Nat
  BY LenProperties DEF TypeInv, AgentTypes
<1>2. CASE UNCHANGED buffer
  BY <1>2 DEF BufferGrows, Recorded
<1>3. ASSUME NEW s \in Held, NEW k \in EventKind, Record(s, k) PROVE BufferGrows
  <2>1. s \in Csid \cup {0}
    BY HeldTypes DEF TypeInv
  <2>2. CASE /\ Len(buffer') = Len(buffer) + 1 /\ Len(buffer) \in Nat
             /\ buffer'[Len(buffer) + 1] = NewRow(s, k)
             /\ \A i \in Recorded : buffer'[i] = buffer[i]
    <3>1. ~NewRow(s, k).synced
      BY DEF NewRow
    <3>2. \A i \in Recorded' : i \in Recorded \/ i = Len(buffer) + 1
      BY <2>2 DEF Recorded
    <3>3. \A i \in Recorded : i \in Recorded' /\ ~(Len(buffer) + 1 < i)
      BY <2>2 DEF Recorded
    <3> QED BY <2>2, <3>1, <3>2, <3>3 DEF BufferGrows
  <2> QED BY <1>1, <1>2, <1>3, <2>1, <2>2, RecordAppends
<1>4. CASE MarkSynced(sync.batch)
  BY <1>1, <1>4, MarkKeeps DEF BufferGrows, Recorded
<1> QED BY <1>2, <1>3, <1>4, BufferStep

\* A request that carries events has carried the same ones before, or has just been sent
\* with the batch that take_batch returned.
CarriedBefore(q, n) == CarriesEvents(q) /\ n.csid = q.csid /\ n.batch = q.batch

JustTaken(n) ==
  /\ n.csid = sync.sid /\ n.batch = TakeBatch(sync.sid)
  /\ UNCHANGED <<buffer, rows>>

LEMMA SentElsewhere ==
  ASSUME TypeInv, NEW r \in Request, NEW n \in RequestRecord, Send(r, n), n.kind # "events"
  PROVE  \A x \in Request : CarriesEvents(reqs'[x]) => CarriedBefore(reqs[x], reqs'[x])
BY DEF TypeInv, IngestInv, IngestTypeOK, Send, CarriesEvents, CarriedBefore

LEMMA CarriedNext ==
  ASSUME TypeInv, [Next]_vars
  PROVE  \A x \in Request :
           CarriesEvents(reqs'[x]) =>
             CarriedBefore(reqs[x], reqs'[x]) \/ JustTaken(reqs'[x])
<1> DEFINE Before == \A x \in Request :
                       CarriesEvents(reqs'[x]) => CarriedBefore(reqs[x], reqs'[x])
<1>0. reqs \in [Request -> RequestRecord] /\ IngestInv /\ AgentRequests
  BY DEF TypeInv, IngestInv, IngestTypeOK
<1>1. CASE UNCHANGED reqs
  BY <1>1 DEF CarriedBefore
<1>2. ASSUME NEW r \in Request, Serve(r) \/ Lose(r) PROVE Before
  <2> PICK n \in RequestRecord : reqs' = [reqs EXCEPT ![r] = n] /\ Progress(reqs[r], n)
    BY <1>0, <1>2, ServeProgress
  <2>1. CarriesEvents(n) => CarriedBefore(reqs[r], n)
    BY DEF Progress, CarriesEvents, CarriedBefore, Free
  <2> QED BY <1>0, <2>1 DEF CarriedBefore
<1>3. ASSUME NEW r \in Request, GiveUp(r) PROVE Before
  <2> PICK n \in RequestRecord : reqs' = [reqs EXCEPT ![r] = n] /\ Abandoned(reqs[r], n)
    BY <1>0, <1>3, GiveUpAbandons
  <2>1. CarriesEvents(n) => CarriedBefore(reqs[r], n)
    BY DEF Abandoned, CarriesEvents, CarriedBefore, Free
  <2> QED BY <1>0, <2>1 DEF CarriedBefore
<1>4. ASSUME NEW r \in Request, Receive(r) PROVE Before
  BY <1>0, <1>4 DEF Receive, CarriesEvents, CarriedBefore, Free
<1>5. CASE LocalStep \/ StartWorkday \/ UNCHANGED vars
  BY <1>1, <1>5, LocalStepQuiet DEF StartWorkday, vars, ingestVars
<1>6. CASE EndClear
  <2>1. CASE ender.sid = 0
    BY <1>1, <1>6, <2>1 DEF EndClear, ingestVars
  <2>2. CASE ender.sid # 0
    <3> PICK r \in Request, t \in EndTime :
          Send(r, AgentEnd(NoClient, ender.device, ender.sid, t))
      BY <1>6, <2>2 DEF EndClear
    <3> DEFINE n == AgentEnd(NoClient, ender.device, ender.sid, t)
    <3>1. n \in RequestRecord /\ n.kind # "events"
      BY <1>6, <2>2, EndSendable DEF EndClear, TypeInv, Sendable
    <3> HIDE DEF n
    <3>2. Send(r, n)
      BY DEF n
    <3> QED BY <3>1, <3>2, SentElsewhere
  <2> QED BY <2>1, <2>2
<1>7. CASE SyncPending
  <2>1. CASE pending = 0
    BY <1>1, <1>7, <2>1 DEF SyncPending, ingestVars
  <2>2. CASE pending # 0
    <3> PICK r \in Request : Send(r, AgentStart(SyncLoop, sync.device, pending))
      BY <1>7, <2>2 DEF SyncPending
    <3> DEFINE n == AgentStart(SyncLoop, sync.device, pending)
    <3>1. n \in RequestRecord /\ n.kind # "events"
      BY <1>7, <2>2, StartSendable DEF SyncPending, TypeInv, Sendable
    <3> HIDE DEF n
    <3>2. Send(r, n)
      BY DEF n
    <3> QED BY <3>1, <3>2, SentElsewhere
  <2> QED BY <2>1, <2>2
<1>8. CASE SyncTake
  <2> DEFINE B == TakeBatch(sync.sid)
             bad == \E i \in B : buffer[i].malformed
             n == AgentEvents(SyncLoop, sync.device, sync.sid, B, bad)
  <2>1. CASE UNCHANGED ingestVars
    BY <1>1, <2>1 DEF ingestVars
  <2>2. CASE \E r \in Request : Send(r, n)
    <3>1. bad \in BOOLEAN /\ sync.pc = "take" /\ UNCHANGED buffer
      BY <1>8 DEF SyncTake, disk
    <3> HIDE DEF bad
    <3>2. n.csid = sync.sid /\ n.batch = TakeBatch(sync.sid)
      BY <3>1, EventsSendable DEF TypeInv
    <3> HIDE DEF n
    <3>3. ASSUME NEW x \in Request PROVE reqs'[x] = reqs[x] \/ JustTaken(reqs'[x])
      BY <1>0, <2>2, <3>1, <3>2 DEF Send, JustTaken
    <3> QED BY <3>3 DEF CarriedBefore
  <2> QED BY <1>8, <2>1, <2>2 DEF SyncTake
<1>9. CASE SyncStarted \/ SyncPosted \/ SyncTimeout
  BY <1>3, <1>4, <1>9 DEF SyncStarted, SyncPosted, SyncTimeout
<1>10. CASE Restart
  BY <1>1, <1>3, <1>10 DEF Restart, ingestVars
<1>11. CASE StopInBrowser
  <2> PICK r \in Request, u \in User, t \in EndTime : Send(r, MeEnd(NoClient, u, t))
    BY <1>11 DEF StopInBrowser
  <2> DEFINE n == MeEnd(NoClient, u, t)
  <2>1. n \in RequestRecord /\ n.kind # "events"
    BY StopSendable DEF Sendable
  <2> HIDE DEF n
  <2>2. Send(r, n)
    BY DEF n
  <2> QED BY <2>1, <2>2, SentElsewhere
<1>12. CASE Backend
  BY <1>2, <1>12 DEF Backend, Served
<1> QED BY <1>5, <1>6, <1>7, <1>8, <1>9, <1>10, <1>11, <1>12, NextCases

\* Rows are written by one action only.
LEMMA RowsStep ==
  ASSUME TypeInv, [Next]_vars
  PROVE  \/ UNCHANGED rows
         \/ /\ UNCHANGED buffer
            /\ \E r \in Request : InsertRows(r)
<1>1. CASE Backend
  <2> PICK r \in Request : Serve(r) \/ Lose(r)
    BY <1>1 DEF Backend, Served
  <2>1. UNCHANGED buffer
    BY <1>1 DEF Backend, Served, disk
  <2>2. InsertRows(r) \/ UNCHANGED rows
    BY DEF Serve, Lose, ParseBody, FindActive, FindBrowserDevice, CreateBrowserDevice,
       FindByClientSessionId, CreateSession, FindOwned, CloseSession
  <2> QED BY <2>1, <2>2
<1>2. CASE LocalStep
  BY <1>2, LocalStepQuiet DEF ingestVars
<1>3. CASE ~Backend /\ ~LocalStep
  BY <1>3, NextCases DEF StartWorkday, EndClear, SyncPending, SyncStarted, SyncTake,
     SyncPosted, SyncTimeout, Restart, StopInBrowser, Send, Receive, GiveUp, vars, ingestVars
<1> QED BY <1>1, <1>2, <1>3
-----------------------------------------------------------------------------
(* Storage: each part of the invariant survives every step.                *)

StorageStep ==
  /\ BufferGrows
  /\ Grows
  /\ \A x \in Request :
       CarriesEvents(reqs'[x]) =>
         CarriedBefore(reqs[x], reqs'[x]) \/ JustTaken(reqs'[x])
  /\ \/ UNCHANGED rows
     \/ UNCHANGED buffer /\ \E r \in Request : InsertRows(r)

LEMMA StorageStepNext ==
  ASSUME TypeInv, [Next]_vars
  PROVE  StorageStep
BY BufferGrowsNext, TypeInvNext, CarriedNext, RowsStep DEF StorageStep

LEMMA BatchesSoundNext ==
  ASSUME TypeInv, StorageInv, StorageStep
  PROVE  BatchesSound'
<1> SUFFICES ASSUME NEW x \in Request, CarriesEvents(reqs'[x]), NEW i \in reqs'[x].batch
             PROVE  i \in Recorded' /\ buffer'[i].session = reqs'[x].csid
  BY DEF BatchesSound, BatchOf, CarriesEvents
<1>1. i \in Recorded /\ buffer[i].session = reqs'[x].csid
  <2>1. CASE CarriedBefore(reqs[x], reqs'[x])
    BY <2>1 DEF StorageInv, BatchesSound, BatchOf, CarriedBefore
  <2>2. CASE JustTaken(reqs'[x])
    BY <2>2, TakeBatchRecorded DEF JustTaken, TypeInv
  <2> QED BY <2>1, <2>2 DEF StorageStep
<1> QED BY <1>1 DEF StorageStep, BufferGrows

LEMMA BatchesGaplessNext ==
  ASSUME TypeInv, StorageInv, StorageStep
  PROVE  BatchesGapless'
<1> SUFFICES ASSUME NEW x \in Request, CarriesEvents(reqs'[x]),
                    NEW i \in Recorded', NEW j \in Recorded', i < j,
                    buffer'[i].session = reqs'[x].csid, j \in reqs'[x].batch
             PROVE  i \in reqs'[x].batch \/ <<reqs'[x].csid, i>> \in rows'
  BY DEF BatchesGapless, NoGap, CarriesEvents
<1>1. /\ BatchOf(reqs'[x].csid, reqs'[x].batch)
      /\ NoGap(reqs'[x].csid, reqs'[x].batch)
  <2>1. CASE CarriedBefore(reqs[x], reqs'[x])
    BY <2>1 DEF StorageInv, BatchesSound, BatchesGapless, CarriedBefore
  <2>2. CASE JustTaken(reqs'[x])
    BY <2>2, TakeBatchSound DEF JustTaken, TypeInv, StorageInv
  <2> QED BY <2>1, <2>2 DEF StorageStep
<1>2. j \in Recorded
  BY <1>1 DEF BatchOf
<1>3. i \in Recorded /\ buffer[i].session = reqs'[x].csid
  BY <1>2 DEF StorageStep, BufferGrows
<1>4. i \in reqs'[x].batch \/ <<reqs'[x].csid, i>> \in rows
  BY <1>1, <1>2, <1>3 DEF NoGap
<1> QED BY <1>4 DEF StorageStep, Grows

\* What a request for events inserts: events of its session, oldest first.
LEMMA InsertedRows ==
  ASSUME TypeInv, StorageInv, NEW r \in Request, InsertRows(r)
  PROVE  /\ rows' = rows \cup {<<reqs[r].csid, e>> : e \in reqs[r].batch}
         /\ BatchOf(reqs[r].csid, reqs[r].batch) /\ NoGap(reqs[r].csid, reqs[r].batch)
<1>1. CarriesEvents(reqs[r])
  BY DEF InsertRows, TypeInv, IngestInv, RequestOK, OnItsWay, AgentRequests, CarriesEvents
<1> QED BY <1>1 DEF InsertRows, StorageInv, BatchesSound, BatchesGapless

LEMMA StoredOnceNext ==
  ASSUME TypeInv, StorageInv, StorageStep
  PROVE  StoredOnce'
<1> SUFFICES ASSUME NEW c \in Csid, NEW i \in Event, <<c, i>> \in rows'
             PROVE  i \in Recorded' /\ buffer'[i].session = c
  BY DEF StoredOnce
<1>1. i \in Recorded /\ buffer[i].session = c
  <2>1. CASE <<c, i>> \in rows
    BY <2>1 DEF StorageInv, StoredOnce
  <2>2. CASE <<c, i>> \notin rows
    <3> PICK r \in Request : InsertRows(r)
      BY <2>2 DEF StorageStep
    <3>1. c = reqs[r].csid /\ i \in reqs[r].batch
      BY <2>2, InsertedRows
    <3> QED BY <3>1, InsertedRows DEF BatchOf
  <2> QED BY <2>1, <2>2
<1> QED BY <1>1 DEF StorageStep, BufferGrows

LEMMA StoredInOrderNext ==
  ASSUME TypeInv, StorageInv, StorageStep
  PROVE  StoredInOrder'
<1> SUFFICES ASSUME NEW i \in Recorded', NEW j \in Recorded', i < j,
                    buffer'[i].session = buffer'[j].session,
                    <<buffer'[j].session, j>> \in rows'
             PROVE  <<buffer'[i].session, i>> \in rows'
  BY DEF StoredInOrder
<1> DEFINE c == buffer'[j].session
<1>0. rows \subseteq Csid \X Event /\ rows' \subseteq rows' /\ rows \subseteq rows'
  BY DEF TypeInv, IngestInv, IngestTypeOK, StorageStep, Grows
<1>1. CASE <<c, j>> \in rows
  <2>1. j \in Recorded /\ buffer[j].session = c
    BY <1>0, <1>1 DEF StorageInv, StoredOnce
  <2>2. i \in Recorded /\ buffer[i].session = c
    BY <2>1 DEF StorageStep, BufferGrows
  <2>3. <<c, i>> \in rows
    BY <1>1, <2>1, <2>2 DEF StorageInv, StoredInOrder
  <2> QED BY <1>0, <2>3
<1>2. CASE <<c, j>> \notin rows
  <2> PICK r \in Request : InsertRows(r)
    BY <1>2 DEF StorageStep
  <2>1. UNCHANGED buffer
    BY <1>2 DEF StorageStep
  <2>2. c = reqs[r].csid /\ j \in reqs[r].batch
    BY <1>2, InsertedRows
  <2>3. i \in Recorded /\ j \in Recorded /\ buffer[i].session = reqs[r].csid
    BY <2>1, <2>2 DEF Recorded
  <2>4. i \in reqs[r].batch \/ <<c, i>> \in rows
    BY <2>2, <2>3, InsertedRows DEF NoGap
  <2> QED BY <1>0, <2>2, <2>4, InsertedRows
<1> QED BY <1>1, <1>2

\* The reply the sync loop receives while it is posting is for the batch it then marks.
LEMMA MarkedIsStored ==
  ASSUME TypeInv, OneWaits, BatchesSound, sync.pc = "posting", NEW r \in Request,
         reqs[r].client = SyncLoop, reqs[r].pc = "ok"
  PROVE  \A i \in sync.batch : i \in Recorded /\ <<buffer[i].session, i>> \in rows
<1>1. reqs[r].kind = "events" /\ reqs[r].batch = sync.batch
  BY DEF OneWaits, Awaited
<1>2. BatchOf(reqs[r].csid, reqs[r].batch)
  BY <1>1 DEF BatchesSound, CarriesEvents
<1>3. \A e \in reqs[r].batch : <<reqs[r].csid, e>> \in rows
  BY <1>1 DEF TypeInv, IngestInv, RequestOK, Relies
<1> QED BY <1>1, <1>2, <1>3 DEF BatchOf

LEMMA SyncedStoredNext ==
  ASSUME TypeInv, OneWaits, StorageInv, StorageStep, [Next]_vars
  PROVE  SyncedStored'
<1> SUFFICES ASSUME NEW i \in Recorded', buffer'[i].synced
             PROVE  <<buffer'[i].session, i>> \in rows'
  BY DEF SyncedStored
<1>1. i \in Recorded /\ buffer'[i].session = buffer[i].session
  BY DEF StorageStep, BufferGrows
<1>2. <<buffer[i].session, i>> \in rows
  <2>1. CASE buffer[i].synced
    BY <1>1, <2>1 DEF StorageInv, SyncedStored
  <2>2. CASE ~buffer[i].synced
    <3>1. buffer \in Seq(BufferedEvent) /\ Len(buffer) <= MaxEvents
      BY DEF TypeInv, AgentTypes
    <3>2. ~\E s \in Held, k \in EventKind : Record(s, k)
      <4> SUFFICES ASSUME NEW s \in Held, NEW k \in EventKind, Record(s, k) PROVE FALSE
        OBVIOUS
      <4>1. s \in Csid \cup {0}
        BY HeldTypes DEF TypeInv
      <4>2. buffer'[i] = buffer[i]
        BY <1>1, <3>1, <4>1, RecordAppends
      <4> QED BY <2>2, <4>2
    <3>3. buffer' # buffer
      BY <2>2
    <3> PICK r \in Request : /\ reqs[r].client = SyncLoop /\ reqs[r].pc = "ok"
                             /\ sync.pc = "posting" /\ MarkSynced(sync.batch)
      BY <3>2, <3>3, BufferStep
    <3>4. i \in sync.batch
      BY <1>1, <2>2, <3>1, MarkKeeps
    <3> QED BY <3>4, MarkedIsStored DEF StorageInv
  <2> QED BY <2>1, <2>2
<1> QED BY <1>1, <1>2 DEF StorageStep, Grows

LEMMA StorageNext ==
  ASSUME TypeInv, OneWaits, StorageInv, [Next]_vars
  PROVE  StorageInv'
<1>1. StorageStep
  BY StorageStepNext
<1> QED BY <1>1, BatchesSoundNext, BatchesGaplessNext, SyncedStoredNext, StoredOnceNext,
     StoredInOrderNext DEF StorageInv

LEMMA StorageInit == Init => StorageInv
<1> SUFFICES ASSUME Init PROVE StorageInv
  OBVIOUS
<1>1. Recorded = {} /\ rows = {}
  BY EmptySeq DEF Init, IngestInit, Recorded
<1>2. \A r \in Request : ~CarriesEvents(reqs[r])
  BY DEF Init, IngestInit, CarriesEvents, Free
<1> QED BY <1>1, <1>2 DEF StorageInv, BatchesSound, BatchesGapless, SyncedStored, StoredOnce,
     StoredInOrder

AgentInv == TypeInv /\ OneWaits /\ StorageInv

LEMMA AgentInvariant == Spec => []AgentInv
<1>1. Init => StorageInv
  BY StorageInit
<1>2. TypeInv /\ OneWaits /\ StorageInv /\ [Next]_vars => StorageInv'
  BY StorageNext
<1> QED BY <1>1, <1>2, OneWaitsInvariant, PTL DEF Spec, AgentInv

\* However often a batch is posted, timed out and posted again, the server holds an event
\* only under the session it was recorded in (skipDuplicates, agent.service.ts).
THEOREM EventsStoredOnce == Spec => []StoredOnce
<1>1. AgentInv => StoredOnce
  BY DEF AgentInv, StorageInv
<1> QED BY <1>1, AgentInvariant, PTL

\* Within a session events reach the server in the order they were recorded, although the
\* server may still be inserting a batch the agent has timed out on: take_batch always
\* starts with the oldest event that is not marked.
THEOREM EventsStoredInOrder == Spec => []StoredInOrder
<1>1. AgentInv => StoredInOrder
  BY DEF AgentInv, StorageInv
<1> QED BY <1>1, AgentInvariant, PTL
-----------------------------------------------------------------------------
(***************************************************************************)
(* Refinement.  A step of the agent and the backend is, for the event log, *)
(* a step that records one event (Buffer::append), stores a batch          *)
(* (createMany), acknowledges one (mark_synced), or no step at all.        *)
(***************************************************************************)
LEMMA LogInitial == Init => Log!LogInit
<1> SUFFICES ASSUME Init PROVE Log!LogInit
  OBVIOUS
<1>1. Recorded = {} /\ rows = {}
  BY EmptySeq DEF Init, IngestInit, Recorded
<1> QED BY <1>1 DEF Log!LogInit

\* Storing and acknowledging a batch are steps of the log.
LEMMA BatchSteps ==
  ASSUME NEW B \in SUBSET Event, Log!Store(B) \/ Log!Acknowledge(B)
  PROVE  Log!LogNext
<1>1. \E X \in SUBSET Event : Log!Store(X) \/ Log!Acknowledge(X)
  OBVIOUS
<1> QED BY <1>1 DEF Log!LogNext

\* Appending a row records the event, and nothing else changes.
LEMMA RecordIsRecordEvent ==
  ASSUME TypeInv, NEW s \in Held, NEW k \in EventKind, Record(s, k), UNCHANGED rows
  PROVE  [Log!LogNext]_Log!logVars
<1>1. buffer \in Seq(BufferedEvent) /\ Len(buffer) <= MaxEvents /\ s \in Csid \cup {0}
  BY HeldTypes DEF TypeInv, AgentTypes
<1>2. CASE UNCHANGED buffer
  BY <1>2 DEF Log!logVars, Recorded
<1>3. CASE /\ Len(buffer') = Len(buffer) + 1 /\ Len(buffer) \in Nat
           /\ Len(buffer) + 1 \in Event
           /\ buffer'[Len(buffer) + 1] = NewRow(s, k)
           /\ \A i \in Recorded : buffer'[i] = buffer[i]
  <2> DEFINE e == Len(buffer) + 1
  <2>1. e \in Event /\ e \notin Recorded /\ Recorded' = Recorded \cup {e}
    BY <1>3 DEF Recorded
  <2>2. ~buffer'[e].synced /\ \A i \in Recorded : buffer'[i].synced <=> buffer[i].synced
    BY <1>3 DEF NewRow
  <2> HIDE DEF e
  <2>3. {i \in Recorded' : buffer'[i].synced} = {i \in Recorded : buffer[i].synced}
    BY <2>1, <2>2
  <2>4. Log!RecordEvent(e)
    BY <2>1, <2>3 DEF Log!RecordEvent
  <2> QED BY <2>1, <2>4 DEF Log!LogNext
<1> QED BY <1>1, <1>2, <1>3, RecordAppends

\* mark_synced acknowledges the batch of the reply, which is stored.
LEMMA MarkIsAcknowledge ==
  ASSUME AgentInv, NEW r \in Request, reqs[r].client = SyncLoop, reqs[r].pc = "ok",
         sync.pc = "posting", Receive(r), MarkSynced(sync.batch)
  PROVE  Log!LogNext
<1>1. buffer \in Seq(BufferedEvent) /\ sync.batch \in SUBSET Event
  BY DEF AgentInv, TypeInv, AgentTypes, SyncState
<1> PICK B \in SUBSET Event : B = sync.batch
  BY <1>1
<1>2. \A i \in B : i \in Recorded /\ <<buffer[i].session, i>> \in rows
  BY MarkedIsStored DEF AgentInv, StorageInv
<1>3. B \subseteq {row[2] : row \in rows}
  <2> SUFFICES ASSUME NEW i \in B PROVE \E row \in rows : i = row[2]
    OBVIOUS
  <2>1. <<buffer[i].session, i>> \in rows /\ <<buffer[i].session, i>>[2] = i
    BY <1>2
  <2> QED BY <2>1
<1>4. UNCHANGED rows
  BY DEF Receive
<1>5. Recorded' = Recorded
  BY <1>1, MarkKeeps DEF Recorded
<1>6. \A i \in Recorded : buffer'[i].synced <=> buffer[i].synced \/ i \in B
  BY <1>1, MarkKeeps
<1>7. {i \in Recorded' : buffer'[i].synced} = {i \in Recorded : buffer[i].synced} \cup B
  BY <1>2, <1>5, <1>6
<1>8. Log!Acknowledge(B)
  BY <1>3, <1>4, <1>5, <1>7 DEF Log!Acknowledge
<1> QED BY <1>8, BatchSteps

\* createMany stores the batch of its request, which was recorded.
LEMMA InsertIsStore ==
  ASSUME AgentInv, NEW r \in Request, InsertRows(r), UNCHANGED buffer
  PROVE  Log!LogNext
<1> DEFINE c == reqs[r].csid
<1>1. reqs[r].batch \in SUBSET Event
  BY DEF AgentInv, TypeInv, IngestInv, IngestTypeOK, RequestRecord
<1> PICK B \in SUBSET Event : B = reqs[r].batch
  BY <1>1
<1>2. B \subseteq Recorded /\ rows' = rows \cup {<<c, e>> : e \in B}
  BY InsertedRows DEF AgentInv, BatchOf
<1>3. {row[2] : row \in rows'} = {row[2] : row \in rows} \cup B
  <2> DEFINE S == {row[2] : row \in rows}
             T == {row[2] : row \in rows'}
  <2>1. \A e \in B : <<c, e>> \in rows' /\ <<c, e>>[2] = e
    BY <1>2
  <2>2. B \subseteq T
    BY <2>1
  <2>3. S \subseteq T
    BY <1>2
  <2>4. ASSUME NEW row \in rows' PROVE row[2] \in S \cup B
    BY <1>2
  <2>5. T \subseteq S \cup B
    BY <2>4
  <2> QED BY <2>2, <2>3, <2>5
<1>4. UNCHANGED Recorded /\ {i \in Recorded' : buffer'[i].synced} = {i \in Recorded : buffer[i].synced}
  BY DEF Recorded
<1>5. Log!Store(B)
  BY <1>2, <1>3, <1>4 DEF Log!Store
<1> QED BY <1>5, BatchSteps

LEMMA LogStep ==
  ASSUME AgentInv, [Next]_vars
  PROVE  [Log!LogNext]_Log!logVars
<1>0. TypeInv
  BY DEF AgentInv
<1>1. CASE UNCHANGED <<buffer, rows>>
  BY <1>1 DEF Log!logVars, Recorded
<1>2. CASE UNCHANGED buffer /\ ~UNCHANGED rows
  BY <1>0, <1>2, RowsStep, InsertIsStore
<1>3. CASE ~UNCHANGED buffer
  BY <1>0, <1>3, BufferStep, RecordIsRecordEvent, MarkIsAcknowledge DEF ingestVars
<1> QED BY <1>1, <1>2, <1>3

\* The agent and the backend implement the event log: nothing is stored that was not
\* recorded, nothing is marked as sent that is not stored, and nothing is undone, through
\* timeouts, lost replies, restarts and ends of the workday.
THEOREM AgentImplementsLog == Spec => ImplementsLog
<1>1. Init => Log!LogInit
  BY LogInitial
<1>2. AgentInv /\ [Next]_vars => [Log!LogNext]_Log!logVars
  BY LogStep
<1> QED BY <1>1, <1>2, AgentInvariant, PTL DEF Spec, ImplementsLog, Log!LogSpec
-----------------------------------------------------------------------------
(***************************************************************************)
(* Composition.  The agent is a client the backend was specified for: it   *)
(* sends nothing that Ingest does not expect, so that whatever holds of    *)
(* Ingest holds of the two together.                                       *)
(***************************************************************************)

\* Nobody holds a client session id that was not drawn.
IdsIssued ==
  /\ pending <= issued
  /\ \A r \in Request : reqs[r].csid <= issued
  /\ \A c \in Csid : sessions[c].state # "none" => c <= issued

LEMMA HeldIssued ==
  ASSUME TypeInv, KnownSessions, IdsIssued
  PROVE  \A c \in Held : c # 0 => c \in 1..issued
<1>1. \A c \in Held : c # 0 => c \in Csid /\ sessions[c].state # "none"
  BY KnownParts, HeldTypes DEF ThreadsKnown, Held, Known, TypeInv
<1>2. issued \in Nat /\ Csid = 1..MaxSessions /\ MaxSessions \in Nat
  BY IngestAssumption DEF TypeInv, IngestInv, IngestTypeOK, Csid
<1> QED BY <1>1, <1>2 DEF IdsIssued

\* Every step of the agent and the backend is a step of Ingest, or none.
LEMMA IngestStep ==
  ASSUME TypeInv, KnownSessions, IdsIssued, [Next]_vars
  PROVE  [IngestNext]_ingestVars
<1>0. /\ issued \in Nat /\ Csid = 1..MaxSessions /\ MaxSessions \in Nat
      /\ AgentTypes /\ ThreadsReady
  BY IngestAssumption DEF TypeInv, IngestInv, IngestTypeOK, Csid
<1>1. CASE LocalStep \/ UNCHANGED vars
  BY <1>1, LocalStepQuiet DEF vars
<1>2. CASE StartWorkday
  BY <1>2 DEF StartWorkday, NewClientSession, IngestNext
<1>3. CASE EndClear
  <2>1. CASE ender.sid = 0
    BY <1>3, <2>1 DEF EndClear
  <2>2. CASE ender.sid # 0
    <3> PICK r \in Request, t \in EndTime :
          Send(r, AgentEnd(NoClient, ender.device, ender.sid, t))
      BY <1>3, <2>2 DEF EndClear
    <3>1. ender.device \in AgentDevice /\ ender.sid \in 1..issued
      BY <1>0, <1>3, <2>2, HeldIssued DEF EndClear, ThreadsReady, Held
    <3>2. SendAny(r)
      BY <3>1 DEF SendAny, Caller
    <3> QED BY <3>2 DEF IngestNext
  <2> QED BY <2>1, <2>2
<1>4. CASE SyncPending
  <2>1. CASE pending = 0
    BY <1>4, <2>1 DEF SyncPending
  <2>2. CASE pending # 0
    <3> PICK r \in Request : Send(r, AgentStart(SyncLoop, sync.device, pending))
      BY <1>4, <2>2 DEF SyncPending
    <3>1. sync.device \in AgentDevice /\ SyncLoop \in Client
      BY <1>0, <1>4, AgentAssumption DEF SyncPending, ThreadsReady
    <3>2. pending \in 1..issued
      BY <1>0, <2>2 DEF AgentTypes, IdsIssued
    <3>3. SendAny(r)
      BY <3>1, <3>2 DEF SendAny, Caller
    <3> QED BY <3>3 DEF IngestNext
  <2> QED BY <2>1, <2>2
<1>5. CASE SyncTake
  <2> DEFINE B == TakeBatch(sync.sid)
             bad == \E i \in B : buffer[i].malformed
  <2>1. sync.pc = "take"
    BY <1>5 DEF SyncTake
  <2>2. CASE UNCHANGED ingestVars
    BY <2>2
  <2>3. CASE B # {} /\ \E r \in Request :
                         Send(r, AgentEvents(SyncLoop, sync.device, sync.sid, B, bad))
    <3>1. bad \in BOOLEAN
      OBVIOUS
    <3> HIDE DEF bad
    <3>2. B \in (SUBSET Event) \ {{}}
      BY <1>0, <2>3, TakeBatchRecorded
    <3> HIDE DEF B
    <3> PICK r \in Request : Send(r, AgentEvents(SyncLoop, sync.device, sync.sid, B, bad))
      BY <2>3
    <3>3. sync.device \in AgentDevice /\ SyncLoop \in Client
      BY <1>0, <2>1, AgentAssumption DEF ThreadsReady
    <3>4. sync.sid \in 1..issued
      BY <1>0, <2>1, HeldIssued DEF ThreadsReady, Held
    <3>5. SendAny(r)
      BY <3>1, <3>2, <3>3, <3>4 DEF SendAny, Caller
    <3> QED BY <3>5 DEF IngestNext
  <2> QED BY <1>5, <2>2, <2>3 DEF SyncTake
<1>6. CASE SyncStarted \/ SyncPosted \/ SyncTimeout
  BY <1>6 DEF SyncStarted, SyncPosted, SyncTimeout, IngestNext
<1>7. CASE Restart
  BY <1>7 DEF Restart, IngestNext
<1>8. CASE StopInBrowser
  <2> PICK r \in Request, u \in User, t \in EndTime : Send(r, MeEnd(NoClient, u, t))
    BY <1>8 DEF StopInBrowser
  <2>1. SendAny(r)
    BY DEF SendAny, Caller
  <2> QED BY <2>1 DEF IngestNext
<1>9. CASE Backend
  BY <1>9 DEF Backend, Served, IngestNext
<1> QED BY <1>1, <1>2, <1>3, <1>4, <1>5, <1>6, <1>7, <1>8, <1>9, NextCases

\* A row of the session table appears under the id of the request that creates it.
LEMMA ServeSessions ==
  ASSUME IngestInv, NEW r \in Request, Serve(r) \/ Lose(r)
  PROVE  \A c \in Csid :
           sessions'[c].state # "none" => sessions[c].state # "none" \/ c = reqs[r].csid
<1>1. CASE CreateSession(r) \/ CloseSession(r)
  BY <1>1 DEF CreateSession, CloseSession, IngestInv, IngestTypeOK
<1>2. CASE ~(CreateSession(r) \/ CloseSession(r))
  BY <1>2 DEF Serve, Lose, ParseBody, FindActive, FindBrowserDevice, CreateBrowserDevice,
     FindByClientSessionId, FindOwned, InsertRows
<1> QED BY <1>1, <1>2

\* A request is sent with an id that was drawn, or with none.
LEMMA SentIssued ==
  ASSUME IngestInv, NEW r \in Request, SendAny(r)
  PROVE  \E n : reqs' = [reqs EXCEPT ![r] = n] /\ n.csid \in 0..issued
<1>1. issued \in Nat
  BY IngestAssumption DEF IngestInv, IngestTypeOK
<1>2. ASSUME NEW cl, NEW d, NEW c \in 1..issued, NEW t, NEW B, NEW bad
      PROVE  /\ AgentStart(cl, d, c).csid \in 0..issued
             /\ AgentEnd(cl, d, c, t).csid \in 0..issued
             /\ AgentEvents(cl, d, c, B, bad).csid \in 0..issued
  BY <1>1 DEF AgentStart, AgentEnd, AgentEvents, Free
<1>3. ASSUME NEW cl, NEW u, NEW t, NEW B, NEW bad
      PROVE  /\ MeStart(cl, u).csid \in 0..issued
             /\ MeEnd(cl, u, t).csid \in 0..issued
             /\ MeEvents(cl, u, B, bad).csid \in 0..issued
  BY <1>1 DEF MeStart, MeEnd, MeEvents, Free
<1>4. \E n : Send(r, n) /\ n.csid \in 0..issued
  BY <1>2, <1>3 DEF SendAny
<1> QED BY <1>4 DEF Send

LEMMA IdsIssuedNext ==
  ASSUME TypeInv, KnownSessions, IdsIssued, [Next]_vars
  PROVE  IdsIssued'
<1> DEFINE ReqsIssued == \A x \in Request : reqs[x].csid <= issued
           RowsIssued == \A c \in Csid : sessions[c].state # "none" => c <= issued
<1>0. /\ issued \in Nat /\ issued' \in Nat /\ IngestInv /\ AgentRequests
      /\ reqs \in [Request -> RequestRecord] /\ Csid \subseteq Nat
      /\ \A x \in Request : reqs[x].csid \in Nat
  <2>1. issued \in Nat /\ IngestInv /\ AgentRequests /\ reqs \in [Request -> RequestRecord]
        /\ Csid \subseteq Nat
    BY IngestAssumption DEF TypeInv, IngestInv, IngestTypeOK, Csid
  <2>2. issued' \in Nat
    BY BackendPart, IngestAssumption DEF IngestInv, IngestTypeOK
  <2>3. \A x \in Request : reqs[x].csid \in Nat
    <3>1. \A x \in Request : reqs[x].csid \in Csid \cup {0}
      BY <2>1 DEF RequestRecord
    <3>2. \A k \in Csid \cup {0} : k \in Nat
      BY <2>1
    <3> QED BY <3>1, <3>2
  <2> QED BY <2>1, <2>2, <2>3
<1>1. [IngestNext]_ingestVars
  BY IngestStep
<1>2. ReqsIssued' /\ RowsIssued' /\ issued <= issued'
  <2>1. CASE NewClientSession \/ UNCHANGED ingestVars
    BY <1>0, <2>1 DEF NewClientSession, ingestVars, IdsIssued
  <2>2. ASSUME NEW r \in Request, SendAny(r) PROVE ReqsIssued' /\ RowsIssued' /\ issued <= issued'
    <3>1. UNCHANGED <<issued, browsers, sessions, rows>>
      BY <2>2 DEF SendAny, Send
    <3> PICK n : reqs' = [reqs EXCEPT ![r] = n] /\ n.csid \in 0..issued
      BY <1>0, <2>2, SentIssued
    <3> QED BY <1>0, <3>1 DEF IdsIssued
  <2>3. ASSUME NEW r \in Request, Serve(r) \/ Lose(r)
        PROVE  ReqsIssued' /\ RowsIssued' /\ issued <= issued'
    <3> PICK n \in RequestRecord : reqs' = [reqs EXCEPT ![r] = n] /\ Progress(reqs[r], n)
      BY <1>0, <2>3, ServeProgress
    <3>1. n.csid \in Nat /\ n.csid <= issued
      <4>1. n.csid = 0 \/ n.csid = reqs[r].csid \/ (n.csid \in Csid /\ sessions[n.csid].state # "none")
        BY <1>0 DEF Progress, Free, AgentRequests
      <4>2. reqs[r].csid \in Nat /\ reqs[r].csid <= issued
        BY <1>0 DEF IdsIssued
      <4>3. \A c \in Csid : sessions[c].state # "none" => c <= issued /\ c \in Nat
        BY <1>0 DEF IdsIssued
      <4>4. 0 \in Nat /\ 0 <= issued
        BY <1>0
      <4>5. CASE n.csid = 0
        BY <4>4, <4>5
      <4>6. CASE n.csid = reqs[r].csid
        BY <4>2, <4>6
      <4>7. CASE n.csid \in Csid /\ sessions[n.csid].state # "none"
        BY <4>3, <4>7
      <4> QED BY <4>1, <4>5, <4>6, <4>7
    <3>2. issued <= issued'
      <4>1. issued' = issued \/ issued' = issued + 1
        BY <2>3 DEF Serve, Lose, ParseBody, FindActive, FindBrowserDevice, BeginStart,
           CreateBrowserDevice, FindByClientSessionId, CreateSession, FindOwned, CloseSession,
           InsertRows
      <4> QED BY <1>0, <4>1
    <3>3. ReqsIssued'
      <4> SUFFICES ASSUME NEW x \in Request PROVE reqs'[x].csid <= issued'
        OBVIOUS
      <4>1. reqs'[x].csid \in Nat /\ reqs'[x].csid <= issued
        BY <1>0, <3>1 DEF IdsIssued
      <4> QED BY <1>0, <3>2, <4>1
    <3>4. RowsIssued'
      <4> SUFFICES ASSUME NEW c \in Csid, sessions'[c].state # "none" PROVE c <= issued'
        OBVIOUS
      <4>1. sessions[c].state # "none" \/ c = reqs[r].csid
        BY <1>0, <2>3, ServeSessions
      <4>2. c <= issued /\ c \in Nat
        BY <1>0, <4>1 DEF IdsIssued
      <4> QED BY <1>0, <3>2, <4>2
    <3> QED BY <3>2, <3>3, <3>4
  <2>4. ASSUME NEW r \in Request, GiveUp(r) PROVE ReqsIssued' /\ RowsIssued' /\ issued <= issued'
    <3>1. UNCHANGED <<issued, browsers, sessions, rows>>
      BY <2>4 DEF GiveUp
    <3> PICK n \in RequestRecord : reqs' = [reqs EXCEPT ![r] = n] /\ Abandoned(reqs[r], n)
      BY <1>0, <2>4, GiveUpAbandons
    <3>2. n.csid = reqs[r].csid \/ n.csid = 0
      BY DEF Abandoned, Free
    <3> QED BY <1>0, <3>1, <3>2 DEF IdsIssued
  <2>5. ASSUME NEW r \in Request, Receive(r) PROVE ReqsIssued' /\ RowsIssued' /\ issued <= issued'
    <3>1. UNCHANGED <<issued, browsers, sessions, rows>> /\ reqs' = [reqs EXCEPT ![r] = Free]
      BY <2>5 DEF Receive
    <3>2. Free.csid = 0
      BY DEF Free
    <3> QED BY <1>0, <3>1, <3>2 DEF IdsIssued
  <2> QED BY <1>1, <2>1, <2>2, <2>3, <2>4, <2>5 DEF IngestNext
<1>3. pending' <= issued'
  <2>1. pending' = pending \/ pending' = 0 \/ pending' = issued'
    BY DEF Next, vars, Monitor, MonitorPoll, MonitorReadSession, MonitorAppend, MainThread,
       StartWorkday, TrayEnd, TogglePrivate, StampReadSession, StampAppend, Logout,
       ForgetIdentity, ClearWorkday, Commands, Enroll, EndCommand, EndClear, Sync, SyncTick,
       SyncGate, SyncEnsure, SyncPending, SyncStarted, SyncSession, SyncTake, SyncPosted,
       SyncTimeout, Restart, StopInBrowser, Backend, Served, inner
  <2>2. pending \in Nat
    BY <1>0 DEF TypeInv, AgentTypes
  <2> QED BY <1>0, <1>2, <2>1, <2>2 DEF IdsIssued
<1> QED BY <1>2, <1>3 DEF IdsIssued

\* The agent is a client of the ingest service: what the two do together is, for the
\* backend, a behaviour of Ingest.  Every theorem about Ingest holds here as well.
THEOREM AgentIsClient == Spec => IngestSpec
<1>1. Init => IngestInit /\ IdsIssued
  BY FreeOK DEF Init, IngestInit, IdsIssued, Free, NoSession
<1>2. TypeInv /\ KnownSessions /\ IdsIssued /\ [Next]_vars => IdsIssued'
  BY IdsIssuedNext
<1>3. TypeInv /\ KnownSessions /\ IdsIssued /\ [Next]_vars => [IngestNext]_ingestVars
  BY IngestStep
<1> QED BY <1>1, <1>2, <1>3, TypeInvariant, SessionsAreKnown, PTL DEF Spec, IngestSpec

\* While the sync loop waits exactly one request is its own, and it is the one its program
\* counter says: a late answer to a request it gave up is never taken for the answer.
THEOREM OneRequestAwaited == Spec => []OneWaits
<1> QED BY OneWaitsInvariant, PTL

\* The buffer only grows: an event keeps its place and its session for good, through
\* restarts, logouts and the marking of batches.
THEOREM BufferAppendOnly == Spec => [][BufferGrows]_buffer
<1>1. TypeInv /\ [Next]_vars => [BufferGrows]_buffer
  BY BufferGrowsNext
<1> QED BY <1>1, TypeInvariant, PTL DEF Spec
=============================================================================
