-------------------------------- MODULE Live --------------------------------
(***************************************************************************)
(* Live presence: the heartbeats of the workers' devices, the presence     *)
(* snapshot (GET /activity/presence), the WebSocket registry of the API    *)
(* process (routes/ws.ts) and the Live page of the dashboard, which starts *)
(* from a snapshot and is then kept up by the ticks of the socket.         *)
(*                                                                         *)
(* The registry is that of one API process, the one the sockets of these   *)
(* pages are connected to.  Other processes on the same database serve     *)
(* heartbeats too (BeatElsewhere), and have registries of their own.       *)
(*                                                                         *)
(* Time goes in steps of the cutoff (90 s): a time of 0 is within it, one  *)
(* of Stale is not.  Every tick the API broadcasts about a worker says the *)
(* same (online), so what is under way to a page is a set of workers.      *)
(***************************************************************************)
EXTENDS Naturals

CONSTANTS
  User,     \* the workers
  Tab,      \* pages the managers have open at once
  Org,      \* organisations
  OrgOf,    \* the organisation of each worker and of each page
  NoSet     \* no set of sockets

ASSUME LiveAssumption ==
  /\ OrgOf \in [User \cup Tab -> Org]
  /\ NoSet \notin Tab

VARIABLES
  device,     \* each worker's devices: the age of lastSeenAt, Never, or Absent
  beat,       \* POST /me/heartbeat under way: idle, found (the device), updated
  agentBeat,  \* POST /ingest/heartbeat under way: the age of its timestamp, or Absent
  sockets,    \* routes/ws.ts: the set of handles of each organisation
  handles,    \* the contents of a set, named after the page whose handshake made it
  orgSet,     \* the set the handler of a page's socket captured
  wire,       \* workers whose tick is under way to the page
  tab,        \* the page: none, rendered, and then its wsState
  listed,     \* LivePanel: users, the workers the page has a card for
  live,       \* the workers of its cards whom the page shows as online
  earned      \* history: workers the page may show, see ShownIsEarned

vars == <<device, beat, agentBeat, sockets, handles, orgSet, wire, tab, listed, live,
          earned>>

devices == <<device, agentBeat>>
registry == <<sockets, handles, orgSet>>
pages == <<tab, listed, live, earned>>

Kind == {"browser", "agent"}

Grace == 1            \* the oldest age within the cutoff
Stale == 2            \* older than the cutoff, however old
Never == 3            \* the device exists and lastSeenAt is null
Absent == 4           \* there is no such device

Age == 0..Stale

TypeOK ==
  /\ device \in [User -> [Kind -> 0..Absent]]
  /\ beat \in [User -> {"idle", "found", "updated"}]
  /\ agentBeat \in [User -> Age \cup {Absent}]
  /\ sockets \in [Org -> Tab \cup {NoSet}]
  /\ handles \in [Tab -> SUBSET Tab]
  /\ orgSet \in [Tab -> Tab \cup {NoSet}]
  /\ wire \in [Tab -> SUBSET User]
  /\ tab \in [Tab -> {"none", "rendered", "connecting", "open", "closed"}]
  /\ listed \in [Tab -> SUBSET User]
  /\ live \in [Tab -> SUBSET User]
  /\ earned \in [Tab -> SUBSET User]

Init ==
  /\ device = [u \in User |-> [k \in Kind |-> Absent]]
  /\ beat = [u \in User |-> "idle"]
  /\ agentBeat = [u \in User |-> Absent]
  /\ sockets = [o \in Org |-> NoSet]
  /\ handles = [t \in Tab |-> {}]
  /\ orgSet = [t \in Tab |-> NoSet]
  /\ wire = [t \in Tab |-> {}]
  /\ tab = [t \in Tab |-> "none"]
  /\ listed = [t \in Tab |-> {}]
  /\ live = [t \in Tab |-> {}]
  /\ earned = [t \in Tab |-> {}]
-----------------------------------------------------------------------------
(* Devices and heartbeats.                                                 *)

Older(age) == IF age < Stale THEN age + 1 ELSE age

\* Half a cutoff goes by.
Tick ==
  /\ device' = [u \in User |-> [k \in Kind |-> Older(device[u][k])]]
  /\ agentBeat' = [u \in User |-> Older(agentBeat[u])]
  /\ UNCHANGED <<beat, wire, registry, pages>>

\* Every page open now may show the worker from now on.
Earn(u) ==
  earned' = [t \in Tab |->
    IF tab[t] # "none" /\ OrgOf[t] = OrgOf[u] THEN earned[t] \cup {u} ELSE earned[t]]

\* An agent is enrolled: its device row has no lastSeenAt yet.
EnrollAgent(u) ==
  /\ device[u]["agent"] = Absent
  /\ device' = [device EXCEPT ![u]["agent"] = Never]
  /\ UNCHANGED <<beat, agentBeat, wire, registry, pages>>

\* The worker starts the workday in a browser and no session of theirs is open: the browser
\* device is found and touched, or made.  (With an open session nothing here changes.)
StartWorkday(u) ==
  /\ device' = [device EXCEPT ![u]["browser"] = 0]
  /\ Earn(u)
  /\ UNCHANGED <<beat, agentBeat, wire, registry, tab, listed, live>>

\* The agent's heartbeat carries the time at which it was sent ...
AgentBeat(u) ==
  /\ device[u]["agent"] # Absent
  /\ agentBeat[u] = Absent
  /\ agentBeat' = [agentBeat EXCEPT ![u] = 0]
  /\ UNCHANGED <<device, beat, wire, registry, pages>>

\* Mutant: the device goes on being as old as the heartbeat, and the heartbeat with it.
AgentBeatServedOlder(u) ==
  /\ agentBeat[u] # Absent
  /\ device' = [device EXCEPT ![u]["agent"] = agentBeat[u]]
  /\ agentBeat' = [agentBeat EXCEPT ![u] = device[u]["agent"]]
  /\ Earn(u)
  /\ UNCHANGED <<beat, wire, registry, tab, listed, live>>

\* ... and is written when it arrives.  Nothing is broadcast.
AgentBeatServed(u) ==
  /\ agentBeat[u] # Absent
  /\ device' = [device EXCEPT ![u]["agent"] = agentBeat[u]]
  /\ agentBeat' = [agentBeat EXCEPT ![u] = Absent]
  /\ Earn(u)
  /\ UNCHANGED <<beat, wire, registry, tab, listed, live>>

AgentBeatLost(u) ==
  /\ agentBeat[u] # Absent
  /\ agentBeat' = [agentBeat EXCEPT ![u] = Absent]
  /\ UNCHANGED <<device, beat, wire, registry, pages>>

\* Another API process serves a heartbeat of the browser: it is written, and broadcast to the
\* sockets of that process only.
BeatElsewhere(u) ==
  /\ device[u]["browser"] # Absent
  /\ device' = [device EXCEPT ![u]["browser"] = 0]
  /\ Earn(u)
  /\ UNCHANGED <<beat, agentBeat, wire, registry, tab, listed, live>>

\* POST /me/heartbeat, from the workday panel or the extension: without a browser device
\* the handler is done.
BeatFind(u) ==
  /\ beat[u] = "idle"
  /\ beat' = [beat EXCEPT ![u] = IF device[u]["browser"] = Absent THEN "idle" ELSE "found"]
  /\ UNCHANGED <<devices, wire, registry, pages>>

BeatUpdate(u) ==
  /\ beat[u] = "found"
  /\ device' = [device EXCEPT ![u]["browser"] = 0]
  /\ beat' = [beat EXCEPT ![u] = "updated"]
  /\ Earn(u)
  /\ UNCHANGED <<agentBeat, wire, registry, tab, listed, live>>

\* Mutant: only one of the sockets gets the message.
Reached(o) == IF sockets[o] = NoSet THEN {} ELSE {sockets[o]}

\* Whom broadcast sends to.
Clients(o) == IF sockets[o] = NoSet THEN {} ELSE handles[sockets[o]]

\* A message to a socket whose other end is gone is dropped.
BeatBroadcast(u) ==
  /\ beat[u] = "updated"
  /\ beat' = [beat EXCEPT ![u] = "idle"]
  /\ wire' = [t \in Tab |->
       IF t \in Clients(OrgOf[u]) /\ tab[t] \in {"connecting", "open"}
         THEN wire[t] \cup {u} ELSE wire[t]]
  /\ UNCHANGED <<devices, registry, pages>>
-----------------------------------------------------------------------------
(* The Live page.                                                          *)

Rows(u) == {device[u][k] : k \in Kind} \ {Absent}

Fresh(u) == \E age \in Rows(u) : age <= Grace

\* Mutant: any heartbeat counts, however old.
OnlineEver(u) == \E age \in Rows(u) : age <= Stale

\* The first device in descending order of lastSeenAt: Postgres puts nulls first.
Online(u) == Never \notin Rows(u) /\ Fresh(u)

Colleagues(t) == {u \in User : OrgOf[u] = OrgOf[t]}

\* The server renders the page with one page of the organisation's users and the presence
\* snapshot; each is empty when it cannot be got.  Who is on the one page of users depends on
\* their names and number, and on when they were created: any of the colleagues may be.
Render(t) ==
  /\ tab[t] = "none"
  /\ orgSet[t] = NoSet
  /\ \A s \in Tab : orgSet[s] # t
  /\ \E list \in SUBSET Colleagues(t), snapshot \in {{u \in Colleagues(t) : Online(u)}, {}} :
       /\ listed' = [listed EXCEPT ![t] = list]
       /\ live' = [live EXCEPT ![t] = list \cap snapshot]
  /\ earned' = [earned EXCEPT ![t] =
       {u \in Colleagues(t) : Fresh(u) \/ beat[u] = "updated"}]
  /\ tab' = [tab EXCEPT ![t] = "rendered"]
  /\ UNCHANGED <<devices, beat, wire, registry>>

\* The effect fetches a token for the socket; without one there will be none.
FetchToken(t) ==
  /\ tab[t] = "rendered"
  /\ \E state \in {"connecting", "closed"} : tab' = [tab EXCEPT ![t] = state]
  /\ UNCHANGED <<devices, beat, wire, registry, listed, live, earned>>

\* The handler of the socket takes the token: the handle goes into the organisation's set,
\* which the handler keeps for its close listener.
Handshake(t) ==
  LET set == IF sockets[OrgOf[t]] = NoSet THEN t ELSE sockets[OrgOf[t]]
  IN /\ tab[t] = "connecting"
     /\ orgSet[t] = NoSet
     /\ handles' = [handles EXCEPT ![set] = @ \cup {t}]
     /\ sockets' = [sockets EXCEPT ![OrgOf[t]] = set]
     /\ orgSet' = [orgSet EXCEPT ![t] = set]
     /\ tab' = [tab EXCEPT ![t] = "open"]
     /\ UNCHANGED <<devices, beat, wire, listed, live, earned>>

\* The token has expired or is not a user's: the server closes the socket.
Refuse(t) ==
  /\ tab[t] = "connecting"
  /\ tab' = [tab EXCEPT ![t] = "closed"]
  /\ UNCHANGED <<devices, beat, wire, registry, listed, live, earned>>

\* A tick arrives; about a worker without a card it shows nothing.
Message(t, u) ==
  /\ tab[t] = "open"
  /\ u \in wire[t]
  /\ wire' = [wire EXCEPT ![t] = @ \ {u}]
  /\ live' = [live EXCEPT ![t] = @ \cup ({u} \cap listed[t])]
  /\ UNCHANGED <<devices, beat, registry, tab, listed, earned>>

\* The connection breaks, or the page is left; the page does not connect again.
Disconnect(t) ==
  /\ tab[t] = "open"
  /\ tab' = [tab EXCEPT ![t] = "closed"]
  /\ wire' = [wire EXCEPT ![t] = {}]
  /\ UNCHANGED <<devices, beat, registry, listed, live, earned>>

Leave(t) ==
  /\ tab[t] # "none"
  /\ tab' = [tab EXCEPT ![t] = "none"]
  /\ wire' = [wire EXCEPT ![t] = {}]
  /\ listed' = [listed EXCEPT ![t] = {}]
  /\ live' = [live EXCEPT ![t] = {}]
  /\ earned' = [earned EXCEPT ![t] = {}]
  /\ UNCHANGED <<devices, beat, registry>>

\* Mutant: the organisation's entry goes with the first socket that closes.
CloseEventAll(t) ==
  /\ orgSet[t] # NoSet
  /\ tab[t] \in {"none", "closed"}
  /\ handles' = [handles EXCEPT ![orgSet[t]] = @ \ {t}]
  /\ sockets' = [sockets EXCEPT ![OrgOf[t]] = NoSet]
  /\ orgSet' = [orgSet EXCEPT ![t] = NoSet]
  /\ UNCHANGED <<devices, beat, wire, pages>>

\* The API notices that the socket is closed.
CloseEvent(t) ==
  /\ orgSet[t] # NoSet
  /\ tab[t] \in {"none", "closed"}
  /\ handles' = [handles EXCEPT ![orgSet[t]] = @ \ {t}]
  /\ sockets' = [sockets EXCEPT ![OrgOf[t]] = IF handles[orgSet[t]] = {t} THEN NoSet ELSE @]
  /\ orgSet' = [orgSet EXCEPT ![t] = NoSet]
  /\ UNCHANGED <<devices, beat, wire, pages>>

\* The API process dies and comes back: its registry and its sockets are gone.
Restart ==
  /\ sockets' = [o \in Org |-> NoSet]
  /\ handles' = [t \in Tab |-> {}]
  /\ orgSet' = [t \in Tab |-> NoSet]
  /\ beat' = [u \in User |-> "idle"]
  /\ tab' = [t \in Tab |-> IF tab[t] = "open" THEN "closed" ELSE tab[t]]
  /\ wire' = [t \in Tab |-> {}]
  /\ UNCHANGED <<devices, listed, live, earned>>
-----------------------------------------------------------------------------
Devices ==
  \/ Tick
  \/ \E u \in User :
       EnrollAgent(u) \/ StartWorkday(u) \/ AgentBeat(u) \/ AgentBeatServed(u)
         \/ AgentBeatLost(u) \/ BeatElsewhere(u)

Heartbeat == \E u \in User : BeatFind(u) \/ BeatUpdate(u) \/ BeatBroadcast(u)

Page ==
  \E t \in Tab :
    \/ Render(t) \/ FetchToken(t) \/ Refuse(t) \/ Disconnect(t) \/ Leave(t)
    \/ \E u \in User : Message(t, u)

Registry == Restart \/ \E t \in Tab : Handshake(t) \/ CloseEvent(t)

Next == Devices \/ Heartbeat \/ Page \/ Registry

\* A handler that was begun goes on, and what is on the wire arrives.
Fairness ==
  /\ \A u \in User : WF_vars(BeatUpdate(u)) /\ WF_vars(BeatBroadcast(u))
  /\ \A t \in Tab, u \in User : WF_vars(Message(t, u))

Spec == Init /\ [][Next]_vars /\ Fairness
-----------------------------------------------------------------------------
(* Properties.                                                             *)

\* A page whose socket is open is in the registry under its organisation, in the very set
\* its close listener will take it out of; no set that is registered is empty, so no entry
\* outlives its sockets, in whatever order pages come, go and are noticed to be gone.
RegisteredWhileOpen ==
  /\ \A t \in Tab : tab[t] = "open" => orgSet[t] # NoSet
  /\ \A t \in Tab : orgSet[t] # NoSet =>
       sockets[OrgOf[t]] = orgSet[t] /\ t \in handles[orgSet[t]]
  /\ \A o \in Org : sockets[o] # NoSet => handles[sockets[o]] # {}

\* A page shows a worker as online only if the worker is of its organisation and had a
\* heartbeat within the cutoff when the page was rendered, or has had one since (or one that was
\* written before and broadcast since).
ShownIsEarned == \A t \in Tab : live[t] \subseteq earned[t] \cap Colleagues(t)

\* A worker whose browser has a device and keeps beating at the API process a page's socket is
\* connected to is shown as online, even if the snapshot missed them, by every page of the
\* organisation that has a card for the worker and whose socket stays open.
BeatsAreShown ==
  \A t \in Tab : \A u \in Colleagues(t) :
    ( /\ []<><<BeatFind(u)>>_vars
      /\ <>[](tab[t] = "open" /\ u \in listed[t] /\ device[u]["browser"] # Absent) )
      => <>[](u \in live[t])
=============================================================================
