----------------------------- MODULE LiveProofs -----------------------------
(***************************************************************************)
(* The safety invariants of Live, for every set of workers, pages and      *)
(* organisations.                                                          *)
(*                                                                         *)
(* The handler of a socket keeps the set it put its handle into, not the   *)
(* organisation's entry.  That the two stay the same needs more than       *)
(* RegisteredWhileOpen: a set must belong to one organisation, so that     *)
(* emptying it takes out that organisation's entry and no other.  What a   *)
(* page shows needs what is on its way: ticks, and heartbeats written but  *)
(* not yet broadcast.                                                      *)
(***************************************************************************)
EXTENDS Live, TLAPS

\* A set that is registered is that of the page whose handshake made it, and holds handles
\* of that page's organisation only.
SetsAreOwned ==
  /\ \A o \in Org : sockets[o] # NoSet => OrgOf[sockets[o]] = o
  /\ \A s \in Tab : \A t \in handles[s] : OrgOf[t] = OrgOf[s]

\* What is under way to a page is no news to it either.
TicksAreEarned ==
  /\ \A t \in Tab : wire[t] \subseteq earned[t] \cap Colleagues(t)
  /\ \A t \in Tab : \A u \in Colleagues(t) :
       beat[u] = "updated" /\ tab[t] # "none" => u \in earned[t]

\* Nothing is under way to a page that is not there.
NothingUnderWay == \A t \in Tab : tab[t] = "none" => wire[t] = {}

Registered == RegisteredWhileOpen /\ SetsAreOwned

Shown == TicksAreEarned /\ ShownIsEarned

\* The inductive invariant.
IInv == TypeOK /\ Registered /\ NothingUnderWay /\ Shown
-----------------------------------------------------------------------------
LEMMA InitEstablishes == Init => IInv
<1> SUFFICES ASSUME Init PROVE IInv
  OBVIOUS
<1> USE LiveAssumption DEF Init
<1>1. TypeOK
  BY DEF TypeOK, Kind, Age, Absent, Stale
<1>2. RegisteredWhileOpen /\ SetsAreOwned
  BY DEF RegisteredWhileOpen, SetsAreOwned
<1>3. TicksAreEarned /\ ShownIsEarned /\ NothingUnderWay
  BY DEF TicksAreEarned, ShownIsEarned, NothingUnderWay, Colleagues
<1> QED BY <1>1, <1>2, <1>3 DEF IInv, Registered, Shown

-----------------------------------------------------------------------------
(* Types.                                                                  *)

\* What a device action writes is an age.
LEMMA DeviceTyped ==
  ASSUME TypeOK, NEW u \in User, NEW k \in Kind, NEW age \in 0..Absent,
         device' = [device EXCEPT ![u][k] = age]
  PROVE  device' \in [User -> [Kind -> 0..Absent]]
<1> DEFINE new == [device[u] EXCEPT ![k] = age]
<1>1. new \in [Kind -> 0..Absent]
  BY DEF TypeOK
<1>2. device' = [device EXCEPT ![u] = new]
  OBVIOUS
<1> HIDE DEF new
<1> QED BY <1>1, <1>2 DEF TypeOK

LEMMA EarnTyped ==
  ASSUME TypeOK, NEW u \in User, Earn(u)
  PROVE  earned' \in [Tab -> SUBSET User]
<1>1. \A t \in Tab : earned[t] \subseteq User
  BY DEF TypeOK
<1> QED BY <1>1 DEF Earn

LEMMA DevicesTyped ==
  ASSUME TypeOK, Devices
  PROVE  TypeOK'
<1> USE DEF registry, pages
<1>1. CASE Tick
  <2>1. \A age \in 0..Absent : Older(age) \in 0..Absent
    BY DEF Older, Stale, Absent
  <2>2. \A age \in Age \cup {Absent} : Older(age) \in Age \cup {Absent}
    BY DEF Older, Age, Stale, Absent
  <2>3. \A u \in User, k \in Kind : device[u][k] \in 0..Absent
    BY DEF TypeOK
  <2>4. device' \in [User -> [Kind -> 0..Absent]]
    BY <1>1, <2>1, <2>3 DEF Tick
  <2>5. agentBeat' \in [User -> Age \cup {Absent}]
    BY <1>1, <2>2 DEF Tick, TypeOK
  <2> QED BY <1>1, <2>4, <2>5 DEF Tick, TypeOK
<1>2. ASSUME NEW u \in User, EnrollAgent(u) PROVE TypeOK'
  <2>1. "agent" \in Kind /\ Never \in 0..Absent
    BY DEF Kind, Never, Absent
  <2>2. device' \in [User -> [Kind -> 0..Absent]]
    BY <1>2, <2>1, DeviceTyped DEF EnrollAgent
  <2> QED BY <1>2, <2>2 DEF EnrollAgent, TypeOK
<1>3. ASSUME NEW u \in User, StartWorkday(u) PROVE TypeOK'
  <2>1. "browser" \in Kind /\ 0 \in 0..Absent
    BY DEF Kind, Absent
  <2>2. device' \in [User -> [Kind -> 0..Absent]]
    BY <1>3, <2>1, DeviceTyped DEF StartWorkday
  <2> QED BY <1>3, <2>2, EarnTyped DEF StartWorkday, TypeOK
<1>4. ASSUME NEW u \in User, AgentBeat(u) PROVE TypeOK'
  <2>1. 0 \in Age
    BY DEF Age, Stale
  <2> QED BY <1>4, <2>1 DEF AgentBeat, TypeOK
<1>5. ASSUME NEW u \in User, AgentBeatServed(u) PROVE TypeOK'
  <2>1. "agent" \in Kind /\ agentBeat[u] \in 0..Absent
    BY DEF Kind, TypeOK, Age, Stale, Absent
  <2>2. device' \in [User -> [Kind -> 0..Absent]]
    BY <1>5, <2>1, DeviceTyped DEF AgentBeatServed
  <2> QED BY <1>5, <2>2, EarnTyped DEF AgentBeatServed, TypeOK
<1>6. ASSUME NEW u \in User, AgentBeatLost(u) PROVE TypeOK'
  BY <1>6 DEF AgentBeatLost, TypeOK
<1>7. ASSUME NEW u \in User, BeatElsewhere(u) PROVE TypeOK'
  <2>1. "browser" \in Kind /\ 0 \in 0..Absent
    BY DEF Kind, Absent
  <2>2. device' \in [User -> [Kind -> 0..Absent]]
    BY <1>7, <2>1, DeviceTyped DEF BeatElsewhere
  <2> QED BY <1>7, <2>2, EarnTyped DEF BeatElsewhere, TypeOK
<1> QED BY <1>1, <1>2, <1>3, <1>4, <1>5, <1>6, <1>7 DEF Devices

LEMMA HeartbeatTyped ==
  ASSUME TypeOK, Heartbeat
  PROVE  TypeOK'
<1> USE DEF devices, registry, pages
<1>1. ASSUME NEW u \in User, BeatFind(u) PROVE TypeOK'
  BY <1>1 DEF BeatFind, TypeOK
<1>2. ASSUME NEW u \in User, BeatUpdate(u) PROVE TypeOK'
  <2>1. "browser" \in Kind /\ 0 \in 0..Absent
    BY DEF Kind, Absent
  <2>2. device' \in [User -> [Kind -> 0..Absent]]
    BY <1>2, <2>1, DeviceTyped DEF BeatUpdate
  <2> QED BY <1>2, <2>2, EarnTyped DEF BeatUpdate, TypeOK
<1>3. ASSUME NEW u \in User, BeatBroadcast(u) PROVE TypeOK'
  <2>1. \A t \in Tab : wire[t] \subseteq User
    BY DEF TypeOK
  <2>2. wire' \in [Tab -> SUBSET User]
    BY <1>3, <2>1 DEF BeatBroadcast
  <2> QED BY <1>3, <2>2 DEF BeatBroadcast, TypeOK
<1> QED BY <1>1, <1>2, <1>3 DEF Heartbeat

LEMMA PageTyped ==
  ASSUME TypeOK, Page
  PROVE  TypeOK'
<1> USE DEF devices, registry
<1>1. ASSUME NEW t \in Tab, Render(t) PROVE TypeOK'
  <2>1. Colleagues(t) \subseteq User
    BY DEF Colleagues
  <2>2. {u \in Colleagues(t) : Fresh(u) \/ beat[u] = "updated"} \subseteq User
    BY DEF Colleagues
  <2>3. PICK list \in SUBSET Colleagues(t), snapshot \in {{u \in Colleagues(t) : Online(u)}, {}} :
          /\ listed' = [listed EXCEPT ![t] = list]
          /\ live' = [live EXCEPT ![t] = list \cap snapshot]
    BY <1>1 DEF Render
  <2>5. list \subseteq User /\ list \cap snapshot \subseteq User
    BY <2>1
  <2>6. listed' \in [Tab -> SUBSET User] /\ live' \in [Tab -> SUBSET User]
    BY <2>3, <2>5 DEF TypeOK
  <2>4. earned' \in [Tab -> SUBSET User]
    BY <1>1, <2>2 DEF Render, TypeOK
  <2> QED BY <1>1, <2>4, <2>6 DEF Render, TypeOK
<1>2. ASSUME NEW t \in Tab, FetchToken(t) \/ Refuse(t) PROVE TypeOK'
  BY <1>2 DEF FetchToken, Refuse, TypeOK
<1>3. ASSUME NEW t \in Tab, Disconnect(t) PROVE TypeOK'
  BY <1>3 DEF Disconnect, TypeOK
<1>4. ASSUME NEW t \in Tab, Leave(t) PROVE TypeOK'
  BY <1>4 DEF Leave, TypeOK
<1>5. ASSUME NEW t \in Tab, NEW u \in User, Message(t, u) PROVE TypeOK'
  BY <1>5 DEF Message, TypeOK
<1> QED BY <1>1, <1>2, <1>3, <1>4, <1>5 DEF Page

LEMMA RegistryTyped ==
  ASSUME TypeOK, Registry
  PROVE  TypeOK'
<1> USE LiveAssumption DEF devices, pages
<1>1. ASSUME NEW t \in Tab, Handshake(t) PROVE TypeOK'
  <2> DEFINE set == IF sockets[OrgOf[t]] = NoSet THEN t ELSE sockets[OrgOf[t]]
  <2>1. set \in Tab
    BY DEF TypeOK
  <2>2. /\ handles' = [handles EXCEPT ![set] = @ \cup {t}]
        /\ sockets' = [sockets EXCEPT ![OrgOf[t]] = set]
        /\ orgSet' = [orgSet EXCEPT ![t] = set]
        /\ tab' = [tab EXCEPT ![t] = "open"]
        /\ UNCHANGED <<devices, beat, wire, listed, live, earned>>
    BY <1>1 DEF Handshake
  <2> HIDE DEF set
  <2> QED BY <2>1, <2>2 DEF TypeOK
<1>2. ASSUME NEW t \in Tab, CloseEvent(t) PROVE TypeOK'
  <2>1. orgSet[t] \in Tab
    BY <1>2 DEF CloseEvent, TypeOK
  <2>2. handles' \in [Tab -> SUBSET Tab]
    BY <1>2, <2>1 DEF CloseEvent, TypeOK
  <2>3. sockets' \in [Org -> Tab \cup {NoSet}]
    BY <1>2 DEF CloseEvent, TypeOK
  <2> QED BY <1>2, <2>2, <2>3 DEF CloseEvent, TypeOK
<1>3. CASE Restart
  BY <1>3 DEF Restart, TypeOK
<1> QED BY <1>1, <1>2, <1>3 DEF Registry

LEMMA TypeStep ==
  ASSUME TypeOK, [Next]_vars
  PROVE  TypeOK'
<1>1. CASE UNCHANGED vars
  BY <1>1 DEF vars, TypeOK
<1> QED BY <1>1, DevicesTyped, HeartbeatTyped, PageTyped, RegistryTyped DEF Next

-----------------------------------------------------------------------------
(* The registry.                                                           *)

\* No action but those of Registry touches it, and none of them opens a page.
LEMMA RegistryUntouched ==
  ASSUME TypeOK, Registered, UNCHANGED registry,
         \A t \in Tab : tab'[t] = "open" => tab[t] = "open"
  PROVE  Registered'
<1> QED BY DEF Registered, RegisteredWhileOpen, SetsAreOwned, registry

LEMMA HandshakePreserves ==
  ASSUME TypeOK, Registered, NEW t \in Tab, Handshake(t)
  PROVE  Registered'
<1> DEFINE org == OrgOf[t]
           set == IF sockets[org] = NoSet THEN t ELSE sockets[org]
<1>1. /\ org \in Org /\ set \in Tab /\ set # NoSet
      /\ OrgOf[set] = org
      /\ sockets[org] # NoSet => set = sockets[org]
  BY LiveAssumption DEF TypeOK, Registered, SetsAreOwned
<1>2. /\ handles' = [handles EXCEPT ![set] = @ \cup {t}]
      /\ sockets' = [sockets EXCEPT ![org] = set]
      /\ orgSet' = [orgSet EXCEPT ![t] = set]
      /\ tab' = [tab EXCEPT ![t] = "open"]
  BY DEF Handshake
<1> HIDE DEF set
<1>3. RegisteredWhileOpen'
  <2>1. \A s \in Tab : tab'[s] = "open" => orgSet'[s] # NoSet
    BY <1>1, <1>2 DEF TypeOK, Registered, RegisteredWhileOpen
  <2>2. \A s \in Tab : orgSet'[s] # NoSet =>
          sockets'[OrgOf[s]] = orgSet'[s] /\ s \in handles'[orgSet'[s]]
    <3> SUFFICES ASSUME NEW s \in Tab, orgSet'[s] # NoSet
                 PROVE  sockets'[OrgOf[s]] = orgSet'[s] /\ s \in handles'[orgSet'[s]]
      OBVIOUS
    <3>1. CASE s = t
      BY <1>1, <1>2, <3>1 DEF TypeOK
    <3>2. CASE s # t
      <4>1. orgSet'[s] = orgSet[s] /\ orgSet[s] \in Tab
        BY <1>2, <3>2 DEF TypeOK
      <4>2. sockets[OrgOf[s]] = orgSet[s] /\ s \in handles[orgSet[s]]
        BY <4>1 DEF Registered, RegisteredWhileOpen
      <4>3. OrgOf[s] \in Org
        BY LiveAssumption
      <4>4. sockets'[OrgOf[s]] = orgSet[s]
        BY <1>1, <1>2, <4>1, <4>2, <4>3 DEF TypeOK
      <4>5. s \in handles'[orgSet[s]]
        BY <1>2, <4>1, <4>2 DEF TypeOK
      <4> QED BY <4>1, <4>4, <4>5
    <3> QED BY <3>1, <3>2
  <2>3. \A o \in Org : sockets'[o] # NoSet => handles'[sockets'[o]] # {}
    BY <1>1, <1>2 DEF TypeOK, Registered, RegisteredWhileOpen
  <2> QED BY <2>1, <2>2, <2>3 DEF RegisteredWhileOpen
<1>4. SetsAreOwned'
  BY <1>1, <1>2 DEF TypeOK, Registered, SetsAreOwned
<1> QED BY <1>3, <1>4 DEF Registered

\* The handle that goes is the page's own; if it was the last, the entry that goes is that
\* of the page's organisation, and no other page was in the set.
LEMMA CloseEventPreserves ==
  ASSUME TypeOK, Registered, NEW t \in Tab, CloseEvent(t)
  PROVE  Registered'
<1> DEFINE org == OrgOf[t]
           set == orgSet[t]
<1>1. /\ org \in Org /\ set \in Tab /\ set # NoSet
      /\ sockets[org] = set /\ t \in handles[set] /\ OrgOf[set] = org
  <2>1. set # NoSet
    BY DEF CloseEvent
  <2>2. org \in Org /\ set \in Tab
    BY <2>1, LiveAssumption DEF TypeOK
  <2>3. sockets[org] = set /\ t \in handles[set]
    BY <2>1 DEF Registered, RegisteredWhileOpen
  <2>4. OrgOf[set] = org
    BY <2>1, <2>2, <2>3 DEF Registered, SetsAreOwned
  <2> QED BY <2>1, <2>2, <2>3, <2>4
<1>2. /\ handles' = [handles EXCEPT ![set] = @ \ {t}]
      /\ sockets' = [sockets EXCEPT ![org] = IF handles[set] = {t} THEN NoSet ELSE @]
      /\ orgSet' = [orgSet EXCEPT ![t] = NoSet]
      /\ tab' = tab /\ tab[t] # "open"
  BY DEF CloseEvent, pages
<1> HIDE DEF set, org
<1>3. RegisteredWhileOpen'
  <2>1. \A s \in Tab : tab'[s] = "open" => orgSet'[s] # NoSet
    BY <1>2 DEF TypeOK, Registered, RegisteredWhileOpen
  <2>2. \A s \in Tab : orgSet'[s] # NoSet =>
          sockets'[OrgOf[s]] = orgSet'[s] /\ s \in handles'[orgSet'[s]]
    <3> SUFFICES ASSUME NEW s \in Tab, orgSet'[s] # NoSet
                 PROVE  sockets'[OrgOf[s]] = orgSet'[s] /\ s \in handles'[orgSet'[s]]
      OBVIOUS
    <3>1. s # t /\ orgSet'[s] = orgSet[s] /\ orgSet[s] \in Tab
      BY <1>2 DEF TypeOK
    <3>2. sockets[OrgOf[s]] = orgSet[s] /\ s \in handles[orgSet[s]]
      BY <3>1 DEF Registered, RegisteredWhileOpen
    <3>3. s \in handles'[orgSet[s]]
      BY <1>2, <3>1, <3>2 DEF TypeOK
    <3>4. OrgOf[s] \in Org
      BY LiveAssumption
    <3>5. OrgOf[s] = org => s \in handles[set]
      BY <1>1, <3>2
    <3>6. sockets'[OrgOf[s]] = sockets[OrgOf[s]]
      BY <1>1, <1>2, <3>1, <3>4, <3>5 DEF TypeOK
    <3> QED BY <3>1, <3>2, <3>3, <3>6
  <2>3. \A o \in Org : sockets'[o] # NoSet => handles'[sockets'[o]] # {}
    <3> SUFFICES ASSUME NEW o \in Org, sockets'[o] # NoSet
                 PROVE  handles'[sockets'[o]] # {}
      OBVIOUS
    <3>1. sockets'[o] = sockets[o] /\ sockets[o] \in Tab /\ handles[sockets[o]] # {}
      BY <1>1, <1>2 DEF TypeOK, Registered, RegisteredWhileOpen
    <3>2. CASE o = org
      BY <1>1, <1>2, <3>1, <3>2 DEF TypeOK
    <3>3. CASE o # org
      <4>1. sockets[o] # set
        BY <1>1, <3>1, <3>3, LiveAssumption DEF Registered, SetsAreOwned
      <4> QED BY <1>2, <3>1, <4>1 DEF TypeOK
    <3> QED BY <3>2, <3>3
  <2> QED BY <2>1, <2>2, <2>3 DEF RegisteredWhileOpen
<1>4. SetsAreOwned'
  <2>1. \A s \in Tab : handles'[s] \subseteq handles[s]
    BY <1>2 DEF TypeOK
  <2>2. \A o \in Org : sockets'[o] # NoSet => sockets'[o] = sockets[o]
    BY <1>1, <1>2 DEF TypeOK
  <2> QED BY <2>1, <2>2 DEF Registered, SetsAreOwned
<1> QED BY <1>3, <1>4 DEF Registered

LEMMA RegisteredStep ==
  ASSUME TypeOK, Registered, [Next]_vars
  PROVE  Registered'
<1>1. CASE UNCHANGED vars
  BY <1>1, RegistryUntouched DEF vars, registry
<1>2. CASE Devices
  <2>1. UNCHANGED <<registry, tab>>
    BY <1>2 DEF Devices, Tick, EnrollAgent, StartWorkday, AgentBeat, AgentBeatServed,
                AgentBeatLost, BeatElsewhere, registry, pages
  <2> QED BY <2>1, RegistryUntouched
<1>3. CASE Heartbeat
  <2>1. UNCHANGED <<registry, tab>>
    BY <1>3 DEF Heartbeat, BeatFind, BeatUpdate, BeatBroadcast, registry, pages
  <2> QED BY <2>1, RegistryUntouched
<1>4. CASE Page
  <2>1. UNCHANGED registry
    BY <1>4 DEF Page, Render, FetchToken, Refuse, Disconnect, Leave, Message, registry
  <2>2. \A t \in Tab : tab'[t] = "open" => tab[t] = "open"
    BY <1>4 DEF Page, Render, FetchToken, Refuse, Disconnect, Leave, Message, TypeOK
  <2> QED BY <2>1, <2>2, RegistryUntouched
<1>5. CASE Restart
  BY <1>5, LiveAssumption DEF Restart, TypeOK, Registered, RegisteredWhileOpen, SetsAreOwned
<1> QED BY <1>1, <1>2, <1>3, <1>4, <1>5, HandshakePreserves, CloseEventPreserves
        DEF Next, Registry

-----------------------------------------------------------------------------
(* What the pages show.                                                    *)

\* A step that puts nothing on the wire, shows nothing, writes no heartbeat and takes back
\* nothing that was earned.
LEMMA NothingNewShown ==
  ASSUME Shown,
         \A t \in Tab : wire'[t] \subseteq wire[t] /\ live'[t] \subseteq live[t],
         \A t \in Tab : earned[t] \subseteq earned'[t] /\ (tab'[t] # "none" => tab[t] # "none"),
         \A u \in User : beat'[u] = "updated" => beat[u] = "updated"
  PROVE  Shown'
<1>1. TicksAreEarned'
  BY DEF Shown, TicksAreEarned, Colleagues
<1>2. ShownIsEarned'
  BY DEF Shown, ShownIsEarned, Colleagues
<1> QED BY <1>1, <1>2 DEF Shown

LEMMA EarnKeeps ==
  ASSUME TypeOK, NEW u \in User, Earn(u)
  PROVE  /\ \A t \in Tab : earned[t] \subseteq earned'[t]
         /\ \A t \in Tab : u \in Colleagues(t) /\ tab[t] # "none" => u \in earned'[t]
<1> QED BY DEF Earn, Colleagues

LEMMA BeatUpdatePreserves ==
  ASSUME TypeOK, Shown, NEW u \in User, BeatUpdate(u)
  PROVE  Shown'
<1>1. /\ \A t \in Tab : earned[t] \subseteq earned'[t]
      /\ \A t \in Tab : u \in Colleagues(t) /\ tab[t] # "none" => u \in earned'[t]
  BY EarnKeeps DEF BeatUpdate
<1>2. /\ UNCHANGED <<wire, tab, live>>
      /\ \A v \in User : v # u => beat'[v] = beat[v]
  BY DEF BeatUpdate, TypeOK
<1>3. TicksAreEarned'
  <2>1. \A t \in Tab : wire'[t] \subseteq earned'[t] \cap Colleagues(t)
    BY <1>1, <1>2 DEF Shown, TicksAreEarned
  <2>2. \A t \in Tab : \A v \in Colleagues(t) :
          beat'[v] = "updated" /\ tab'[t] # "none" => v \in earned'[t]
    BY <1>1, <1>2 DEF Shown, TicksAreEarned, Colleagues
  <2> QED BY <2>1, <2>2 DEF TicksAreEarned, Colleagues
<1>4. ShownIsEarned'
  BY <1>1, <1>2 DEF Shown, ShownIsEarned, Colleagues
<1> QED BY <1>3, <1>4 DEF Shown

\* A tick goes to handles of the worker's organisation, and to pages that had earned it when
\* the heartbeat was written.
LEMMA BeatBroadcastPreserves ==
  ASSUME TypeOK, Registered, Shown, NEW u \in User, BeatBroadcast(u)
  PROVE  Shown'
<1>1. \A t \in Tab : t \in Clients(OrgOf[u]) => OrgOf[t] = OrgOf[u]
  <2>1. OrgOf[u] \in Org /\ NoSet \notin Tab
    BY LiveAssumption
  <2>2. sockets[OrgOf[u]] # NoSet =>
          sockets[OrgOf[u]] \in Tab /\ OrgOf[sockets[OrgOf[u]]] = OrgOf[u]
    BY <2>1 DEF TypeOK, Registered, SetsAreOwned
  <2> QED BY <2>2 DEF Clients, Registered, SetsAreOwned
<1>2. /\ UNCHANGED <<tab, live, earned>> /\ beat[u] = "updated"
      /\ \A v \in User : beat'[v] = "updated" => beat[v] = "updated"
  BY DEF BeatBroadcast, TypeOK, pages
<1>3. \A t \in Tab : wire'[t] \subseteq earned[t] \cap Colleagues(t)
  <2> SUFFICES ASSUME NEW t \in Tab PROVE wire'[t] \subseteq earned[t] \cap Colleagues(t)
    OBVIOUS
  <2>1. wire[t] \subseteq earned[t] \cap Colleagues(t)
    BY DEF Shown, TicksAreEarned
  <2>2. CASE t \in Clients(OrgOf[u]) /\ tab[t] \in {"connecting", "open"}
    <3>1. u \in Colleagues(t)
      BY <1>1, <2>2 DEF Colleagues
    <3>2. u \in earned[t]
      BY <1>2, <2>2, <3>1 DEF Shown, TicksAreEarned
    <3>3. wire'[t] = wire[t] \cup {u}
      BY <2>2 DEF BeatBroadcast
    <3> QED BY <2>1, <3>1, <3>2, <3>3
  <2>3. CASE ~(t \in Clients(OrgOf[u]) /\ tab[t] \in {"connecting", "open"})
    BY <2>1, <2>3 DEF BeatBroadcast
  <2> QED BY <2>2, <2>3
<1>4. TicksAreEarned'
  <2>1. \A t \in Tab : \A v \in Colleagues(t) :
          beat'[v] = "updated" /\ tab'[t] # "none" => v \in earned'[t]
    BY <1>2 DEF Shown, TicksAreEarned, Colleagues
  <2> QED BY <1>2, <1>3, <2>1 DEF TicksAreEarned, Colleagues
<1>5. ShownIsEarned'
  BY <1>2 DEF Shown, ShownIsEarned, Colleagues
<1> QED BY <1>4, <1>5 DEF Shown

\* A page begins with what it has earned, and with nothing under way.
LEMMA RenderPreserves ==
  ASSUME TypeOK, Shown, NothingUnderWay, NEW t \in Tab, Render(t)
  PROVE  Shown'
<1> DEFINE new == {u \in Colleagues(t) : Fresh(u) \/ beat[u] = "updated"}
<1>1. /\ \A s \in Tab : s # t => earned'[s] = earned[s] /\ tab'[s] = tab[s] /\ live'[s] = live[s]
      /\ earned'[t] = new
      /\ UNCHANGED <<wire, beat>>
      /\ wire[t] = {}
  BY DEF Render, TypeOK, NothingUnderWay
<1>2. live'[t] \subseteq new
  <2>1. {u \in Colleagues(t) : Online(u)} \subseteq new
    BY DEF Online
  <2> HIDE DEF new
  <2>2. PICK list \in SUBSET Colleagues(t), snapshot \in {{u \in Colleagues(t) : Online(u)}, {}} :
          live' = [live EXCEPT ![t] = list \cap snapshot]
    BY DEF Render
  <2>3. live'[t] = list \cap snapshot
    BY <2>2 DEF TypeOK
  <2> QED BY <2>1, <2>2, <2>3
<1>3. new \subseteq Colleagues(t)
  OBVIOUS
<1>4. \A u \in Colleagues(t) : beat[u] = "updated" => u \in new
  OBVIOUS
<1> HIDE DEF new
<1>5. TicksAreEarned'
  <2>1. \A s \in Tab : wire'[s] \subseteq earned'[s] \cap Colleagues(s)
    BY <1>1 DEF Shown, TicksAreEarned
  <2>2. \A s \in Tab : \A u \in Colleagues(s) :
          beat'[u] = "updated" /\ tab'[s] # "none" => u \in earned'[s]
    BY <1>1, <1>4 DEF Shown, TicksAreEarned
  <2> QED BY <2>1, <2>2 DEF TicksAreEarned, Colleagues
<1>6. ShownIsEarned'
  BY <1>1, <1>2, <1>3 DEF Shown, ShownIsEarned, Colleagues
<1> QED BY <1>5, <1>6 DEF Shown

LEMMA MessagePreserves ==
  ASSUME TypeOK, Shown, NEW t \in Tab, NEW u \in User, Message(t, u)
  PROVE  Shown'
<1>1. u \in earned[t] \cap Colleagues(t)
  BY DEF Message, Shown, TicksAreEarned
<1>2. /\ \A s \in Tab : wire'[s] \subseteq wire[s]
      /\ \A s \in Tab : live'[s] \subseteq IF s = t THEN live[s] \cup {u} ELSE live[s]
      /\ UNCHANGED <<beat, tab, earned>>
  BY DEF Message, TypeOK
<1>3. TicksAreEarned'
  BY <1>2 DEF Shown, TicksAreEarned, Colleagues
<1>4. ShownIsEarned'
  <2> SUFFICES ASSUME NEW s \in Tab PROVE live'[s] \subseteq earned[s] \cap Colleagues(s)
    BY <1>2 DEF ShownIsEarned, Colleagues
  <2>1. live[s] \subseteq earned[s] \cap Colleagues(s)
    BY DEF Shown, ShownIsEarned
  <2> QED BY <1>1, <1>2, <2>1
<1> QED BY <1>3, <1>4 DEF Shown

LEMMA LeavePreserves ==
  ASSUME TypeOK, Shown, NEW t \in Tab, Leave(t)
  PROVE  Shown'
<1>1. /\ \A s \in Tab : s # t => /\ tab'[s] = tab[s] /\ wire'[s] = wire[s]
                               /\ live'[s] = live[s] /\ earned'[s] = earned[s]
      /\ tab'[t] = "none" /\ wire'[t] = {} /\ live'[t] = {}
      /\ UNCHANGED beat
  BY DEF Leave, TypeOK
<1>2. TicksAreEarned'
  BY <1>1 DEF Shown, TicksAreEarned, Colleagues
<1>3. ShownIsEarned'
  BY <1>1 DEF Shown, ShownIsEarned, Colleagues
<1> QED BY <1>2, <1>3 DEF Shown

LEMMA ShownStep ==
  ASSUME TypeOK, Registered, NothingUnderWay, Shown, [Next]_vars
  PROVE  Shown'
<1>1. CASE UNCHANGED vars
  BY <1>1, NothingNewShown DEF vars
<1>2. CASE Devices
  <2>1. UNCHANGED <<wire, live, tab, beat>>
    BY <1>2 DEF Devices, Tick, EnrollAgent, StartWorkday, AgentBeat, AgentBeatServed,
                AgentBeatLost, BeatElsewhere, pages
  <2>2. \A t \in Tab : earned[t] \subseteq earned'[t]
    <3>1. CASE UNCHANGED earned
      BY <3>1
    <3>2. ASSUME NEW u \in User, Earn(u) PROVE \A t \in Tab : earned[t] \subseteq earned'[t]
      BY <3>2, EarnKeeps
    <3>3. (UNCHANGED earned) \/ (\E u \in User : Earn(u))
      BY <1>2 DEF Devices, Tick, EnrollAgent, StartWorkday, AgentBeat, AgentBeatServed,
                  AgentBeatLost, BeatElsewhere, pages
    <3> QED BY <3>1, <3>2, <3>3
  <2> QED BY <2>1, <2>2, NothingNewShown
<1>3. ASSUME NEW u \in User, BeatFind(u) PROVE Shown'
  <2>1. UNCHANGED <<wire, live, tab, earned>>
    BY <1>3 DEF BeatFind, pages
  <2>2. \A v \in User : beat'[v] = "updated" => beat[v] = "updated"
    BY <1>3 DEF BeatFind, TypeOK
  <2> QED BY <2>1, <2>2, NothingNewShown
<1>4. ASSUME NEW t \in Tab, FetchToken(t) \/ Refuse(t) \/ Disconnect(t) PROVE Shown'
  <2>1. UNCHANGED <<live, earned, beat>>
    BY <1>4 DEF FetchToken, Refuse, Disconnect
  <2>2. \A s \in Tab : wire'[s] \subseteq wire[s]
    BY <1>4 DEF FetchToken, Refuse, Disconnect, TypeOK
  <2>3. \A s \in Tab : tab'[s] # "none" => tab[s] # "none"
    BY <1>4 DEF FetchToken, Refuse, Disconnect, TypeOK
  <2> QED BY <2>1, <2>2, <2>3, NothingNewShown
<1>5. CASE Registry
  <2>1. UNCHANGED <<live, earned>>
    BY <1>5 DEF Registry, Handshake, CloseEvent, Restart, pages
  <2>2. \A t \in Tab : wire'[t] \subseteq wire[t]
    BY <1>5 DEF Registry, Handshake, CloseEvent, Restart, TypeOK
  <2>3. \A t \in Tab : tab'[t] # "none" => tab[t] # "none"
    BY <1>5 DEF Registry, Handshake, CloseEvent, Restart, TypeOK, pages
  <2>4. \A u \in User : beat'[u] = "updated" => beat[u] = "updated"
    BY <1>5 DEF Registry, Handshake, CloseEvent, Restart, TypeOK
  <2> QED BY <2>1, <2>2, <2>3, <2>4, NothingNewShown
<1> QED BY <1>1, <1>2, <1>3, <1>4, <1>5, BeatUpdatePreserves, BeatBroadcastPreserves,
           RenderPreserves, MessagePreserves, LeavePreserves DEF Next, Heartbeat, Page

LEMMA NothingUnderWayStep ==
  ASSUME TypeOK, NothingUnderWay, [Next]_vars
  PROVE  NothingUnderWay'
<1>1. CASE UNCHANGED <<wire, tab>>
  BY <1>1 DEF NothingUnderWay
<1>2. ASSUME NEW u \in User, BeatBroadcast(u) PROVE NothingUnderWay'
  BY <1>2 DEF BeatBroadcast, TypeOK, NothingUnderWay, pages
<1>3. CASE Page
  BY <1>3 DEF Page, Render, FetchToken, Refuse, Disconnect, Leave, Message, TypeOK, NothingUnderWay
<1>4. CASE Registry
  BY <1>4 DEF Registry, Handshake, CloseEvent, Restart, TypeOK, NothingUnderWay, pages
<1>5. CASE Devices
  BY <1>1, <1>5 DEF Devices, Tick, EnrollAgent, StartWorkday, AgentBeat, AgentBeatServed,
                    AgentBeatLost, BeatElsewhere, pages
<1>6. ASSUME NEW u \in User, BeatFind(u) \/ BeatUpdate(u) PROVE NothingUnderWay'
  BY <1>1, <1>6 DEF BeatFind, BeatUpdate, pages
<1> QED BY <1>1, <1>2, <1>3, <1>4, <1>5, <1>6 DEF Next, Heartbeat, vars, pages

-----------------------------------------------------------------------------
LEMMA LiveInvariant == Spec => []IInv
<1>1. IInv /\ [Next]_vars => IInv'
  BY TypeStep, RegisteredStep, ShownStep, NothingUnderWayStep DEF IInv
<1> QED BY <1>1, InitEstablishes, PTL DEF Spec

\* Devices, registry and pages keep their types: a lastSeenAt is an age or null, what the
\* registry and the close listeners refer to is a set of handles.
THEOREM LiveTypeCorrect == Spec => []TypeOK
<1>1. IInv => TypeOK
  BY DEF IInv
<1> QED BY <1>1, LiveInvariant, PTL

\* A page with an open socket is registered, in the set its close listener will take it out
\* of, and no entry outlives its sockets (ws.ts:59-72), whatever the number of pages and in
\* whatever order their connections, close events and restarts of the API come.
THEOREM OpenPagesAreRegistered == Spec => []RegisteredWhileOpen
<1>1. IInv => RegisteredWhileOpen
  BY DEF IInv, Registered
<1> QED BY <1>1, LiveInvariant, PTL

\* A page shows a worker as online only for a heartbeat within the cutoff of the snapshot, or
\* one written since the page was rendered (activity/index.ts:69-99, live-panel.tsx:33-69).
THEOREM NobodyIsShownUnseen == Spec => []ShownIsEarned
<1>1. IInv => ShownIsEarned
  BY DEF IInv, Shown
<1> QED BY <1>1, LiveInvariant, PTL
=============================================================================
