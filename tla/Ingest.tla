------------------------------- MODULE Ingest -------------------------------
(***************************************************************************)
(* The backend's work-session and activity-event tables, and the two       *)
(* groups of HTTP routes that write them: the desktop agent's routes       *)
(* (routes/ingest) and the browser's routes (routes/me).  Both end in the  *)
(* same services (services/agent.service.ts).                              *)
(*                                                                         *)
(* A handler runs in Node between awaits and Postgres executes each        *)
(* statement atomically, but nothing spans two statements: every query is  *)
(* therefore an action of its own and any number of requests interleave.   *)
(* A request is a record in `reqs' whose `pc' names the query it performs  *)
(* next.                                                                   *)
(*                                                                         *)
(* Client session ids are numbered in the order they are generated, which  *)
(* is the order of startedAt: both are drawn in the same statement.  The   *)
(* server's own session id is identified with the client session id, which *)
(* is unique in the table.                                                 *)
(***************************************************************************)
EXTENDS Naturals, FiniteSets

CONSTANTS
  User,          \* workers of one organisation
  AgentDevice,   \* devices enrolled for the desktop agent
  OwnerOf,       \* OwnerOf[d] is the worker an agent device is enrolled for
  Client,        \* callers that wait for the reply of a request
  NoClient,      \* the caller of a request nobody waits for any more
  NoUser,        \* the worker of a request or session that has none
  NoDevice,      \* the device of a request or session that has none
  Request,       \* slots for requests in flight
  Event,         \* client event ids
  EndTime,       \* endedAt timestamps a request may carry
  MaxSessions,   \* bound: client session ids generated
  MaxBrowsers    \* bound: browser devices created per worker

Csid == 1..MaxSessions
BrowserDevice == User \X (1..MaxBrowsers)
Device == AgentDevice \cup BrowserDevice

\* endedAt of a session that is still open.
NotEnded == 0

ASSUME IngestAssumption ==
  /\ OwnerOf \in [AgentDevice -> User]
  /\ MaxSessions \in Nat
  /\ MaxBrowsers \in Nat
  /\ EndTime \subseteq Nat \ {NotEnded}
  /\ NoClient \notin Client
  /\ NoUser \notin User
  /\ NoDevice \notin Device

VARIABLES
  issued,    \* number of client session ids generated so far
  browsers,  \* browsers[u]: number of browser devices created for worker u
  sessions,  \* the WorkSession table
  rows,      \* the ActivityEvent table: pairs <<session, client event id>>
  reqs       \* requests in flight

ingestVars == <<issued, browsers, sessions, rows, reqs>>

Session == [state : {"none", "active", "closed"}, user : User \cup {NoUser},
            device : Device \cup {NoDevice}, endedAt : EndTime \cup {NotEnded}]

NoSession ==
  [state |-> "none", user |-> NoUser, device |-> NoDevice, endedAt |-> NotEnded]

Kind == {"start", "end", "events", "meStart", "meEnd", "meEvents"}

\* The query a request performs next, or how it was answered.
Step == {"free", "parse", "findActive", "findBrowser", "createBrowser", "findCsid",
         "create", "findOwned", "close", "insert", "ok", "failed"}

RequestRecord ==
  [pc : Step, kind : Kind, client : Client \cup {NoClient}, user : User \cup {NoUser},
   device : Device \cup {NoDevice}, csid : Csid \cup {0}, at : EndTime \cup {NotEnded},
   batch : SUBSET Event, malformed : BOOLEAN]

Free ==
  [pc |-> "free", kind |-> "start", client |-> NoClient, user |-> NoUser,
   device |-> NoDevice, csid |-> 0, at |-> NotEnded, batch |-> {}, malformed |-> FALSE]

IngestTypeOK ==
  /\ issued \in 0..MaxSessions
  /\ browsers \in [User -> 0..MaxBrowsers]
  /\ sessions \in [Csid -> Session]
  /\ rows \subseteq Csid \X Event
  /\ reqs \in [Request -> RequestRecord]

IngestInit ==
  /\ issued = 0
  /\ browsers = [u \in User |-> 0]
  /\ sessions = [c \in Csid |-> NoSession]
  /\ rows = {}
  /\ reqs = [r \in Request |-> Free]
-----------------------------------------------------------------------------
(* Requests as the clients send them.                                      *)

AgentStart(cl, d, c) ==
  [Free EXCEPT !.pc = "findCsid", !.kind = "start", !.client = cl,
               !.user = OwnerOf[d], !.device = d, !.csid = c]

AgentEnd(cl, d, c, t) ==
  [Free EXCEPT !.pc = "findOwned", !.kind = "end", !.client = cl,
               !.user = OwnerOf[d], !.device = d, !.csid = c, !.at = t]

AgentEvents(cl, d, c, B, bad) ==
  [Free EXCEPT !.pc = "parse", !.kind = "events", !.client = cl,
               !.user = OwnerOf[d], !.device = d, !.csid = c, !.batch = B,
               !.malformed = bad]

MeStart(cl, u) ==
  [Free EXCEPT !.pc = "findActive", !.kind = "meStart", !.client = cl, !.user = u]

MeEnd(cl, u, t) ==
  [Free EXCEPT !.pc = "findActive", !.kind = "meEnd", !.client = cl, !.user = u,
               !.at = t]

MeEvents(cl, u, B, bad) ==
  [Free EXCEPT !.pc = "parse", !.kind = "meEvents", !.client = cl, !.user = u,
               !.batch = B, !.malformed = bad]

\* A client that already waits for a reply sends no second request.
Waiting(cl) == \E r \in Request : reqs[r].client = cl

Send(r, q) ==
  /\ reqs[r].pc = "free"
  /\ q.client = NoClient \/ ~Waiting(q.client)
  /\ reqs' = [reqs EXCEPT ![r] = q]
  /\ UNCHANGED <<issued, browsers, sessions, rows>>

Continue(r, q) == reqs' = [reqs EXCEPT ![r] = q]

\* The reply is kept while its client waits and is lost otherwise.
Finish(r, q, outcome) ==
  Continue(r, IF q.client = NoClient THEN Free ELSE [q EXCEPT !.pc = outcome])

InFlight(r) == reqs[r].pc \notin {"free", "ok", "failed"}
-----------------------------------------------------------------------------
(* The handlers, one query at a time.                                      *)

\* eventBatchRequest.parse / eventsBody.parse: one malformed event refuses the batch.
ParseBody(r) ==
  LET q == reqs[r] IN
  /\ q.pc = "parse"
  /\ IF q.malformed
       THEN Finish(r, q, "failed")
       ELSE Continue(r, [q EXCEPT !.pc = IF q.kind = "events" THEN "findOwned"
                                                              ELSE "findActive"])
  /\ UNCHANGED <<issued, browsers, sessions, rows>>

\* The open sessions of a worker, on whatever device they were started.
ActiveSessions(u) == {c \in Csid : sessions[c].state = "active" /\ sessions[c].user = u}

\* routes/me: findFirst over the worker's open sessions, latest startedAt first.
FindActive(r) ==
  LET q == reqs[r]
      A == ActiveSessions(q.user)
  IN
  /\ q.pc = "findActive"
  /\ \/ /\ A = {}
        /\ CASE q.kind = "meStart" -> Continue(r, [q EXCEPT !.pc = "findBrowser"])
             [] q.kind = "meEnd"   -> Finish(r, q, "ok")
             [] OTHER              -> Finish(r, q, "failed")
     \/ \E c \in A :
          /\ \A b \in A : b <= c
          /\ LET found == [q EXCEPT !.csid = c, !.device = sessions[c].device]
             IN IF q.kind = "meStart"
                  THEN Finish(r, found, "ok")
                  ELSE Continue(r, [found EXCEPT !.pc = "findOwned"])
  /\ UNCHANGED <<issued, browsers, sessions, rows>>

\* startSession is called with a client session id drawn for this very request.
BeginStart(r, q, d) ==
  /\ issued < MaxSessions
  /\ issued' = issued + 1
  /\ Continue(r, [q EXCEPT !.pc = "findCsid", !.device = d, !.csid = issued + 1])

\* getOrCreateBrowserDevice, first half: the latest browser device, if there is one.
FindBrowserDevice(r) ==
  LET q == reqs[r] IN
  /\ q.pc = "findBrowser"
  /\ \/ /\ browsers[q.user] > 0
        /\ BeginStart(r, q, <<q.user, browsers[q.user]>>)
     \/ /\ browsers[q.user] = 0
        /\ Continue(r, [q EXCEPT !.pc = "createBrowser"])
        /\ UNCHANGED issued
  /\ UNCHANGED <<browsers, sessions, rows>>

\* getOrCreateBrowserDevice, second half: nothing makes the hostname unique.
CreateBrowserDevice(r) ==
  LET q == reqs[r] IN
  /\ q.pc = "createBrowser"
  /\ browsers[q.user] < MaxBrowsers
  /\ browsers' = [browsers EXCEPT ![q.user] = @ + 1]
  /\ BeginStart(r, q, <<q.user, browsers[q.user] + 1>>)
  /\ UNCHANGED <<sessions, rows>>

\* Whether the row a query found belongs to the caller's worker and device.
Owns(q, s) == s.user = q.user /\ s.device = q.device

\* Mutant: whoever presents the id gets the session.
FindByClientSessionIdOfAnyone(r) ==
  LET q == reqs[r] IN
  /\ q.pc = "findCsid"
  /\ IF sessions[q.csid].state = "none" THEN Continue(r, [q EXCEPT !.pc = "create"])
                                        ELSE Finish(r, q, "ok")
  /\ UNCHANGED <<issued, browsers, sessions, rows>>

\* startSession, findUnique on clientSessionId: an existing session is returned as it
\* is, open or closed, to its owner and refused to everybody else.
FindByClientSessionId(r) ==
  LET q == reqs[r]
      s == sessions[q.csid]
  IN
  /\ q.pc = "findCsid"
  /\ \/ /\ s.state = "none"
        /\ Continue(r, [q EXCEPT !.pc = "create"])
     \/ /\ s.state # "none"
        /\ Finish(r, q, IF Owns(q, s) THEN "ok" ELSE "failed")
  /\ UNCHANGED <<issued, browsers, sessions, rows>>

\* Mutant: an upsert that opens the session again.
UpsertSession(r) ==
  LET q == reqs[r] IN
  /\ q.pc = "create"
  /\ sessions' = [sessions EXCEPT ![q.csid] =
                    [state |-> "active", user |-> q.user, device |-> q.device,
                     endedAt |-> NotEnded]]
  /\ Finish(r, q, "ok")
  /\ UNCHANGED <<issued, browsers, rows>>

\* startSession, create: the unique index refuses a second row with the same id.
CreateSession(r) ==
  LET q == reqs[r] IN
  /\ q.pc = "create"
  /\ \/ /\ sessions[q.csid].state = "none"
        /\ sessions' = [sessions EXCEPT ![q.csid] =
                          [state |-> "active", user |-> q.user, device |-> q.device,
                           endedAt |-> NotEnded]]
        /\ Finish(r, q, "ok")
     \/ /\ sessions[q.csid].state # "none"
        /\ Finish(r, q, "failed")
        /\ UNCHANGED sessions
  /\ UNCHANGED <<issued, browsers, rows>>

\* endSession and ingestEvents, findFirst on id, user and device.
FindOwned(r) ==
  LET q == reqs[r]
      s == sessions[q.csid]
  IN
  /\ q.pc = "findOwned"
  /\ IF s.state = "none" \/ ~Owns(q, s)
       THEN Finish(r, q, "failed")
       ELSE IF q.kind \in {"end", "meEnd"}
              THEN IF s.endedAt # NotEnded
                     THEN Finish(r, q, "ok")
                     ELSE Continue(r, [q EXCEPT !.pc = "close"])
              ELSE IF s.state = "closed"
                     THEN Finish(r, q, "failed")
                     ELSE Continue(r, [q EXCEPT !.pc = "insert"])
  /\ UNCHANGED <<issued, browsers, sessions, rows>>

\* Mutants: the update forgets the state, forgets the end, or writes another state.
CloseWithoutState(r) ==
  /\ reqs[r].pc = "close"
  /\ sessions' = [sessions EXCEPT ![reqs[r].csid].endedAt = reqs[r].at]
  /\ Finish(r, reqs[r], "ok")
  /\ UNCHANGED <<issued, browsers, rows>>

CloseWithoutEnd(r) ==
  /\ reqs[r].pc = "close"
  /\ sessions' = [sessions EXCEPT ![reqs[r].csid].state = "closed"]
  /\ Finish(r, reqs[r], "ok")
  /\ UNCHANGED <<issued, browsers, rows>>

CloseAsOrphaned(r) ==
  /\ reqs[r].pc = "close"
  /\ sessions' = [sessions EXCEPT ![reqs[r].csid].state = "orphaned",
                                  ![reqs[r].csid].endedAt = reqs[r].at]
  /\ Finish(r, reqs[r], "ok")
  /\ UNCHANGED <<issued, browsers, rows>>

\* endSession, update by id: nothing in the WHERE clause asks whether it is still open.
CloseSession(r) ==
  LET q == reqs[r] IN
  /\ q.pc = "close"
  /\ sessions' = [sessions EXCEPT ![q.csid].state = "closed",
                                  ![q.csid].endedAt = q.at]
  /\ Finish(r, q, "ok")
  /\ UNCHANGED <<issued, browsers, rows>>

\* Mutant: events are unique by their client event id alone.
InsertUnlessAnywhere(r) ==
  LET q == reqs[r] IN
  /\ q.pc = "insert"
  /\ rows' = rows \cup {<<q.csid, e>> : e \in {e \in q.batch : \A c \in Csid : <<c, e>> \notin rows}}
  /\ Finish(r, q, "ok")
  /\ UNCHANGED <<issued, browsers, sessions>>

\* ingestEvents, createMany with skipDuplicates.
InsertRows(r) ==
  LET q == reqs[r] IN
  /\ q.pc = "insert"
  /\ rows' = rows \cup {<<q.csid, e>> : e \in q.batch}
  /\ Finish(r, q, "ok")
  /\ UNCHANGED <<issued, browsers, sessions>>
-----------------------------------------------------------------------------
(* The network and the clients.                                            *)

\* The request or its reply is lost, or the server process dies while it handles it.
Lose(r) ==
  /\ InFlight(r) \/ reqs[r].pc = "ok"
  /\ Finish(r, reqs[r], "failed")
  /\ UNCHANGED <<issued, browsers, sessions, rows>>

\* A client stops waiting; the server keeps working on the request.
Abandon(r) ==
  IF InFlight(r) THEN [reqs EXCEPT ![r].client = NoClient]
                 ELSE [reqs EXCEPT ![r] = Free]

GiveUp(r) ==
  /\ reqs[r].client # NoClient
  /\ reqs' = Abandon(r)
  /\ UNCHANGED <<issued, browsers, sessions, rows>>

Receive(r) ==
  /\ reqs[r].pc \in {"ok", "failed"}
  /\ reqs' = [reqs EXCEPT ![r] = Free]
  /\ UNCHANGED <<issued, browsers, sessions, rows>>

\* A desktop agent begins a workday: it draws the client session id by itself.
NewClientSession ==
  /\ issued < MaxSessions
  /\ issued' = issued + 1
  /\ UNCHANGED <<browsers, sessions, rows, reqs>>

Serve(r) ==
  \/ ParseBody(r)
  \/ FindActive(r)
  \/ FindBrowserDevice(r)
  \/ CreateBrowserDevice(r)
  \/ FindByClientSessionId(r)
  \/ CreateSession(r)
  \/ FindOwned(r)
  \/ CloseSession(r)
  \/ InsertRows(r)

Caller == Client \cup {NoClient}

\* Any client may send any well-typed request; it knows only ids that were drawn.
SendAny(r) ==
  \E cl \in Caller :
    \/ \E d \in AgentDevice, c \in 1..issued :
         \/ Send(r, AgentStart(cl, d, c))
         \/ \E t \in EndTime : Send(r, AgentEnd(cl, d, c, t))
         \/ \E B \in (SUBSET Event) \ {{}}, bad \in BOOLEAN : Send(r, AgentEvents(cl, d, c, B, bad))
    \/ \E u \in User :
         \/ Send(r, MeStart(cl, u))
         \/ \E t \in EndTime : Send(r, MeEnd(cl, u, t))
         \/ \E B \in (SUBSET Event) \ {{}}, bad \in BOOLEAN : Send(r, MeEvents(cl, u, B, bad))

IngestNext ==
  \/ NewClientSession
  \/ \E r \in Request : SendAny(r) \/ Serve(r) \/ Lose(r) \/ GiveUp(r) \/ Receive(r)

IngestSpec == IngestInit /\ [][IngestNext]_ingestVars
-----------------------------------------------------------------------------
(* Properties.                                                             *)

\* A client that is told `ok' may rely on it whatever else ran in between.  A started
\* session is in the table under the caller's worker and device.
StartReplySound ==
  \A r \in Request :
    LET q == reqs[r] IN
    q.pc = "ok" /\ q.kind = "start"
      => sessions[q.csid].state # "none" /\ Owns(q, sessions[q.csid])

\* The session an `end' or a Stop Workday was acknowledged for is closed, and stays so.
EndReplySound ==
  \A r \in Request :
    LET q == reqs[r] IN
    q.pc = "ok" /\ q.kind \in {"end", "meEnd"} /\ q.csid # 0
      => sessions[q.csid].state = "closed"

\* Every event of an acknowledged batch is stored under the session of the request, and
\* that session belongs to the caller.
EventsReplySound ==
  \A r \in Request :
    LET q == reqs[r] IN
    q.pc = "ok" /\ q.kind \in {"events", "meEvents"}
      => /\ Owns(q, sessions[q.csid])
         /\ \A e \in q.batch : <<q.csid, e>> \in rows

\* A session never changes hands and never reopens, and no stored event disappears:
\* neither a repeated start nor a late request of another caller undoes what is there.
TablesMonotone ==
  [][/\ rows \subseteq rows'
     /\ \A c \in Csid :
          sessions[c].state # "none" =>
            /\ sessions'[c].user = sessions[c].user
            /\ sessions'[c].device = sessions[c].device
            /\ sessions[c].state = "closed" => sessions'[c].state = "closed"]_ingestVars

\* `endedAt' and `state' agree although they are read separately: an open session has no
\* end, a closed one has.
EndedIffClosed ==
  \A c \in Csid : sessions[c].state = "closed" <=> sessions[c].endedAt # NotEnded
=============================================================================
