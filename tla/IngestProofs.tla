---------------------------- MODULE IngestProofs ----------------------------
(***************************************************************************)
(* Type correctness of the ingest service and soundness of its replies,    *)
(* for every number of workers, devices, clients, requests and events.     *)
(***************************************************************************)
EXTENDS Ingest, TLAPS

(***************************************************************************)
(* The inductive invariant.  A reply is sound because of what the request  *)
(* has seen on its way: once it is past the lookup of its session, the     *)
(* session is there and belongs to the caller, and neither can change.     *)
(* The invariant of one request is a predicate on the request and the two  *)
(* tables, so that it can be carried over a step that only grows them.     *)
(***************************************************************************)

\* Which kinds of request reach which query, and what they know there.
OnItsWay(q) ==
  /\ q.pc \in {"findCsid", "create"} => q.kind \in {"start", "meStart"} /\ q.csid # 0
  /\ q.pc \in {"findBrowser", "createBrowser"} => q.kind = "meStart"
  /\ q.pc = "findOwned" =>
       q.kind \in {"end", "meEnd", "events", "meEvents"} /\ q.csid # 0
  /\ q.pc = "parse" => q.kind \in {"events", "meEvents"}
  /\ q.pc = "parse" /\ q.kind = "events" => q.csid # 0
  /\ q.pc = "findActive" => q.kind \in {"meStart", "meEnd", "meEvents"}
  /\ q.pc \in {"findActive", "findBrowser", "createBrowser"} => q.user \in User /\ q.csid = 0
  /\ q.pc = "parse" /\ q.kind = "meEvents" => q.user \in User /\ q.csid = 0
  /\ q.pc = "close" => q.kind \in {"end", "meEnd"}
  /\ q.pc = "insert" => q.kind \in {"events", "meEvents"}
  /\ q.kind \in {"end", "meEnd"} => q.at # NotEnded

\* What a request may rely on past the lookup of its session and after its reply.
Relies(q, S, R) ==
  /\ q.pc \in {"close", "insert"} \/ (q.pc = "ok" /\ q.kind \in {"start", "events", "meEvents"})
       => q.csid # 0 /\ S[q.csid].state # "none" /\ Owns(q, S[q.csid])
  /\ q.pc = "ok" /\ q.kind \in {"end", "meEnd"} /\ q.csid # 0
       => S[q.csid].state = "closed"
  /\ q.pc = "ok" /\ q.kind \in {"events", "meEvents"}
       => \A e \in q.batch : <<q.csid, e>> \in R

RequestOK(q, S, R) == OnItsWay(q) /\ Relies(q, S, R)

IngestInv ==
  /\ IngestTypeOK
  /\ EndedIffClosed
  /\ \A r \in Request : RequestOK(reqs[r], sessions, rows)

\* The tables only grow: TablesMonotone for one step.
Grows ==
  /\ rows \subseteq rows'
  /\ \A c \in Csid :
       sessions[c].state # "none" =>
         /\ sessions'[c].state # "none"
         /\ sessions'[c].user = sessions[c].user
         /\ sessions'[c].device = sessions[c].device
         /\ sessions[c].state = "closed" => sessions'[c].state = "closed"

\* A request keeps relying on what it saw while the tables grow.
LEMMA ReliesStable ==
  ASSUME NEW q \in RequestRecord, Grows, RequestOK(q, sessions, rows)
  PROVE  RequestOK(q, sessions', rows')
<1>1. q.csid \in Csid \/ q.csid = 0
  BY DEF RequestRecord
<1> QED BY <1>1 DEF RequestOK, Relies, Grows, Owns

\* A step that replaces one request, and lets the tables grow, preserves the requests.
LEMMA OneRequest ==
  ASSUME IngestInv, Grows, NEW r \in Request, NEW q \in RequestRecord,
         reqs' = [reqs EXCEPT ![r] = q], RequestOK(q, sessions', rows')
  PROVE  /\ reqs' \in [Request -> RequestRecord]
         /\ \A x \in Request : RequestOK(reqs'[x], sessions', rows')
<1>1. reqs' \in [Request -> RequestRecord]
  BY DEF IngestInv, IngestTypeOK
<1>2. ASSUME NEW x \in Request PROVE RequestOK(reqs'[x], sessions', rows')
  <2>1. CASE x = r
    BY <2>1 DEF IngestInv, IngestTypeOK
  <2>2. CASE x # r
    <3>1. reqs'[x] = reqs[x] /\ reqs[x] \in RequestRecord
      BY <2>2 DEF IngestInv, IngestTypeOK
    <3>2. RequestOK(reqs[x], sessions, rows)
      BY DEF IngestInv
    <3> QED BY <3>1, <3>2, ReliesStable
  <2> QED BY <2>1, <2>2
<1> QED BY <1>1, <1>2

\* A free slot relies on nothing.
LEMMA FreeOK ==
  ASSUME NEW S, NEW R
  PROVE  Free \in RequestRecord /\ RequestOK(Free, S, R)
<1>1. Free \in RequestRecord
  BY DEF Free, RequestRecord, Step, Kind, NotEnded
<1>2. RequestOK(Free, S, R)
  BY DEF Free, RequestOK, OnItsWay, Relies
<1> QED BY <1>1, <1>2

\* Steps that leave the tables alone let them grow.
LEMMA UnchangedGrows == UNCHANGED <<sessions, rows>> => Grows
BY DEF Grows

\* Finishing a request: as a record, and as an invariant.
LEMMA FinishOK ==
  ASSUME IngestInv, Grows, NEW r \in Request, NEW q \in RequestRecord,
         NEW outcome \in {"ok", "failed"}, Finish(r, q, outcome),
         RequestOK([q EXCEPT !.pc = outcome], sessions', rows')
  PROVE  /\ reqs' \in [Request -> RequestRecord]
         /\ \A x \in Request : RequestOK(reqs'[x], sessions', rows')
<1>1. [q EXCEPT !.pc = outcome] \in RequestRecord
  BY DEF RequestRecord, Step
<1>2. CASE q.client = NoClient
  <2>1. reqs' = [reqs EXCEPT ![r] = Free]
    BY <1>2 DEF Finish, Continue
  <2> QED BY <2>1, OneRequest, FreeOK
<1>3. CASE q.client # NoClient
  <2>1. reqs' = [reqs EXCEPT ![r] = [q EXCEPT !.pc = outcome]]
    BY <1>3 DEF Finish, Continue
  <2> QED BY <1>1, <2>1, OneRequest
<1> QED BY <1>2, <1>3

\* A failed request relies on nothing.
LEMMA FailedOK ==
  ASSUME NEW q \in RequestRecord, OnItsWay(q), NEW S, NEW R
  PROVE  RequestOK([q EXCEPT !.pc = "failed"], S, R)
BY DEF RequestRecord, RequestOK, OnItsWay, Relies
-----------------------------------------------------------------------------
(* The handlers.                                                           *)

LEMMA ParseBodyOK ==
  ASSUME IngestInv, NEW r \in Request, ParseBody(r)
  PROVE  IngestInv'
<1> DEFINE q == reqs[r]
<1>1. q \in RequestRecord /\ RequestOK(q, sessions, rows) /\ Grows
  BY UnchangedGrows DEF IngestInv, IngestTypeOK, ParseBody
<1>2. CASE q.malformed
  <2>1. RequestOK([q EXCEPT !.pc = "failed"], sessions', rows')
    BY <1>1, FailedOK DEF RequestOK
  <2>2. Finish(r, q, "failed")
    BY <1>2 DEF ParseBody
  <2> QED BY <1>1, <2>1, <2>2, FinishOK DEF IngestInv, IngestTypeOK, EndedIffClosed, ParseBody
<1>3. CASE ~q.malformed
  <2> DEFINE n == [q EXCEPT !.pc = IF q.kind = "events" THEN "findOwned" ELSE "findActive"]
  <2>1. reqs' = [reqs EXCEPT ![r] = n]
    BY <1>3 DEF ParseBody, Continue
  <2>2. n \in RequestRecord
    BY <1>1 DEF RequestRecord, Step
  <2>3. RequestOK(n, sessions', rows')
    BY <1>1 DEF RequestOK, OnItsWay, Relies, ParseBody, RequestRecord
  <2> QED BY <1>1, <2>1, <2>2, <2>3, OneRequest
      DEF IngestInv, IngestTypeOK, EndedIffClosed, ParseBody
<1> QED BY <1>1, <1>2, <1>3 DEF RequestRecord

LEMMA FindActiveOK ==
  ASSUME IngestInv, NEW r \in Request, FindActive(r)
  PROVE  IngestInv'
<1> DEFINE q == reqs[r]
<1>1. q \in RequestRecord /\ RequestOK(q, sessions, rows) /\ Grows
  BY UnchangedGrows DEF IngestInv, IngestTypeOK, FindActive
<1>2. SUFFICES /\ reqs' \in [Request -> RequestRecord]
               /\ \A x \in Request : RequestOK(reqs'[x], sessions', rows')
  BY DEF IngestInv, IngestTypeOK, EndedIffClosed, FindActive
<1>3. CASE ActiveSessions(q.user) = {} /\ q.kind = "meStart"
  <2> DEFINE n == [q EXCEPT !.pc = "findBrowser"]
  <2>1. reqs' = [reqs EXCEPT ![r] = n]
    BY <1>3 DEF FindActive, Continue
  <2>2. n \in RequestRecord
    BY <1>1 DEF RequestRecord, Step
  <2>3. RequestOK(n, sessions', rows')
    BY <1>1, <1>3 DEF RequestOK, OnItsWay, Relies, FindActive, RequestRecord
  <2> QED BY <1>1, <2>1, <2>2, <2>3, OneRequest
<1>4. CASE ActiveSessions(q.user) = {} /\ q.kind = "meEnd"
  <2>1. Finish(r, q, "ok")
    BY <1>4 DEF FindActive
  <2>2. RequestOK([q EXCEPT !.pc = "ok"], sessions', rows')
    BY <1>1, <1>4 DEF RequestOK, OnItsWay, Relies, FindActive, RequestRecord
  <2> QED BY <1>1, <2>1, <2>2, FinishOK
<1>5. CASE ActiveSessions(q.user) = {} /\ q.kind = "meEvents"
  <2>1. Finish(r, q, "failed")
    BY <1>5 DEF FindActive
  <2>2. RequestOK([q EXCEPT !.pc = "failed"], sessions', rows')
    BY <1>1, FailedOK DEF RequestOK
  <2> QED BY <1>1, <2>1, <2>2, FinishOK
<1>6. CASE ActiveSessions(q.user) # {}
  <2> PICK c \in ActiveSessions(q.user) :
        LET found == [q EXCEPT !.csid = c, !.device = sessions[c].device]
        IN IF q.kind = "meStart"
             THEN Finish(r, found, "ok")
             ELSE Continue(r, [found EXCEPT !.pc = "findOwned"])
    BY <1>6 DEF FindActive
  <2> DEFINE found == [q EXCEPT !.csid = c, !.device = sessions[c].device]
  <2>1. c \in Csid /\ c # 0 /\ sessions[c] \in Session /\ sessions[c].user = q.user
    BY DEF ActiveSessions, IngestInv, IngestTypeOK, Csid
  <2>2. found \in RequestRecord /\ found.kind = q.kind /\ found.csid = c
    BY <1>1, <2>1 DEF RequestRecord, Session
  <2>3. CASE q.kind = "meStart"
    <3>1. RequestOK([found EXCEPT !.pc = "ok"], sessions', rows')
      BY <1>1, <2>2, <2>3 DEF RequestOK, OnItsWay, Relies, RequestRecord
    <3> QED BY <1>1, <2>2, <2>3, <3>1, FinishOK
  <2>4. CASE q.kind # "meStart"
    <3> DEFINE n == [found EXCEPT !.pc = "findOwned"]
    <3>1. n \in RequestRecord
      BY <2>2 DEF RequestRecord, Step
    <3>2. q.kind \in {"meEnd", "meEvents"}
      BY <1>1, <2>4 DEF RequestOK, OnItsWay, FindActive
    <3>3. RequestOK(n, sessions', rows')
      BY <1>1, <2>1, <2>2, <3>2 DEF RequestOK, OnItsWay, Relies, RequestRecord
    <3>4. reqs' = [reqs EXCEPT ![r] = n]
      BY <2>4 DEF Continue
    <3> QED BY <1>1, <3>1, <3>3, <3>4, OneRequest
  <2> QED BY <2>3, <2>4
<1>7. q.kind \in {"meStart", "meEnd", "meEvents"}
  BY <1>1 DEF FindActive, RequestOK, OnItsWay
<1> QED BY <1>3, <1>4, <1>5, <1>6, <1>7

\* startSession is called for a device of the caller with a fresh client session id.
LEMMA BeginStartOK ==
  ASSUME IngestInv, NEW r \in Request, NEW d \in Device,
         reqs[r].kind = "meStart", BeginStart(r, reqs[r], d),
         UNCHANGED <<sessions, rows>>, browsers' \in [User -> 0..MaxBrowsers]
  PROVE  IngestInv'
<1> DEFINE q == reqs[r]
           n == [q EXCEPT !.pc = "findCsid", !.device = d, !.csid = issued + 1]
<1>1. q \in RequestRecord /\ RequestOK(q, sessions, rows) /\ Grows
  BY UnchangedGrows DEF IngestInv, IngestTypeOK
<1>2. issued' \in 0..MaxSessions /\ issued + 1 \in Csid /\ issued + 1 # 0
  BY IngestAssumption DEF IngestInv, IngestTypeOK, BeginStart, Csid
<1>3. n \in RequestRecord
  BY <1>1, <1>2 DEF RequestRecord, Step
<1>4. n.pc = "findCsid" /\ n.kind = "meStart" /\ n.csid # 0 /\ n.at = q.at
  BY <1>1, <1>2 DEF RequestRecord
<1>5. RequestOK(n, sessions', rows')
  BY <1>4 DEF RequestOK, OnItsWay, Relies
<1>6. reqs' = [reqs EXCEPT ![r] = n]
  BY DEF BeginStart, Continue
<1> QED BY <1>1, <1>2, <1>3, <1>5, <1>6, OneRequest DEF IngestInv, IngestTypeOK, EndedIffClosed

LEMMA FindBrowserDeviceOK ==
  ASSUME IngestInv, NEW r \in Request, FindBrowserDevice(r)
  PROVE  IngestInv'
<1> DEFINE q == reqs[r]
<1>1. q \in RequestRecord /\ RequestOK(q, sessions, rows) /\ Grows
  BY UnchangedGrows DEF IngestInv, IngestTypeOK, FindBrowserDevice
<1>2. q.kind = "meStart" /\ q.user \in User /\ q.csid = 0
  BY <1>1 DEF RequestOK, OnItsWay, FindBrowserDevice
<1>3. CASE browsers[q.user] > 0
  <2>1. browsers[q.user] \in 1..MaxBrowsers
    BY <1>2, <1>3, IngestAssumption DEF IngestInv, IngestTypeOK
  <2>2. <<q.user, browsers[q.user]>> \in Device
    BY <1>2, <2>1 DEF Device, BrowserDevice
  <2>3. BeginStart(r, reqs[r], <<q.user, browsers[q.user]>>)
    BY <1>3 DEF FindBrowserDevice
  <2> QED BY <1>2, <2>2, <2>3, BeginStartOK DEF FindBrowserDevice, IngestInv, IngestTypeOK
<1>4. CASE ~(browsers[q.user] > 0)
  <2> DEFINE n == [q EXCEPT !.pc = "createBrowser"]
  <2>1. reqs' = [reqs EXCEPT ![r] = n] /\ UNCHANGED issued
    BY <1>4 DEF FindBrowserDevice, Continue
  <2>2. n \in RequestRecord
    BY <1>1 DEF RequestRecord, Step
  <2>3. RequestOK(n, sessions', rows')
    BY <1>1, <1>2 DEF RequestOK, OnItsWay, Relies, RequestRecord
  <2> QED BY <1>1, <2>1, <2>2, <2>3, OneRequest
      DEF IngestInv, IngestTypeOK, EndedIffClosed, FindBrowserDevice
<1> QED BY <1>3, <1>4

LEMMA CreateBrowserDeviceOK ==
  ASSUME IngestInv, NEW r \in Request, CreateBrowserDevice(r)
  PROVE  IngestInv'
<1> DEFINE q == reqs[r]
<1>1. q.kind = "meStart" /\ q.user \in User
  BY DEF RequestOK, OnItsWay, CreateBrowserDevice, IngestInv
<1>2. browsers[q.user] + 1 \in 1..MaxBrowsers
  BY <1>1, IngestAssumption DEF IngestInv, IngestTypeOK, CreateBrowserDevice
<1>3. <<q.user, browsers[q.user] + 1>> \in Device
  BY <1>1, <1>2 DEF Device, BrowserDevice
<1>4. browsers' \in [User -> 0..MaxBrowsers]
  BY <1>1, <1>2, IngestAssumption DEF CreateBrowserDevice, IngestInv, IngestTypeOK
<1>5. BeginStart(r, reqs[r], <<q.user, browsers[q.user] + 1>>)
  BY DEF CreateBrowserDevice
<1> QED BY <1>1, <1>3, <1>4, <1>5, BeginStartOK DEF CreateBrowserDevice

LEMMA FindByClientSessionIdOK ==
  ASSUME IngestInv, NEW r \in Request, FindByClientSessionId(r)
  PROVE  IngestInv'
<1> DEFINE q == reqs[r]
<1>1. q \in RequestRecord /\ RequestOK(q, sessions, rows) /\ Grows
  BY UnchangedGrows DEF IngestInv, IngestTypeOK, FindByClientSessionId
<1>2. SUFFICES /\ reqs' \in [Request -> RequestRecord]
               /\ \A x \in Request : RequestOK(reqs'[x], sessions', rows')
  BY DEF IngestInv, IngestTypeOK, EndedIffClosed, FindByClientSessionId
<1>3. q.kind \in {"start", "meStart"} /\ q.csid # 0
  BY <1>1 DEF FindByClientSessionId, RequestOK, OnItsWay
<1>4. CASE sessions[q.csid].state = "none"
  <2> DEFINE n == [q EXCEPT !.pc = "create"]
  <2>1. reqs' = [reqs EXCEPT ![r] = n]
    BY <1>4 DEF FindByClientSessionId, Continue
  <2>2. n \in RequestRecord
    BY <1>1 DEF RequestRecord, Step
  <2>3. RequestOK(n, sessions', rows')
    BY <1>1, <1>3 DEF RequestOK, OnItsWay, Relies, RequestRecord
  <2> QED BY <1>1, <2>1, <2>2, <2>3, OneRequest
<1>5. CASE sessions[q.csid].state # "none" /\ Owns(q, sessions[q.csid])
  <2>1. Finish(r, q, "ok")
    BY <1>5 DEF FindByClientSessionId
  <2>2. RequestOK([q EXCEPT !.pc = "ok"], sessions', rows')
    BY <1>1, <1>3, <1>5
    DEF RequestOK, OnItsWay, Relies, RequestRecord, Owns, FindByClientSessionId
  <2> QED BY <1>1, <2>1, <2>2, FinishOK
<1>6. CASE sessions[q.csid].state # "none" /\ ~Owns(q, sessions[q.csid])
  <2>1. Finish(r, q, "failed")
    BY <1>6 DEF FindByClientSessionId
  <2>2. RequestOK([q EXCEPT !.pc = "failed"], sessions', rows')
    BY <1>1, FailedOK DEF RequestOK
  <2> QED BY <1>1, <2>1, <2>2, FinishOK
<1> QED BY <1>4, <1>5, <1>6

LEMMA CreateSessionOK ==
  ASSUME IngestInv, NEW r \in Request, CreateSession(r)
  PROVE  IngestInv' /\ Grows
<1> DEFINE q == reqs[r]
<1>1. q \in RequestRecord /\ RequestOK(q, sessions, rows)
  BY DEF IngestInv, IngestTypeOK
<1>2. q.kind \in {"start", "meStart"} /\ q.csid \in Csid /\ q.csid # 0
  BY <1>1 DEF CreateSession, RequestOK, OnItsWay, RequestRecord
<1>3. CASE sessions[q.csid].state = "none"
  <2> DEFINE s == [state |-> "active", user |-> q.user, device |-> q.device,
                   endedAt |-> NotEnded]
  <2>1. sessions' = [sessions EXCEPT ![q.csid] = s] /\ Finish(r, q, "ok")
    BY <1>3 DEF CreateSession
  <2>2. s \in Session
    BY <1>1 DEF Session, RequestRecord
  <2>3. sessions' \in [Csid -> Session] /\ EndedIffClosed'
    BY <2>1, <2>2, <1>2 DEF IngestInv, IngestTypeOK, EndedIffClosed
  <2>4. Grows
    BY <1>2, <1>3, <2>1 DEF Grows, CreateSession, IngestInv, IngestTypeOK
  <2>5. RequestOK([q EXCEPT !.pc = "ok"], sessions', rows')
    <3>1. sessions'[q.csid] = s
      BY <1>2, <2>1 DEF IngestInv, IngestTypeOK
    <3> QED BY <1>1, <1>2, <3>1 DEF RequestOK, OnItsWay, Relies, RequestRecord, Owns
  <2>6. /\ reqs' \in [Request -> RequestRecord]
        /\ \A x \in Request : RequestOK(reqs'[x], sessions', rows')
    BY <1>1, <2>1, <2>4, <2>5, FinishOK
  <2> QED BY <2>3, <2>4, <2>6 DEF IngestInv, IngestTypeOK, CreateSession
<1>4. CASE sessions[q.csid].state # "none"
  <2>1. Finish(r, q, "failed") /\ UNCHANGED <<sessions, rows>> /\ Grows
    BY <1>4, UnchangedGrows DEF CreateSession
  <2>2. RequestOK([q EXCEPT !.pc = "failed"], sessions', rows')
    BY <1>1, FailedOK DEF RequestOK
  <2> QED BY <1>1, <2>1, <2>2, FinishOK DEF IngestInv, IngestTypeOK, EndedIffClosed, CreateSession
<1> QED BY <1>3, <1>4

LEMMA FindOwnedOK ==
  ASSUME IngestInv, NEW r \in Request, FindOwned(r)
  PROVE  IngestInv'
<1> DEFINE q == reqs[r]
           s == sessions[q.csid]
<1>1. q \in RequestRecord /\ RequestOK(q, sessions, rows) /\ Grows
  BY UnchangedGrows DEF IngestInv, IngestTypeOK, FindOwned
<1>2. SUFFICES /\ reqs' \in [Request -> RequestRecord]
               /\ \A x \in Request : RequestOK(reqs'[x], sessions', rows')
  BY DEF IngestInv, IngestTypeOK, EndedIffClosed, FindOwned
<1>3. q.kind \in {"end", "meEnd", "events", "meEvents"} /\ q.csid # 0 /\ q.csid \in Csid
  BY <1>1 DEF FindOwned, RequestOK, OnItsWay, RequestRecord
<1>4. CASE Finish(r, q, "failed")
  <2>1. RequestOK([q EXCEPT !.pc = "failed"], sessions', rows')
    BY <1>1, FailedOK DEF RequestOK
  <2> QED BY <1>1, <1>4, <2>1, FinishOK
<1>5. CASE /\ s.state # "none" /\ Owns(q, s)
           /\ q.kind \in {"end", "meEnd"} /\ s.endedAt # NotEnded
  <2>1. Finish(r, q, "ok")
    BY <1>5 DEF FindOwned
  <2>2. s.state = "closed"
    BY <1>3, <1>5 DEF IngestInv, EndedIffClosed
  <2>3. RequestOK([q EXCEPT !.pc = "ok"], sessions', rows')
    BY <1>1, <1>3, <1>5, <2>2 DEF RequestOK, OnItsWay, Relies, RequestRecord, FindOwned
  <2> QED BY <1>1, <2>1, <2>3, FinishOK
<1>6. CASE /\ s.state # "none" /\ Owns(q, s)
           /\ q.kind \in {"end", "meEnd"} /\ s.endedAt = NotEnded
  <2> DEFINE n == [q EXCEPT !.pc = "close"]
  <2>1. reqs' = [reqs EXCEPT ![r] = n]
    BY <1>6 DEF FindOwned, Continue
  <2>2. n \in RequestRecord
    BY <1>1 DEF RequestRecord, Step
  <2>3. RequestOK(n, sessions', rows')
    BY <1>1, <1>3, <1>6 DEF RequestOK, OnItsWay, Relies, RequestRecord, Owns, FindOwned
  <2> QED BY <1>1, <2>1, <2>2, <2>3, OneRequest
<1>7. CASE /\ s.state # "none" /\ Owns(q, s)
           /\ q.kind \notin {"end", "meEnd"} /\ s.state # "closed"
  <2> DEFINE n == [q EXCEPT !.pc = "insert"]
  <2>1. reqs' = [reqs EXCEPT ![r] = n]
    BY <1>7 DEF FindOwned, Continue
  <2>2. n \in RequestRecord
    BY <1>1 DEF RequestRecord, Step
  <2>3. RequestOK(n, sessions', rows')
    BY <1>1, <1>3, <1>7 DEF RequestOK, OnItsWay, Relies, RequestRecord, Owns, FindOwned
  <2> QED BY <1>1, <2>1, <2>2, <2>3, OneRequest
<1> QED BY <1>4, <1>5, <1>6, <1>7 DEF FindOwned

LEMMA CloseSessionOK ==
  ASSUME IngestInv, NEW r \in Request, CloseSession(r)
  PROVE  IngestInv' /\ Grows
<1> DEFINE q == reqs[r]
<1>1. q \in RequestRecord /\ RequestOK(q, sessions, rows)
  BY DEF IngestInv, IngestTypeOK
<1>2. /\ q.kind \in {"end", "meEnd"} /\ q.csid \in Csid /\ q.csid # 0
      /\ q.at \in EndTime /\ q.at # NotEnded
      /\ sessions[q.csid].state # "none"
  BY <1>1 DEF CloseSession, RequestOK, OnItsWay, Relies, RequestRecord
<1>3. sessions[q.csid] \in Session
  BY <1>2 DEF IngestInv, IngestTypeOK
<1> DEFINE s == [sessions[q.csid] EXCEPT !.state = "closed", !.endedAt = q.at]
<1>4. sessions' = [sessions EXCEPT ![q.csid] = s]
  BY <1>2, <1>3 DEF CloseSession, IngestInv, IngestTypeOK, Session
<1>5. /\ s \in Session /\ s.state = "closed" /\ s.endedAt # NotEnded
      /\ s.user = sessions[q.csid].user /\ s.device = sessions[q.csid].device
  BY <1>2, <1>3 DEF Session
<1>6. sessions' \in [Csid -> Session] /\ EndedIffClosed'
  BY <1>2, <1>4, <1>5 DEF IngestInv, IngestTypeOK, EndedIffClosed
<1>7. Grows
  BY <1>2, <1>4, <1>5 DEF Grows, CloseSession, IngestInv, IngestTypeOK
<1>8. RequestOK([q EXCEPT !.pc = "ok"], sessions', rows')
  <2>1. sessions'[q.csid].state = "closed"
    BY <1>2, <1>4, <1>5 DEF IngestInv, IngestTypeOK
  <2> QED BY <1>1, <1>2, <2>1 DEF RequestOK, OnItsWay, Relies, RequestRecord
<1>9. Finish(r, q, "ok")
  BY DEF CloseSession
<1>10. /\ reqs' \in [Request -> RequestRecord]
       /\ \A x \in Request : RequestOK(reqs'[x], sessions', rows')
  BY <1>1, <1>7, <1>8, <1>9, FinishOK
<1> QED BY <1>6, <1>7, <1>10 DEF IngestInv, IngestTypeOK, CloseSession

LEMMA InsertRowsOK ==
  ASSUME IngestInv, NEW r \in Request, InsertRows(r)
  PROVE  IngestInv' /\ Grows
<1> DEFINE q == reqs[r]
<1>1. q \in RequestRecord /\ RequestOK(q, sessions, rows)
  BY DEF IngestInv, IngestTypeOK
<1>2. /\ q.kind \in {"events", "meEvents"} /\ q.csid \in Csid /\ q.batch \subseteq Event
      /\ sessions[q.csid].state # "none" /\ Owns(q, sessions[q.csid])
  BY <1>1 DEF InsertRows, RequestOK, OnItsWay, Relies, RequestRecord
<1>3. rows' \subseteq Csid \X Event
  BY <1>2 DEF InsertRows, IngestInv, IngestTypeOK
<1>4. Grows
  BY DEF Grows, InsertRows
<1>5. RequestOK([q EXCEPT !.pc = "ok"], sessions', rows')
  BY <1>1, <1>2 DEF RequestOK, OnItsWay, Relies, RequestRecord, Owns, InsertRows, Csid
<1>6. Finish(r, q, "ok")
  BY DEF InsertRows
<1>7. /\ reqs' \in [Request -> RequestRecord]
      /\ \A x \in Request : RequestOK(reqs'[x], sessions', rows')
  BY <1>1, <1>4, <1>5, <1>6, FinishOK
<1> QED BY <1>3, <1>4, <1>7 DEF IngestInv, IngestTypeOK, EndedIffClosed, InsertRows
-----------------------------------------------------------------------------
(* The network and the clients.                                            *)

LEMMA LoseOK ==
  ASSUME IngestInv, NEW r \in Request, Lose(r)
  PROVE  IngestInv'
<1> DEFINE q == reqs[r]
<1>1. q \in RequestRecord /\ RequestOK(q, sessions, rows) /\ Grows /\ Finish(r, q, "failed")
  BY UnchangedGrows DEF IngestInv, IngestTypeOK, Lose
<1>2. RequestOK([q EXCEPT !.pc = "failed"], sessions', rows')
  BY <1>1, FailedOK DEF RequestOK
<1> QED BY <1>1, <1>2, FinishOK DEF IngestInv, IngestTypeOK, EndedIffClosed, Lose

\* Request q has become n although its client went away.
Abandoned(q, n) ==
  \/ n = Free
  \/ /\ n.client = NoClient /\ n.pc = q.pc
     /\ n.kind = q.kind /\ n.batch = q.batch /\ n.csid = q.csid

LEMMA AbandonOK ==
  ASSUME IngestInv, NEW r \in Request
  PROVE  LET n == Abandon(r)[r]
         IN /\ Abandon(r) = [reqs EXCEPT ![r] = n]
            /\ n \in RequestRecord
            /\ RequestOK(n, sessions, rows)
            /\ Abandoned(reqs[r], n)
<1> DEFINE q == reqs[r]
<1>1. q \in RequestRecord /\ RequestOK(q, sessions, rows)
  BY DEF IngestInv, IngestTypeOK
<1>2. CASE ~InFlight(r)
  <2>1. Abandon(r) = [reqs EXCEPT ![r] = Free] /\ Abandon(r)[r] = Free
    BY <1>2 DEF Abandon, IngestInv, IngestTypeOK
  <2> QED BY <2>1, FreeOK DEF Abandoned
<1>3. CASE InFlight(r)
  <2> DEFINE n == [q EXCEPT !.client = NoClient]
  <2>1. /\ n \in RequestRecord /\ n.client = NoClient /\ n.pc = q.pc
        /\ n.kind = q.kind /\ n.batch = q.batch /\ n.csid = q.csid
    BY <1>1 DEF RequestRecord
  <2>2. RequestOK(n, sessions, rows)
    BY <1>1 DEF RequestOK, OnItsWay, Relies, Owns, RequestRecord
  <2>3. Abandon(r) = [reqs EXCEPT ![r] = n] /\ Abandon(r)[r] = n
    BY <1>3 DEF Abandon, IngestInv, IngestTypeOK
  <2> HIDE DEF n
  <2> QED BY <2>1, <2>2, <2>3 DEF Abandoned
<1> QED BY <1>2, <1>3

LEMMA GiveUpOK ==
  ASSUME IngestInv, NEW r \in Request, GiveUp(r)
  PROVE  IngestInv'
<1> DEFINE n == Abandon(r)[r]
<1>1. reqs' = [reqs EXCEPT ![r] = n] /\ n \in RequestRecord /\ RequestOK(n, sessions, rows)
  BY AbandonOK DEF GiveUp
<1>2. RequestOK(n, sessions', rows') /\ Grows
  BY <1>1, UnchangedGrows DEF GiveUp
<1> HIDE DEF n
<1> QED BY <1>1, <1>2, OneRequest DEF IngestInv, IngestTypeOK, EndedIffClosed, GiveUp

LEMMA GiveUpAbandons ==
  ASSUME IngestInv, NEW r \in Request, GiveUp(r)
  PROVE  \E n \in RequestRecord : reqs' = [reqs EXCEPT ![r] = n] /\ Abandoned(reqs[r], n)
BY AbandonOK DEF GiveUp

LEMMA ReceiveOK ==
  ASSUME IngestInv, NEW r \in Request, Receive(r)
  PROVE  IngestInv'
<1>1. Grows /\ reqs' = [reqs EXCEPT ![r] = Free]
  BY UnchangedGrows DEF Receive
<1> QED BY <1>1, FreeOK, OneRequest DEF IngestInv, IngestTypeOK, EndedIffClosed, Receive

LEMMA NewClientSessionOK ==
  ASSUME IngestInv, NewClientSession
  PROVE  IngestInv'
BY IngestAssumption DEF IngestInv, IngestTypeOK, EndedIffClosed, NewClientSession

\* A request that has just been sent relies on nothing yet.
LEMMA SendOK ==
  ASSUME IngestInv, NEW r \in Request, NEW q \in RequestRecord, OnItsWay(q),
         q.pc \in {"parse", "findActive", "findCsid", "findOwned"}, Send(r, q)
  PROVE  IngestInv'
<1>1. Grows /\ reqs' = [reqs EXCEPT ![r] = q]
  BY UnchangedGrows DEF Send
<1>2. RequestOK(q, sessions', rows')
  BY DEF RequestOK, Relies
<1> QED BY <1>1, <1>2, OneRequest DEF IngestInv, IngestTypeOK, EndedIffClosed, Send

\* What the clients send is well typed and knows what its first query relies on.
LEMMA AgentStartSent ==
  ASSUME NEW cl \in Client \cup {NoClient}, NEW d \in AgentDevice, NEW c \in Csid
  PROVE  LET n == AgentStart(cl, d, c)
         IN /\ n \in RequestRecord /\ OnItsWay(n) /\ n.pc = "findCsid"
            /\ n.kind = "start" /\ n.client = cl
<1>1. OwnerOf[d] \in User /\ d \in Device /\ c # 0
  BY IngestAssumption DEF Device, Csid
<1>2. Free \in RequestRecord
  BY FreeOK
<1> QED BY <1>1, <1>2 DEF AgentStart, Free, RequestRecord, Step, Kind, OnItsWay, NotEnded

LEMMA AgentEndSent ==
  ASSUME NEW cl \in Client \cup {NoClient}, NEW d \in AgentDevice, NEW c \in Csid,
         NEW t \in EndTime
  PROVE  LET n == AgentEnd(cl, d, c, t)
         IN /\ n \in RequestRecord /\ OnItsWay(n) /\ n.pc = "findOwned"
            /\ n.kind = "end" /\ n.client = cl
<1>1. OwnerOf[d] \in User /\ d \in Device /\ c # 0 /\ t # NotEnded
  BY IngestAssumption DEF Device, Csid
<1>2. Free \in RequestRecord
  BY FreeOK
<1> QED BY <1>1, <1>2 DEF AgentEnd, Free, RequestRecord, Step, Kind, OnItsWay

LEMMA AgentEventsSent ==
  ASSUME NEW cl \in Client \cup {NoClient}, NEW d \in AgentDevice, NEW c \in Csid,
         NEW B \in SUBSET Event, NEW bad \in BOOLEAN
  PROVE  LET n == AgentEvents(cl, d, c, B, bad)
         IN /\ n \in RequestRecord /\ OnItsWay(n) /\ n.pc = "parse"
            /\ n.kind = "events" /\ n.client = cl /\ n.csid = c /\ n.batch = B
<1>1. OwnerOf[d] \in User /\ d \in Device /\ c # 0
  BY IngestAssumption DEF Device, Csid
<1>2. Free \in RequestRecord
  BY FreeOK
<1> QED BY <1>1, <1>2 DEF AgentEvents, Free, RequestRecord, Step, Kind, OnItsWay

LEMMA MeStartSent ==
  ASSUME NEW cl \in Client \cup {NoClient}, NEW u \in User
  PROVE  LET n == MeStart(cl, u)
         IN n \in RequestRecord /\ OnItsWay(n) /\ n.pc = "findActive"
BY FreeOK DEF MeStart, Free, RequestRecord, Step, Kind, OnItsWay

LEMMA MeEndSent ==
  ASSUME NEW cl \in Client \cup {NoClient}, NEW u \in User, NEW t \in EndTime
  PROVE  LET n == MeEnd(cl, u, t)
         IN /\ n \in RequestRecord /\ OnItsWay(n) /\ n.pc = "findActive"
            /\ n.kind = "meEnd" /\ n.client = cl
<1>1. t # NotEnded
  BY IngestAssumption
<1> QED BY <1>1, FreeOK DEF MeEnd, Free, RequestRecord, Step, Kind, OnItsWay

LEMMA MeEventsSent ==
  ASSUME NEW cl \in Client \cup {NoClient}, NEW u \in User, NEW B \in SUBSET Event,
         NEW bad \in BOOLEAN
  PROVE  LET n == MeEvents(cl, u, B, bad)
         IN /\ n \in RequestRecord /\ OnItsWay(n) /\ n.pc = "parse"
            /\ n.kind = "meEvents" /\ n.client = cl /\ n.batch = B
BY FreeOK DEF MeEvents, Free, RequestRecord, Step, Kind, OnItsWay

LEMMA SendAnyOK ==
  ASSUME IngestInv, NEW r \in Request, SendAny(r)
  PROVE  IngestInv'
<1> PICK cl \in Client \cup {NoClient} :
      \/ \E d \in AgentDevice, c \in 1..issued :
           \/ Send(r, AgentStart(cl, d, c))
           \/ \E t \in EndTime : Send(r, AgentEnd(cl, d, c, t))
           \/ \E B \in (SUBSET Event) \ {{}}, bad \in BOOLEAN :
                Send(r, AgentEvents(cl, d, c, B, bad))
      \/ \E u \in User :
           \/ Send(r, MeStart(cl, u))
           \/ \E t \in EndTime : Send(r, MeEnd(cl, u, t))
           \/ \E B \in (SUBSET Event) \ {{}}, bad \in BOOLEAN :
                Send(r, MeEvents(cl, u, B, bad))
  BY DEF SendAny, Caller
<1>1. ASSUME NEW d \in AgentDevice, NEW c \in 1..issued,
             \/ Send(r, AgentStart(cl, d, c))
             \/ \E t \in EndTime : Send(r, AgentEnd(cl, d, c, t))
             \/ \E B \in (SUBSET Event) \ {{}}, bad \in BOOLEAN :
                  Send(r, AgentEvents(cl, d, c, B, bad))
      PROVE  IngestInv'
  <2>1. c \in Csid
    BY IngestAssumption DEF Csid, IngestInv, IngestTypeOK
  <2>2. CASE Send(r, AgentStart(cl, d, c))
    BY <2>1, <2>2, AgentStartSent, SendOK
  <2>3. ASSUME NEW t \in EndTime, Send(r, AgentEnd(cl, d, c, t)) PROVE IngestInv'
    BY <2>1, <2>3, AgentEndSent, SendOK
  <2>4. ASSUME NEW B \in SUBSET Event, NEW bad \in BOOLEAN,
               Send(r, AgentEvents(cl, d, c, B, bad))
        PROVE  IngestInv'
    BY <2>1, <2>4, AgentEventsSent, SendOK
  <2> QED BY <1>1, <2>2, <2>3, <2>4
<1>2. ASSUME NEW u \in User,
             \/ Send(r, MeStart(cl, u))
             \/ \E t \in EndTime : Send(r, MeEnd(cl, u, t))
             \/ \E B \in (SUBSET Event) \ {{}}, bad \in BOOLEAN :
                  Send(r, MeEvents(cl, u, B, bad))
      PROVE  IngestInv'
  <2>1. CASE Send(r, MeStart(cl, u))
    BY <2>1, MeStartSent, SendOK
  <2>2. ASSUME NEW t \in EndTime, Send(r, MeEnd(cl, u, t)) PROVE IngestInv'
    BY <2>2, MeEndSent, SendOK
  <2>3. ASSUME NEW B \in SUBSET Event, NEW bad \in BOOLEAN, Send(r, MeEvents(cl, u, B, bad))
        PROVE  IngestInv'
    BY <2>3, MeEventsSent, SendOK
  <2> QED BY <1>2, <2>1, <2>2, <2>3
<1> QED BY <1>1, <1>2
-----------------------------------------------------------------------------
(* What serving a request does to it.                                      *)

\* Request q has become n: answered to nobody, or the same request further on.
Progress(q, n) ==
  \/ n = Free /\ q.client = NoClient
  \/ /\ n.pc # "free" /\ q.pc # "free"
     /\ n.kind = q.kind /\ n.client = q.client /\ n.batch = q.batch
     /\ q.kind \in {"start", "events"} => n.csid = q.csid
     /\ \/ q.kind = "meStart"
        \/ n.csid = q.csid
        \/ n.csid \in Csid /\ sessions[n.csid].state # "none"

LEMMA FinishProgress ==
  ASSUME NEW r \in Request, NEW q \in RequestRecord, NEW n \in RequestRecord,
         NEW outcome \in {"ok", "failed"}, Finish(r, n, outcome), Progress(q, n), n.pc # "free"
  PROVE  \E m \in RequestRecord : reqs' = [reqs EXCEPT ![r] = m] /\ Progress(q, m)
<1>1. n.kind = q.kind /\ n.client = q.client /\ n.batch = q.batch /\ q.pc # "free"
      /\ (q.kind \in {"start", "events"} => n.csid = q.csid)
      /\ \/ q.kind = "meStart"
         \/ n.csid = q.csid
         \/ n.csid \in Csid /\ sessions[n.csid].state # "none"
  BY DEF Progress, Free
<1>2. CASE n.client = NoClient
  BY <1>1, <1>2, FreeOK DEF Finish, Continue, Progress
<1>3. CASE n.client # NoClient
  <2> DEFINE m == [n EXCEPT !.pc = outcome]
  <2>1. m \in RequestRecord
    BY DEF RequestRecord, Step
  <2>2. /\ m.pc # "free" /\ m.kind = n.kind /\ m.client = n.client /\ m.batch = n.batch
        /\ m.csid = n.csid
    BY DEF RequestRecord
  <2>3. reqs' = [reqs EXCEPT ![r] = m]
    BY <1>3 DEF Finish, Continue
  <2> HIDE DEF m
  <2>4. Progress(q, m)
    BY <1>1, <2>2 DEF Progress
  <2> QED BY <2>1, <2>3, <2>4
<1> QED BY <1>2, <1>3

\* Continuing with another program counter.
LEMMA ContinueProgress ==
  ASSUME NEW r \in Request, NEW q \in RequestRecord, q.pc # "free",
         NEW s \in Step \ {"free"}, Continue(r, [q EXCEPT !.pc = s])
  PROVE  \E m \in RequestRecord : reqs' = [reqs EXCEPT ![r] = m] /\ Progress(q, m)
<1> DEFINE m == [q EXCEPT !.pc = s]
<1>1. m \in RequestRecord
  BY DEF RequestRecord
<1>2. /\ m.pc # "free" /\ m.kind = q.kind /\ m.client = q.client /\ m.batch = q.batch
      /\ m.csid = q.csid
  BY DEF RequestRecord
<1>3. reqs' = [reqs EXCEPT ![r] = m]
  BY DEF Continue
<1> HIDE DEF m
<1> QED BY <1>1, <1>2, <1>3 DEF Progress

\* Serving or losing a request moves that request on and no other.
LEMMA ServeProgress ==
  ASSUME IngestInv, NEW r \in Request, Serve(r) \/ Lose(r)
  PROVE  \E n \in RequestRecord : reqs' = [reqs EXCEPT ![r] = n] /\ Progress(reqs[r], n)
<1> DEFINE q == reqs[r]
           Goal == \E n \in RequestRecord : reqs' = [reqs EXCEPT ![r] = n] /\ Progress(q, n)
<1>1. q \in RequestRecord /\ OnItsWay(q)
  BY DEF IngestInv, IngestTypeOK, RequestOK
<1>2. q.pc # "free"
  BY DEF Serve, Lose, InFlight, ParseBody, FindActive, FindBrowserDevice,
     CreateBrowserDevice, FindByClientSessionId, CreateSession, FindOwned, CloseSession,
     InsertRows
<1>3. Progress(q, q)
  BY <1>2 DEF Progress
<1>4. ASSUME NEW o \in {"ok", "failed"}, Finish(r, q, o) PROVE Goal
  BY <1>1, <1>2, <1>3, <1>4, FinishProgress
<1>5. ASSUME NEW s \in Step \ {"free"}, Continue(r, [q EXCEPT !.pc = s]) PROVE Goal
  BY <1>1, <1>2, <1>5, ContinueProgress
<1>6. CASE ParseBody(r)
  <2>1. CASE q.malformed
    BY <1>4, <1>6, <2>1 DEF ParseBody
  <2>2. CASE ~q.malformed /\ q.kind = "events"
    BY <1>5, <1>6, <2>2 DEF ParseBody, Step
  <2>3. CASE ~q.malformed /\ q.kind # "events"
    BY <1>5, <1>6, <2>3 DEF ParseBody, Step
  <2> QED BY <2>1, <2>2, <2>3
<1>7. CASE FindActive(r)
  <2>1. q.kind \in {"meStart", "meEnd", "meEvents"} /\ q.pc = "findActive"
    BY <1>1, <1>7 DEF FindActive, OnItsWay
  <2>2. CASE ActiveSessions(q.user) = {}
    <3>1. CASE q.kind = "meStart"
      BY <1>5, <1>7, <2>2, <3>1 DEF FindActive, Step
    <3>2. CASE q.kind = "meEnd"
      BY <1>4, <1>7, <2>2, <3>2 DEF FindActive
    <3>3. CASE q.kind = "meEvents"
      BY <1>4, <1>7, <2>2, <3>3 DEF FindActive
    <3> QED BY <2>1, <3>1, <3>2, <3>3
  <2>3. CASE ActiveSessions(q.user) # {}
    <3> PICK c \in ActiveSessions(q.user) :
          LET found == [q EXCEPT !.csid = c, !.device = sessions[c].device]
          IN IF q.kind = "meStart"
               THEN Finish(r, found, "ok")
               ELSE Continue(r, [found EXCEPT !.pc = "findOwned"])
      BY <1>7, <2>3 DEF FindActive
    <3> DEFINE found == [q EXCEPT !.csid = c, !.device = sessions[c].device]
               n == [found EXCEPT !.pc = "findOwned"]
    <3>1. c \in Csid /\ sessions[c] \in Session /\ sessions[c].state # "none"
      BY DEF ActiveSessions, IngestInv, IngestTypeOK
    <3>2. /\ found \in RequestRecord /\ found.pc = q.pc
          /\ found.kind = q.kind /\ found.client = q.client /\ found.batch = q.batch
          /\ found.csid = c
      BY <1>1, <3>1 DEF RequestRecord, Session
    <3>3. IF q.kind = "meStart" THEN Finish(r, found, "ok") ELSE reqs' = [reqs EXCEPT ![r] = n]
      BY DEF Continue
    <3> HIDE DEF found
    <3>4. Progress(q, found)
      BY <1>2, <2>1, <3>1, <3>2 DEF Progress
    <3>5. CASE q.kind = "meStart"
      BY <1>1, <1>2, <3>2, <3>3, <3>4, <3>5, FinishProgress
    <3>6. CASE q.kind # "meStart"
      <4>1. /\ n \in RequestRecord /\ n.pc # "free"
            /\ n.kind = q.kind /\ n.client = q.client /\ n.batch = q.batch /\ n.csid = c
        BY <3>2 DEF RequestRecord, Step
      <4> HIDE DEF n
      <4>2. Progress(q, n)
        BY <1>2, <2>1, <3>1, <4>1 DEF Progress
      <4> QED BY <3>3, <3>6, <4>1, <4>2
    <3> QED BY <3>5, <3>6
  <2> QED BY <2>2, <2>3
<1>8. CASE FindBrowserDevice(r) \/ CreateBrowserDevice(r)
  <2>1. q.kind = "meStart" /\ q.user \in User
    BY <1>1, <1>8 DEF FindBrowserDevice, CreateBrowserDevice, OnItsWay
  <2>2. ASSUME NEW d \in Device, BeginStart(r, q, d) PROVE Goal
    <3> DEFINE n == [q EXCEPT !.pc = "findCsid", !.device = d, !.csid = issued + 1]
    <3>1. issued + 1 \in Csid
      BY <2>2, IngestAssumption DEF IngestInv, IngestTypeOK, BeginStart, Csid
    <3>2. /\ n \in RequestRecord /\ n.pc # "free"
          /\ n.kind = q.kind /\ n.client = q.client /\ n.batch = q.batch
      BY <1>1, <3>1 DEF RequestRecord, Step
    <3>3. reqs' = [reqs EXCEPT ![r] = n]
      BY <2>2 DEF BeginStart, Continue
    <3> HIDE DEF n
    <3> QED BY <1>2, <2>1, <3>2, <3>3 DEF Progress
  <2>3. CASE FindBrowserDevice(r)
    <3>1. CASE browsers[q.user] > 0
      <4>1. browsers[q.user] \in 1..MaxBrowsers
        BY <2>1, <3>1, IngestAssumption DEF IngestInv, IngestTypeOK
      <4>2. <<q.user, browsers[q.user]>> \in Device
        BY <2>1, <4>1 DEF Device, BrowserDevice
      <4> QED BY <2>2, <2>3, <3>1, <4>2 DEF FindBrowserDevice
    <3>2. CASE ~(browsers[q.user] > 0)
      BY <1>5, <2>3, <3>2 DEF FindBrowserDevice, Step
    <3> QED BY <3>1, <3>2
  <2>4. CASE CreateBrowserDevice(r)
    <3>1. browsers[q.user] + 1 \in 1..MaxBrowsers
      BY <2>1, <2>4, IngestAssumption DEF IngestInv, IngestTypeOK, CreateBrowserDevice
    <3>2. <<q.user, browsers[q.user] + 1>> \in Device
      BY <2>1, <3>1 DEF Device, BrowserDevice
    <3> QED BY <2>2, <2>4, <3>2 DEF CreateBrowserDevice
  <2> QED BY <1>8, <2>3, <2>4
<1>9. CASE FindByClientSessionId(r)
  <2>1. CASE sessions[q.csid].state = "none"
    BY <1>5, <1>9, <2>1 DEF FindByClientSessionId, Step
  <2>2. CASE sessions[q.csid].state # "none"
    BY <1>4, <1>9, <2>2 DEF FindByClientSessionId
  <2> QED BY <2>1, <2>2
<1>10. CASE CreateSession(r)
  BY <1>4, <1>10 DEF CreateSession
<1>11. CASE FindOwned(r)
  <2>1. \/ \E o \in {"ok", "failed"} : Finish(r, q, o)
        \/ \E s \in {"close", "insert"} : Continue(r, [q EXCEPT !.pc = s])
    BY <1>11 DEF FindOwned
  <2>2. {"close", "insert"} \subseteq Step \ {"free"}
    BY DEF Step
  <2> QED BY <1>4, <1>5, <2>1, <2>2
<1>12. CASE CloseSession(r)
  BY <1>4, <1>12 DEF CloseSession
<1>13. CASE InsertRows(r)
  BY <1>4, <1>13 DEF InsertRows
<1>14. CASE Lose(r)
  BY <1>4, <1>14 DEF Lose
<1> QED BY <1>6, <1>7, <1>8, <1>9, <1>10, <1>11, <1>12, <1>13, <1>14 DEF Serve
-----------------------------------------------------------------------------
(* The specification.                                                      *)

LEMMA InitOK == IngestInit => IngestInv
<1> SUFFICES ASSUME IngestInit PROVE IngestInv
  OBVIOUS
<1>1. NoSession \in Session /\ NoSession.state = "none" /\ NoSession.endedAt = NotEnded
  BY DEF NoSession, Session, NotEnded
<1>2. IngestTypeOK
  BY <1>1, FreeOK, IngestAssumption DEF IngestInit, IngestTypeOK
<1>3. EndedIffClosed
  BY <1>1 DEF IngestInit, EndedIffClosed
<1>4. \A r \in Request : RequestOK(reqs[r], sessions, rows)
  BY FreeOK DEF IngestInit
<1> QED BY <1>2, <1>3, <1>4 DEF IngestInv

\* Every step preserves the invariant and lets the tables grow.
LEMMA NextOK == IngestInv /\ [IngestNext]_ingestVars => IngestInv' /\ Grows
<1> SUFFICES ASSUME IngestInv, [IngestNext]_ingestVars PROVE IngestInv' /\ Grows
  OBVIOUS
<1>1. CASE UNCHANGED ingestVars
  BY <1>1, UnchangedGrows DEF ingestVars, IngestInv, IngestTypeOK, EndedIffClosed
<1>2. CASE NewClientSession
  BY <1>2, NewClientSessionOK, UnchangedGrows DEF NewClientSession
<1>3. ASSUME NEW r \in Request, SendAny(r) PROVE IngestInv' /\ Grows
  BY <1>3, SendAnyOK, UnchangedGrows DEF SendAny, Send
<1>4. ASSUME NEW r \in Request, Serve(r) PROVE IngestInv' /\ Grows
  <2>1. CASE ParseBody(r)
    BY <2>1, ParseBodyOK, UnchangedGrows DEF ParseBody
  <2>2. CASE FindActive(r)
    BY <2>2, FindActiveOK, UnchangedGrows DEF FindActive
  <2>3. CASE FindBrowserDevice(r)
    BY <2>3, FindBrowserDeviceOK, UnchangedGrows DEF FindBrowserDevice
  <2>4. CASE CreateBrowserDevice(r)
    BY <2>4, CreateBrowserDeviceOK, UnchangedGrows DEF CreateBrowserDevice
  <2>5. CASE FindByClientSessionId(r)
    BY <2>5, FindByClientSessionIdOK, UnchangedGrows DEF FindByClientSessionId
  <2>6. CASE CreateSession(r)
    BY <2>6, CreateSessionOK
  <2>7. CASE FindOwned(r)
    BY <2>7, FindOwnedOK, UnchangedGrows DEF FindOwned
  <2>8. CASE CloseSession(r)
    BY <2>8, CloseSessionOK
  <2>9. CASE InsertRows(r)
    BY <2>9, InsertRowsOK
  <2> QED BY <1>4, <2>1, <2>2, <2>3, <2>4, <2>5, <2>6, <2>7, <2>8, <2>9 DEF Serve
<1>5. ASSUME NEW r \in Request, Lose(r) PROVE IngestInv' /\ Grows
  BY <1>5, LoseOK, UnchangedGrows DEF Lose
<1>6. ASSUME NEW r \in Request, GiveUp(r) PROVE IngestInv' /\ Grows
  BY <1>6, GiveUpOK, UnchangedGrows DEF GiveUp
<1>7. ASSUME NEW r \in Request, Receive(r) PROVE IngestInv' /\ Grows
  BY <1>7, ReceiveOK, UnchangedGrows DEF Receive
<1> QED BY <1>1, <1>2, <1>3, <1>4, <1>5, <1>6, <1>7 DEF IngestNext

LEMMA IngestInvariant == IngestSpec => []IngestInv
<1>1. IngestInit => IngestInv
  BY InitOK
<1>2. IngestInv /\ [IngestNext]_ingestVars => IngestInv'
  BY NextOK
<1> QED BY <1>1, <1>2, PTL DEF IngestSpec

\* The tables and the requests keep their types, whatever is sent in whatever order: in
\* particular no query is ever made for an id, a device or a state that does not exist.
THEOREM IngestTypeCorrect == IngestSpec => []IngestTypeOK
<1>1. IngestInv => IngestTypeOK
  BY DEF IngestInv
<1> QED BY <1>1, IngestInvariant, PTL

\* A reply may be relied upon (agent.service.ts): a session whose start was acknowledged is
\* in the table under the caller's worker and device, whoever else started or ended it.
THEOREM StartRepliesSound == IngestSpec => []StartReplySound
<1>1. IngestInv => StartReplySound
  BY DEF IngestInv, RequestOK, Relies, StartReplySound
<1> QED BY <1>1, IngestInvariant, PTL

\* A session whose end was acknowledged is closed and stays closed, although endSession
\* decides on a row it read earlier and updates by id alone.
THEOREM EndRepliesSound == IngestSpec => []EndReplySound
<1>1. IngestInv => EndReplySound
  BY DEF IngestInv, RequestOK, Relies, EndReplySound
<1> QED BY <1>1, IngestInvariant, PTL

\* The events of an acknowledged batch are all stored under a session of the caller, even
\* when the session was closed between its lookup and the insert.
THEOREM EventsRepliesSound == IngestSpec => []EventsReplySound
<1>1. IngestInv => EventsReplySound
  BY DEF IngestInv, RequestOK, Relies, EventsReplySound
<1> QED BY <1>1, IngestInvariant, PTL

\* The state and the end of a session agree, although endSession decides by one and
\* ingestEvents by the other.
THEOREM EndedIffClosedAlways == IngestSpec => []EndedIffClosed
<1>1. IngestInv => EndedIffClosed
  BY DEF IngestInv
<1> QED BY <1>1, IngestInvariant, PTL

\* No request undoes what another one did: sessions keep their owner and stay closed, and
\* stored events stay stored.
THEOREM TablesOnlyGrow == IngestSpec => TablesMonotone
<1>1. Grows =>
        [/\ rows \subseteq rows'
         /\ \A c \in Csid :
              sessions[c].state # "none" =>
                /\ sessions'[c].user = sessions[c].user
                /\ sessions'[c].device = sessions[c].device
                /\ sessions[c].state = "closed" => sessions'[c].state = "closed"]_ingestVars
  BY DEF Grows
<1>2. IngestInv /\ [IngestNext]_ingestVars => Grows
  BY NextOK
<1> QED BY <1>1, <1>2, IngestInvariant, PTL DEF IngestSpec, TablesMonotone
=============================================================================
