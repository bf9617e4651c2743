# WorkTrack: a TLA+ model of the tracking pipeline

WorkTrack records what a worker does during a workday. A desktop agent (Rust) and a browser
extension (MV3) observe the worker, buffer what they see, and post it to a Fastify backend,
which stores it in Postgres. Two background workers turn it into daily summaries and Excel
exports. Workers and managers use a Next.js dashboard: its session lives in a pair of cookies, its
Live page follows the workers' heartbeats over a WebSocket, its workday panel starts and stops the
workday through a proxy, and its forms change rules, settings, users and the review of
screenshots. This directory holds a formal model of that system: TLA+
modules translated from the code, TLC configurations that check small instances of them, and
proofs checked by TLAPS.

All paths below are relative to the repository root.

## 1. Inventory

### 1.1 Ingest service

`apps/backend/src/services/agent.service.ts`, `routes/ingest`, `routes/me`.

*State*: the tables `Device`, `WorkSession` and `ActivityEvent`
(`packages/database/prisma/schema.prisma`).

*Operations*: start a session (by client session id for the agent; for the browser a look-up of
the open session, of the browser device, and then a start with a fresh id), end a session, insert
a batch of events, heartbeat.

*Interaction*: called over HTTP by the agent, the extension and the dashboard. Several Node
processes may serve the same database.

*What is hard*: a handler makes up to four queries with awaits in between and no transaction, so
every pair of requests interleaves: two starts, two ends, an end between the look-up and the
insert of a batch, a retried request overtaking the one it retries.

*What makes it correct*: a reply of `ok` may be relied upon; a session keeps its owner, never
reopens, and its `state` and `endedAt` agree; events never disappear and belong to the caller.

### 1.2 Desktop agent

`apps/agent/src-tauri/src`: `state.rs`, `buffer/mod.rs`, `monitor/mod.rs`, `sync/`, `commands.rs`,
`tray.rs`, `keychain.rs`.

*State*: the `Inner` record (identity, workday, private session, pending client session id,
session id) under one mutex, the SQLite buffer under another, the keychain.

*Operations*: enrol, start and end the workday (tray or window), toggle the private session, log
out; one tick of the monitor; one pass of the sync loop (start the session if it is not known,
take a batch, post it, mark it).

*What is hard*: four threads of control that release the lock between reading and writing; an
HTTP timeout of 15 s after which the server may still be working; a restart at any point; the
workday ending or changing while a pass is under way.

*What makes it correct*: nothing is marked as sent that is not on the server; nothing is stored
twice or under another session; events arrive in order and, while the session stays open, arrive
at all; nothing is collected outside the workday or in a private session.

### 1.3 Browser extension

`apps/extension/src`: `background.ts`, `lib/storage.ts`, `lib/api.ts`, `popup/popup.ts`.

*State*: `chrome.storage.local` (the signed-in user's tokens, the settings, the queue).

*Operations*: a handler per focused tab (push the event directly, or queue it), the flush alarm
(drain the queue, push it, put it back when that fails), and the popup: sign in and out, pause,
start and stop the workday.

*What is hard*: handlers interleave at every await; the queue is read and written back in two
steps by all of them; the service worker is killed at any time; the worker may sign out, or
another one may sign in, while a handler is under way.

*What makes it correct*: an event that was observed is in the queue, in a handler's hands or on
the server; it is stored for the worker who produced it.

### 1.4 Accounts

`services/auth.service.ts`, `routes/auth`, `services/users.service.ts`, the enrolment half of
`agent.service.ts`, the token handling of the extension.

*State*: the user's `status`, the refresh tokens in Redis, the enrolment tokens in Postgres, the
tokens each client holds.

*Operations*: log in, refresh (rotate), log out, suspend, delete; issue and spend an enrolment
token.

*What is hard*: a token is looked up, then deleted, in two commands; two handlers of one client
may refresh with the same token; a reply may be lost after the old token is gone.

*What makes it correct*: a spent or revoked token is refused for ever; a suspended user gets no
new token; a client never loses its only good token except by a lost reply, or by a renewal that
is refused and answered late, after another one has stored a fresh pair (`lib/api.ts:114` of the
extension).

### 1.5 Background workers

`workers/aggregate-daily.ts`, `workers/scheduler.ts`, `workers/excel-export.ts`,
`routes/exports`, `workers/queues.ts`, `workers/start.ts`, on BullMQ and Redis.

*State*: the `DailySummary` and `ExportJob` tables, the job queues, the objects in MinIO.

*Operations*: the cron job that recomputes the summaries of a day; queueing, running, retrying and
polling an export.

*What is hard*: a job runs again after a failure or a crash, possibly after it had finished; the
row and the queue are written one after the other.

*What makes it correct*: an export said to be done can be downloaded; a summary counts what the
sessions and events of that day say, and recomputing it changes nothing.

### 1.6 Live presence

`routes/ws.ts`, `routes/activity`, the heartbeats of `routes/ingest` and `routes/me`,
`app/(dashboard)/page.tsx` and `live-panel.tsx`.

*State*: `Device.lastSeenAt`; the registry of sockets, one set of handles per organisation, in the
memory of the API process; the users each open page lists, and which of them it shows as online.

*Operations*: a heartbeat of an agent (written), of a browser (device found, written, broadcast);
the presence snapshot; the handshake and the close listener of a socket; a page that renders,
fetches a token, connects, receives ticks and is left.

*What is hard*: the page starts from a snapshot and is kept up by messages, and there is a gap
between the two; a socket is noticed to be closed long after it is; the close listener works on
the set it captured, not on the registry's; the process restarts with an empty registry; a
heartbeat may be served by another process, which has a registry of its own.

*What makes it correct*: an open page is registered where its close listener will look for it;
it shows a worker only who was seen; and a worker it lists who keeps beating, in the end.

### 1.7 The dashboard's session

`apps/dashboard/lib/session.ts`, `lib/api.ts`, `middleware.ts`, `app/api/auth`.

*State*: the cookies `wt_access` and `wt_refresh`, shared by all tabs; what each tab shows.

*Operations*: a page load, in which layout and page each authenticate, and renew the pair if the
access cookie is gone; sign-in, sign-out.

*What is hard*: both parts of a load, and several tabs, use one refresh token at once; a page that
is being rendered cannot write cookies; cookies, tokens and Redis keys end at different moments;
a sign-out in one tab overtakes what another has under way; a request that a tab gives up may be
served later.

*What makes it correct*: a browser that signed out stays so; an error page has a cause in its own
load.

### 1.8 The workday panel

`app/(dashboard)/workday`, `app/api/proxy`, and behind them `routes/me`.

*State*: the panel's own `status` and `error`, a copy of what the server said last; the worker's
rows of `WorkSession`.

*Operations*: the page is rendered with the answer of `GET /me/workday`; the one button starts or
stops the workday through the proxy, each in two to four statements of the API; the page is left,
loaded again, or come back to by a link.

*What is hard*: a call may fail on its way back after the API has done it, and one that nobody
waits for any more may be done later; other pages, the agent and the extension start and end
sessions too, and two of them may be open at once.

*What makes it correct*: what a panel at rest shows is so, or comes with an error message.

### 1.9 Administration

`routes/rules`, `routes/settings`, `routes/users` with `users.service.ts`, `routes/screenshots`,
`plugins/audit.ts`, `plugins/error-handler.ts`, the rules table and the review queue.

*State*: the tables `ProductivityRule`, `User`, `Organization`, `Screenshot`, `AuditLog`, the
images in MinIO, the rows a page lists.

*Operations*: create, change and delete a rule; create, edit, suspend and delete a user; change
the settings; upload a screenshot, list and review it; the audit entry of each.

*What is hard*: look-up, write and audit entry are three statements; the e-mail address is unique
in the table, not in the handlers; the image and its row are in two stores; pages remove and add
rows by their own answers.

*What makes it correct*: a race has one winner and the loser is told so; an answer says what was
done, also when the audit entry fails; every row has its image; what a page lists is explained
by what it was told.

### 1.10 The rest

The read-only queries (activity, team, reports), health, configuration, the framework's wiring,
the agent's window, database seed, Docker and nginx files keep no state of their own.
`PROJECT.json` lists them with the reason.

## 2. Plan

The pipeline is modelled from the middle outwards: the service every client talks to first, the
client with the most threads next, then the other client, the credentials both depend on, the
two workers behind them, and then what people see of it.

| # | Module | Composes | Abstract specification | State |
|---|--------|----------|------------------------|-------|
| 1 | `Ingest` | | | modelled, checked, proved (`IngestProofs`) |
| 2 | `AgentSync` | `Ingest` | `EventLog` | modelled, checked, proved (`AgentSyncProofs`) |
| 3 | `Extension` | `Ingest` | | modelled, checked, proved (`ExtensionProofs`) |
| 4 | `Accounts` | | | modelled, checked, proved (`AccountsProofs`) |
| 5 | `Exports` | `Rounding` | | modelled, checked, proved (`WorkersProofs`) |
| 6 | `Aggregate` | `Rounding` | | modelled, checked, proved (`WorkersProofs`) |
| 7 | `Live` | | | modelled, checked, proved (`LiveProofs`) |
| 8 | `WebSession` | | | modelled, checked, proved (`DashboardProofs`) |
| 9 | `Workday` | | | modelled, checked, proved (`DashboardProofs`) |
| 10 | `Admin` | | | modelled, checked, proved (`AdminProofs`) |

`MC<module>` instantiates a module for TLC (`MCDashboard` the two modules `WebSession` and
`Workday`), `MC<module>*.cfg` gives its constants their values.

What is left: every safety property of the passing runs is a theorem, and so is the refinement of
`EventLog`. The three liveness properties stay with TLC (section 6). The hazards that
`PROJECT.json` lists without a property are behaviour the code has (section 7): the models contain
it, and a property would have to forbid what the program does.

## 3. Modules and code

In all modules an action is what the code does between two points at which somebody else may
run: from one `await` to the next in TypeScript, from taking a lock to releasing it in Rust, one
statement to Postgres, one command to Redis or BullMQ. `PROJECT.json` maps every definition to
its lines.

**`Ingest`**. `sessions` and `rows` are the tables `WorkSession` and `ActivityEvent`, `browsers`
the browser devices, `reqs` the requests under way with the handler's position `pc` and what it
has read so far, `issued` the number of client session ids drawn. `Send` puts a request on the
wire; `ParseBody`, `FindActive`, `FindBrowserDevice`, `CreateBrowserDevice`,
`FindByClientSessionId`, `CreateSession`, `FindOwned`, `CloseSession` and `InsertRows` are the
queries of the handlers; `Receive` returns the answer. `Lose` drops a request or an answer,
`GiveUp` is a client that stops waiting while the server works on.

**`AgentSync`** adds the agent: `identity`, `workday`, `private`, `pending`, `sid` are the fields
of `Inner`, `buffer` the SQLite table, `keychain` the saved identity, and `main`, `monitor`,
`ender`, `sync` the local variables of the four threads of control. `Restart` kills the process
at any point and keeps `keychain` and `buffer` only. The requests of the agent are those of
`Ingest`: `Serve`, `Lose` and `StopInBrowser` (the worker ends the session elsewhere) run between
any two of its steps.

**`EventLog`** is the abstract specification of `AgentSync`: an event is recorded, may be stored,
and is acknowledged only once it is stored. The refinement maps `recorded` to the rows of the
buffer, `stored` to the events in the server's table and `acked` to the buffer rows marked as
sent; crashes, retries, threads and sessions have no counterpart in it.

**`Extension`** adds the browser to `Ingest`: `auth`, `paused`, `queue` are the keys of
`chrome.storage.local`, `tasks` the handlers of the service worker with their local variables.
`DrainRead`/`DrainWrite` and `EnqueueRead`/`EnqueueWrite` are the two halves of the two functions
of `storage.ts` that rewrite the queue. `Kill` is the browser stopping the service worker: the
handlers are gone, and their requests are abandoned all at once.

**`Accounts`**: `live` are the keys `rt:<jti>` in Redis, `owner` the user in a token, `enroll`
and `devices` the enrolment tokens and the devices made under them, `auth` what the extension
stores, `calls` the requests under way. `RedisGet`, `RedisDel`, `FindUser`, `IssueTokens` are the
four awaits of `rotateRefreshToken` (a login begins at `FindUser`), `EnrollLookup` and
`EnrollTransact` those of `enrollAgent`. The field `good` of a call and the variable `forfeited`
are history.

**`Exports`**: `rows` is `ExportJob`, `objects` the bucket, `queue` what BullMQ knows of each
job, `runs` the slots of the worker. `MarkRunning`, `ProcessUser`, `Upload`, `Finish` are the
writes of the processor in order; `Take`, `Complete`, `Throw`, `Die`, `LoseLock` are BullMQ: a
lock, attempts, and stalled jobs that are handed out again up to `maxStalledCount`.

**`Aggregate`**: `sessions` and `events` are the tables, `summaries` is `DailySummary`,
`template`, `fired` and `jobs` the scheduler and its queue, `run` the job being worked on with the
sessions and events it has read. `Upsert` computes and writes one user's summary; `basis` is
history: what the tables said to the run. `ReadSessions` and `ReadEvents` are one `findMany` in the
code: Prisma fetches the included events with a second statement, and a session may end, or an
event arrive, between the two.

**`Rounding`** is `Math.round`, which both workers use: halves are rounded up.

**`Live`**: `device` is `Device.lastSeenAt` of each worker's two devices, as an age: of time only
the cutoff of 90 s matters, so an age is within it, at it, or beyond it, and `Tick` lets half a
cutoff go by. `beat` is the handler of `POST /me/heartbeat` between its statements (`BeatFind`,
`BeatUpdate`, `BeatBroadcast`), `agentBeat` an agent's heartbeat on its way. `sockets` is the map
of `ws.ts`, `handles` the contents of a set, `orgSet` the set that a handler's close listener
captured; `Handshake` and `CloseEvent` are the only code that touches them, `Restart` empties
them. They belong to one API process, the one the modelled pages are connected to: `BeatElsewhere`
is a heartbeat served by another process, written to the same table and broadcast to other pages.
`tab`, `listed`, `live` and `wire` are a page, the workers it has a card for, those of them it shows
as online, and the ticks on their way to it. A page is rendered (`Render`) with any part of the
organisation as its list: none when `listUsers` fails, one page of 200, nobody added later. A tick
about somebody else changes nothing that is shown. `Online` is the query of `GET /presence` with
its order of nulls. `earned` is history: whom the page may show, because of its snapshot, of a
heartbeat written since, or of one written before, however long ago, and broadcast since.

**`WebSession`**: `access` and `refresh` are the cookies, a token goes by the number of the pair it
was issued in, `valid` and `known` are the access tokens not expired and the refresh tokens in
Redis. A load has two parts, `layout` and `page`, which run side by side and call `requireUser`
each: `Rotate` and `Reissue` are the two halves of the renewal, `Store` the cookies that a
rendered page cannot write (Next.js lets only route handlers and server actions do so, and the
call throws), `Me` the call that follows. `call` is the request a form or script waits for:
`LoginServed` and `LogoutServed` at the server, `LoginAnswered` and `LogoutAnswered` when the answer
arrives. `Lost` is a tab that gives its request up; one that was not served by then is `adrift` and
may be served at any later time (`AdriftServed`), with nobody to get the answer. `excused` is
history.

**`Workday`**: `view`, `status` and `error` are the pages with a workday panel, `sessions` the
worker's rows of `WorkSession`, `reqs` the calls under way through the proxy, each with the page that
waits for it (`by`) and the position `pc` of its handler. `FindExisting` and `CreateSession` are the
look-up and the write of a start, `FindToEnd` and `CloseFound` those of an end; the look-up or
creation of the browser device between them is in `Ingest`. `Refuse` is an answer with an error
before anything was done, `Receive` the answer that arrives, `CallFails` a page that gets an error or
nothing while the request goes on without it: the fetch of the proxy rejects
(`proxy/[...path]/route.ts:29-30`), or the connection breaks. `Unmount` leaves the requests of a
page that is left behind, too; `Vanish` is a request nobody waits for that comes to nothing, or whose
answer is dropped. `Revisit` is the router cache of Next.js, which may show a page with the `initial`
of an earlier load. `Elsewhere` is what agent and extension do to the sessions. `sure` is history: what the
server told a page, or is about to in the answer on its way to it, and nobody else changed since.

**`Admin`**: `rules`, `emails`, `statuses`, `column`, `settings`, `shots`, `reviewed` are the
columns the handlers write, `objects` the bucket, `calls` the requests with the handler's
position, `shown` and `queue` what a page lists. `Parse`, `FindRow`, `FindEmail`, `FindSession`
and `Put` come before the write, each kind of call has one action for its write, `Audit` and
`Generic` are the two audit entries; `Breakdown` is a statement that fails, `Abort` the end of the
process or of the connection. `Receive` is the answer with what the page makes of it. `listed`
and the field `changed` are history.

### Abstractions

* The agent's online flag, its count of buffered events and the heartbeats are not modelled: no
  step reads them.
* A client session id stands for the row it creates, so the server's session id and the client's
  are one number. The order of the numbers is the order of `startedAt`.
* A failure of `mark_synced` has the same effect as a lost answer: the batch is sent again.
* `Enroll` of the agent saves the identity in one step with the answer.
* The size of a request body is not limited; of the number of events in a batch only what a
  property depends on is kept (`MaxBatch` in `Extension`).
* In `Accounts` a refresh token's own expiry coincides with the expiry of its Redis key; issuing
  an enrolment token reads the user and writes the row in one step.
* In `Aggregate` time is counted in half minutes, two of them a minute; of the rules that match a
  label with equal weight any may come first; `privateMinutes`, which the code never computes, is
  left out. Each request of the ingest service is one step there, with the times clients stamp in
  order: the races between two of its handlers (section 7) are in `Ingest`.
* In `Live` all ticks about a worker say the same, so what is under way to a page is a set of
  workers; a heartbeat may be delayed but does not arrive twice.
* In `WebSession` a cookie ends some time after its token, never before: both get the same
  lifetime, the cookie's starting a moment later. Of the requests a tab gave up before they were
  served it remembers the last; an earlier one may have been served by then or never is.
* In `Workday` a session is open or not, and which of several began last is left open: their
  `startedAt` come from different clocks. A missing cookie and a refused token are calls that are
  answered with an error.
* `Live` takes the clock of an agent for the server's: `POST /ingest/heartbeat` stores the
  timestamp the agent sends (`routes/ingest/index.ts:98`).
* In `Admin` a row is named after the call that makes it; what a body carries is one value; two
  organisations do not share rows, so there is one. The role of the caller is part of `Parse`.

Modelled from how the code uses them, not from their source: Postgres (a statement is atomic, the
address is unique, an update of a row that is gone is an error, a descending order puts nulls
first), Redis and BullMQ, S3 (the last object under a key stays), the browser's storage and
cookies, the rendering of Next.js, HTTP and WebSocket connections.

## 4. Runs

| Run | Asks | Bounds |
|-----|------|--------|
| `ingest` | May a client rely on `ok` (`StartReplySound`, `EndReplySound`, `EventsReplySound`)? Do two columns written by different queries agree (`EndedIffClosed`)? Is anything undone (`TablesMonotone`)? | two requests at once, two sessions, two workers, one agent, one browser |
| `overlap` | Are there no gaps (`StoredInOrder`), and does it all implement `EventLog` (`ImplementsLog`: what is marked is stored), when a request that timed out is still at work during the next pass? | two request slots, two events, batches of one |
| `days` | The same over two workdays: no session id of the wrong day (`KnownSessions`), no event stored twice (`StoredOnce`). | two sessions, one event |
| `flush` | Does every well-formed event of a session that stays open get through in the end (`FlushedWhileOpen`)? | one event, one session |
| `extension` | Is an observed event lost only where the code gives it up (`NothingElseLost`)? | two handlers, two events, queue of two |
| `accounts` | Is whoever is granted something entitled to it (`GoodCredentials`), is the browser's token usable (`StoredTokenLive`), is a dead token dead (`NoRevival`), is a used enrolment token marked (`ConsumedIffEnrolled`)? | two calls at once, three tokens |
| `exports` | Does the row tell the truth (`DoneHasObject`, `ProgressAgrees`), and does every queued job end (`QueuedEnds`)? | two jobs, two slots, two users, two attempts, one stall |
| `aggregate` | Is the summary what the tables said (`WorkedIsCovered`, `FocusCounted`), and do days add up (`DaysAddUp`)? | two days of two half minutes, one session, two events, two attempts |
| `live` | Is an open page registered, and nothing else (`RegisteredWhileOpen`)? Does a page show nobody unseen (`ShownIsEarned`), and everybody it lists who keeps beating (`BeatsAreShown`)? | one worker, two pages of the worker's organisation, one of another |
| `dashboard` | Does an error page have a cause (`ErrorNeedsCause`), does nothing undo a sign-out (`SignedOutStaysOut`)? Does a workday panel at rest tell the truth or show an error message (`PanelAgrees`), when calls fail after they were done, are done after they were given up, or overlap? | two tabs, two pairs of tokens; two panels, three sessions, two requests under way |
| `stale_date` | Is the nightly job for the day that just ended (`NightlyJobIsForYesterday`)? It is not. | as `aggregate` |
| `admin` | Do races have one winner (`RaceHasOneWinner`)? Do answers and entries tell the truth (`AnsweredAsDone`), rows have their images (`RowHasObject`), lists an explanation (`ListsExplained`)? | two calls, two pages, one row of each kind at the start, three values |

The first property of most runs is the type invariant (that of `Workday` is proved and not run). One run, `stale_date`, shows a
disagreement between the code and what is said of it: see section 7. `dashboard` checks
`WebSession` and `Workday`, which have no variable in common, in one run: each moves while the other
rests in its initial state, so the states are those of the one and those of the other.

### Why the bounds are enough

Two requests at once already give every order of the queries of two handlers, and none of the
properties of `Ingest` relates three. One event per batch is the worst case for gaps and partial
acknowledgement: a larger batch is stored and marked in one step each. A queue of two with a batch
limit of one keeps the relation of the code's 5,000 to 1,000: a queue can be full, and can be
longer than one batch. Two calls of one browser, with an enrolment among them, give the races of
`Accounts`, and three tokens allow a token to be renewed, lost and replaced. Two slots let two
runs of one job overlap, which is all that BullMQ allows before the job fails for good
(`maxStalledCount` 1). Two days of two half minutes have both midnights a session can cross, and
every rounding case, because a session's minutes are cut by day and rounded at half minutes.
Three pages give a set of handles that two share, that loses one of them first and then the other,
and a page of an organisation that must not notice; one worker is enough because no step relates
two. Two pairs of tokens are a sign-in and the renewal that is lost, or two sign-ins of two tabs;
two tabs are the sign-out in one and what the other has under way. Two requests are those that two panels wait for, or one that was given up and the next one of the
same panel or of the other; three sessions are two open at once and one that is started when they
have ended. Two calls give every order of
two handlers' statements, with two pages to make them from, or one; three values give two bodies
that agree with each other, or with what is there, or with neither.
`overlap` and `flush` have no end times (`EndTime` is empty): there a workday ends by the tray, by
logging out or by a restart, and the command that tells the backend is left to `days`.
`MaxBrowsers` is 0 in the runs of `AgentSync`: a browser's requests concern other devices' rows,
apart from the end of a session, which `StopInBrowser` adds.

`exports` and the two `Aggregate` runs (`aggregate`, `stale_date`) switch the deadlock check off: when every job has ended, or
the last day is over, nothing is left to do. Everywhere else TLC checks that somebody can always
move.

## 5. Fairness

Three runs check liveness.

`flush` assumes weak fairness of the sync loop's own steps (`SyncStep`): the loop in `sync/mod.rs`
is a `loop` around a 30 s sleep on its own thread and ends only with the process. Its timeout is
not part of it. A request that is under way is answered (`WF` of `Serve`); and the queries of a
batch are not lost, nor the pass cut off before it marks the batch, every single time (`SF` of
`ParseBody`, `FindOwned`, `InsertRows`, and of the marking step): without this a network that
drops every request for ever would be a counterexample. Restarts, ends of workdays and losses may
happen infinitely often. The premise of `FlushedWhileOpen` is that from some moment on the session
stays open and holds no malformed event.

`exports` assumes that BullMQ hands out waiting jobs and that a run keeps going until it ends
(`WF` of `Take` and `Step`): the processor awaits nothing but queries and the upload. Throwing,
dying and losing the lock are not part of `Step`: they may happen at any moment, but no progress
depends on them.

`live` assumes that a heartbeat handler that has begun goes on (`WF` of `BeatUpdate` and
`BeatBroadcast`: one statement and one call, without a lock) and that a message on the wire of an
open socket arrives (`WF` of `Message`: it is a TCP connection). That the worker keeps beating at
this process, and that the page lists the worker and stays open, is not fairness but the premise
of `BeatsAreShown`: the panel and the extension send a heartbeat on a timer, as long as they run. Nothing is assumed of handshakes, close events or restarts.

## 6. Proofs

TLAPS checks the following for every value of the constants that satisfies the named assumptions
(`IngestAssumption`, `AgentAssumption`, `ExtensionAssumption`, `AccountsAssumption`,
`ExportsAssumption`, `AggregateAssumption`, `LiveAssumption`, `WebSessionAssumption`, `WorkdayAssumption`, `AdminAssumption`). Each proof
follows the same argument: an inductive invariant (`Init` establishes it, every action preserves
it, one lemma per action), and the theorems read off it.

**`IngestProofs`**: `IngestTypeCorrect`, `StartRepliesSound`, `EndRepliesSound`,
`EventsRepliesSound`, `EndedIffClosedAlways`, `TablesOnlyGrow`. A reply is sound because of what its request saw on the
way, so the invariant `IngestInv` says, of each request, which kinds of request reach which query
(`OnItsWay`) and what a request past the look-up of its session may rely on (`Relies`). Because
that is a predicate on one request and the two tables, one lemma carries it over every step of
another request that only lets the tables grow. `ServeProgress` and `AbandonOK` say what a step of
the server, or a client that goes away, may do to a request; the two compositions build on them.

**`AgentSyncProofs`**: `AgentTypeCorrect`, `SessionsAreKnown`, `EventsStoredOnce`,
`EventsStoredInOrder`, `AgentImplementsLog`, and three facts no run lists: `AgentIsClient`,
`OneRequestAwaited`, `BufferAppendOnly`. The inductive invariant is built in layers; the last two
rest on the first two, not on each other:

1. `TypeInv`: the types, the invariant of `Ingest`, and what a thread has read by the time it
   sends (`ThreadsReady`). `BackendStep` shows that whatever the agent does, the backend sees at
   most one step of its own, so the lemmas of `IngestProofs` carry over.
2. `OneWaits`: the sync loop waits for exactly one request, the one its position says. The loop
   times out and asks again while the server works on the first request; that the late answer is
   not taken for the second rests on this.
3. `KnownSessions`: every id the agent holds (`HeldStep` lists where an id can come from) or has
   stamped on an event is that of a session in the backend's table.
4. `StorageInv`: the batches under way carry events of their own session (`BatchesSound`) and
   leave no gap (`BatchesGapless`: what is older and of the same session is in the batch or on
   the server), and what is marked as sent is stored (`SyncedStored`). `StoredOnce` and
   `StoredInOrder` are not inductive without them: a batch abandoned by a timeout may be inserted
   after a later one.

`AgentImplementsLog` maps each step: recording an event is `RecordEvent`, `InsertRows` is `Store`,
marking a batch is `Acknowledge`, because the answer is to the batch in hand (`OneWaits`) and an
acknowledged batch is stored, and everything else, restarts included, is a stutter. `AgentIsClient` says that the composition is a behaviour of
`Ingest` for the backend's variables, so that every theorem about `Ingest` holds in it; it needs
to know that the agent only sends ids that were drawn (`IdsIssued`).

**`ExtensionProofs`**: `ExtensionTypeCorrect`, `OnlyKnownLosses` (the action property
`NothingElseLost`), `OwnAnswerAwaited`, `BrowserRepliesSound`. An event may be in the queue, in
the hands of a handler, or on the server. `HandsFit` says what a handler has in its hands at each
await: empty wherever it may return, and nothing read before it reads the queue. `HandlersWait`
says that a handler awaits `pushEvents` exactly while one request of its own is under way, which
carries the very events it would queue again; with the soundness of replies, a handler that lets
go of its batch has it on the server. `LimitedQueue` is the lemma about the splice in `enqueue`:
it keeps the limit and cuts the oldest events only. Because `Kill` abandons several requests in
one step, the composition is not a behaviour of `Ingest`, and `BrowserRepliesSound` is proved for
it again.

**`AccountsProofs`**: `AccountsTypeCorrect`, `OnlyTheGoodAreGranted`, `BrowserKeepsALiveToken`,
`MarkedWithItsDevice`, `TokensNeverRevive`. `GoodCredentials` speaks of the moment a request was
sent. `SentGood` says what the last thing a call saw still tells of that moment: a token that is
live now was live then, because none revives; a user who is active now was active then, because
nobody is reinstated. `StoredTokenLive` needs to know that the token in an answer (`Fresh`) has
been neither spent nor stored nor given out twice while it was on its way (`Unspent`, `Distinct`),
and that a call whose client is gone has forfeited its token (`Forgotten`).

**`WorkersProofs`**, `Exports`: `ExportsTypeCorrect`, `DoneCanBeDownloaded`,
`PollerIsToldTheTruth`. Runs of one job may overlap once its lock ran out. The invariant separates
the run with the lock from those that lost it by the stall counter: at most one run holds the lock
of a job (`LockHeld`), a run without it belongs to a job that has stalled (`Orphaned`), what a run
has uploaded and marked by the time it gets to each step (`Uploaded`, `Marked`), and the retries it
has left (`Budget`). `ProgressBound` is the arithmetic of the progress bar.

**`WorkersProofs`**, `Aggregate`: `AggregateTypeCorrect`, `MinutesAreCovered`, `FocusIsCounted`,
`DaysAreComplete`, and `SummaryOfOneReading`, which no run lists. The invariant has two halves.

1. The tables: an end is not before the start and an event not outside its session, although both
   arrive late (`TablesInOrder`); finitely many sessions have started and finitely many events are
   stored (`TablesFinite`: an invariant, not an assumption, so `Sid` may be infinite).
2. The worker: what it holds is consistent, an event lies in a session that was read
   (`ReadInOrder`). That is so because the sessions are read first: a session can only end between
   the two statements, and not before an event it has (`StillThere`). Every row is what
   `Summarise` computes from such a reading, for some order of the rules (`ComputedFromBasis`):
   neither failed runs nor earlier rows leave a trace.

The properties then follow from what `Summarise` is. They speak of sums over sets of any size,
and the sum is a fold, that is, a recursive function. What it computes is shown by hand, because
the induction theorems of the library cannot be instantiated: the cardinalities of the
counterexamples are a set of naturals, and such a set has a smallest member (`NatMin`,
`MinimalSubset`). So the recursive function exists (`SumExists`), its value does not depend on the
order in which elements are chosen (`SumUnique`), and an element may be taken out (`SumRemove`).
On top of that: a rounded quotient is half a unit off at most and shifting by whole units commutes
with it (`RoundBounds`, `RoundShift`); the minutes of a session in a day are those ticks, rounded
(`MinutesOfASession`); no event of the day is missed for want of a selected session
(`FocusOfTheDay`); the three categories add up to the focus events, however the rules overlap
(`HitsAddUp`), which also makes the neutral count, a difference, a number; and the days of a
session telescope, because every day but the first and the last is whole (`DaysOfASession`).

**`LiveProofs`**: `LiveTypeCorrect`, `OpenPagesAreRegistered`, `NobodyIsShownUnseen`. That the set a
close listener captured is the set that is registered is not inductive by itself: a set must also
belong to one organisation, so that emptying it takes out that organisation's entry and no other
(`SetsAreOwned`). What a page may show depends on what is on its way: ticks on the wire
(`TicksAreEarned`), and heartbeats that were written and not yet broadcast.

**`DashboardProofs`**, `WebSession`: `WebSessionTypeCorrect`, `SignedOutTheorem`,
`ErrorsHaveCauses`. Tabs share the cookies and nothing else, so the invariant speaks of one tab:
what a load with a broken part owes that to (`LoadsExcused`). The sign-out is an action property,
read off the two actions that write cookies.

**`DashboardProofs`**, `Workday`: `WorkdayTypeCorrect`, `PanelTellsTruth`. A page waits for one call
at a time (`OneCall`), and only while its panel is shown (`Waits`). `PanelTruth` says where the truth
is while a page is sure: in what it shows, or in the answer on its way to it; a page that got an
error has it nowhere, and says so. Answers are sorted into the one to this page
(`TruthAnswered`) and everybody else's (`TruthKept`). `PanelAgrees` is not inductive without
this: the answer that makes a panel change may have been overtaken by somebody else's session.

**`AdminProofs`**: `AdminTypeCorrect`, `RacesHaveOneWinner`, `AnswersAreTrue`, `ImagesAreThere`,
`ListsAreExplained`. A call holds nothing between its look-up and its write, so the invariant
relates what a call has done (`changed`) to the tables (`RulesMade`, `ReviewsDone`,
`ImagesStored`) and to its position (`Phase`). What a page lists needs `PagesKnow`: it can ask for
the deletion only of a rule it lists, so never of one whose creation it is still waiting for.
Steps are sorted into those that change no table (`Plain`), the one that writes (`Wrote`), the
call, the answer and the load, and each invariant is carried over these five.

Only model-checked: the liveness properties `FlushedWhileOpen`, `QueuedEnds` and `BeatsAreShown`.
They need fairness, hence ENABLED, which is out of reach of the prover's back ends used here; the
safety part of their arguments (`OneWaits`, `Budget`, `TicksAreEarned`) is proved. No module that is
proved about declares a RECURSIVE operator.

## 7. Promises the code does not keep

One is shown by a run whose counterexample TLC prints: `stale_date`. The date of the nightly
aggregation is computed when the process starts (`scheduler.ts:21`) and stays in the job template,
so every night the same day is computed instead of the one that ended
(`docs/architecture.md:42-43`); only a process that starts between midnight and 00:05 gets its
first run right.

The following were met while modelling. The models contain the behaviour, and the properties are
stated so that they are true of it.

Ingest and the agent:

* `POST /me/workday/start` is called idempotent (`apps/backend/src/routes/me/index.ts:50-52`), but
  two at once both find no open session and create one each.
* A worker who has an agent's session open and starts the workday in a browser is answered
  `resumed` and gets no browser device: the heartbeats of that browser find nothing to write.
* `toggle_private` records `private_end` without the duration that the shared schema requires
  (`state.rs:204`, `packages/shared/src/schemas/events.ts:63-69`). One refused event refuses its
  batch, the batch is retried for ever, and everything recorded behind it stays on the laptop
  (`docs/architecture.md:34`).
* Two ends of a session at once both pass the check of `endedAt`; the later overwrites end and
  private minutes (`agent.service.ts:123-130`; `docs/api.md:21` says idempotent).
* A batch that was looked up before an end is inserted after it (`agent.service.ts:147-151`).
* The comment that an unsuccessful end "will be retried on next sync" (`commands.rs:40`) has no
  code behind it, and the tray's end never calls the backend at all: the session stays open on
  the server, beside the next day's.
* Events not yet sent when the workday ends or the agent restarts stay unsent: a pass takes only
  those of the current session (`docs/architecture.md:34`). Events recorded before the first pass
  has started the session carry no session id and are never taken.
* A restart forgets the session; the table for it (`buffer/mod.rs:130-131`) is never used.
* A late answer to a start is stored even when the workday ended while it was under way
  (`sync/mod.rs:189`).
* The monitor asks `is_collecting` once at the beginning of a tick (`monitor/mod.rs:30`); a
  private session that begins later in the same tick still sees its event recorded.

Extension:

* A tab seen outside the workday is queued and flushed into the next workday
  (`README.md:169-171`, `background.ts:68`).
* A lost answer to a push puts the events back in the queue; if another session is open by then
  they are stored twice.
* A queue of more than 1,000 events is refused whole and put back, for ever.
* A failed batch goes to the back of the queue, not to the front (`background.ts:130`).
* Two handlers that rewrite the queue at once lose what one of them wrote.
* Sign-out keeps the queue (`apps/extension/README.md:37`), and a second user flushes the first
  one's events as his own. A pause stops new events but not the flush (`:56-57`).

Accounts:

* Rotation is not single-use for overlapping requests: both find the token before either deletes
  it (`docs/api.md:9`). A replayed token is refused, but no chain is invalidated
  (`docs/security.md:9-11`).
* An enrolment token presented twice at once enrols two devices (`docs/api.md:18`).

Exports and aggregation:

* A row whose job was never queued stays `pending`, one whose job failed for good stays
  `running`: nothing writes `failed` (`schema.prisma:215`).
* The worker's broadcasts are made in a process without sockets (`docs/architecture.md:44-45`).
* Events and ends of sessions that arrive after the night's run never reach a summary; the
  minutes of sessions that overlap are counted twice.
* Today has no summary before the night's run, so the dashboard's categories of today are empty
  until 00:05 UTC of the next day.

Live presence:

* "A user counts as online if any of their devices reported a heartbeat in the last 90 seconds"
  (`activity/index.ts:74-75`), but only the device that comes first in descending order of
  `lastSeenAt` is looked at (`:87`), and Postgres puts nulls first: an enrolled agent that has never
  reported hides the heartbeats of the browser, and the worker is absent from every snapshot.
* Agent heartbeats are written and not broadcast (`docs/architecture.md:34-36`): a worker with an
  agent only appears on a page that is loaded afresh.
* The page shows only the workers of the list it was rendered with (`live-panel.tsx:92-94`). The list
  is empty when `listUsers` failed (`page.tsx:17-26`), has 200 users at most (`lib/api.ts:110`), and
  knows nobody who was added later: their ticks arrive and nothing is shown.
* A tick reaches only pages whose socket is at the API process that served the heartbeat
  (`routes/ws.ts:19`); with several replicas (`docs/api.md:60-61`) the others miss it.
* The page never shows a worker as offline again, and does not connect again when its socket is
  closed: it goes on showing what it last knew.

The dashboard's session:

* A renewal during a page load spends the refresh token and cannot write the new pair
  (`lib/session.ts:56-66`): the error page is shown, and so at each load until the user signs in
  again.
* Sign-out revokes the refresh token only when the browser sent both cookies
  (`logout/route.ts:9`): after the access cookie has ended, the token outlives the sign-out.
* What is said of a replayed token, "entire chain invalidated" (`docs/security.md:9-11`), is not
  done for the dashboard either.

The workday panel:

* "Stopping the workday immediately closes the session. Nothing is collected while it is stopped."
  (`workday-panel.tsx:168-169`). The handler closes the open session that began last
  (`routes/me/index.ts:97`); an agent starts its own without looking for one
  (`agent.service.ts:93`), so a worker may have two, and the other one goes on.
* A call whose answer is lost between API and proxy, or between proxy and page, leaves the panel with
  an error message and its old status, although the workday has begun or ended
  (`proxy/[...path]/route.ts:29-30`). One that a page gave up may be served later, after
  the next one.
* A page whose `GET /me/workday` fails says "Workday not started", without an error message, even with
  a session open (`workday/page.tsx:16-25`). So may one that is come back to by a link while Next.js
  keeps an earlier rendering.
* Nothing tells a panel of sessions that others start or end: it shows what it last knew.

Administration:

* PATCH of the settings replaces the JSON as a whole (`routes/settings/index.ts:30`) and the form
  sends only the keys it shows: the others are dropped.
* An address taken between look-up and write, or given to a second user by an edit, which does
  not look, is answered 500 and not 409.
* Suspending a deleted user makes the user `suspended` (`users.service.ts:98`).
* An audited change leaves two entries: none of the handlers for rules, users, settings and reviews
  sets the header that would suppress the generic one (`plugins/audit.ts:44-47`).
* An upload that fails after the image was stored is answered 500 and leaves the image without a row.
* The key of a screenshot is made of the millisecond (`routes/screenshots/index.ts:64`): a second
  one of the same session and millisecond overwrites the image of the first.

## 8. What is not modelled

The read-only queries (activity, team, reports), the pages that show one query's result, the
agent's window, and the deployment files; `PROJECT.json` gives the reason for each. The OS probes behind the
monitor are not modelled: any event may be observed at any tick. Also left out are the wording of
errors, the contents of workbook and summary lists (top apps, top sites), what an audit entry
says, password hashing, signatures and ciphers, which are libraries, and rate limits, which only
refuse requests that the models may already lose.
