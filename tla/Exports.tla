------------------------------- MODULE Exports -------------------------------
(***************************************************************************)
(* Excel exports: POST /exports/excel writes a row and queues a job        *)
(* (routes/exports), a worker process runs it (workers/excel-export.ts),   *)
(* and GET /exports/:id reads the row.                                     *)
(*                                                                         *)
(* The job queue is BullMQ: a run that throws is tried again until the     *)
(* attempts are used up; a run whose process died, or whose lock ran out   *)
(* while it was still going, is stalled, and is handed to a worker again,  *)
(* once.  The row lives in Postgres and the job in Redis, so a crash can   *)
(* separate any two writes.                                                *)
(***************************************************************************)
EXTENDS Rounding

CONSTANTS
  Job,         \* export jobs that may be requested
  Slot,        \* runs a worker process makes at once (concurrency)
  Users,       \* number of users an export covers
  Attempts,    \* attempts option of queue.add
  MaxStalled   \* how often BullMQ hands out a stalled job again (maxStalledCount)

ASSUME ExportsAssumption ==
  /\ Job # {}
  /\ Users \in Nat
  /\ Attempts \in Nat \ {0}
  /\ MaxStalled \in Nat

VARIABLES
  rows,     \* the ExportJob table
  objects,  \* jobs whose workbook is in the object store
  queue,    \* the job queue: state, failed attempts and stalls of each job
  runs      \* the runs under way: where they are, and what they have done

vars == <<rows, objects, queue, runs>>

Row == [status : {"none", "pending", "running", "done"}, progress : 0..100, key : BOOLEAN]

NoRow == [status |-> "none", progress |-> 0, key |-> FALSE]

NoRun == [pc |-> "idle", job |-> CHOOSE j \in Job : TRUE, processed |-> 0, owned |-> FALSE]

Entry == [state : {"none", "waiting", "active", "completed", "failed"},
          failures : 0..Attempts, stalls : 0..(MaxStalled + 1)]

Run == [pc : {"idle", "mark", "users", "upload", "finish", "ack"}, job : Job,
        processed : 0..Users, owned : BOOLEAN]

TypeOK ==
  /\ rows \in [Job -> Row]
  /\ objects \subseteq Job
  /\ queue \in [Job -> Entry]
  /\ runs \in [Slot -> Run]

Init ==
  /\ rows = [j \in Job |-> NoRow]
  /\ objects = {}
  /\ queue = [j \in Job |-> [state |-> "none", failures |-> 0, stalls |-> 0]]
  /\ runs = [s \in Slot |-> NoRun]
-----------------------------------------------------------------------------
(* The request.                                                            *)

\* exportJob.create ...
CreateRow(j) ==
  /\ rows[j].status = "none"
  /\ rows' = [rows EXCEPT ![j].status = "pending"]
  /\ UNCHANGED <<objects, queue, runs>>

\* ... then queue.add, which a crash or an unreachable Redis may prevent for good.
AddJob(j) ==
  /\ rows[j].status = "pending"
  /\ queue[j].state = "none"
  /\ queue' = [queue EXCEPT ![j].state = "waiting"]
  /\ UNCHANGED <<rows, objects, runs>>
-----------------------------------------------------------------------------
(* A run of the job.                                                       *)

At(s, pc) == runs[s].pc = pc

Goto(s, pc) == runs' = [runs EXCEPT ![s].pc = pc]

\* BullMQ gives the job and its lock to a free slot.
Take(s) ==
  /\ At(s, "idle")
  /\ \E j \in Job :
       /\ queue[j].state = "waiting"
       /\ queue' = [queue EXCEPT ![j].state = "active"]
       /\ runs' = [runs EXCEPT ![s] = [pc |-> "mark", job |-> j, processed |-> 0,
                                       owned |-> TRUE]]
  /\ UNCHANGED <<rows, objects>>

\* Mutant: a run waits as long as the row says that another one is at work.
MarkRunningOnce(s) ==
  /\ At(s, "mark")
  /\ rows[runs[s].job].status # "running"
  /\ rows' = [rows EXCEPT ![runs[s].job] =
                [status |-> "running", progress |-> 5, key |-> @.key]]
  /\ Goto(s, IF Users = 0 THEN "upload" ELSE "users")
  /\ UNCHANGED <<objects, queue>>

\* status running, progress 5.
MarkRunning(s) ==
  /\ At(s, "mark")
  /\ rows' = [rows EXCEPT ![runs[s].job] =
                [status |-> "running", progress |-> 5, key |-> @.key]]
  /\ Goto(s, IF Users = 0 THEN "upload" ELSE "users")
  /\ UNCHANGED <<objects, queue>>

\* Mutants: the users are counted but not divided; their share is not scaled.
ProgressUndivided(n) == 5 + n * 90

PercentOf(n) == 5 + Round(n * 100, Users)

Progress(n) ==
  LET p == 5 + Round(n * 90, Users) IN IF p < 95 THEN p ELSE 95

\* One user's rows, then the progress.
ProcessUser(s) ==
  LET n == runs[s].processed + 1 IN
  /\ At(s, "users")
  /\ rows' = [rows EXCEPT ![runs[s].job].progress = Progress(n)]
  /\ runs' = [runs EXCEPT ![s] = [@ EXCEPT !.processed = n,
                                          !.pc = IF n = Users THEN "upload" ELSE "users"]]
  /\ UNCHANGED <<objects, queue>>

\* Mutant: the upload is not waited for.
UploadLater(s) ==
  /\ At(s, "upload")
  /\ Goto(s, "finish")
  /\ objects' = objects \cup {runs[s].job} \/ UNCHANGED objects
  /\ UNCHANGED <<rows, queue>>

\* uploadObject: the key is that of the job, so a repeated run writes the same object.
Upload(s) ==
  /\ At(s, "upload")
  /\ objects' = objects \cup {runs[s].job}
  /\ Goto(s, "finish")
  /\ UNCHANGED <<rows, queue>>

\* status done, progress 100 and the storage key in one update.
Finish(s) ==
  /\ At(s, "finish")
  /\ rows' = [rows EXCEPT ![runs[s].job] = [status |-> "done", progress |-> 100, key |-> TRUE]]
  /\ Goto(s, "ack")
  /\ UNCHANGED <<objects, queue>>

\* BullMQ takes the result of a run that still holds the lock of its job.
Complete(s) ==
  /\ At(s, "ack")
  /\ queue' = IF runs[s].owned THEN [queue EXCEPT ![runs[s].job].state = "completed"]
                               ELSE queue
  /\ runs' = [runs EXCEPT ![s] = NoRun]
  /\ UNCHANGED <<rows, objects>>

\* A query or the upload throws; nobody writes the failure into the row.
Throw(s) ==
  LET j == runs[s].job
      n == queue[j].failures + 1
  IN
  /\ runs[s].pc \in {"mark", "users", "upload", "finish"}
  /\ queue' = IF runs[s].owned
                THEN [queue EXCEPT ![j] = [@ EXCEPT
                         !.failures = n,
                         !.state = IF n < Attempts THEN "waiting" ELSE "failed"]]
                ELSE queue
  /\ runs' = [runs EXCEPT ![s] = NoRun]
  /\ UNCHANGED <<rows, objects>>

\* The lock of a run's job is found expired: the job is handed out again or failed.
Requeued(j) ==
  [queue EXCEPT ![j].stalls = @ + 1,
                ![j].state = IF queue[j].stalls < MaxStalled THEN "waiting" ELSE "failed"]

\* The worker process dies with the run ...
Die(s) ==
  /\ ~At(s, "idle")
  /\ queue' = IF runs[s].owned THEN Requeued(runs[s].job) ELSE queue
  /\ runs' = [runs EXCEPT ![s] = NoRun]
  /\ UNCHANGED <<rows, objects>>

\* ... or is too busy to renew the lock, and goes on without it.
LoseLock(s) ==
  /\ ~At(s, "idle")
  /\ runs[s].owned
  /\ queue' = Requeued(runs[s].job)
  /\ runs' = [runs EXCEPT ![s].owned = FALSE]
  /\ UNCHANGED <<rows, objects>>

Step(s) == MarkRunning(s) \/ ProcessUser(s) \/ Upload(s) \/ Finish(s) \/ Complete(s)

Next ==
  \/ \E j \in Job : CreateRow(j) \/ AddJob(j)
  \/ \E s \in Slot : Take(s) \/ Step(s) \/ Throw(s) \/ Die(s) \/ LoseLock(s)

Spec == Init /\ [][Next]_vars

\* BullMQ keeps handing out waiting jobs, and a run goes on until it ends.
FairSpec ==
  /\ Spec
  /\ \A s \in Slot : WF_vars(Take(s)) /\ WF_vars(Step(s))
-----------------------------------------------------------------------------
(* Properties.                                                             *)

\* An export the row says is done, or was done, can be downloaded: the status route signs
\* a URL of an object that exists, whichever of several runs wrote the row last.
DoneHasObject == \A j \in Job : rows[j].status = "done" \/ rows[j].key => j \in objects

\* Progress and status agree: 100 is said of a finished export alone, and a poller that
\* waits for 100 is not left waiting by a job that was never stalled.
ProgressAgrees ==
  \A j \in Job :
    /\ rows[j].progress = 100 => rows[j].status = "done"
    /\ rows[j].status = "done" /\ queue[j].stalls = 0 => rows[j].progress = 100
    /\ rows[j].status = "running" => rows[j].progress \in 5..95

\* A job the queue lists as completed left a row that is done, retries included, unless it
\* was stalled and an earlier run of it went on.
CompletedIsDone ==
  \A j \in Job :
    queue[j].state = "completed" /\ queue[j].stalls = 0 => rows[j].status = "done"

\* Every queued job comes to an end: it is completed, or failed for good.
QueuedEnds ==
  \A j \in Job : queue[j].state = "waiting" ~> queue[j].state \in {"completed", "failed"}
=============================================================================
