------------------------------ MODULE Aggregate ------------------------------
(***************************************************************************)
(* The daily aggregation: the cron scheduler (workers/scheduler.ts) adds a *)
(* job a night, and the worker (workers/aggregate-daily.ts) computes one   *)
(* DailySummary per user from the sessions, the events and the rules it    *)
(* reads, one query after the other, while the ingest service goes on      *)
(* changing what it reads.                                                 *)
(*                                                                         *)
(* Time is counted in ticks; a minute has several, because the code rounds *)
(* to minutes.  Day d is the ticks from d * DayLength up to, and without,  *)
(* (d + 1) * DayLength.  The clock starts with day 1.                      *)
(***************************************************************************)
EXTENDS Rounding, FiniteSetsExt, SequencesExt

CONSTANTS
  User,       \* the active users
  Sid,        \* work sessions
  Label,      \* process names and domains
  NoLabel,    \* of the end of an idle time
  Rule,       \* the organisation's rules: which labels match, the category, for whom
  Minute,     \* ticks of a minute
  DayLength,  \* ticks of a day
  Days,       \* bound: last day of the model
  MaxEvents,  \* bound: events stored
  JobAttempts \* attempts option of the scheduled job

ASSUME AggregateAssumption ==
  /\ Minute \in Nat \ {0}
  /\ DayLength \in Nat \ {0}
  /\ DayLength % Minute = 0
  /\ Days \in Nat \ {0}
  /\ MaxEvents \in Nat
  /\ JobAttempts \in Nat \ {0}
  /\ NoLabel \notin Label
  /\ IsFiniteSet(Rule)
  /\ \A r \in Rule : r.matches \subseteq Label /\ r.users \subseteq User

Time == 0..((Days + 1) * DayLength)
Day == 0..Days
DayOf(t) == t \div DayLength

\* startedAt of a session that does not exist yet, endedAt of one that is open.
Never == -1

VARIABLES
  now,        \* the clock
  sessions,   \* the WorkSession table
  events,     \* the ActivityEvent table, less what is not aggregated
  template,   \* the date in the scheduler's job template; Never before its first start
  fired,      \* days on which the cron pattern has fired
  jobs,       \* jobs waiting: the date, and the attempts left
  run,        \* the worker's run
  summaries,  \* the DailySummary table
  basis       \* history: what summary <<u, d>> was last computed from

aggregateVars == <<now, sessions, events, template, fired, jobs, run, summaries, basis>>

Session == [user : User, start : Time \cup {Never}, end : Time \cup {Never}]

Event == [sid : Sid, at : Time, label : Label \cup {NoLabel}, idle : Time, focus : BOOLEAN]

Count == [worked : Nat, idle : Nat, productive : Nat, neutral : Nat, distracting : Nat,
          score : 0..100]

NoSummary == [worked |-> 0, idle |-> 0, productive |-> 0, neutral |-> 0, distracting |-> 0,
              score |-> 0]

\* A session as the worker reads it.
Snapshot == [sid : Sid, start : Time, end : Time \cup {Never}]

NoAggregation == [pc |-> "idle", date |-> 0, left |-> 0, todo |-> {},
                  user |-> CHOOSE u \in User : TRUE, sessions |-> {}, events |-> {}]

\* The job, the users left and, of the one it is at, what was read.
Aggregation == [pc : {"idle", "sessions", "events", "rules", "done"}, date : Day,
                left : 0..JobAttempts, todo : SUBSET User, user : User \cup {NoAggregation.user},
                sessions : SUBSET Snapshot, events : SUBSET Event]

AggregateTypeOK ==
  /\ now \in Time
  /\ sessions \in [Sid -> Session]
  /\ \A e \in events : e \in Event
  /\ template \in Day \cup {Never}
  /\ fired \subseteq Day
  /\ jobs \subseteq [date : Day, left : 1..JobAttempts]
  /\ run \in Aggregation
  /\ DOMAIN summaries \subseteq User \X Day
  /\ DOMAIN basis = DOMAIN summaries
  /\ \A k \in DOMAIN summaries : summaries[k] \in Count

AggregateInit ==
  /\ now = DayLength
  /\ sessions \in [Sid -> {[user |-> u, start |-> Never, end |-> Never] : u \in User}]
  /\ events = {}
  /\ template = Never
  /\ fired = {}
  /\ jobs = {}
  /\ run = NoAggregation
  /\ summaries = << >>
  /\ basis = << >>
-----------------------------------------------------------------------------
(* What a summary is made of (the body of the worker's loop).              *)

Greater(a, b) == IF a > b THEN a ELSE b
Lesser(a, b) == IF a < b THEN a ELSE b

From(d) == d * DayLength
To(d) == (d + 1) * DayLength

\* The sessions of a day: started before its end, and open or ended since its start.
Selected(d, S) == {s \in S : s.start < To(d) /\ (s.end = Never \/ s.end >= From(d))}

\* Mutant: the session is not clipped to the day.
MinutesSinceStart(d, s) == Round((IF s.end # Never THEN s.end ELSE To(d)) - s.start, Minute)

\* The minutes of a session that fall into a day; an open one lasts until midnight.
SessionMinutes(d, s) ==
  LET start == IF s.start < From(d) THEN From(d) ELSE s.start
      end == IF s.end # Never /\ s.end < To(d) THEN s.end ELSE To(d)
  IN Greater(0, Round(end - start, Minute))

\* Mutant: both midnights are of the day.
InDayInclusive(d, e) == e.at >= From(d) /\ e.at <= To(d)

InDay(d, e) == e.at >= From(d) /\ e.at < To(d)

\* categorize: the first rule that applies, in whatever order the rules were read.
Categorize(u, label, rules) ==
  LET first == SelectInSeq(rules, LAMBDA r : u \in r.users /\ label \in r.matches)
  IN IF first = 0 THEN "neutral" ELSE rules[first].category

Summarise(u, d, S, E, rules) ==
  LET chosen == Selected(d, S)
      today == {e \in E : InDay(d, e) /\ \E s \in chosen : s.sid = e.sid}
      away == {e \in today : ~e.focus}
      hits(c) == Cardinality({e \in today : e.focus /\ Categorize(u, e.label, rules) = c})
      focused == Cardinality({e \in today : e.focus})
      productive == hits("productive")
  IN [worked |-> SumFunction([s \in chosen |-> SessionMinutes(d, s)]),
      idle |-> SumFunction([e \in away |-> Round(e.idle, Minute)]),
      productive |-> productive,
      neutral |-> focused - productive - hits("distracting"),
      distracting |-> hits("distracting"),
      score |-> IF focused = 0 THEN 0 ELSE Round(productive * 100, focused)]
-----------------------------------------------------------------------------
(* The ingest service, and the clock.                                      *)

Tick ==
  /\ now + 1 \in Time
  /\ now' = now + 1
  /\ UNCHANGED <<sessions, events, template, fired, jobs, run, summaries, basis>>

StartSession(c) ==
  /\ sessions[c].start = Never
  /\ sessions' = [sessions EXCEPT ![c].start = now]
  /\ UNCHANGED <<now, events, template, fired, jobs, run, summaries, basis>>

\* An end may arrive late: the agent stamps it, after the events before it.
EndSession(c) ==
  /\ sessions[c].start # Never
  /\ sessions[c].end = Never
  /\ \E t \in sessions[c].start..now :
       /\ \A e \in events : e.sid = c => e.at <= t
       /\ sessions' = [sessions EXCEPT ![c].end = t]
  /\ UNCHANGED <<now, events, template, fired, jobs, run, summaries, basis>>

\* So may an event.
StoreEvent(c) ==
  /\ sessions[c].start # Never
  /\ sessions[c].end = Never
  /\ Cardinality(events) < MaxEvents
  /\ \E t \in sessions[c].start..now :
       \/ \E l \in Label :
            events' = events \cup {[sid |-> c, at |-> t, label |-> l, idle |-> 0, focus |-> TRUE]}
       \/ \E i \in {0, t - sessions[c].start} :
            events' = events \cup
              {[sid |-> c, at |-> t, label |-> NoLabel, idle |-> i, focus |-> FALSE]}
  /\ UNCHANGED <<now, sessions, template, fired, jobs, run, summaries, basis>>
-----------------------------------------------------------------------------
(* The scheduler.                                                          *)

\* Mutant: the day is added instead of taken off.
StartSchedulerTomorrow ==
  /\ template' = DayOf(now) + 1
  /\ DayOf(now) <= Days
  /\ UNCHANGED <<now, sessions, events, fired, jobs, run, summaries, basis>>

\* startSchedulers: yesterday's date goes into the template, once per process start.
StartScheduler ==
  /\ template' = DayOf(now) - 1
  /\ DayOf(now) <= Days
  /\ UNCHANGED <<now, sessions, events, fired, jobs, run, summaries, basis>>

\* The cron pattern fires a little after midnight; the job gets the template's data.
FireCron ==
  /\ template # Never
  /\ DayOf(now) \in Day \ fired
  /\ fired' = fired \cup {DayOf(now)}
  /\ jobs' = jobs \cup {[date |-> template, left |-> JobAttempts]}
  /\ UNCHANGED <<now, sessions, events, template, run, summaries, basis>>
-----------------------------------------------------------------------------
(* The worker.                                                             *)

TakeJob ==
  /\ run.pc = "idle"
  /\ \E j \in jobs :
       /\ jobs' = jobs \ {j}
       /\ run' = [NoAggregation EXCEPT !.pc = "sessions", !.date = j.date, !.left = j.left,
                                       !.todo = User]
  /\ UNCHANGED <<now, sessions, events, template, fired, summaries, basis>>

\* The sessions of the next user.
ReadSessions ==
  /\ run.pc = "sessions"
  /\ \E u \in run.todo :
       run' = [run EXCEPT
                 !.pc = "events",
                 !.user = u,
                 !.sessions = {[sid |-> c, start |-> sessions[c].start, end |-> sessions[c].end] :
                                 c \in {c \in Sid : sessions[c].user = u
                                                      /\ sessions[c].start # Never}},
                 !.events = {}]
  /\ UNCHANGED <<now, sessions, events, template, fired, jobs, summaries, basis>>

\* Their events: Prisma fetches what findMany includes with a statement of its own.
ReadEvents ==
  /\ run.pc = "events"
  /\ run' = [run EXCEPT !.pc = "rules",
                        !.events = {e \in events : \E s \in run.sessions : s.sid = e.sid}]
  /\ UNCHANGED <<now, sessions, events, template, fired, jobs, summaries, basis>>

\* Mutant: the update adds to what is there.
Accumulated(old, new) ==
  [new EXCEPT !.worked = @ + old.worked, !.idle = @ + old.idle]

Replaced(old, new) == new

\* A table with one row more, or with that row changed.
With(table, k, row) == [j \in DOMAIN table \cup {k} |-> IF j = k THEN row ELSE table[j]]

\* The rules, the computation and the upsert.
Upsert ==
  LET k == <<run.user, run.date>> IN
  /\ run.pc = "rules"
  /\ \E rules \in SetToSeqs(Rule) :
       LET new == Summarise(run.user, run.date, run.sessions, run.events, rules)
           old == IF k \in DOMAIN summaries THEN summaries[k] ELSE NoSummary
       IN /\ summaries' = With(summaries, k, Replaced(old, new))
          /\ basis' = With(basis, k, [sessions |-> run.sessions, events |-> run.events])
  /\ run' = [run EXCEPT !.pc = IF run.todo = {run.user} THEN "done" ELSE "sessions",
                        !.todo = @ \ {run.user}]
  /\ UNCHANGED <<now, sessions, events, template, fired, jobs>>

\* Every user is done and the queue learns it.
CompleteAggregation ==
  /\ run.pc = "done"
  /\ run' = NoAggregation
  /\ UNCHANGED <<now, sessions, events, template, fired, jobs, summaries, basis>>

\* A query throws or the process dies: the job is tried again, users done and all, until
\* its attempts are used up.
FailRun ==
  /\ run.pc # "idle"
  /\ jobs' = IF run.left > 1 THEN jobs \cup {[date |-> run.date, left |-> run.left - 1]} ELSE jobs
  /\ run' = NoAggregation
  /\ UNCHANGED <<now, sessions, events, template, fired, summaries, basis>>

AggregateNext ==
  \/ Tick \/ StartScheduler \/ FireCron
  \/ \E c \in Sid : StartSession(c) \/ EndSession(c) \/ StoreEvent(c)
  \/ TakeJob \/ ReadSessions \/ ReadEvents \/ Upsert \/ CompleteAggregation \/ FailRun

AggregateSpec == AggregateInit /\ [][AggregateNext]_aggregateVars
-----------------------------------------------------------------------------
(* Properties.                                                             *)

\* The ticks of day d at which a session was open, counted one by one.
OpenTicks(d, s) ==
  Cardinality({t \in From(d)..(To(d) - 1) : s.start <= t /\ (s.end = Never \/ t < s.end)})

\* The minutes worked that a summary gives are those the sessions cover, half a minute per
\* session aside, however often and in whatever state of the tables it was computed.
WorkedIsCovered ==
  \A k \in DOMAIN summaries :
    LET S == basis[k].sessions
        ticks == SumFunction([s \in S |-> OpenTicks(k[2], s)])
        off == 2 * (summaries[k].worked * Minute - ticks)
    IN Lesser(off, -off) >= -(Minute * Cardinality(S))

\* Every focus event is counted, in exactly one category of exactly one day, and the score
\* is the productive share of them, half a point aside.
FocusCounted ==
  \A k \in DOMAIN summaries :
    LET s == summaries[k]
        total == s.productive + s.neutral + s.distracting
    IN /\ total = Cardinality({e \in basis[k].events : e.focus /\ DayOf(e.at) = k[2]})
       /\ 2 * (s.score * total - 100 * s.productive) \in -total..total

\* Cutting a closed session at midnight neither loses nor gains more than the rounding of
\* its two ends.
DaysAddUp ==
  \A c \in Sid :
    LET s == sessions[c] IN
    s.end # Never =>
      LET sum == SumFunction([d \in {d \in Day : s \in Selected(d, {s})} |-> SessionMinutes(d, s)])
      IN sum - Round(s.end - s.start, Minute) \in {-1, 0, 1}

\* architecture.md: the worker runs at 00:05 UTC and produces DailySummary rows per user.
\* The job that the cron pattern adds in a night is for the day that just ended.
NightlyJobIsForYesterday ==
  [][\A j \in jobs' \ jobs : j.left = JobAttempts => j.date = DayOf(now) - 1]_aggregateVars
=============================================================================
