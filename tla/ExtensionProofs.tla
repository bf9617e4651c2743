--------------------------- MODULE ExtensionProofs ---------------------------
(***************************************************************************)
(* The browser extension: type correctness, whose answer a handler waits   *)
(* for, and what may become of an observed event, for every number of      *)
(* handlers, request slots, workers and events, every queue limit and      *)
(* every batch size.                                                       *)
(***************************************************************************)
EXTENDS Extension, IngestProofs, SequenceTheorems

(***************************************************************************)
(* The queue as a sequence.                                                *)
(***************************************************************************)

\* A bounded sequence is a sequence that is not too long.
LEMMA BoundedSeqs ==
  ASSUME NEW S, NEW n \in Nat, NEW q
  PROVE  q \in BoundedSeq(S, n) <=> q \in Seq(S) /\ Len(q) <= n
<1>1. ASSUME q \in BoundedSeq(S, n) PROVE q \in Seq(S) /\ Len(q) <= n
  <2> PICK m \in 0..n : q \in [1..m -> S]
    BY <1>1 DEF BoundedSeq, SeqOf
  <2>1. m \in Nat /\ m <= n
    OBVIOUS
  <2>2. q \in Seq(S)
    BY <2>1
  <2>3. Len(q) = m
    BY <2>1, <2>2, LenProperties
  <2> QED BY <2>1, <2>2, <2>3
<1>2. ASSUME q \in Seq(S), Len(q) <= n PROVE q \in BoundedSeq(S, n)
  <2>1. Len(q) \in 0..n /\ q \in [1..Len(q) -> S]
    BY <1>2, LenProperties
  <2> QED BY <2>1 DEF BoundedSeq, SeqOf
<1> QED BY <1>1, <1>2

\* The elements of a sequence are those at its positions.
LEMMA Elements ==
  ASSUME NEW S, NEW q \in Seq(S), NEW e
  PROVE  e \in ToSet(q) <=> \E i \in 1..Len(q) : q[i] = e
BY LenProperties DEF ToSet

\* Nothing is lost by putting two sequences behind each other.
LEMMA ConcatElements ==
  ASSUME NEW S, NEW p \in Seq(S), NEW q \in Seq(S)
  PROVE  ToSet(p) \cup ToSet(q) \subseteq ToSet(p \o q)
<1>1. /\ p \o q \in Seq(S) /\ Len(p \o q) = Len(p) + Len(q)
      /\ \A i \in 1..(Len(p) + Len(q)) :
           (p \o q)[i] = IF i <= Len(p) THEN p[i] ELSE q[i - Len(p)]
      /\ Len(p) \in Nat /\ Len(q) \in Nat
  BY ConcatProperties, LenProperties
<1>2. ASSUME NEW e \in ToSet(p) PROVE e \in ToSet(p \o q)
  <2> PICK i \in 1..Len(p) : p[i] = e
    BY Elements
  <2>1. i \in 1..(Len(p) + Len(q)) /\ (p \o q)[i] = e
    BY <1>1
  <2> QED BY <1>1, <2>1, Elements
<1>3. ASSUME NEW e \in ToSet(q) PROVE e \in ToSet(p \o q)
  <2> PICK i \in 1..Len(q) : q[i] = e
    BY Elements
  <2> DEFINE k == Len(p) + i
  <2>1. k \in 1..(Len(p) + Len(q)) /\ ~(k <= Len(p)) /\ k - Len(p) = i
    BY <1>1
  <2>2. (p \o q)[k] = e
    BY <1>1, <2>1
  <2> QED BY <1>1, <2>1, <2>2, Elements
<1> QED BY <1>2, <1>3

\* enqueue's splice keeps the queue within its limit and cuts only the oldest events.
LEMMA LimitedQueue ==
  ASSUME NEW q \in Seq(Event)
  PROVE  /\ Limited(q) \in BoundedSeq(Event, QueueLimit)
         /\ ToSet(q) \subseteq ToSet(Limited(q)) \cup {q[i] : i \in 1..(Len(q) - QueueLimit)}
<1>1. QueueLimit \in Nat /\ QueueLimit >= 1 /\ Len(q) \in Nat
  BY ExtensionAssumption, LenProperties
<1>2. CASE ~(Len(q) > QueueLimit)
  BY <1>1, <1>2, BoundedSeqs DEF Limited
<1>3. CASE Len(q) > QueueLimit
  <2> DEFINE m == Len(q) - QueueLimit + 1
             s == SubSeq(q, m, Len(q))
  <2>1. m \in Int /\ m >= 1 /\ m <= Len(q) /\ Len(q) - m + 1 = QueueLimit
    BY <1>1, <1>3
  <2>2. \A i \in m..Len(q) : q[i] \in Event
    BY <1>1, <2>1, ElementOfSeq
  <2>3. /\ s \in Seq(Event) /\ Len(s) = QueueLimit
        /\ \A i \in 1..QueueLimit : s[i] = q[m + i - 1]
    BY <1>1, <2>1, <2>2, SubSeqProperties
  <2>4. Limited(q) = s
    BY <1>3 DEF Limited
  <2> HIDE DEF s
  <2>5. s \in BoundedSeq(Event, QueueLimit)
    BY <1>1, <2>3, BoundedSeqs
  <2>6. ASSUME NEW e \in ToSet(q), e \notin {q[i] : i \in 1..(Len(q) - QueueLimit)}
        PROVE  e \in ToSet(s)
    <3> PICK i \in 1..Len(q) : q[i] = e
      BY Elements
    <3>1. ~(i <= Len(q) - QueueLimit)
      BY <1>1, <2>6
    <3> DEFINE k == i - m + 1
    <3>2. k \in 1..QueueLimit /\ m + k - 1 = i
      BY <1>1, <2>1, <3>1
    <3>3. s[k] = e
      BY <2>3, <3>2
    <3> HIDE DEF k
    <3> QED BY <2>3, <3>2, <3>3, Elements
  <2> QED BY <2>4, <2>5, <2>6
<1> QED BY <1>2, <1>3
(***************************************************************************)
(* The invariant: types; what a handler has in its hands at each point of  *)
(* its course; and which request is whose.                                 *)
(***************************************************************************)
ExtensionTypes ==
  /\ auth \in User \cup {NoUser}
  /\ paused \in BOOLEAN
  /\ queue \in BoundedSeq(Event, QueueLimit)
  /\ tasks \in [Task -> TaskState]
  /\ seen \in 0..MaxEvents

\* A handler that may return has nothing in its hands, and one that reads the queue does
\* not forget what it read before.
Fits(pc, kind, batch, read) ==
  /\ pc \in {"idle", "auth", "beat", "length", "drainGet"} => batch = << >> /\ read = << >>
  /\ pc \in {"status", "asking"} => read = << >> /\ (kind = "flush" => batch = << >>)
  /\ pc \in {"push", "pushing", "get"} => read = << >>
  /\ pc = "drainSet" => batch = << >>

Hands(k) == Fits(k.pc, k.kind, k.batch, k.read)

HandsFit == \A t \in Task : Hands(tasks[t])

\* A handler waits for an answer exactly when a request of its own is under way, and that
\* request, the only one, carries the events the handler would queue again.
HandlersWait ==
  /\ \A t \in Task : At(t, "pushing") <=> Waiting(t)
  /\ \A r \in Request : reqs[r].client # NoClient =>
       /\ reqs[r].pc # "free"
       /\ reqs[r].kind = "meEvents"
       /\ reqs[r].batch = ToSet(tasks[reqs[r].client].batch)
  /\ \A r, x \in Request : reqs[r].client # NoClient /\ reqs[x].client = reqs[r].client => r = x

ExtensionInv == IngestInv /\ ExtensionTypes /\ HandsFit /\ HandlersWait
-----------------------------------------------------------------------------
(* What a step does to a handler.                                          *)

\* Handler t becomes n.
Becomes(t, n) ==
  /\ n \in TaskState
  /\ tasks' = [tasks EXCEPT ![t] = n]
  /\ Hands(n)

\* What a handler has in its hands.
Carried(k) == ToSet(k.batch) \cup ToSet(k.read)

LEMMA EmptyHands ==
  /\ << >> \in BoundedSeq(Event, QueueLimit)
  /\ ToSet(<< >>) = {}
<1>1. QueueLimit \in Nat /\ << >> \in Seq(Event) /\ Len(<< >>) <= QueueLimit
  BY ExtensionAssumption, EmptySeq
<1>2. << >> \in BoundedSeq(Event, QueueLimit)
  BY <1>1, BoundedSeqs
<1>3. ToSet(<< >>) = {}
  <2>1. DOMAIN << >> = {}
    OBVIOUS
  <2> QED BY <2>1 DEF ToSet
<1> QED BY <1>2, <1>3

LEMMA IdleTaskOK ==
  /\ IdleTask \in TaskState /\ Hands(IdleTask)
  /\ IdleTask.pc = "idle" /\ Carried(IdleTask) = {}
BY EmptyHands DEF IdleTask, TaskState, Hands, Fits, Carried

LEMMA ReturnIdles ==
  ASSUME NEW t \in Task, Return(t)
  PROVE  Becomes(t, IdleTask)
BY IdleTaskOK DEF Return, Becomes

\* Going on with the same hands.
LEMMA GotoBecomes ==
  ASSUME ExtensionTypes, NEW t \in Task,
         NEW pc \in {"auth", "beat", "length", "status", "push", "pushing", "get", "drainGet"},
         Goto(t, pc), Fits(pc, tasks[t].kind, tasks[t].batch, tasks[t].read)
  PROVE  \E n : /\ Becomes(t, n) /\ n.pc = pc
                /\ n.batch = tasks[t].batch /\ Carried(n) = Carried(tasks[t])
<1> DEFINE n == [tasks[t] EXCEPT !.pc = pc]
<1>1. tasks[t] \in TaskState /\ tasks \in [Task -> TaskState]
  BY DEF ExtensionTypes
<1>2. /\ n \in TaskState /\ n.pc = pc /\ n.kind = tasks[t].kind
      /\ n.batch = tasks[t].batch /\ n.read = tasks[t].read
  BY <1>1 DEF TaskState
<1>3. tasks' = [tasks EXCEPT ![t] = n]
  BY <1>1 DEF Goto, TaskState
<1> HIDE DEF n
<1>4. Hands(n)
  BY <1>2 DEF Hands
<1> QED BY <1>2, <1>3, <1>4 DEF Becomes, Carried

\* Handler t goes on without its request, and keeps what it has in its hands.
GoesOn(t, n) ==
  /\ Becomes(t, n)
  /\ tasks[t].pc # "pushing"
  /\ n.pc # "pushing"
  /\ Carried(tasks[t]) \subseteq Carried(n)

LEMMA GotoGoesOn ==
  ASSUME ExtensionTypes, NEW t \in Task, tasks[t].pc # "pushing",
         NEW pc \in {"auth", "beat", "length", "status", "push", "get", "drainGet"},
         Goto(t, pc), Fits(pc, tasks[t].kind, tasks[t].batch, tasks[t].read)
  PROVE  \E n : GoesOn(t, n)
<1> PICK n : Becomes(t, n) /\ n.pc = pc /\ Carried(n) = Carried(tasks[t])
  BY GotoBecomes
<1> QED BY DEF GoesOn

LEMMA ReturnGoesOn ==
  ASSUME NEW t \in Task, tasks[t].pc # "pushing", Return(t),
         tasks[t].batch = << >>, tasks[t].read = << >>
  PROVE  \E n : GoesOn(t, n)
<1>1. Becomes(t, IdleTask) /\ IdleTask.pc = "idle"
  BY ReturnIdles, IdleTaskOK
<1>2. Carried(tasks[t]) = {}
  BY EmptyHands DEF Carried
<1> QED BY <1>1, <1>2 DEF GoesOn

\* A flush that is given up has nothing in its hands, a tab event goes to the queue.
LEMMA NotActiveGoesOn ==
  ASSUME ExtensionTypes, HandsFit, NEW t \in Task, tasks[t].pc \in {"status", "asking"},
         NotActive(t)
  PROVE  \E n : GoesOn(t, n)
<1>1. tasks[t].kind \in {"tab", "flush"}
  BY DEF ExtensionTypes, TaskState
<1>2. tasks[t].read = << >> /\ (tasks[t].kind = "flush" => tasks[t].batch = << >>)
  BY DEF HandsFit, Hands, Fits
<1>3. CASE tasks[t].kind = "tab"
  <2>1. Goto(t, "get")
    BY <1>3 DEF NotActive
  <2>2. Fits("get", tasks[t].kind, tasks[t].batch, tasks[t].read)
    BY <1>2 DEF Fits
  <2> QED BY <2>1, <2>2, GotoGoesOn
<1>4. CASE tasks[t].kind = "flush"
  BY <1>2, <1>4, ReturnGoesOn DEF NotActive
<1> QED BY <1>1, <1>3, <1>4

\* Reading the queue is copying it.
LEMMA ReadGoesOn ==
  ASSUME ExtensionTypes, NEW t \in Task, NEW pc \in {"set", "drainSet"},
         tasks[t].pc # "pushing", tasks[t].read = << >>,
         pc = "drainSet" => tasks[t].batch = << >>,
         tasks' = [tasks EXCEPT ![t].pc = pc, ![t].read = queue]
  PROVE  \E n : GoesOn(t, n)
<1> DEFINE n == [tasks[t] EXCEPT !.pc = pc, !.read = queue]
<1>1. tasks[t] \in TaskState /\ tasks \in [Task -> TaskState]
      /\ queue \in BoundedSeq(Event, QueueLimit)
  BY DEF ExtensionTypes
<1>2. /\ n \in TaskState /\ n.pc = pc /\ n.kind = tasks[t].kind
      /\ n.batch = tasks[t].batch /\ n.read = queue
  BY <1>1 DEF TaskState
<1>3. tasks' = [tasks EXCEPT ![t] = n]
  BY <1>1 DEF TaskState
<1> HIDE DEF n
<1>4. Hands(n)
  BY <1>2 DEF Hands, Fits
<1>5. Carried(tasks[t]) \subseteq Carried(n)
  BY <1>2, EmptyHands DEF Carried
<1> QED BY <1>2, <1>3, <1>4, <1>5 DEF Becomes, GoesOn

\* Every step of a handler but posting its events, hearing the answer and writing the queue.
QuietStep(t) ==
  \/ TabFocused(t) \/ Alarm(t) \/ ReadAuth(t) \/ Beat(t) \/ QueueLength(t) \/ AskStatus(t)
  \/ StatusAnswered(t) \/ DrainRead(t) \/ EnqueueRead(t)

LEMMA QuietStepGoesOn ==
  ASSUME ExtensionTypes, HandsFit, NEW t \in Task, QuietStep(t)
  PROVE  \E n : GoesOn(t, n)
<1> DEFINE k == tasks[t]
           Goal == \E n : GoesOn(t, n)
<1>0. k \in TaskState /\ tasks \in [Task -> TaskState] /\ Hands(k)
  BY DEF ExtensionTypes, HandsFit
<1>1. CASE TabFocused(t)
  <2>1. k.batch = << >> /\ k.read = << >>
    BY <1>0, <1>1 DEF TabFocused, At, Hands, Fits
  <2>2. Goto(t, "auth") /\ k.pc # "pushing" /\ Fits("auth", k.kind, k.batch, k.read)
    BY <1>1, <2>1 DEF TabFocused, At, Goto, Fits
  <2> QED BY <2>2, GotoGoesOn
<1>2. CASE Alarm(t)
  <2> DEFINE n == [k EXCEPT !.pc = "auth", !.kind = "flush"]
  <2>1. k.batch = << >> /\ k.read = << >> /\ k.pc # "pushing"
    BY <1>0, <1>2 DEF Alarm, At, Hands, Fits
  <2>2. /\ n \in TaskState /\ n.pc = "auth" /\ n.kind = "flush"
        /\ n.batch = k.batch /\ n.read = k.read
    BY <1>0 DEF TaskState
  <2>3. tasks' = [tasks EXCEPT ![t] = n]
    BY <1>0, <1>2 DEF Alarm, TaskState
  <2> HIDE DEF n
  <2>4. Hands(n)
    BY <2>1, <2>2 DEF Hands, Fits
  <2> QED BY <2>1, <2>2, <2>3, <2>4 DEF Becomes, GoesOn, Carried
<1>3. CASE ReadAuth(t)
  <2>1. k.pc = "auth" /\ k.batch = << >> /\ k.read = << >>
    BY <1>0, <1>3 DEF ReadAuth, At, Hands, Fits
  <2>2. CASE Return(t)
    BY <2>1, <2>2, ReturnGoesOn
  <2>3. CASE k.kind = "flush" /\ Goto(t, "beat")
    <3>1. Fits("beat", k.kind, k.batch, k.read)
      BY <2>1 DEF Fits
    <3> QED BY <2>1, <2>3, <3>1, GotoGoesOn
  <2>4. CASE /\ k.kind = "tab" /\ seen < MaxEvents /\ seen' = seen + 1
             /\ tasks' = [tasks EXCEPT ![t].pc = "status", ![t].batch = <<seen'>>]
    <3> DEFINE e == seen + 1
               n == [k EXCEPT !.pc = "status", !.batch = <<e>>]
    <3>1. e \in Event
      BY <2>4, ExtensionAssumption DEF ExtensionTypes
    <3> HIDE DEF e
    <3>2. <<e>> \in Seq(Event) /\ Len(<<e>>) = 1
      BY <3>1
    <3>3. <<e>> \in BoundedSeq(Event, QueueLimit)
      <4>1. QueueLimit \in Nat /\ Len(<<e>>) <= QueueLimit
        BY <3>2, ExtensionAssumption
      <4> QED BY <3>2, <4>1, BoundedSeqs
    <3>4. /\ n \in TaskState /\ n.pc = "status" /\ n.kind = "tab" /\ n.read = k.read
      BY <1>0, <2>4, <3>3 DEF TaskState
    <3>5. tasks' = [tasks EXCEPT ![t] = n]
      BY <1>0, <2>4 DEF TaskState, e
    <3> HIDE DEF n
    <3>6. Hands(n)
      BY <2>1, <3>4 DEF Hands, Fits
    <3>7. Carried(k) = {}
      BY <2>1, EmptyHands DEF Carried
    <3> QED BY <2>1, <3>4, <3>5, <3>6, <3>7 DEF Becomes, GoesOn
  <2> QED BY <1>3, <2>2, <2>3, <2>4 DEF ReadAuth
<1>4. CASE Beat(t)
  <2>1. k.pc = "beat" /\ Goto(t, "length")
    BY <1>4 DEF Beat, At
  <2>2. Fits("length", k.kind, k.batch, k.read)
    BY <1>0, <2>1 DEF Hands, Fits
  <2> QED BY <2>1, <2>2, GotoGoesOn
<1>5. CASE QueueLength(t)
  <2>1. k.pc = "length" /\ k.batch = << >> /\ k.read = << >>
    BY <1>0, <1>5 DEF QueueLength, At, Hands, Fits
  <2>2. Fits("status", k.kind, k.batch, k.read)
    BY <2>1 DEF Fits
  <2>3. Return(t) \/ Goto(t, "status")
    BY <1>5 DEF QueueLength
  <2> QED BY <2>1, <2>2, <2>3, ReturnGoesOn, GotoGoesOn
<1>6. CASE AskStatus(t)
  <2>1. k.pc = "status"
    BY <1>6 DEF AskStatus, At
  <2>2. CASE NotActive(t)
    BY <2>1, <2>2, NotActiveGoesOn
  <2>3. CASE auth # NoUser /\ tasks' = [tasks EXCEPT ![t].pc = "asking", ![t].user = auth]
    <3> DEFINE n == [k EXCEPT !.pc = "asking", !.user = auth]
    <3>1. /\ n \in TaskState /\ n.pc = "asking" /\ n.kind = k.kind
          /\ n.batch = k.batch /\ n.read = k.read
      BY <1>0 DEF TaskState, ExtensionTypes
    <3>2. tasks' = [tasks EXCEPT ![t] = n]
      BY <1>0, <2>3 DEF TaskState
    <3> HIDE DEF n
    <3>3. Hands(n)
      BY <1>0, <2>1, <3>1 DEF Hands, Fits
    <3> QED BY <2>1, <3>1, <3>2, <3>3 DEF Becomes, GoesOn, Carried
  <2> QED BY <1>6, <2>2, <2>3 DEF AskStatus
<1>7. CASE StatusAnswered(t)
  <2>1. k.pc = "asking" /\ k.kind \in {"tab", "flush"} /\ k.read = << >>
        /\ (k.kind = "flush" => k.batch = << >>)
    BY <1>0, <1>7 DEF StatusAnswered, At, Hands, Fits, TaskState
  <2>2. CASE NotActive(t)
    BY <2>1, <2>2, NotActiveGoesOn
  <2>3. CASE k.kind = "tab" /\ Goto(t, "push")
    <3>1. Fits("push", k.kind, k.batch, k.read)
      BY <2>1 DEF Fits
    <3> QED BY <2>1, <2>3, <3>1, GotoGoesOn
  <2>4. CASE k.kind # "tab" /\ Goto(t, "drainGet")
    <3>1. Fits("drainGet", k.kind, k.batch, k.read)
      BY <2>1, <2>4 DEF Fits
    <3> QED BY <2>1, <2>4, <3>1, GotoGoesOn
  <2> QED BY <1>7, <2>2, <2>3, <2>4 DEF StatusAnswered
<1>8. CASE DrainRead(t)
  <2>1. k.pc = "drainGet" /\ k.batch = << >> /\ k.read = << >>
    BY <1>0, <1>8 DEF DrainRead, At, Hands, Fits
  <2> QED BY <1>8, <2>1, ReadGoesOn DEF DrainRead
<1>9. CASE EnqueueRead(t)
  <2>1. k.pc = "get" /\ k.read = << >>
    BY <1>0, <1>9 DEF EnqueueRead, At, Hands, Fits
  <2> QED BY <1>9, <2>1, ReadGoesOn DEF EnqueueRead
<1> QED BY <1>1, <1>2, <1>3, <1>4, <1>5, <1>6, <1>7, <1>8, <1>9 DEF QuietStep

\* Handler t posts its events as request r.
Posts(t, r, n) ==
  /\ tasks[t].pc = "push"
  /\ Becomes(t, n)
  /\ n.pc = "pushing"
  /\ n.batch = tasks[t].batch
  /\ Carried(n) = Carried(tasks[t])
  /\ \E u \in User, bad \in BOOLEAN : Send(r, MeEvents(t, u, ToSet(tasks[t].batch), bad))

LEMMA PushCases ==
  ASSUME ExtensionTypes, HandsFit, NEW t \in Task, Push(t)
  PROVE  \/ UNCHANGED ingestVars /\ \E n : GoesOn(t, n)
         \/ \E r \in Request, n \in TaskState : Posts(t, r, n)
<1> DEFINE k == tasks[t]
           Goal == \/ UNCHANGED ingestVars /\ \E n : GoesOn(t, n)
                   \/ \E r \in Request, n \in TaskState : Posts(t, r, n)
<1>1. k.pc = "push" /\ k.read = << >>
  BY DEF HandsFit, Hands, Fits, Push, At
<1>2. CASE k.batch = << >> /\ Return(t) /\ UNCHANGED ingestVars
  BY <1>1, <1>2, ReturnGoesOn
<1>3. CASE Goto(t, "get") /\ UNCHANGED ingestVars
  <2>1. Fits("get", k.kind, k.batch, k.read)
    BY <1>1 DEF Fits
  <2> QED BY <1>1, <1>3, <2>1, GotoGoesOn
<1>4. CASE /\ auth # NoUser /\ Goto(t, "pushing")
           /\ \E r \in Request : Send(r, MeEvents(t, auth, ToSet(k.batch), Len(k.batch) > MaxBatch))
  <2>1. auth \in User /\ (Len(k.batch) > MaxBatch) \in BOOLEAN
    BY <1>4 DEF ExtensionTypes
  <2>2. Fits("pushing", k.kind, k.batch, k.read)
    BY <1>1 DEF Fits
  <2> PICK n : Becomes(t, n) /\ n.pc = "pushing" /\ n.batch = k.batch /\ Carried(n) = Carried(k)
    BY <1>4, <2>2, GotoBecomes
  <2>3. n \in TaskState
    BY DEF Becomes
  <2> QED BY <1>1, <1>4, <2>1, <2>3 DEF Posts
<1> QED BY <1>2, <1>3, <1>4 DEF Push

\* What is on the server.
Stored == {row[2] : row \in rows}

\* Handler t hears the answer to request r: acknowledged events are on the server, others
\* stay in its hands.
Hears(t, r, n) ==
  /\ reqs[r].client = t
  /\ Receive(r)
  /\ Becomes(t, n)
  /\ n.pc # "pushing"
  /\ Carried(tasks[t]) \subseteq Carried(n) \cup Stored

LEMMA PushedCases ==
  ASSUME ExtensionInv, NEW t \in Task, Pushed(t)
  PROVE  \E r \in Request, n \in TaskState : Hears(t, r, n)
<1> DEFINE k == tasks[t]
<1>1. k.pc = "pushing" /\ k.read = << >>
  BY DEF ExtensionInv, HandsFit, Hands, Fits, Pushed, At
<1> PICK r \in Request :
      /\ reqs[r].client = t /\ Receive(r)
      /\ \/ reqs[r].pc = "ok" /\ Return(t)
         \/ reqs[r].pc = "failed" /\ Goto(t, "get")
  BY DEF Pushed
<1>2. CASE reqs[r].pc = "ok" /\ Return(t)
  <2>1. t # NoClient
    BY ExtensionAssumption, IngestAssumption
  <2>2. reqs[r].kind = "meEvents" /\ reqs[r].batch = ToSet(k.batch)
    BY <2>1 DEF ExtensionInv, HandlersWait
  <2>3. \A e \in ToSet(k.batch) : <<reqs[r].csid, e>> \in rows
    BY <1>2, <2>2 DEF ExtensionInv, IngestInv, RequestOK, Relies
  <2>4. Carried(k) \subseteq Stored
    <3> SUFFICES ASSUME NEW e \in Carried(k) PROVE e \in Stored
      OBVIOUS
    <3> DEFINE row == <<reqs[r].csid, e>>
    <3>1. e \in ToSet(k.batch)
      BY <1>1, EmptyHands DEF Carried
    <3>2. row \in rows /\ row[2] = e
      BY <2>3, <3>1
    <3> HIDE DEF row
    <3> QED BY <3>2 DEF Stored
  <2> QED BY <1>2, <2>4, ReturnIdles, IdleTaskOK DEF Hears
<1>3. CASE Goto(t, "get")
  <2>1. Fits("get", k.kind, k.batch, k.read)
    BY <1>1 DEF Fits
  <2> PICK n : Becomes(t, n) /\ n.pc = "get" /\ Carried(n) = Carried(k)
    BY <1>3, <2>1, GotoBecomes DEF ExtensionInv
  <2>2. n \in TaskState
    BY DEF Becomes
  <2> QED BY <2>2 DEF Hears
<1> QED BY <1>2, <1>3

\* Writing the queue: the handler goes on, and what it had in its hands, but for what the
\* limit cuts, is in the queue or still there.
Writes(t, n) ==
  /\ Becomes(t, n)
  /\ tasks[t].pc # "pushing"
  /\ n.pc # "pushing"
  /\ queue' \in BoundedSeq(Event, QueueLimit)
  /\ Carried(tasks[t]) \subseteq Carried(n) \cup ToSet(queue') \cup Forfeited(t)
  /\ ToSet(queue) \subseteq Carried(n) \cup ToSet(queue') \cup Forfeited(t)

LEMMA DrainWrites ==
  ASSUME ExtensionTypes, HandsFit, NEW t \in Task, DrainWrite(t)
  PROVE  \E n : Writes(t, n)
<1> DEFINE k == tasks[t]
           n == [k EXCEPT !.pc = "push", !.batch = k.read, !.read = << >>]
<1>1. k.pc = "drainSet" /\ k.batch = << >>
  BY DEF HandsFit, Hands, Fits, DrainWrite, At
<1>2. k \in TaskState /\ tasks \in [Task -> TaskState]
  BY DEF ExtensionTypes
<1>3. n \in TaskState /\ n.pc = "push" /\ n.batch = k.read /\ n.read = << >>
  BY <1>2, EmptyHands DEF TaskState
<1>4. tasks' = [tasks EXCEPT ![t] = n] /\ queue' = << >>
  BY <1>2 DEF DrainWrite, TaskState
<1> HIDE DEF n
<1>5. Hands(n)
  BY <1>3 DEF Hands, Fits
<1>6. Carried(k) = ToSet(k.read) /\ Carried(n) = ToSet(k.read)
  BY <1>1, <1>3, EmptyHands DEF Carried
<1>7. ToSet(queue) \subseteq ToSet(k.read) \cup Forfeited(t)
  BY DEF Forfeited
<1> QED BY <1>1, <1>3, <1>4, <1>5, <1>6, <1>7, EmptyHands DEF Becomes, Writes

LEMMA EnqueueWrites ==
  ASSUME ExtensionTypes, NEW t \in Task, EnqueueWrite(t)
  PROVE  \E n : Writes(t, n)
<1> DEFINE k == tasks[t]
           q == k.read \o k.batch
<1>1. k \in TaskState /\ k.pc = "set" /\ QueueLimit \in Nat
  BY ExtensionAssumption DEF ExtensionTypes, EnqueueWrite, At
<1>2. k.read \in Seq(Event) /\ k.batch \in Seq(Event)
  <2>1. k.read \in BoundedSeq(Event, QueueLimit) /\ k.batch \in BoundedSeq(Event, QueueLimit)
    BY <1>1 DEF TaskState
  <2> QED BY <1>1, <2>1, BoundedSeqs
<1>3. q \in Seq(Event) /\ Carried(k) \subseteq ToSet(q)
  BY <1>2, ConcatElements, ConcatProperties DEF Carried
<1>4. queue' = Limited(q) /\ Return(t)
  BY DEF EnqueueWrite
<1>5. {q[i] : i \in 1..(Len(q) - QueueLimit)} \subseteq Forfeited(t)
  BY DEF Forfeited
<1>6. ToSet(queue) \ ToSet(k.read) \subseteq Forfeited(t)
  BY DEF Forfeited
<1> HIDE DEF q
<1>7. queue' \in BoundedSeq(Event, QueueLimit) /\ ToSet(q) \subseteq ToSet(queue') \cup Forfeited(t)
  BY <1>3, <1>4, <1>5, LimitedQueue
<1>8. ToSet(k.read) \subseteq Carried(k)
  BY DEF Carried
<1>9. Becomes(t, IdleTask) /\ IdleTask.pc # "pushing"
  BY <1>4, ReturnIdles, IdleTaskOK
<1>10. /\ Carried(k) \subseteq ToSet(queue') \cup Forfeited(t)
       /\ ToSet(queue) \subseteq ToSet(queue') \cup Forfeited(t)
  BY <1>3, <1>6, <1>7, <1>8
<1> QED BY <1>1, <1>7, <1>9, <1>10 DEF Writes
-----------------------------------------------------------------------------
(* What a step does to the extension and to the backend.                   *)

\* Requests nobody waits for: Start and Stop Workday.
Unattended(n) ==
  /\ n \in RequestRecord /\ OnItsWay(n) /\ n.pc = "findActive" /\ n.client = NoClient

ExtensionStep ==
  \/ UNCHANGED <<ingestVars, tasks, queue>>
  \/ \E t \in Task, n \in TaskState : GoesOn(t, n) /\ UNCHANGED <<ingestVars, queue>>
  \/ \E t \in Task, r \in Request, n \in TaskState : Posts(t, r, n) /\ UNCHANGED queue
  \/ \E t \in Task, r \in Request, n \in TaskState : Hears(t, r, n) /\ UNCHANGED queue
  \/ \E t \in Task, n \in TaskState :
       Writes(t, n) /\ (EnqueueWrite(t) \/ DrainWrite(t)) /\ UNCHANGED ingestVars
  \/ \E r \in Request, n \in RequestRecord :
       Unattended(n) /\ Send(r, n) /\ UNCHANGED <<tasks, queue>>
  \/ \E r \in Request : (Serve(r) \/ Lose(r)) /\ UNCHANGED <<tasks, queue>>
  \/ Kill

LEMMA StartUnattended ==
  ASSUME NEW u \in User
  PROVE  Unattended(MeStart(NoClient, u))
<1>1. MeStart(NoClient, u).client = NoClient
  BY DEF MeStart, Free
<1> QED BY <1>1, MeStartSent DEF Unattended

LEMMA StopUnattended ==
  ASSUME NEW u \in User, NEW at \in EndTime
  PROVE  Unattended(MeEnd(NoClient, u, at))
BY MeEndSent DEF Unattended

LEMMA NextIsExtensionStep ==
  ASSUME ExtensionInv, [Next]_vars
  PROVE  ExtensionStep
<1>0. ExtensionTypes /\ HandsFit
  BY DEF ExtensionInv
<1>1. ASSUME NEW t \in Task, QuietStep(t) PROVE ExtensionStep
  <2> PICK n : GoesOn(t, n)
    BY <1>0, <1>1, QuietStepGoesOn
  <2>1. n \in TaskState
    BY DEF GoesOn, Becomes
  <2>2. UNCHANGED <<ingestVars, queue>>
    BY <1>1 DEF QuietStep, TabFocused, Alarm, ReadAuth, Beat, QueueLength, AskStatus,
       StatusAnswered, DrainRead, EnqueueRead, storage
  <2> QED BY <2>1, <2>2 DEF ExtensionStep
<1>2. ASSUME NEW t \in Task, Push(t) PROVE ExtensionStep
  <2>1. UNCHANGED queue
    BY <1>2 DEF Push
  <2>2. CASE UNCHANGED ingestVars /\ \E n : GoesOn(t, n)
    <3> PICK n : GoesOn(t, n)
      BY <2>2
    <3>1. n \in TaskState
      BY DEF GoesOn, Becomes
    <3> QED BY <2>1, <2>2, <3>1 DEF ExtensionStep
  <2>3. CASE \E r \in Request, n \in TaskState : Posts(t, r, n)
    BY <2>1, <2>3 DEF ExtensionStep
  <2> QED BY <1>0, <1>2, <2>2, <2>3, PushCases
<1>3. ASSUME NEW t \in Task, Pushed(t) PROVE ExtensionStep
  <2>1. UNCHANGED queue
    BY <1>3 DEF Pushed, storage
  <2> QED BY <1>3, <2>1, PushedCases DEF ExtensionStep
<1>4. ASSUME NEW t \in Task, EnqueueWrite(t) \/ DrainWrite(t) PROVE ExtensionStep
  <2> PICK n : Writes(t, n)
    BY <1>0, <1>4, EnqueueWrites, DrainWrites
  <2>1. n \in TaskState
    BY DEF Writes, Becomes
  <2>2. UNCHANGED ingestVars
    BY <1>4 DEF EnqueueWrite, DrainWrite
  <2> QED BY <1>4, <2>1, <2>2 DEF ExtensionStep
<1>5. CASE Workday
  <2>1. UNCHANGED <<tasks, queue>>
    BY <1>5 DEF Workday, storage
  <2> PICK r \in Request, u \in User :
        \/ Send(r, MeStart(NoClient, u))
        \/ \E at \in EndTime : Send(r, MeEnd(NoClient, u, at))
    BY <1>5 DEF Workday
  <2>2. \E n : Unattended(n) /\ Send(r, n)
    BY StartUnattended, StopUnattended
  <2> QED BY <2>1, <2>2 DEF ExtensionStep, Unattended
<1>6. CASE \E r \in Request : Served(Serve(r)) \/ Served(Lose(r))
  BY <1>6 DEF Served, storage, ExtensionStep
<1>7. CASE SignIn \/ SignOut \/ TogglePause \/ UNCHANGED vars
  BY <1>7 DEF SignIn, SignOut, TogglePause, vars, storage, ExtensionStep
<1>8. CASE Kill
  BY <1>8 DEF ExtensionStep
<1> QED BY <1>1, <1>2, <1>3, <1>4, <1>5, <1>6, <1>7, <1>8 DEF Next, Handler, QuietStep

\* The tokens, the switch and the counter keep their types.
LEMMA StorageTypes ==
  ASSUME ExtensionTypes, [Next]_vars
  PROVE  auth' \in User \cup {NoUser} /\ paused' \in BOOLEAN /\ seen' \in 0..MaxEvents
<1>1. auth' \in User \cup {NoUser}
  BY DEF ExtensionTypes, Next, vars, storage, TabFocused, Alarm, Handler, ReadAuth, Beat,
     TokenRefused, QueueLength, AskStatus, StatusAnswered, DrainRead, DrainWrite, Push, Pushed,
     EnqueueRead, EnqueueWrite, Kill, SignIn, SignOut, TogglePause, Workday, Served
<1>2. paused' \in BOOLEAN
  BY DEF ExtensionTypes, Next, vars, storage, TabFocused, Alarm, Handler, ReadAuth, Beat,
     QueueLength, AskStatus, StatusAnswered, DrainRead, DrainWrite, Push, Pushed,
     EnqueueRead, EnqueueWrite, Kill, SignIn, SignOut, TogglePause, Workday, Served
<1>3. seen' = seen \/ (seen < MaxEvents /\ seen' = seen + 1)
  BY DEF Next, vars, storage, TabFocused, Alarm, Handler, ReadAuth, Beat,
     QueueLength, AskStatus, StatusAnswered, DrainRead, DrainWrite, Push, Pushed,
     EnqueueRead, EnqueueWrite, Kill, SignIn, SignOut, TogglePause, Workday, Served
<1>4. seen' \in 0..MaxEvents
  BY <1>3, ExtensionAssumption DEF ExtensionTypes
<1> QED BY <1>1, <1>2, <1>4
-----------------------------------------------------------------------------
(* The invariant is preserved.                                             *)

\* The clients of the ingest service are the handlers.
LEMMA Clients ==
  /\ Client = Task /\ NoClient \notin Task
  /\ \A q \in RequestRecord : q.client \in Task \cup {NoClient}
  /\ Free.client = NoClient
BY ExtensionAssumption, IngestAssumption DEF RequestRecord, Free

LEMMA PostSent ==
  ASSUME ExtensionTypes, NEW t \in Task, NEW u \in User, NEW bad \in BOOLEAN
  PROVE  LET q == MeEvents(t, u, ToSet(tasks[t].batch), bad)
         IN /\ q \in RequestRecord /\ OnItsWay(q) /\ q.pc = "parse" /\ q.kind = "meEvents"
            /\ q.client = t /\ q.batch = ToSet(tasks[t].batch)
<1>1. tasks[t].batch \in BoundedSeq(Event, QueueLimit) /\ QueueLimit \in Nat
  BY ExtensionAssumption DEF ExtensionTypes, TaskState
<1>2. tasks[t].batch \in Seq(Event)
  BY <1>1, BoundedSeqs
<1>3. ToSet(tasks[t].batch) \in SUBSET Event
  BY <1>2, Elements, ElementOfSeq
<1>4. t \in Client \cup {NoClient}
  BY Clients
<1> QED BY <1>3, <1>4, MeEventsSent

\* The browser kills the worker: each of its requests is abandoned, all at once.
LEMMA KillOK ==
  ASSUME IngestInv, Kill
  PROVE  /\ IngestInv' /\ Grows
         /\ \A r \in Request : reqs'[r].client = NoClient
<1> DEFINE n(r) == IF reqs[r].client \in Task THEN Abandon(r)[r] ELSE reqs[r]
<1>1. Grows /\ UNCHANGED <<issued, browsers, sessions, rows>> /\ reqs' = [r \in Request |-> n(r)]
  BY UnchangedGrows DEF Kill
<1>2. ASSUME NEW r \in Request
      PROVE  n(r) \in RequestRecord /\ RequestOK(n(r), sessions, rows) /\ n(r).client = NoClient
  <2>1. reqs[r] \in RequestRecord /\ RequestOK(reqs[r], sessions, rows)
    BY DEF IngestInv, IngestTypeOK
  <2>2. CASE reqs[r].client \in Task
    BY <2>2, AbandonOK, Clients DEF Abandoned
  <2>3. CASE reqs[r].client \notin Task
    BY <2>1, <2>3, Clients
  <2> QED BY <2>2, <2>3
<1> HIDE DEF n
<1>3. \A r \in Request : /\ reqs'[r] \in RequestRecord /\ RequestOK(reqs'[r], sessions', rows')
                         /\ reqs'[r].client = NoClient
  BY <1>1, <1>2
<1>4. reqs' \in [Request -> RequestRecord]
  BY <1>1, <1>2
<1> QED BY <1>1, <1>3, <1>4 DEF IngestInv, IngestTypeOK, EndedIffClosed

LEMMA IngestPart ==
  ASSUME ExtensionInv, ExtensionStep
  PROVE  IngestInv' /\ Grows
<1>0. IngestInv
  BY DEF ExtensionInv
<1>1. CASE UNCHANGED ingestVars
  BY <1>0, <1>1, NextOK
<1>2. ASSUME NEW t \in Task, NEW r \in Request, NEW n \in TaskState, Posts(t, r, n)
      PROVE  IngestInv' /\ Grows
  <2> PICK u \in User, bad \in BOOLEAN : Send(r, MeEvents(t, u, ToSet(tasks[t].batch), bad))
    BY <1>2 DEF Posts
  <2>1. Grows
    BY UnchangedGrows DEF Send
  <2> QED BY <1>0, <2>1, PostSent, SendOK DEF ExtensionInv
<1>3. ASSUME NEW t \in Task, NEW r \in Request, NEW n \in TaskState, Hears(t, r, n)
      PROVE  IngestInv' /\ Grows
  BY <1>0, <1>3, NextOK DEF Hears, IngestNext
<1>4. ASSUME NEW r \in Request, NEW n \in RequestRecord, Unattended(n), Send(r, n)
      PROVE  IngestInv' /\ Grows
  BY <1>0, <1>4, SendOK, UnchangedGrows DEF Unattended, Send
<1>5. ASSUME NEW r \in Request, Serve(r) \/ Lose(r) PROVE IngestInv' /\ Grows
  BY <1>0, <1>5, NextOK DEF IngestNext
<1>6. CASE Kill
  BY <1>0, <1>6, KillOK
<1> QED BY <1>1, <1>2, <1>3, <1>4, <1>5, <1>6 DEF ExtensionStep

\* The handlers and the queue.
LEMMA HandlersPart ==
  ASSUME ExtensionInv, ExtensionStep
  PROVE  tasks' \in [Task -> TaskState] /\ HandsFit' /\ queue' \in BoundedSeq(Event, QueueLimit)
<1>0. /\ tasks \in [Task -> TaskState] /\ HandsFit /\ queue \in BoundedSeq(Event, QueueLimit)
  BY DEF ExtensionInv, ExtensionTypes
<1>1. CASE UNCHANGED tasks
  <2>1. UNCHANGED queue \/ \E t \in Task, n \in TaskState : Writes(t, n)
    BY <1>1 DEF ExtensionStep, Kill, storage
  <2> QED BY <1>0, <1>1, <2>1 DEF HandsFit, Writes
<1>2. ASSUME NEW t \in Task, NEW n, Becomes(t, n) PROVE tasks' \in [Task -> TaskState] /\ HandsFit'
  BY <1>0, <1>2 DEF Becomes, HandsFit
<1>3. CASE Kill
  BY <1>0, <1>3, IdleTaskOK DEF Kill, HandsFit, storage
<1>4. CASE UNCHANGED queue
  BY <1>0, <1>1, <1>2, <1>3, <1>4 DEF ExtensionStep, GoesOn, Posts, Hears, Writes
<1>5. CASE \E t \in Task, n \in TaskState : Writes(t, n)
  BY <1>2, <1>5 DEF Writes
<1> QED BY <1>3, <1>4, <1>5 DEF ExtensionStep

\* A handler that neither posts nor hears waits for nothing before and after.
LEMMA OwnStepWaits ==
  ASSUME ExtensionInv, NEW t \in Task, NEW n, Becomes(t, n),
         tasks[t].pc # "pushing", n.pc # "pushing", UNCHANGED reqs
  PROVE  HandlersWait'
<1>1. /\ tasks \in [Task -> TaskState] /\ tasks' = [tasks EXCEPT ![t] = n] /\ HandlersWait
      /\ reqs \in [Request -> RequestRecord]
  BY DEF ExtensionInv, ExtensionTypes, IngestInv, IngestTypeOK, Becomes
<1>2. \A r \in Request : reqs[r].client # t
  BY <1>1 DEF HandlersWait, At, Waiting
<1>3. \A x \in Task : x # t => tasks'[x] = tasks[x]
  BY <1>1
<1>4. tasks'[t] = n
  BY <1>1
<1>5. (\A x \in Task : At(x, "pushing") <=> Waiting(x))'
  BY <1>1, <1>2, <1>3, <1>4 DEF HandlersWait, At, Waiting
<1>6. ASSUME NEW r \in Request, reqs'[r].client # NoClient
      PROVE  /\ reqs'[r].pc # "free" /\ reqs'[r].kind = "meEvents"
             /\ reqs'[r].batch = ToSet(tasks'[reqs'[r].client].batch)
  <2>1. reqs[r].client \in Task /\ reqs[r].client # t
    BY <1>1, <1>2, <1>6, Clients
  <2> QED BY <1>1, <1>3, <1>6, <2>1 DEF HandlersWait
<1> QED BY <1>1, <1>5, <1>6 DEF HandlersWait

\* One request changes, and with it possibly the handler that waits for it.
LEMMA PostsWaits ==
  ASSUME ExtensionInv, NEW t \in Task, NEW r \in Request, NEW n, Posts(t, r, n)
  PROVE  HandlersWait'
<1> PICK u \in User, bad \in BOOLEAN : Send(r, MeEvents(t, u, ToSet(tasks[t].batch), bad))
  BY DEF Posts
<1> DEFINE q == MeEvents(t, u, ToSet(tasks[t].batch), bad)
<1>1. /\ tasks \in [Task -> TaskState] /\ tasks' = [tasks EXCEPT ![t] = n] /\ HandlersWait
      /\ reqs \in [Request -> RequestRecord]
  BY DEF ExtensionInv, ExtensionTypes, IngestInv, IngestTypeOK, Posts, Becomes
<1>2. q.pc = "parse" /\ q.kind = "meEvents" /\ q.client = t /\ q.batch = ToSet(n.batch)
  BY PostSent DEF ExtensionInv, Posts
<1>3. reqs' = [reqs EXCEPT ![r] = q] /\ reqs[r].pc = "free" /\ tasks[t].pc = "push"
      /\ n.pc = "pushing"
  BY DEF Send, Posts
<1> HIDE DEF q
<1>4. t # NoClient /\ reqs[r].client = NoClient
  BY <1>1, <1>3, Clients DEF HandlersWait
<1>5. \A x \in Request : reqs[x].client # t
  BY <1>1, <1>3 DEF HandlersWait, At, Waiting
<1>6. reqs'[r] = q /\ \A x \in Request : x # r => reqs'[x] = reqs[x]
  BY <1>1, <1>3
<1>7. tasks'[t] = n /\ \A x \in Task : x # t => tasks'[x] = tasks[x]
  BY <1>1
<1>8. ASSUME NEW x \in Task
      PROVE  tasks'[x].pc = "pushing" <=> \E y \in Request : reqs'[y].client = x
  <2>1. CASE x = t
    BY <1>2, <1>3, <1>6, <1>7, <2>1
  <2>2. CASE x # t
    <3>1. (\E y \in Request : reqs'[y].client = x) <=> (\E y \in Request : reqs[y].client = x)
      BY <1>2, <1>4, <1>6, <2>2, Clients
    <3> QED BY <1>1, <1>7, <2>2, <3>1 DEF HandlersWait, At, Waiting
  <2> QED BY <2>1, <2>2
<1>9. ASSUME NEW x \in Request, reqs'[x].client # NoClient
      PROVE  /\ reqs'[x].pc # "free" /\ reqs'[x].kind = "meEvents"
             /\ reqs'[x].batch = ToSet(tasks'[reqs'[x].client].batch)
  <2>1. CASE x = r
    BY <1>2, <1>6, <1>7, <2>1
  <2>2. CASE x # r
    <3>1. reqs[x].client \in Task /\ reqs[x].client # t
      BY <1>1, <1>5, <1>6, <1>9, <2>2, Clients
    <3> QED BY <1>1, <1>6, <1>7, <1>9, <2>2, <3>1 DEF HandlersWait
  <2> QED BY <2>1, <2>2
<1>10. ASSUME NEW x \in Request, NEW y \in Request, reqs'[x].client # NoClient,
              reqs'[y].client = reqs'[x].client
       PROVE  x = y
  BY <1>1, <1>2, <1>5, <1>6, <1>10 DEF HandlersWait
<1> QED BY <1>8, <1>9, <1>10 DEF HandlersWait, At, Waiting

LEMMA HearsWaits ==
  ASSUME ExtensionInv, NEW t \in Task, NEW r \in Request, NEW n, Hears(t, r, n)
  PROVE  HandlersWait'
<1>1. /\ tasks \in [Task -> TaskState] /\ tasks' = [tasks EXCEPT ![t] = n] /\ HandlersWait
      /\ reqs \in [Request -> RequestRecord]
  BY DEF ExtensionInv, ExtensionTypes, IngestInv, IngestTypeOK, Hears, Becomes
<1>2. /\ reqs' = [reqs EXCEPT ![r] = Free] /\ reqs[r].client = t /\ t # NoClient
      /\ n.pc # "pushing" /\ Free.client = NoClient
  BY Clients DEF Hears, Receive
<1>3. reqs'[r] = Free /\ \A x \in Request : x # r => reqs'[x] = reqs[x] /\ reqs[x].client # t
  BY <1>1, <1>2 DEF HandlersWait
<1>4. tasks'[t] = n /\ \A x \in Task : x # t => tasks'[x] = tasks[x]
  BY <1>1
<1>5. ASSUME NEW x \in Task
      PROVE  tasks'[x].pc = "pushing" <=> \E y \in Request : reqs'[y].client = x
  <2>1. CASE x = t
    BY <1>2, <1>3, <1>4, <2>1
  <2>2. CASE x # t
    <3>1. (\E y \in Request : reqs'[y].client = x) <=> (\E y \in Request : reqs[y].client = x)
      BY <1>2, <1>3, <2>2, Clients
    <3> QED BY <1>1, <1>4, <2>2, <3>1 DEF HandlersWait, At, Waiting
  <2> QED BY <2>1, <2>2
<1>6. ASSUME NEW x \in Request, reqs'[x].client # NoClient
      PROVE  /\ reqs'[x].pc # "free" /\ reqs'[x].kind = "meEvents"
             /\ reqs'[x].batch = ToSet(tasks'[reqs'[x].client].batch)
  <2>1. x # r /\ reqs'[x] = reqs[x] /\ reqs[x].client \in Task /\ reqs[x].client # t
    BY <1>1, <1>2, <1>3, <1>6, Clients
  <2> QED BY <1>1, <1>4, <1>6, <2>1 DEF HandlersWait
<1>7. ASSUME NEW x \in Request, NEW y \in Request, reqs'[x].client # NoClient,
             reqs'[y].client = reqs'[x].client
      PROVE  x = y
  BY <1>1, <1>2, <1>3, <1>7 DEF HandlersWait
<1> QED BY <1>5, <1>6, <1>7 DEF HandlersWait, At, Waiting

\* The backend moves a request on, or forgets one that nobody waits for.
LEMMA SameClientsWait ==
  ASSUME ExtensionInv, UNCHANGED tasks, NEW r \in Request, NEW q \in RequestRecord,
         reqs' = [reqs EXCEPT ![r] = q], q.client = reqs[r].client,
         q.client # NoClient =>
           q.pc # "free" /\ q.kind = reqs[r].kind /\ q.batch = reqs[r].batch
  PROVE  HandlersWait'
<1>1. HandlersWait /\ reqs \in [Request -> RequestRecord]
  BY DEF ExtensionInv, IngestInv, IngestTypeOK
<1>2. \A x \in Request :
        /\ reqs'[x].client = reqs[x].client
        /\ reqs[x].client # NoClient =>
             /\ reqs'[x].kind = reqs[x].kind /\ reqs'[x].batch = reqs[x].batch
             /\ reqs[x].pc # "free" => reqs'[x].pc # "free"
  BY <1>1
<1> QED BY <1>1, <1>2 DEF HandlersWait, At, Waiting

LEMMA HandlersWaitNext ==
  ASSUME ExtensionInv, ExtensionStep
  PROVE  HandlersWait'
<1>0. HandlersWait /\ IngestInv
  BY DEF ExtensionInv
<1>1. CASE UNCHANGED <<ingestVars, tasks, queue>>
  BY <1>0, <1>1 DEF ingestVars, HandlersWait, At, Waiting
<1>2. ASSUME NEW t \in Task, NEW n \in TaskState, GoesOn(t, n) \/ Writes(t, n), UNCHANGED ingestVars
      PROVE  HandlersWait'
  BY <1>2, OwnStepWaits DEF GoesOn, Writes, ingestVars
<1>3. ASSUME NEW r \in Request, NEW q \in RequestRecord, Unattended(q), Send(r, q), UNCHANGED tasks
      PROVE  HandlersWait'
  <2>1. reqs[r].client = NoClient /\ q.client = NoClient /\ reqs' = [reqs EXCEPT ![r] = q]
    BY <1>0, <1>3 DEF HandlersWait, Send, Unattended
  <2> QED BY <1>3, <2>1, SameClientsWait
<1>4. ASSUME NEW r \in Request, Serve(r) \/ Lose(r), UNCHANGED tasks PROVE HandlersWait'
  <2> PICK q \in RequestRecord : reqs' = [reqs EXCEPT ![r] = q] /\ Progress(reqs[r], q)
    BY <1>0, <1>4, ServeProgress
  <2>1. /\ q.client = reqs[r].client
        /\ q.client # NoClient =>
             q.pc # "free" /\ q.kind = reqs[r].kind /\ q.batch = reqs[r].batch
    BY Clients DEF Progress
  <2> QED BY <1>4, <2>1, SameClientsWait
<1>5. CASE Kill
  <2>1. \A r \in Request : reqs'[r].client = NoClient
    BY <1>0, <1>5, KillOK
  <2>2. \A t \in Task : tasks'[t].pc # "pushing"
    BY <1>5, IdleTaskOK DEF Kill
  <2> QED BY <2>1, <2>2, Clients DEF HandlersWait, At, Waiting
<1> QED BY <1>1, <1>2, <1>3, <1>4, <1>5, PostsWaits, HearsWaits DEF ExtensionStep

LEMMA ExtensionInit == Init => ExtensionInv
<1> SUFFICES ASSUME Init PROVE ExtensionInv
  OBVIOUS
<1>1. IngestInv
  BY InitOK DEF Init
<1>2. ExtensionTypes
  <2>1. tasks \in [Task -> TaskState] /\ queue \in BoundedSeq(Event, QueueLimit)
    BY EmptyHands, IdleTaskOK DEF Init
  <2>2. seen \in 0..MaxEvents
    BY ExtensionAssumption DEF Init
  <2> QED BY <2>1, <2>2 DEF Init, ExtensionTypes
<1>3. HandsFit
  BY IdleTaskOK DEF Init, HandsFit
<1>4. HandlersWait
  <2>1. \A r \in Request : reqs[r].client = NoClient
    BY Clients DEF Init, IngestInit
  <2>2. \A t \in Task : tasks[t].pc # "pushing"
    BY IdleTaskOK DEF Init
  <2> QED BY <2>1, <2>2, Clients DEF HandlersWait, At, Waiting
<1> QED BY <1>1, <1>2, <1>3, <1>4 DEF ExtensionInv

LEMMA ExtensionNext == ExtensionInv /\ [Next]_vars => ExtensionInv'
<1> SUFFICES ASSUME ExtensionInv, [Next]_vars PROVE ExtensionInv'
  OBVIOUS
<1>1. ExtensionStep
  BY NextIsExtensionStep
<1>2. IngestInv' /\ HandlersWait'
  BY <1>1, IngestPart, HandlersWaitNext
<1>3. ExtensionTypes' /\ HandsFit'
  BY <1>1, HandlersPart, StorageTypes DEF ExtensionInv, ExtensionTypes
<1> QED BY <1>2, <1>3 DEF ExtensionInv

LEMMA ExtensionInvariant == Spec => []ExtensionInv
<1> QED BY ExtensionInit, ExtensionNext, PTL DEF Spec
-----------------------------------------------------------------------------
(* What becomes of an event.                                               *)

\* An event that a step of handler t loses was in the queue or in t's hands.
LEMMA LostByHandler ==
  ASSUME ExtensionInv, Grows, NEW t \in Task, NEW n, Becomes(t, n), NEW e \in Kept, e \notin Kept'
  PROVE  /\ e \in ToSet(queue) \cup Carried(tasks[t])
         /\ e \notin ToSet(queue') \cup Carried(n) \cup Stored
<1>1. tasks \in [Task -> TaskState] /\ tasks' = [tasks EXCEPT ![t] = n] /\ rows \subseteq rows'
  BY DEF ExtensionInv, ExtensionTypes, Becomes, Grows
<1>2. tasks'[t] = n /\ \A x \in Task : x # t => tasks'[x] = tasks[x]
  BY <1>1
<1>3. e \notin Stored /\ e \notin ToSet(queue')
  BY <1>1 DEF Kept, Stored
<1>4. \A x \in Task : e \notin Carried(tasks'[x])
  BY DEF Kept, Carried
<1>5. e \in ToSet(queue) \/ \E x \in Task : e \in Carried(tasks[x])
  BY <1>3 DEF Kept, Stored, Carried
<1> QED BY <1>2, <1>3, <1>4, <1>5

LEMMA LossStep ==
  ASSUME ExtensionInv, ExtensionStep
  PROVE  \/ Kept \subseteq Kept'
         \/ Kill
         \/ \E t \in Task : (EnqueueWrite(t) \/ DrainWrite(t)) /\ Kept \ Kept' \subseteq Forfeited(t)
<1>1. Grows
  BY IngestPart
<1>2. ASSUME NEW t \in Task, NEW n, Becomes(t, n), UNCHANGED queue,
             Carried(tasks[t]) \subseteq Carried(n) \cup Stored
      PROVE  Kept \subseteq Kept'
  BY <1>1, <1>2, LostByHandler
<1>3. ASSUME NEW t \in Task, NEW n \in TaskState, Writes(t, n)
      PROVE  Kept \ Kept' \subseteq Forfeited(t)
  <2> SUFFICES ASSUME NEW e \in Kept, e \notin Kept' PROVE e \in Forfeited(t)
    OBVIOUS
  <2>1. /\ e \in ToSet(queue) \cup Carried(tasks[t])
        /\ e \notin ToSet(queue') \cup Carried(n) \cup Stored
    BY <1>1, <1>3, LostByHandler DEF Writes
  <2> QED BY <1>3, <2>1 DEF Writes
<1>4. CASE UNCHANGED <<tasks, queue>>
  BY <1>1, <1>4 DEF Grows, Kept
<1> QED BY <1>2, <1>3, <1>4 DEF ExtensionStep, ingestVars, GoesOn, Posts, Hears
-----------------------------------------------------------------------------
(* The theorems.                                                           *)

\* The extension's storage and handlers, and the backend's tables, keep their types; in
\* particular the queue never exceeds QUEUE_LIMIT, however the handlers interleave at their
\* awaits (background.ts).
THEOREM ExtensionTypeCorrect == Spec => []TypeOK
<1>1. ExtensionInv => TypeOK
  BY DEF ExtensionInv, ExtensionTypes, IngestInv, TypeOK
<1> QED BY <1>1, ExtensionInvariant, PTL

\* A handler awaits pushEvents exactly while one request of its own is under way, and that
\* request carries the very events it would queue again: no answer is taken for another's,
\* and no handler waits for an answer nobody will give.
THEOREM OwnAnswerAwaited == Spec => []HandlersWait
<1>1. ExtensionInv => HandlersWait
  BY DEF ExtensionInv
<1> QED BY <1>1, ExtensionInvariant, PTL

\* An observed event is lost only when the browser kills the worker, at the limit of the
\* queue, or to a write of the queue that overlaps another handler's (enqueue and drain read
\* and write it in two steps); a failed push, a lost reply, a sign-out and a closed workday
\* lose nothing.
THEOREM OnlyKnownLosses == Spec => NothingElseLost
<1>1. ExtensionInv /\ [Next]_vars =>
        [\/ Kept \subseteq Kept'
         \/ Kill
         \/ \E t \in Task :
              (EnqueueWrite(t) \/ DrainWrite(t)) /\ Kept \ Kept' \subseteq Forfeited(t)]_vars
  BY NextIsExtensionStep, LossStep
<1> QED BY <1>1, ExtensionInvariant, PTL DEF Spec, NothingElseLost

\* The browser's requests are answered as soundly as any client's, although a killed worker
\* abandons several at once: the events of an acknowledged batch are all stored.
THEOREM BrowserRepliesSound == Spec => []EventsReplySound
<1>1. ExtensionInv => EventsReplySound
  BY DEF ExtensionInv, IngestInv, RequestOK, Relies, EventsReplySound
<1> QED BY <1>1, ExtensionInvariant, PTL
=============================================================================
