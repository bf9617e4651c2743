------------------------------- MODULE Admin -------------------------------
(***************************************************************************)
(* What managers administer: productivity rules, users, the settings of    *)
(* the organisation and the review of screenshots (the routes of the same  *)
(* names), with the uploads the reviews are about, the audit log every     *)
(* change leaves an entry in (plugins/audit.ts), the answers of the error  *)
(* handler, and the dashboard's rules table and review queue.              *)
(*                                                                         *)
(* A handler looks a row up, writes it, and writes the audit entry: three  *)
(* statements, between which other calls run.  Each call is made once, and *)
(* a row, or a rule, user or screenshot, that a call creates goes by the   *)
(* name of the call.                                                       *)
(***************************************************************************)
EXTENDS Naturals

CONSTANTS
  Call,      \* the calls that are made
  Seeded,    \* the rule, the user and the screenshot there are at the start
  Tab,       \* pages of the dashboard
  NoTab,     \* the caller of what no page offers: a script, an agent
  Value,     \* what a body carries: a category, an e-mail address, a number of days;
             \* and the millisecond that names a stored image
  Initial,   \* the value of everything at the start
  NoValue

ASSUME AdminAssumption ==
  /\ Seeded \notin Call
  /\ NoTab \notin Tab
  /\ Initial \in Value
  /\ NoValue \notin Value

Row == Call \cup {Seeded}

VARIABLES
  rules,      \* ProductivityRule: the category of each rule, NoValue without a rule
  emails,     \* User.email, NoValue without a user
  statuses,   \* User.status
  column,     \* Organization.retentionDays
  settings,   \* Organization.settings: its retentionDays, if any
  shots,      \* Screenshot.storageKey, NoValue without a row
  reviewed,   \* Screenshot.reviewed
  objects,    \* keys under which the store holds an image
  calls,
  shown,      \* the rules a page lists
  queue,      \* the screenshots a page lists for review
  listed      \* history: the screenshots the page was loaded with

vars == <<rules, emails, statuses, column, settings, shots, reviewed, objects, calls, shown,
          queue, listed>>

users == <<emails, statuses>>
organization == <<column, settings>>
screenshots == <<shots, reviewed, objects>>
tables == <<rules, users, organization, screenshots>>
pages == <<shown, queue, listed>>

RuleKind == {"rule.create", "rule.update", "rule.delete"}
UserKind == {"user.create", "user.update", "user.suspend", "user.delete"}
Kind == RuleKind \cup UserKind \cup {"settings.update", "screenshot.review", "upload"}

\* What an answer says (0: there is none yet), and how many audit entries a call can leave.
Code == {0, 200, 400, 404, 409, 500}
Entries == 0..2

CallRecord ==
  [pc : {"unused", "parse", "find", "put", "write", "audit", "answered", "settled"},
   kind : Kind, tab : Tab \cup {NoTab}, row : Row, value : Value \cup {NoValue},
   changed : BOOLEAN,       \* history: the call changed a table
   code : Code, entries : Entries, received : BOOLEAN]

Unused ==
  [pc |-> "unused", kind |-> "upload", tab |-> NoTab, row |-> Seeded, value |-> NoValue,
   changed |-> FALSE, code |-> 0, entries |-> 0, received |-> FALSE]

TypeOK ==
  /\ rules \in [Row -> Value \cup {NoValue}]
  /\ emails \in [Row -> Value \cup {NoValue}]
  /\ statuses \in [Row -> {"active", "suspended", "deleted"}]
  /\ column \in Value
  /\ settings \in Value \cup {NoValue}
  /\ shots \in [Row -> Value \cup {NoValue}]
  /\ reviewed \in SUBSET Row
  /\ objects \in SUBSET Value
  /\ calls \in [Call -> CallRecord]
  /\ shown \in [Tab -> SUBSET Row]
  /\ queue \in [Tab -> SUBSET Row]
  /\ listed \in [Tab -> SUBSET Row]

OnlySeeded == [r \in Row |-> IF r = Seeded THEN Initial ELSE NoValue]

Init ==
  /\ rules = OnlySeeded
  /\ emails = OnlySeeded
  /\ statuses = [r \in Row |-> "active"]
  /\ column = Initial
  /\ settings = NoValue
  /\ shots = OnlySeeded
  /\ reviewed = {}
  /\ objects = {Initial}
  /\ calls = [c \in Call |-> Unused]
  /\ shown = [t \in Tab |-> {}]
  /\ queue = [t \in Tab |-> {}]
  /\ listed = [t \in Tab |-> {}]
-----------------------------------------------------------------------------
(* The callers.                                                            *)

Rules == {r \in Row : rules[r] # NoValue}
Pending == {r \in Row : shots[r] # NoValue} \ reviewed

InFlight(c) == calls[c].pc \notin {"unused", "settled"}

Send(c, t, kind, row, value) ==
  /\ calls[c].pc = "unused"
  /\ calls' = [calls EXCEPT ![c] =
       [@ EXCEPT !.pc = "parse", !.kind = kind, !.tab = t, !.row = row, !.value = value]]
  /\ UNCHANGED <<tables, pages>>

\* The rules table: its Add button, and a delete link of each row.  The links are never
\* disabled, and the first answer enables the button again.
Add(c, t) == \E v \in Value : Send(c, t, "rule.create", Seeded, v)

Remove(c, t) == \E r \in shown[t] : Send(c, t, "rule.delete", r, NoValue)

\* The review queue.
Decide(c, t) == \E s \in queue[t] : Send(c, t, "screenshot.review", s, NoValue)

\* The settings form, and what no page offers.
CallApi(c) ==
  \/ \E v \in Value \cup {NoValue} : Send(c, NoTab, "settings.update", Seeded, v)
  \/ \E r \in Row, v \in Value : Send(c, NoTab, "rule.update", r, v)
  \/ \E v \in Value : Send(c, NoTab, "user.create", Seeded, v)
  \/ \E r \in Row, v \in Value \cup {NoValue} : Send(c, NoTab, "user.update", r, v)
  \/ \E r \in Row, kind \in {"user.suspend", "user.delete"} : Send(c, NoTab, kind, r, NoValue)

Upload(c) == Send(c, NoTab, "upload", Seeded, NoValue)

\* A page is loaded: nobody waits for its requests of before, which go on, and its lists are
\* those of the tables, or empty when the API does not answer.
Load(t) ==
  /\ \E ok \in BOOLEAN :
       /\ shown' = [shown EXCEPT ![t] = IF ok THEN Rules ELSE {}]
       /\ queue' = [queue EXCEPT ![t] = IF ok THEN Pending ELSE {}]
       /\ listed' = [listed EXCEPT ![t] = IF ok THEN Pending ELSE {}]
  /\ calls' = [c \in Call |-> IF calls[c].tab = t THEN [calls[c] EXCEPT !.tab = NoTab]
                                                  ELSE calls[c]]
  /\ UNCHANGED tables
-----------------------------------------------------------------------------
(* The handlers.                                                           *)

Goto(c, pc) == calls' = [calls EXCEPT ![c] = [@ EXCEPT !.pc = pc]]

\* The error handler's answer.
Fail(c, code) ==
  /\ calls' = [calls EXCEPT ![c] = [@ EXCEPT !.pc = "answered", !.code = code]]
  /\ UNCHANGED tables

\* The body and the role are checked; a body that cannot be parsed is a 400.
Parse(c) ==
  /\ calls[c].pc = "parse"
  /\ \/ Fail(c, 400)
     \/ /\ Goto(c, IF calls[c].kind \in {"rule.create", "settings.update"} THEN "write" ELSE "find")
        /\ UNCHANGED tables
  /\ UNCHANGED pages

\* The row the call is about, if the organisation has it.
Found(c) ==
  CASE calls[c].kind \in {"rule.update", "rule.delete"} -> calls[c].row \in Rules
    [] calls[c].kind \in {"user.update", "user.suspend", "user.delete"} ->
         emails[calls[c].row] # NoValue
    [] OTHER -> shots[calls[c].row] # NoValue

FindRow(c) ==
  /\ calls[c].pc = "find"
  /\ calls[c].kind \notin {"user.create", "upload"}
  /\ \/ Found(c) /\ Goto(c, "write") /\ UNCHANGED tables
     \/ ~Found(c) /\ Fail(c, 404)
     \/ calls[c].kind = "user.update" /\ Fail(c, 400)   \* managerId is of no user here
  /\ UNCHANGED pages

Taken(v) == \E r \in Row : emails[r] = v

\* createUser: the address must be free, and the manager a user of the organisation.
FindEmail(c) ==
  /\ calls[c].pc = "find"
  /\ calls[c].kind = "user.create"
  /\ \/ Taken(calls[c].value) /\ Fail(c, 409)
     \/ ~Taken(calls[c].value) /\ Goto(c, "write") /\ UNCHANGED tables
     \/ ~Taken(calls[c].value) /\ Fail(c, 400)
  /\ UNCHANGED pages

\* An upload needs a session of the agent's, open or not.
FindSession(c) ==
  /\ calls[c].pc = "find"
  /\ calls[c].kind = "upload"
  /\ \/ Fail(c, 404)
     \/ Goto(c, "put") /\ UNCHANGED tables
  /\ UNCHANGED pages

\* Mutant: the upload to the store is not waited for, and fails.
PutUnawaited(c) ==
  /\ calls[c].pc = "put"
  /\ \E key \in Value :
       calls' = [calls EXCEPT ![c] = [@ EXCEPT !.pc = "write", !.value = key]]
  /\ UNCHANGED <<tables, pages>>

\* uploadObject, under a key made of the millisecond: a second image of the same one
\* takes the place of the first.
Put(c) ==
  /\ calls[c].pc = "put"
  /\ \E key \in Value :
       /\ objects' = objects \cup {key}
       /\ calls' = [calls EXCEPT ![c] = [@ EXCEPT !.pc = "write", !.value = key]]
  /\ UNCHANGED <<rules, users, organization, shots, reviewed, pages>>

\* The statement is done; what is left is the audit entry.
Written(c) == calls' = [calls EXCEPT ![c] = [@ EXCEPT !.pc = "audit", !.changed = TRUE]]

Writing(c, kind) == calls[c].pc = "write" /\ calls[c].kind = kind

CreateRule(c) ==
  /\ Writing(c, "rule.create")
  /\ rules' = [rules EXCEPT ![c] = calls[c].value]
  /\ Written(c)
  /\ UNCHANGED <<users, organization, screenshots, pages>>

\* A rule that is gone since it was found is an error of the database: a 500.
UpdateRule(c) ==
  /\ Writing(c, "rule.update")
  /\ IF calls[c].row \in Rules
       THEN /\ rules' = [rules EXCEPT ![calls[c].row] = calls[c].value]
            /\ Written(c)
            /\ UNCHANGED <<users, organization, screenshots>>
       ELSE Fail(c, 500)
  /\ UNCHANGED pages

\* Mutant: a rule that is gone already is no error (deleteMany).
DeleteRuleAnyway(c) ==
  /\ Writing(c, "rule.delete")
  /\ rules' = [rules EXCEPT ![calls[c].row] = NoValue]
  /\ Written(c)
  /\ UNCHANGED <<users, organization, screenshots, pages>>

DeleteRule(c) ==
  /\ Writing(c, "rule.delete")
  /\ IF calls[c].row \in Rules
       THEN /\ rules' = [rules EXCEPT ![calls[c].row] = NoValue]
            /\ Written(c)
            /\ UNCHANGED <<users, organization, screenshots>>
       ELSE Fail(c, 500)
  /\ UNCHANGED pages

\* The address is unique in the table: taken since it was looked up, or taken by another
\* user, which updateUser does not look up, it is a 500.
SetEmail(c, row) ==
  /\ IF \E r \in Row \ {row} : emails[r] = calls[c].value
       THEN Fail(c, 500)
       ELSE /\ emails' = [emails EXCEPT ![row] = calls[c].value]
            /\ Written(c)
            /\ UNCHANGED <<rules, statuses, organization, screenshots>>
  /\ UNCHANGED pages

CreateUser(c) == Writing(c, "user.create") /\ SetEmail(c, c)

UpdateUser(c) ==
  /\ Writing(c, "user.update")
  /\ \/ calls[c].value # NoValue /\ SetEmail(c, calls[c].row)
     \/ calls[c].value = NoValue /\ Written(c) /\ UNCHANGED <<tables, pages>>

\* suspendUser and deleteUser do not look at the status they replace.
SetStatus(c, kind, status) ==
  /\ Writing(c, kind)
  /\ statuses' = [statuses EXCEPT ![calls[c].row] = status]
  /\ Written(c)
  /\ UNCHANGED <<rules, emails, organization, screenshots, pages>>

SuspendUser(c) == SetStatus(c, "user.suspend", "suspended")
DeleteUser(c) == SetStatus(c, "user.delete", "deleted")

\* Mutant: the column is set to what the body has, or has not.
UpdateSettingsRaw(c) ==
  /\ Writing(c, "settings.update")
  /\ column' = calls[c].value
  /\ settings' = calls[c].value
  /\ Written(c)
  /\ UNCHANGED <<rules, users, screenshots, pages>>

\* The column changes if the body has it; the settings become the body.
UpdateSettings(c) ==
  /\ Writing(c, "settings.update")
  /\ column' = IF calls[c].value = NoValue THEN column ELSE calls[c].value
  /\ settings' = calls[c].value
  /\ Written(c)
  /\ UNCHANGED <<rules, users, screenshots, pages>>

\* Whatever was decided, and by whomever before.
Review(c) ==
  /\ Writing(c, "screenshot.review")
  /\ reviewed' = reviewed \cup {calls[c].row}
  /\ Written(c)
  /\ UNCHANGED <<rules, users, organization, shots, objects, pages>>

CreateScreenshot(c) ==
  /\ Writing(c, "upload")
  /\ shots' = [shots EXCEPT ![c] = calls[c].value]
  /\ Written(c)
  /\ UNCHANGED <<rules, users, organization, reviewed, objects, pages>>

\* Mutant: the failure of the entry is the failure of the request.
AuditOrFail(c) ==
  /\ calls[c].pc = "audit"
  /\ \E entry \in IF calls[c].kind = "upload" THEN {0} ELSE {0, 1} :
       calls' = [calls EXCEPT ![c] =
         [@ EXCEPT !.pc = "answered", !.code = IF entry = 1 THEN 200 ELSE 500, !.entries = entry]]
  /\ UNCHANGED <<tables, pages>>

\* app.audit swallows its own failure; an upload writes no entry.
Audit(c) ==
  /\ calls[c].pc = "audit"
  /\ \E entry \in IF calls[c].kind = "upload" THEN {0} ELSE {0, 1} :
       calls' = [calls EXCEPT ![c] =
         [@ EXCEPT !.pc = "answered", !.code = 200, !.entries = entry]]
  /\ UNCHANGED <<tables, pages>>

\* A statement, the store or the server's key fails before the call has changed anything.
Breakdown(c) ==
  /\ calls[c].pc \in {"find", "put", "write"}
  /\ Fail(c, 500)
  /\ UNCHANGED pages

\* The API dies, or the connection does: the call ends where it was.
Abort(c) ==
  /\ InFlight(c)
  /\ Goto(c, "settled")
  /\ UNCHANGED <<tables, pages>>

\* onResponse: a second entry for what succeeded, unless the handler asked for none.
Generic(c) == IF calls[c].code = 200 /\ calls[c].kind # "upload" THEN {0, 1} ELSE {0}

\* Mutant: the queue drops the item whatever the answer.
ReceiveAny(c) ==
  LET t == calls[c].tab
      own == t # NoTab
  IN /\ calls[c].pc = "answered"
     /\ \E entry \in Generic(c) :
          calls' = [calls EXCEPT ![c] =
            [@ EXCEPT !.pc = "settled", !.received = TRUE, !.entries = calls[c].entries + entry]]
     /\ shown' =
          IF own /\ calls[c].kind = "rule.create" THEN [shown EXCEPT ![t] = @ \cup {c}]
          ELSE IF own /\ calls[c].kind = "rule.delete" THEN [shown EXCEPT ![t] = @ \ {calls[c].row}]
          ELSE shown
     /\ queue' =
          IF own /\ calls[c].kind = "screenshot.review" THEN [queue EXCEPT ![t] = @ \ {calls[c].row}]
          ELSE queue
     /\ UNCHANGED <<tables, listed>>

\* The answer: the rules table adds the rule or drops the row, the queue drops the item; an
\* error changes nothing on the page.
Receive(c) ==
  LET t == calls[c].tab
      own == t # NoTab /\ calls[c].code = 200
  IN /\ calls[c].pc = "answered"
     /\ \E entry \in Generic(c) :
          calls' = [calls EXCEPT ![c] =
            [@ EXCEPT !.pc = "settled", !.received = TRUE, !.entries = calls[c].entries + entry]]
     /\ shown' =
          IF own /\ calls[c].kind = "rule.create" THEN [shown EXCEPT ![t] = @ \cup {c}]
          ELSE IF own /\ calls[c].kind = "rule.delete" THEN [shown EXCEPT ![t] = @ \ {calls[c].row}]
          ELSE shown
     /\ queue' =
          IF own /\ calls[c].kind = "screenshot.review" THEN [queue EXCEPT ![t] = @ \ {calls[c].row}]
          ELSE queue
     /\ UNCHANGED <<tables, listed>>
-----------------------------------------------------------------------------
Caller(c) == CallApi(c) \/ Upload(c) \/ \E t \in Tab : Add(c, t) \/ Remove(c, t) \/ Decide(c, t)

Lookup(c) == Parse(c) \/ FindRow(c) \/ FindEmail(c) \/ FindSession(c) \/ Put(c)

Write(c) ==
  \/ CreateRule(c) \/ UpdateRule(c) \/ DeleteRule(c)
  \/ CreateUser(c) \/ UpdateUser(c) \/ SuspendUser(c) \/ DeleteUser(c)
  \/ UpdateSettings(c) \/ Review(c) \/ CreateScreenshot(c)

Next ==
  \/ \E c \in Call :
       Caller(c) \/ Lookup(c) \/ Write(c) \/ Audit(c) \/ Breakdown(c) \/ Abort(c) \/ Receive(c)
  \/ \E t \in Tab : Load(t)

Spec == Init /\ [][Next]_vars
-----------------------------------------------------------------------------
(* Properties.                                                             *)

\* What a page shows is explained by its own calls and those of others since it was loaded: a
\* rule it still lists and that is gone was deleted by a call whose answer this page did not
\* get; a rule it added is listed as long as it exists; and an item left its queue only
\* because the screenshot is reviewed.
ListsExplained ==
  \A t \in Tab :
    /\ \A r \in shown[t] \ Rules : \E c \in Call :
         /\ calls[c].kind = "rule.delete" /\ calls[c].row = r /\ calls[c].changed
         /\ ~(calls[c].tab = t /\ calls[c].received)
    /\ \A c \in Call :
         /\ calls[c].kind = "rule.create" /\ calls[c].tab = t
         /\ calls[c].received /\ calls[c].code = 200
         => (c \in Rules => c \in shown[t])
    /\ listed[t] \ queue[t] \subseteq reviewed

\* Calls that race for a row have one winner: of several deletions of a rule one succeeds,
\* and no update that found the rule before brings it back; an address is never two users';
\* and the retention in the settings, when they have one, is that of the column beside them.
RaceHasOneWinner ==
  /\ \A c, d \in Call :
       /\ calls[c].kind = "rule.delete" /\ calls[c].changed
       /\ calls[d].kind = "rule.delete" /\ calls[d].changed
       /\ calls[c].row = calls[d].row
       => c = d
  /\ \A c \in Call :
       calls[c].kind = "rule.delete" /\ calls[c].changed => calls[c].row \notin Rules
  /\ \A r, u \in Row : emails[r] = emails[u] /\ emails[r] # NoValue => r = u
  /\ settings \in {NoValue, column}

\* A call is answered with an error, or leaves an entry in the audit log, only in accordance
\* with what it did: an error means that no table was changed, also when writing the entry
\* failed, and an entry that something was.  (An upload that fails after Put has left an object.)
AnsweredAsDone ==
  \A c \in Call :
    /\ calls[c].code >= 400 => ~calls[c].changed
    /\ calls[c].code = 200 \/ calls[c].entries > 0 => calls[c].changed

\* Every screenshot a manager is asked to review has its image in the store, wherever an
\* upload broke off.
RowHasObject == \A s \in Row : shots[s] # NoValue => shots[s] \in objects
=============================================================================
