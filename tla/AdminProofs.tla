----------------------------- MODULE AdminProofs -----------------------------
(***************************************************************************)
(* The safety invariants of Admin, for every set of calls, pages and       *)
(* values.                                                                 *)
(*                                                                         *)
(* A call holds nothing between its look-up and its write, so each         *)
(* invariant relates what a call has done (changed) to the tables: a rule  *)
(* there is was created by its call, a deleted one was there once, and a   *)
(* page knows of a rule only after it was created.                         *)
(***************************************************************************)
EXTENDS Admin, TLAPS

Early == {"unused", "parse", "find", "put", "write"}

\* What a call has to show for itself at each point.
Phase(c) ==
  /\ calls[c].pc \in Early => ~calls[c].changed /\ calls[c].code = 0 /\ calls[c].entries = 0
  /\ calls[c].pc = "audit" => calls[c].changed /\ calls[c].code = 0 /\ calls[c].entries = 0
  /\ calls[c].pc = "answered" => calls[c].entries < 2 /\ calls[c].code # 0
  /\ calls[c].received => calls[c].pc = "settled"
  /\ calls[c].code >= 400 => ~calls[c].changed
  /\ calls[c].code = 200 \/ calls[c].entries > 0 => calls[c].changed

Phases == \A c \in Call : Phase(c)

\* A rule that is there, or was deleted, or is to be deleted, was created by its call (or was
\* there at the start); one that was created and is not there was deleted.
RulesMade ==
  /\ \A c \in Call : c \in Rules => calls[c].changed
  /\ \A d \in Call : calls[d].kind = "rule.delete" /\ calls[d].row \in Call =>
       calls[calls[d].row].changed
  /\ \A c \in Call : calls[c].kind = "rule.create" /\ calls[c].changed /\ c \notin Rules =>
       \E d \in Call : calls[d].kind = "rule.delete" /\ calls[d].changed /\ calls[d].row = c

\* A rule has a category.
RulesValued ==
  \A c \in Call : calls[c].kind \in {"rule.create", "rule.update"} => calls[c].value \in Value

\* An upload about to write its row has stored its image, and a review that was done, is.
ImagesStored ==
  \A c \in Call : calls[c].pc = "write" /\ calls[c].kind = "upload" => calls[c].value \in objects

ReviewsDone ==
  \A c \in Call : calls[c].kind = "screenshot.review" /\ calls[c].changed =>
    calls[c].row \in reviewed

\* A page lists created rules only; one that it is adding it neither lists nor deletes yet.
PagesKnow ==
  /\ \A t \in Tab : \A c \in Call : c \in shown[t] => calls[c].changed
  /\ \A t \in Tab : \A c \in Call :
       calls[c].kind = "rule.create" /\ calls[c].tab = t /\ ~calls[c].received =>
         /\ c \notin shown[t]
         /\ \A d \in Call : ~(calls[d].kind = "rule.delete" /\ calls[d].tab = t /\ calls[d].row = c)

\* The inductive invariant.
IInv ==
  /\ TypeOK /\ Phases /\ RulesValued
  /\ RulesMade /\ ImagesStored /\ ReviewsDone /\ RaceHasOneWinner /\ RowHasObject
  /\ PagesKnow /\ ListsExplained
-----------------------------------------------------------------------------
LEMMA InitEstablishes == Init => IInv
<1> SUFFICES ASSUME Init PROVE IInv
  OBVIOUS
<1> USE AdminAssumption DEF Init, Row
<1>1. Unused \in CallRecord
  BY DEF Unused, CallRecord, Kind, RuleKind, UserKind, Code, Entries
<1>2. OnlySeeded \in [Row -> Value \cup {NoValue}]
  BY DEF OnlySeeded
<1>3. TypeOK
  BY <1>1, <1>2 DEF TypeOK
<1>4. \A c \in Call : calls[c] = Unused /\ c \notin Rules
  BY DEF Rules, OnlySeeded
<1>5. Phases
  <2>1. Unused.pc = "unused" /\ Unused.code = 0 /\ Unused.entries = 0
    BY DEF Unused
  <2>2. ~Unused.changed /\ ~Unused.received
    BY DEF Unused
  <2>3. SUFFICES ASSUME NEW c \in Call PROVE Phase(c)
    BY DEF Phases
  <2>4. calls[c] = Unused
    BY <1>4
  <2> QED BY <2>1, <2>2, <2>4 DEF Phase
<1>6. RulesMade /\ RulesValued /\ ImagesStored /\ ReviewsDone /\ PagesKnow
  BY <1>4 DEF RulesMade, RulesValued, ImagesStored, ReviewsDone, PagesKnow, Unused
<1>7. RaceHasOneWinner
  BY <1>4 DEF RaceHasOneWinner, Unused, OnlySeeded
<1>8. RowHasObject
  BY DEF RowHasObject, OnlySeeded
<1>9. ListsExplained
  BY <1>4 DEF ListsExplained, Unused
<1> QED BY <1>3, <1>5, <1>6, <1>7, <1>8, <1>9 DEF IInv

-----------------------------------------------------------------------------
(* What a step makes of its call.                                          *)

\* The step is one of call c, which goes on being about the same.
Moved(c) ==
  /\ calls' \in [Call -> CallRecord]
  /\ \A d \in Call \ {c} : calls'[d] = calls[d]
  /\ calls'[c].kind = calls[c].kind
  /\ calls'[c].tab = calls[c].tab
  /\ calls'[c].row = calls[c].row
  /\ calls'[c].value = calls[c].value \/ calls'[c].value \in Value

LEMMA MovedTo ==
  ASSUME TypeOK, NEW c \in Call, NEW new \in CallRecord, calls' = [calls EXCEPT ![c] = new],
         new.kind = calls[c].kind, new.tab = calls[c].tab, new.row = calls[c].row,
         new.value = calls[c].value \/ new.value \in Value
  PROVE  Moved(c) /\ calls'[c] = new
<1> QED BY DEF TypeOK, Moved

LEMMA GotoMoves ==
  ASSUME TypeOK, NEW c \in Call, NEW pc \in {"find", "put", "write", "settled"}, Goto(c, pc)
  PROVE  /\ Moved(c) /\ calls'[c].pc = pc
         /\ calls'[c].changed = calls[c].changed /\ calls'[c].code = calls[c].code
         /\ calls'[c].entries = calls[c].entries /\ calls'[c].received = calls[c].received
         /\ calls'[c].value = calls[c].value
<1> DEFINE new == [calls[c] EXCEPT !.pc = pc]
<1>1. calls[c] \in CallRecord
  BY DEF TypeOK
<1>2. new \in CallRecord
  BY <1>1 DEF CallRecord
<1>3. /\ new.kind = calls[c].kind /\ new.tab = calls[c].tab /\ new.row = calls[c].row
      /\ new.pc = pc
  BY <1>1 DEF CallRecord
<1>4. /\ new.changed = calls[c].changed /\ new.code = calls[c].code
      /\ new.entries = calls[c].entries /\ new.received = calls[c].received
      /\ new.value = calls[c].value
  BY <1>1 DEF CallRecord
<1>5. calls' = [calls EXCEPT ![c] = new]
  BY DEF Goto
<1> HIDE DEF new
<1> QED BY <1>2, <1>3, <1>4, <1>5, MovedTo

LEMMA FailMoves ==
  ASSUME TypeOK, NEW c \in Call, NEW code \in {400, 404, 409, 500}, Fail(c, code)
  PROVE  /\ Moved(c) /\ calls'[c].pc = "answered" /\ calls'[c].code = code
         /\ calls'[c].changed = calls[c].changed
         /\ calls'[c].entries = calls[c].entries /\ calls'[c].received = calls[c].received
<1> DEFINE new == [calls[c] EXCEPT !.pc = "answered", !.code = code]
<1>1. calls[c] \in CallRecord
  BY DEF TypeOK
<1>2. new \in CallRecord
  <2>1. code \in Code
    BY DEF Code
  <2> QED BY <1>1, <2>1 DEF CallRecord
<1>3. /\ new.kind = calls[c].kind /\ new.tab = calls[c].tab /\ new.row = calls[c].row
      /\ new.value = calls[c].value /\ new.pc = "answered"
  BY <1>1 DEF CallRecord
<1>4. /\ new.code = code /\ new.changed = calls[c].changed
      /\ new.entries = calls[c].entries /\ new.received = calls[c].received
  BY <1>1 DEF CallRecord
<1>5. calls' = [calls EXCEPT ![c] = new]
  BY DEF Fail
<1> HIDE DEF new
<1>6. Moved(c) /\ calls'[c] = new
  BY <1>2, <1>3, <1>5, SMT DEF Moved, TypeOK
<1> QED BY <1>3, <1>4, <1>6

LEMMA WrittenMoves ==
  ASSUME TypeOK, NEW c \in Call, Written(c)
  PROVE  /\ Moved(c) /\ calls'[c].pc = "audit" /\ calls'[c].changed
         /\ calls'[c].code = calls[c].code
         /\ calls'[c].entries = calls[c].entries /\ calls'[c].received = calls[c].received
<1> DEFINE new == [calls[c] EXCEPT !.pc = "audit", !.changed = TRUE]
<1>1. calls[c] \in CallRecord
  BY DEF TypeOK
<1>2. new \in CallRecord
  BY <1>1 DEF CallRecord
<1>3. /\ new.kind = calls[c].kind /\ new.tab = calls[c].tab /\ new.row = calls[c].row
      /\ new.value = calls[c].value /\ new.pc = "audit"
  BY <1>1 DEF CallRecord
<1>4. /\ new.changed /\ new.code = calls[c].code /\ new.entries = calls[c].entries
      /\ new.received = calls[c].received
  BY <1>1 DEF CallRecord
<1>5. calls' = [calls EXCEPT ![c] = new]
  BY DEF Written
<1> HIDE DEF new
<1> QED BY <1>2, <1>3, <1>4, <1>5, MovedTo

LEMMA PutMoves ==
  ASSUME TypeOK, NEW c \in Call, Put(c)
  PROVE  /\ Moved(c) /\ calls[c].pc = "put" /\ calls'[c].pc = "write"
         /\ calls'[c].value \in objects'
         /\ calls'[c].changed = calls[c].changed /\ calls'[c].code = calls[c].code
         /\ calls'[c].entries = calls[c].entries /\ calls'[c].received = calls[c].received
         /\ objects \subseteq objects' /\ objects' \in SUBSET Value
<1>1. PICK key \in Value :
        /\ objects' = objects \cup {key}
        /\ calls' = [calls EXCEPT ![c] = [@ EXCEPT !.pc = "write", !.value = key]]
  BY DEF Put
<1> DEFINE new == [calls[c] EXCEPT !.pc = "write", !.value = key]
<1>2. calls[c] \in CallRecord
  BY DEF TypeOK
<1>3. new \in CallRecord
  BY <1>2 DEF CallRecord
<1>4. /\ new.kind = calls[c].kind /\ new.tab = calls[c].tab /\ new.row = calls[c].row
      /\ new.pc = "write"
  BY <1>2 DEF CallRecord
<1>5. /\ new.value = key /\ new.changed = calls[c].changed /\ new.code = calls[c].code
      /\ new.entries = calls[c].entries /\ new.received = calls[c].received
  BY <1>2 DEF CallRecord
<1>6. calls' = [calls EXCEPT ![c] = new]
  BY <1>1
<1> HIDE DEF new
<1>7. objects' \in SUBSET Value
  BY <1>1 DEF TypeOK
<1> QED BY <1>1, <1>3, <1>4, <1>5, <1>6, <1>7, MovedTo DEF Put

LEMMA AuditMoves ==
  ASSUME TypeOK, NEW c \in Call, Audit(c)
  PROVE  /\ Moved(c) /\ calls[c].pc = "audit" /\ calls'[c].pc = "answered"
         /\ calls'[c].code = 200 /\ calls'[c].entries \in {0, 1}
         /\ calls'[c].changed = calls[c].changed /\ calls'[c].received = calls[c].received
<1>1. PICK entry \in IF calls[c].kind = "upload" THEN {0} ELSE {0, 1} :
        calls' = [calls EXCEPT ![c] =
          [@ EXCEPT !.pc = "answered", !.code = 200, !.entries = entry]]
  BY DEF Audit
<1> DEFINE new == [calls[c] EXCEPT !.pc = "answered", !.code = 200, !.entries = entry]
<1>2. calls[c] \in CallRecord /\ entry \in {0, 1}
  BY <1>1 DEF TypeOK
<1>3. new \in CallRecord
  <2>1. 200 \in Code /\ entry \in Entries
    BY <1>2 DEF Code, Entries
  <2> QED BY <1>2, <2>1 DEF CallRecord
<1>4. /\ new.kind = calls[c].kind /\ new.tab = calls[c].tab /\ new.row = calls[c].row
      /\ new.value = calls[c].value /\ new.pc = "answered"
  BY <1>2 DEF CallRecord
<1>5. /\ new.code = 200 /\ new.entries = entry /\ new.changed = calls[c].changed
      /\ new.received = calls[c].received
  BY <1>2 DEF CallRecord
<1>6. calls' = [calls EXCEPT ![c] = new]
  BY <1>1
<1> HIDE DEF new
<1> QED BY <1>2, <1>3, <1>4, <1>5, <1>6, MovedTo DEF Audit

LEMMA ReceiveMoves ==
  ASSUME TypeOK, Phases, NEW c \in Call, Receive(c)
  PROVE  /\ Moved(c) /\ calls[c].pc = "answered" /\ calls'[c].pc = "settled"
         /\ calls'[c].received /\ calls'[c].entries \in Entries
         /\ calls'[c].entries > calls[c].entries => calls[c].code = 200
         /\ calls'[c].changed = calls[c].changed /\ calls'[c].code = calls[c].code
<1>1. PICK entry \in Generic(c) :
        calls' = [calls EXCEPT ![c] =
          [@ EXCEPT !.pc = "settled", !.received = TRUE,
                      !.entries = calls[c].entries + entry]]
  BY DEF Receive
<1> DEFINE new == [calls[c] EXCEPT !.pc = "settled", !.received = TRUE,
                                   !.entries = calls[c].entries + entry]
<1>2. calls[c] \in CallRecord /\ entry \in {0, 1} /\ (entry = 1 => calls[c].code = 200)
  BY <1>1 DEF TypeOK, Generic
<1>3. calls[c].pc = "answered" /\ calls[c].entries \in 0..1
  BY <1>2 DEF Receive, Phases, Phase, CallRecord, Entries
<1>4. new \in CallRecord
  <2>1. calls[c].entries + entry \in Entries
    BY <1>2, <1>3 DEF Entries
  <2> QED BY <1>2, <2>1 DEF CallRecord
<1>5. /\ new.kind = calls[c].kind /\ new.tab = calls[c].tab /\ new.row = calls[c].row
      /\ new.value = calls[c].value /\ new.pc = "settled"
  BY <1>2, <1>3 DEF CallRecord
<1>6. /\ new.received /\ new.entries = calls[c].entries + entry
      /\ new.changed = calls[c].changed /\ new.code = calls[c].code
  BY <1>2, <1>3 DEF CallRecord
<1>7. calls' = [calls EXCEPT ![c] = new]
  BY <1>1
<1> HIDE DEF new
<1>8. Moved(c) /\ calls'[c] = new
  BY <1>4, <1>5, <1>7, MovedTo
<1>9. new.entries > calls[c].entries => calls[c].code = 200
  BY <1>2, <1>3, <1>6
<1>10. new.entries \in Entries
  BY <1>2, <1>3, <1>6 DEF Entries
<1> QED BY <1>3, <1>5, <1>6, <1>8, <1>9, <1>10

\* A call that is made.
LEMMA SendMoves ==
  ASSUME TypeOK, NEW c \in Call, NEW t \in Tab \cup {NoTab}, NEW kind \in Kind, NEW row \in Row,
         NEW value \in Value \cup {NoValue}, Send(c, t, kind, row, value)
  PROVE  /\ calls' \in [Call -> CallRecord]
         /\ \A d \in Call \ {c} : calls'[d] = calls[d]
         /\ calls[c].pc = "unused" /\ calls'[c].pc = "parse"
         /\ calls'[c].kind = kind /\ calls'[c].tab = t /\ calls'[c].row = row
         /\ calls'[c].value = value
         /\ calls'[c].changed = calls[c].changed /\ calls'[c].code = calls[c].code
         /\ calls'[c].entries = calls[c].entries /\ calls'[c].received = calls[c].received
         /\ UNCHANGED <<tables, pages>>
<1> DEFINE new == [calls[c] EXCEPT !.pc = "parse", !.kind = kind, !.tab = t,
                                   !.row = row, !.value = value]
<1>1. calls[c] \in CallRecord
  BY DEF TypeOK
<1>2. new \in CallRecord
  BY <1>1 DEF CallRecord
<1>3. new.kind = kind /\ new.tab = t /\ new.row = row /\ new.value = value /\ new.pc = "parse"
  BY <1>1 DEF CallRecord
<1>4. /\ new.changed = calls[c].changed /\ new.code = calls[c].code
      /\ new.entries = calls[c].entries /\ new.received = calls[c].received
  BY <1>1 DEF CallRecord
<1>5. calls' = [calls EXCEPT ![c] = new]
  BY DEF Send
<1> HIDE DEF new
<1> QED BY <1>2, <1>3, <1>4, <1>5 DEF Send, TypeOK

\* A page load: the requests of before are nobody's.
LEMMA LoadMoves ==
  ASSUME TypeOK, NEW t \in Tab, Load(t)
  PROVE  /\ calls' \in [Call -> CallRecord]
         /\ \A c \in Call :
              /\ calls'[c].pc = calls[c].pc /\ calls'[c].kind = calls[c].kind
              /\ calls'[c].row = calls[c].row /\ calls'[c].value = calls[c].value
              /\ calls'[c].changed = calls[c].changed /\ calls'[c].code = calls[c].code
              /\ calls'[c].entries = calls[c].entries /\ calls'[c].received = calls[c].received
              /\ calls'[c].tab = IF calls[c].tab = t THEN NoTab ELSE calls[c].tab
<1> DEFINE new(c) == IF calls[c].tab = t THEN [calls[c] EXCEPT !.tab = NoTab] ELSE calls[c]
<1>1. \A c \in Call : calls'[c] = new(c)
  BY DEF Load
<1>2. ASSUME NEW c \in Call
      PROVE  /\ new(c) \in CallRecord
             /\ new(c).pc = calls[c].pc /\ new(c).kind = calls[c].kind
             /\ new(c).row = calls[c].row /\ new(c).value = calls[c].value
             /\ new(c).changed = calls[c].changed /\ new(c).code = calls[c].code
             /\ new(c).entries = calls[c].entries /\ new(c).received = calls[c].received
             /\ new(c).tab = IF calls[c].tab = t THEN NoTab ELSE calls[c].tab
  <2>1. calls[c] \in CallRecord
    BY DEF TypeOK
  <2> QED BY <2>1 DEF CallRecord
<1>3. calls' = [c \in Call |-> new(c)]
  BY DEF Load
<1> HIDE DEF new
<1> QED BY <1>1, <1>2, <1>3

-----------------------------------------------------------------------------
(* The kinds of steps.                                                     *)

\* A step of a call that changes no table, but for an image stored, and no page.
Plain(c) ==
  /\ Moved(c) /\ InFlight(c)
  /\ calls'[c].changed = calls[c].changed /\ calls'[c].received = calls[c].received
  /\ calls'[c].pc = "write" /\ calls[c].kind = "upload" => calls'[c].value \in objects'
  /\ UNCHANGED <<rules, users, organization, shots, reviewed, pages>>
  /\ objects \subseteq objects' /\ objects' \in SUBSET Value

\* A handler fails before it has changed anything.
LEMMA FailIsPlain ==
  ASSUME TypeOK, Phases, NEW c \in Call, NEW code \in {400, 404, 409, 500}, Fail(c, code),
         calls[c].pc \in {"parse", "find", "put", "write"}, UNCHANGED pages
  PROVE  Plain(c) /\ Phase(c)'
<1>1. /\ Moved(c) /\ calls'[c].pc = "answered" /\ calls'[c].code = code
      /\ calls'[c].changed = calls[c].changed
      /\ calls'[c].entries = calls[c].entries /\ calls'[c].received = calls[c].received
  BY FailMoves
<1>2. UNCHANGED tables
  BY DEF Fail
<1>3. ~calls[c].changed /\ calls[c].entries = 0 /\ ~calls[c].received
  BY DEF Phases, Phase, Early
<1>4. Plain(c)
  BY <1>1, <1>2 DEF Plain, InFlight, tables, screenshots, TypeOK
<1>5. ~calls'[c].changed /\ ~calls'[c].received
  BY <1>1, <1>3
<1>6. /\ calls'[c].entries = 0 /\ calls'[c].code # 200 /\ calls'[c].code # 0
      /\ calls'[c].pc = "answered"
  BY <1>1, <1>3
<1>7. Phase(c)'
  BY <1>5, <1>6 DEF Phase, Early
<1> QED BY <1>4, <1>7

LEMMA GotoIsPlain ==
  ASSUME TypeOK, Phases, NEW c \in Call, NEW pc \in {"find", "put", "write"}, Goto(c, pc),
         calls[c].pc \in {"parse", "find"}, calls[c].kind = "upload" => pc # "write",
         UNCHANGED <<tables, pages>>
  PROVE  Plain(c) /\ Phase(c)'
<1>1. /\ Moved(c) /\ calls'[c].pc = pc
      /\ calls'[c].changed = calls[c].changed /\ calls'[c].code = calls[c].code
      /\ calls'[c].entries = calls[c].entries /\ calls'[c].received = calls[c].received
  BY GotoMoves
<1>2. /\ ~calls[c].changed /\ calls[c].code = 0 /\ calls[c].entries = 0
      /\ ~calls[c].received
  BY DEF Phases, Phase, Early
<1>3. Plain(c)
  BY <1>1 DEF Plain, InFlight, tables, screenshots, TypeOK
<1>4. Phase(c)'
  BY <1>1, <1>2 DEF Phase, Early
<1> QED BY <1>3, <1>4

LEMMA LookupIsPlain ==
  ASSUME TypeOK, Phases, NEW c \in Call, Lookup(c)
  PROVE  Plain(c) /\ Phase(c)'
<1>1. CASE Put(c)
  <2>1. /\ Moved(c) /\ calls[c].pc = "put" /\ calls'[c].pc = "write"
        /\ calls'[c].value \in objects'
        /\ calls'[c].changed = calls[c].changed /\ calls'[c].code = calls[c].code
        /\ calls'[c].entries = calls[c].entries /\ calls'[c].received = calls[c].received
        /\ objects \subseteq objects' /\ objects' \in SUBSET Value
    BY <1>1, PutMoves
  <2>2. UNCHANGED <<rules, users, organization, shots, reviewed, pages>>
    BY <1>1 DEF Put
  <2>3. /\ ~calls[c].changed /\ calls[c].code = 0 /\ calls[c].entries = 0
        /\ ~calls[c].received
    BY <2>1 DEF Phases, Phase, Early
  <2>4. Plain(c)
    BY <2>1, <2>2 DEF Plain, InFlight
  <2>5. Phase(c)'
    BY <2>1, <2>3 DEF Phase, Early
  <2> QED BY <2>4, <2>5
<1>2. CASE ~Put(c)
  <2>1. /\ calls[c].pc \in {"parse", "find"}
        /\ \/ \E code \in {400, 404, 409, 500} : Fail(c, code)
           \/ \E pc \in {"find", "put", "write"} :
                /\ Goto(c, pc) /\ UNCHANGED tables
                /\ calls[c].kind = "upload" => pc # "write"
        /\ UNCHANGED pages
    BY <1>2 DEF Lookup, Parse, FindRow, FindEmail, FindSession
  <2> QED BY <2>1, FailIsPlain, GotoIsPlain
<1> QED BY <1>1, <1>2

LEMMA OtherPlain ==
  ASSUME TypeOK, Phases, NEW c \in Call, Breakdown(c) \/ Abort(c) \/ Audit(c)
  PROVE  Plain(c) /\ Phase(c)'
<1>1. CASE Breakdown(c)
  BY <1>1, FailIsPlain DEF Breakdown
<1>2. CASE Abort(c)
  <2>1. /\ Moved(c) /\ calls'[c].pc = "settled"
        /\ calls'[c].changed = calls[c].changed /\ calls'[c].code = calls[c].code
        /\ calls'[c].entries = calls[c].entries /\ calls'[c].received = calls[c].received
    BY <1>2, GotoMoves DEF Abort
  <2>2. Plain(c)
    BY <1>2, <2>1 DEF Abort, Plain, tables, screenshots, TypeOK
  <2>3. Phase(c)'
    BY <2>1 DEF Phases, Phase, Early
  <2> QED BY <2>2, <2>3
<1>3. CASE Audit(c)
  <2>1. /\ Moved(c) /\ calls[c].pc = "audit" /\ calls'[c].pc = "answered"
        /\ calls'[c].code = 200 /\ calls'[c].entries \in {0, 1}
        /\ calls'[c].changed = calls[c].changed /\ calls'[c].received = calls[c].received
    BY <1>3, AuditMoves
  <2>2. Plain(c)
    BY <1>3, <2>1 DEF Audit, Plain, InFlight, tables, screenshots, TypeOK
  <2>3. calls[c].changed /\ ~calls[c].received
    BY <2>1 DEF Phases, Phase
  <2>4. Phase(c)'
    BY <2>1, <2>3 DEF Phase, Early
  <2> QED BY <2>2, <2>4
<1> QED BY <1>1, <1>2, <1>3

\* A statement that was done: c was about to make it and goes on to its audit entry.
Wrote(c) ==
  /\ Moved(c) /\ calls[c].pc = "write" /\ calls'[c].pc = "audit"
  /\ ~calls[c].changed /\ calls'[c].changed
  /\ ~calls[c].received /\ ~calls'[c].received
  /\ UNCHANGED <<objects, pages>>

LEMMA WrittenIsWrote ==
  ASSUME TypeOK, Phases, NEW c \in Call, calls[c].pc = "write", Written(c),
         UNCHANGED <<objects, pages>>
  PROVE  Wrote(c) /\ Phase(c)'
<1>1. /\ Moved(c) /\ calls'[c].pc = "audit" /\ calls'[c].changed
      /\ calls'[c].code = calls[c].code
      /\ calls'[c].entries = calls[c].entries /\ calls'[c].received = calls[c].received
  BY WrittenMoves
<1>2. /\ ~calls[c].changed /\ calls[c].code = 0 /\ calls[c].entries = 0
      /\ ~calls[c].received
  BY DEF Phases, Phase, Early
<1>3. Wrote(c)
  BY <1>1, <1>2 DEF Wrote
<1>4. Phase(c)'
  BY <1>1, <1>2 DEF Phase, Early
<1> QED BY <1>3, <1>4

\* What a statement does to the tables, and which calls make it.
LEMMA WriteCases ==
  ASSUME TypeOK, Phases, NEW c \in Call, Write(c)
  PROVE  /\ Phase(c)'
         /\ \/ Plain(c)
            \/ /\ Wrote(c)
               /\ \/ CreateRule(c)
                  \/ UpdateRule(c) /\ calls[c].row \in Rules
                  \/ DeleteRule(c) /\ calls[c].row \in Rules
                  \/ CreateUser(c) \/ UpdateUser(c) \/ SuspendUser(c) \/ DeleteUser(c)
                  \/ UpdateSettings(c) \/ Review(c) \/ CreateScreenshot(c)
<1>1. calls[c].pc = "write" /\ UNCHANGED pages
  BY DEF Write, CreateRule, UpdateRule, DeleteRule, CreateUser, UpdateUser, SuspendUser,
         DeleteUser, SetStatus, SetEmail, UpdateSettings, Review, CreateScreenshot, Writing
<1>2. CASE Fail(c, 500)
  BY <1>1, <1>2, FailIsPlain
<1>3. CASE ~Fail(c, 500)
  <2>1. Written(c) /\ UNCHANGED objects
    BY <1>3 DEF Write, CreateRule, UpdateRule, DeleteRule, CreateUser, UpdateUser, SuspendUser,
           DeleteUser, SetStatus, SetEmail, UpdateSettings, Review, CreateScreenshot,
           tables, screenshots
  <2>2. Wrote(c) /\ Phase(c)'
    BY <1>1, <2>1, WrittenIsWrote
  <2>3. UpdateRule(c) \/ DeleteRule(c) => calls[c].row \in Rules
    BY <1>3 DEF UpdateRule, DeleteRule
  <2> QED BY <2>2, <2>3 DEF Write
<1> QED BY <1>2, <1>3

\* The callers: only the rules table deletes rules, those it lists.
LEMMA CallerCases ==
  ASSUME TypeOK, NEW c \in Call, Caller(c)
  PROVE  \E t \in Tab \cup {NoTab}, kind \in Kind, row \in Row, value \in Value \cup {NoValue} :
           /\ Send(c, t, kind, row, value)
           /\ kind = "rule.delete" => t \in Tab /\ row \in shown[t]
           /\ kind \in {"rule.create", "rule.update"} => value \in Value
<1> USE DEF Kind, RuleKind, UserKind
<1>1. Seeded \in Row /\ \A t \in Tab : shown[t] \subseteq Row /\ queue[t] \subseteq Row
  BY DEF Row, TypeOK
<1>2. CASE CallApi(c)
  BY <1>1, <1>2 DEF CallApi
<1>3. CASE Upload(c)
  BY <1>1, <1>3 DEF Upload
<1>4. ASSUME NEW t \in Tab, Add(c, t)
      PROVE  \E value \in Value : Send(c, t, "rule.create", Seeded, value)
  BY <1>4 DEF Add
<1>5. ASSUME NEW t \in Tab, Remove(c, t)
      PROVE  \E row \in shown[t] : Send(c, t, "rule.delete", row, NoValue)
  BY <1>5 DEF Remove
<1>6. ASSUME NEW t \in Tab, Decide(c, t)
      PROVE  \E row \in queue[t] : Send(c, t, "screenshot.review", row, NoValue)
  BY <1>6 DEF Decide
<1> QED BY <1>1, <1>2, <1>3, <1>4, <1>5, <1>6 DEF Caller

-----------------------------------------------------------------------------
(* Types and phases.                                                       *)

LEMMA PlainTyped ==
  ASSUME TypeOK, NEW c \in Call, Plain(c)
  PROVE  TypeOK'
<1> QED BY DEF Plain, Moved, TypeOK, users, organization, pages

LEMMA WroteTyped ==
  ASSUME TypeOK, NEW c \in Call, Wrote(c), Write(c), ~Fail(c, 500)
  PROVE  TypeOK'
<1> USE DEF users, organization, screenshots, pages
<1>1. /\ calls' \in [Call -> CallRecord] /\ c \in Row /\ calls[c].row \in Row
      /\ calls[c].value \in Value \cup {NoValue}
      /\ UNCHANGED <<objects, pages>>
  BY DEF Wrote, Moved, TypeOK, CallRecord, Row
<1>2. CASE CreateRule(c) \/ UpdateRule(c) \/ DeleteRule(c)
  <2>1. \E r \in Row, v \in Value \cup {NoValue} : rules' = [rules EXCEPT ![r] = v]
    BY <1>1, <1>2 DEF CreateRule, UpdateRule, DeleteRule
  <2>2. rules' \in [Row -> Value \cup {NoValue}]
    BY <2>1 DEF TypeOK
  <2> QED BY <1>1, <1>2, <2>2 DEF CreateRule, UpdateRule, DeleteRule, TypeOK
<1>3. CASE CreateUser(c) \/ UpdateUser(c)
  <2>1. \/ \E r \in Row, v \in Value \cup {NoValue} : emails' = [emails EXCEPT ![r] = v]
        \/ UNCHANGED emails
    BY <1>1, <1>3 DEF CreateUser, UpdateUser, SetEmail, tables
  <2>2. emails' \in [Row -> Value \cup {NoValue}]
    BY <2>1 DEF TypeOK
  <2> QED BY <1>1, <1>3, <2>2 DEF CreateUser, UpdateUser, SetEmail, tables, TypeOK
<1>4. CASE SuspendUser(c) \/ DeleteUser(c)
  <2>1. \E r \in Row, v \in {"suspended", "deleted"} : statuses' = [statuses EXCEPT ![r] = v]
    BY <1>1, <1>4 DEF SuspendUser, DeleteUser, SetStatus
  <2>2. statuses' \in [Row -> {"active", "suspended", "deleted"}]
    BY <2>1 DEF TypeOK
  <2> QED BY <1>1, <1>4, <2>2 DEF SuspendUser, DeleteUser, SetStatus, TypeOK
<1>5. CASE UpdateSettings(c)
  <2>1. column' \in Value /\ settings' \in Value \cup {NoValue}
    BY <1>1, <1>5 DEF UpdateSettings, TypeOK
  <2> QED BY <1>1, <1>5, <2>1 DEF UpdateSettings, TypeOK
<1>6. CASE Review(c)
  BY <1>1, <1>6 DEF Review, TypeOK
<1>7. CASE CreateScreenshot(c)
  BY <1>1, <1>7 DEF CreateScreenshot, TypeOK
<1> QED BY <1>2, <1>3, <1>4, <1>5, <1>6, <1>7 DEF Write

LEMMA ReceiveTyped ==
  ASSUME TypeOK, Phases, NEW c \in Call, Receive(c)
  PROVE  TypeOK'
<1>1. calls' \in [Call -> CallRecord] /\ UNCHANGED <<tables, listed>>
  BY ReceiveMoves DEF Moved, Receive
<1>2. c \in Row /\ \A t \in Tab : shown[t] \subseteq Row /\ queue[t] \subseteq Row
  BY DEF Row, TypeOK
<1> DEFINE t == calls[c].tab
<1>3. t \in Tab \cup {NoTab}
  BY DEF TypeOK, CallRecord
<1>4. /\ \/ UNCHANGED shown
         \/ t # NoTab /\ shown' = [shown EXCEPT ![t] = shown[t] \cup {c}]
         \/ t # NoTab /\ shown' = [shown EXCEPT ![t] = shown[t] \ {calls[c].row}]
      /\ \/ UNCHANGED queue
         \/ t # NoTab /\ queue' = [queue EXCEPT ![t] = queue[t] \ {calls[c].row}]
  BY DEF Receive
<1> HIDE DEF t
<1>5. shown' \in [Tab -> SUBSET Row] /\ queue' \in [Tab -> SUBSET Row]
  BY <1>2, <1>3, <1>4 DEF TypeOK
<1> QED BY <1>1, <1>5 DEF TypeOK, tables, users, organization, screenshots

LEMMA LoadTyped ==
  ASSUME TypeOK, NEW t \in Tab, Load(t)
  PROVE  TypeOK'
<1>1. calls' \in [Call -> CallRecord] /\ UNCHANGED tables
  BY LoadMoves DEF Load
<1>2. Rules \in SUBSET Row /\ Pending \in SUBSET Row /\ {} \in SUBSET Row
  BY DEF Rules, Pending
<1>3. PICK ok \in BOOLEAN :
        /\ shown' = [shown EXCEPT ![t] = IF ok THEN Rules ELSE {}]
        /\ queue' = [queue EXCEPT ![t] = IF ok THEN Pending ELSE {}]
        /\ listed' = [listed EXCEPT ![t] = IF ok THEN Pending ELSE {}]
  BY DEF Load
<1>4. /\ shown' \in [Tab -> SUBSET Row] /\ queue' \in [Tab -> SUBSET Row]
      /\ listed' \in [Tab -> SUBSET Row]
  BY <1>2, <1>3 DEF TypeOK
<1> QED BY <1>1, <1>4 DEF TypeOK, tables, users, organization, screenshots

\* The phase of the other calls is as it was.
LEMMA OnePhase ==
  ASSUME Phases, NEW c \in Call, \A d \in Call \ {c} : calls'[d] = calls[d], Phase(c)'
  PROVE  Phases'
<1> SUFFICES ASSUME NEW d \in Call PROVE Phase(d)'
  BY DEF Phases
<1>1. CASE d = c
  BY <1>1
<1>2. CASE d # c
  BY <1>2 DEF Phases, Phase
<1> QED BY <1>1, <1>2

LEMMA ReceivePhases ==
  ASSUME TypeOK, Phases, NEW c \in Call, Receive(c)
  PROVE  Phases'
<1>1. /\ Moved(c) /\ calls[c].pc = "answered" /\ calls'[c].pc = "settled"
      /\ calls'[c].received /\ calls'[c].entries \in Entries
      /\ calls'[c].entries > calls[c].entries => calls[c].code = 200
      /\ calls'[c].changed = calls[c].changed /\ calls'[c].code = calls[c].code
  BY ReceiveMoves
<1>2. calls[c].entries \in Entries
  BY DEF TypeOK, CallRecord
<1>3. /\ calls[c].code >= 400 => ~calls[c].changed
      /\ calls[c].code = 200 \/ calls[c].entries > 0 => calls[c].changed
  BY DEF Phases, Phase
<1>4. calls'[c].entries > 0 => calls[c].entries > 0 \/ calls[c].code = 200
  BY <1>1, <1>2 DEF Entries
<1>5. Phase(c)'
  BY <1>1, <1>3, <1>4 DEF Phase, Early
<1> QED BY <1>1, <1>5, OnePhase DEF Moved

LEMMA ValuedStep ==
  ASSUME TypeOK, Phases, RulesValued, Next
  PROVE  RulesValued'
<1>1. ASSUME NEW c \in Call, Moved(c) PROVE RulesValued'
  BY <1>1 DEF Moved, RulesValued
<1>2. ASSUME NEW c \in Call, Lookup(c) \/ Write(c) \/ Audit(c) \/ Breakdown(c) \/ Abort(c)
      PROVE  RulesValued'
  BY <1>1, <1>2, LookupIsPlain, WriteCases, OtherPlain DEF Plain, Wrote
<1>3. ASSUME NEW c \in Call, Receive(c) PROVE RulesValued'
  BY <1>1, <1>3, ReceiveMoves
<1>4. ASSUME NEW c \in Call, Caller(c) PROVE RulesValued'
  <2>1. PICK t \in Tab \cup {NoTab}, kind \in Kind, row \in Row, value \in Value \cup {NoValue} :
          /\ Send(c, t, kind, row, value)
          /\ kind \in {"rule.create", "rule.update"} => value \in Value
    BY <1>4, CallerCases
  <2>2. /\ \A d \in Call \ {c} : calls'[d] = calls[d]
        /\ calls'[c].kind = kind /\ calls'[c].value = value
    BY <2>1, SendMoves
  <2> QED BY <2>1, <2>2 DEF RulesValued
<1>5. ASSUME NEW t \in Tab, Load(t) PROVE RulesValued'
  BY <1>5, LoadMoves DEF RulesValued
<1> QED BY <1>2, <1>3, <1>4, <1>5 DEF Next

LEMMA TypesAndPhases ==
  ASSUME TypeOK, Phases, Next
  PROVE  TypeOK' /\ Phases'
<1>1. ASSUME NEW c \in Call, Plain(c), Phase(c)' PROVE TypeOK' /\ Phases'
  BY <1>1, PlainTyped, OnePhase DEF Plain, Moved
<1>2. ASSUME NEW c \in Call, Lookup(c) PROVE TypeOK' /\ Phases'
  BY <1>1, <1>2, LookupIsPlain
<1>3. ASSUME NEW c \in Call, Breakdown(c) \/ Abort(c) \/ Audit(c) PROVE TypeOK' /\ Phases'
  BY <1>1, <1>3, OtherPlain
<1>4. ASSUME NEW c \in Call, Write(c) PROVE TypeOK' /\ Phases'
  <2>1. CASE Plain(c)
    BY <1>1, <1>4, <2>1, WriteCases
  <2>2. CASE ~Plain(c)
    <3>1. Wrote(c) /\ Phase(c)'
      BY <1>4, <2>2, WriteCases
    <3>2. ~Fail(c, 500)
      <4>1. Fail(c, 500) => calls'[c].pc = "answered"
        BY FailMoves
      <4> QED BY <3>1, <4>1 DEF Wrote
    <3> QED BY <1>4, <3>1, <3>2, WroteTyped, OnePhase DEF Wrote, Moved
  <2> QED BY <2>1, <2>2
<1>5. ASSUME NEW c \in Call, Caller(c) PROVE TypeOK' /\ Phases'
  <2>1. PICK t \in Tab \cup {NoTab}, kind \in Kind, row \in Row, value \in Value \cup {NoValue} :
          Send(c, t, kind, row, value)
    BY <1>5, CallerCases
  <2>2. /\ calls' \in [Call -> CallRecord]
        /\ \A d \in Call \ {c} : calls'[d] = calls[d]
        /\ calls[c].pc = "unused" /\ calls'[c].pc = "parse"
        /\ calls'[c].changed = calls[c].changed /\ calls'[c].code = calls[c].code
        /\ calls'[c].entries = calls[c].entries /\ calls'[c].received = calls[c].received
        /\ UNCHANGED <<tables, pages>>
    BY <2>1, SendMoves
  <2>3. Phase(c)'
    BY <2>2 DEF Phases, Phase, Early
  <2>4. TypeOK'
    BY <2>2 DEF TypeOK, tables, users, organization, screenshots, pages
  <2> QED BY <2>2, <2>3, <2>4, OnePhase
<1>6. ASSUME NEW c \in Call, Receive(c) PROVE TypeOK' /\ Phases'
  BY <1>6, ReceiveTyped, ReceivePhases
<1>7. ASSUME NEW t \in Tab, Load(t) PROVE TypeOK' /\ Phases'
  <2>1. Phases'
    BY <1>7, LoadMoves DEF Phases, Phase
  <2> QED BY <1>7, <2>1, LoadTyped
<1> QED BY <1>2, <1>3, <1>4, <1>5, <1>6, <1>7 DEF Next

-----------------------------------------------------------------------------
(* Rules, users, settings and screenshots: what the tables owe to calls.   *)

Tables == RulesMade /\ ImagesStored /\ ReviewsDone /\ RaceHasOneWinner /\ RowHasObject

\* A step that leaves the tables alone, but for images stored, and calls what they are.
LEMMA TablesLeft ==
  ASSUME Tables,
         UNCHANGED <<rules, emails, column, settings, shots, reviewed>>, objects \subseteq objects',
         \A c \in Call : calls'[c].kind = calls[c].kind /\ calls'[c].row = calls[c].row,
         \A c \in Call : calls'[c].changed = calls[c].changed,
         \A c \in Call : calls'[c].pc = "write" /\ calls'[c].kind = "upload" =>
           calls'[c].value \in objects'
  PROVE  Tables'
<1>1. RulesMade'
  BY DEF Tables, RulesMade, Rules, Row
<1>2. ImagesStored'
  BY DEF ImagesStored
<1>3. ReviewsDone'
  BY DEF Tables, ReviewsDone
<1>4. RaceHasOneWinner'
  BY DEF Tables, RaceHasOneWinner, Rules, Row
<1>5. RowHasObject'
  BY DEF Tables, RowHasObject, Row
<1> QED BY <1>1, <1>2, <1>3, <1>4, <1>5 DEF Tables

LEMMA PlainKeepsTables ==
  ASSUME TypeOK, Tables, NEW c \in Call, Plain(c)
  PROVE  Tables'
<1>1. \A d \in Call : /\ calls'[d].kind = calls[d].kind /\ calls'[d].row = calls[d].row
                      /\ calls'[d].changed = calls[d].changed
  BY DEF Plain, Moved
<1>2. \A d \in Call : calls'[d].pc = "write" /\ calls'[d].kind = "upload" =>
        calls'[d].value \in objects'
  BY DEF Plain, Moved, Tables, ImagesStored
<1> QED BY <1>1, <1>2, TablesLeft DEF Plain, users, organization

LEMMA SendKeepsTables ==
  ASSUME TypeOK, Phases, Tables, PagesKnow, NEW c \in Call, Caller(c)
  PROVE  Tables'
<1>1. PICK t \in Tab \cup {NoTab}, kind \in Kind, row \in Row, value \in Value \cup {NoValue} :
        /\ Send(c, t, kind, row, value)
        /\ kind = "rule.delete" => t \in Tab /\ row \in shown[t]
  BY CallerCases
<1>2. /\ \A d \in Call \ {c} : calls'[d] = calls[d]
      /\ calls[c].pc = "unused" /\ calls'[c].pc = "parse"
      /\ calls'[c].kind = kind /\ calls'[c].row = row
      /\ calls'[c].changed = calls[c].changed
      /\ UNCHANGED tables
  BY <1>1, SendMoves
<1>3. ~calls[c].changed /\ ~calls'[c].changed
  BY <1>2 DEF Phases, Phase, Early
<1> USE DEF tables, users, organization, screenshots
<1>4. \A d \in Call : calls'[d].changed = calls[d].changed
  BY <1>2
<1>5. RulesMade'
  <2>1. \A d \in Call : d \in Rules' => calls'[d].changed
    BY <1>2, <1>4 DEF Tables, RulesMade, Rules, Row
  <2>2. ASSUME NEW d \in Call, calls'[d].kind = "rule.delete", calls'[d].row \in Call
        PROVE  calls'[calls'[d].row].changed
    <3>1. CASE d = c
      BY <1>1, <1>2, <1>4, <2>2, <3>1 DEF PagesKnow
    <3>2. CASE d # c
      BY <1>2, <1>4, <2>2, <3>2 DEF Tables, RulesMade
    <3> QED BY <3>1, <3>2
  <2>3. ASSUME NEW d \in Call, calls'[d].kind = "rule.create", calls'[d].changed, d \notin Rules'
        PROVE  \E e \in Call :
                 calls'[e].kind = "rule.delete" /\ calls'[e].changed /\ calls'[e].row = d
    <3>1. d # c
      BY <1>3, <2>3
    <3>2. calls[d].kind = "rule.create" /\ calls[d].changed /\ d \notin Rules
      BY <1>2, <2>3, <3>1 DEF Rules, Row
    <3>3. PICK e \in Call : calls[e].kind = "rule.delete" /\ calls[e].changed /\ calls[e].row = d
      BY <3>2 DEF Tables, RulesMade
    <3>4. e # c
      BY <1>3, <3>3
    <3> QED BY <1>2, <3>3, <3>4
  <2> QED BY <2>1, <2>2, <2>3 DEF RulesMade
<1>6. ImagesStored'
  BY <1>2 DEF Tables, ImagesStored
<1>7. ReviewsDone'
  BY <1>2, <1>3 DEF Tables, ReviewsDone
<1>8. RaceHasOneWinner'
  BY <1>2, <1>3 DEF Tables, RaceHasOneWinner, Rules, Row
<1>9. RowHasObject'
  BY <1>2 DEF Tables, RowHasObject, Row
<1> QED BY <1>5, <1>6, <1>7, <1>8, <1>9 DEF Tables


\* The parts of RaceHasOneWinner.
RulesRaced ==
  /\ \A c, d \in Call :
       /\ calls[c].kind = "rule.delete" /\ calls[c].changed
       /\ calls[d].kind = "rule.delete" /\ calls[d].changed
       /\ calls[c].row = calls[d].row
       => c = d
  /\ \A c \in Call :
       calls[c].kind = "rule.delete" /\ calls[c].changed => calls[c].row \notin Rules

EmailsRaced == \A r, u \in Row : emails[r] = emails[u] /\ emails[r] # NoValue => r = u

LEMMA TablesByPart ==
  ASSUME RulesMade', RulesRaced', EmailsRaced', (settings \in {NoValue, column})',
         ImagesStored', ReviewsDone', RowHasObject'
  PROVE  Tables'
<1>1. RaceHasOneWinner'
  BY DEF RaceHasOneWinner, RulesRaced, EmailsRaced
<1> QED BY <1>1 DEF Tables

LEMMA WroteFacts ==
  ASSUME TypeOK, Tables, NEW c \in Call, Wrote(c)
  PROVE  /\ \A d \in Call : calls'[d].kind = calls[d].kind /\ calls'[d].row = calls[d].row
         /\ \A d \in Call : calls'[d].changed <=> calls[d].changed \/ d = c
         /\ ImagesStored'
<1>1. /\ \A d \in Call \ {c} : calls'[d] = calls[d]
      /\ calls'[c].kind = calls[c].kind /\ calls'[c].row = calls[c].row
      /\ calls'[c].changed /\ ~calls[c].changed /\ calls'[c].pc = "audit" /\ UNCHANGED objects
  BY DEF Wrote, Moved
<1>2. ImagesStored'
  BY <1>1 DEF Tables, ImagesStored
<1> QED BY <1>1, <1>2

\* A statement after which there are the same rules.
LEMMA SameRules ==
  ASSUME TypeOK, Tables, NEW c \in Call, Wrote(c),
         calls[c].kind \notin {"rule.create", "rule.delete"},
         \A r \in Row : r \in Rules' <=> r \in Rules
  PROVE  RulesMade' /\ RulesRaced'
<1>1. /\ \A d \in Call : calls'[d].kind = calls[d].kind /\ calls'[d].row = calls[d].row
      /\ \A d \in Call : calls'[d].changed <=> calls[d].changed \/ d = c
  BY WroteFacts
<1>2. \A d \in Call : d \in Row /\ calls[d].row \in Row
  BY DEF Row, TypeOK, CallRecord
<1>3. RulesMade'
  BY <1>1, <1>2 DEF Tables, RulesMade
<1>4. RulesRaced'
  BY <1>1, <1>2 DEF Tables, RaceHasOneWinner, RulesRaced
<1> QED BY <1>3, <1>4

\* A rule is created: nobody deleted it before.
LEMMA CreateRuleKeeps ==
  ASSUME TypeOK, Tables, RulesValued, NEW c \in Call, Wrote(c), CreateRule(c)
  PROVE  RulesMade' /\ RulesRaced'
<1>1. /\ \A d \in Call : calls'[d].kind = calls[d].kind /\ calls'[d].row = calls[d].row
      /\ \A d \in Call : calls'[d].changed <=> calls[d].changed \/ d = c
      /\ calls[c].kind = "rule.create" /\ ~calls[c].changed
  BY WroteFacts DEF Wrote, CreateRule, Writing
<1>2. \A d \in Call : d \in Row /\ calls[d].row \in Row
  BY DEF Row, TypeOK, CallRecord
<1>3. \A r \in Row : r \in Rules' <=> r \in Rules \/ r = c
  <2>1. calls[c].value \in Value /\ NoValue \notin Value
    BY <1>1, AdminAssumption DEF RulesValued
  <2> QED BY <1>2, <2>1 DEF CreateRule, Rules, TypeOK
<1>4. \A d \in Call : calls[d].kind = "rule.delete" => calls[d].row # c
  BY <1>1 DEF Tables, RulesMade
<1>5. RulesMade'
  <2>1. \A d \in Call : d \in Rules' => calls'[d].changed
    BY <1>1, <1>2, <1>3 DEF Tables, RulesMade
  <2>2. \A d \in Call : calls'[d].kind = "rule.delete" /\ calls'[d].row \in Call =>
          calls'[calls'[d].row].changed
    BY <1>1 DEF Tables, RulesMade
  <2>3. \A d \in Call : calls'[d].kind = "rule.create" /\ calls'[d].changed /\ d \notin Rules' =>
          \E e \in Call :
            calls'[e].kind = "rule.delete" /\ calls'[e].changed /\ calls'[e].row = d
    BY <1>1, <1>2, <1>3 DEF Tables, RulesMade
  <2> QED BY <2>1, <2>2, <2>3 DEF RulesMade
<1>6. RulesRaced'
  BY <1>1, <1>2, <1>3, <1>4 DEF Tables, RaceHasOneWinner, RulesRaced
<1> QED BY <1>5, <1>6

\* A rule that is there is deleted: nobody had deleted it yet.
LEMMA DeleteRuleKeeps ==
  ASSUME TypeOK, Tables, NEW c \in Call, Wrote(c), DeleteRule(c), calls[c].row \in Rules
  PROVE  RulesMade' /\ RulesRaced'
<1>1. /\ \A d \in Call : calls'[d].kind = calls[d].kind /\ calls'[d].row = calls[d].row
      /\ \A d \in Call : calls'[d].changed <=> calls[d].changed \/ d = c
      /\ calls[c].kind = "rule.delete" /\ ~calls[c].changed
  BY WroteFacts DEF Wrote, DeleteRule, Writing
<1>2. \A d \in Call : d \in Row /\ calls[d].row \in Row
  BY DEF Row, TypeOK, CallRecord
<1>3. \A r \in Row : r \in Rules' <=> r \in Rules /\ r # calls[c].row
  BY <1>2 DEF DeleteRule, Rules, TypeOK
<1>4. RulesMade'
  <2>1. \A d \in Call : d \in Rules' => calls'[d].changed
    BY <1>1, <1>2, <1>3 DEF Tables, RulesMade
  <2>2. \A d \in Call : calls'[d].kind = "rule.delete" /\ calls'[d].row \in Call =>
          calls'[calls'[d].row].changed
    BY <1>1 DEF Tables, RulesMade
  <2>3. \A d \in Call : calls'[d].kind = "rule.create" /\ calls'[d].changed /\ d \notin Rules' =>
          \E e \in Call :
            calls'[e].kind = "rule.delete" /\ calls'[e].changed /\ calls'[e].row = d
    BY <1>1, <1>2, <1>3 DEF Tables, RulesMade
  <2> QED BY <2>1, <2>2, <2>3 DEF RulesMade
<1>5. RulesRaced'
  BY <1>1, <1>2, <1>3 DEF Tables, RaceHasOneWinner, RulesRaced
<1> QED BY <1>4, <1>5

\* The rest of Tables, for a statement about something else.
LEMMA OtherTables ==
  ASSUME TypeOK, Tables, NEW c \in Call, Wrote(c), RulesMade' /\ RulesRaced'
  PROVE  /\ UNCHANGED emails => EmailsRaced'
         /\ UNCHANGED <<column, settings>> => (settings \in {NoValue, column})'
         /\ UNCHANGED reviewed /\ calls[c].kind # "screenshot.review" => ReviewsDone'
         /\ UNCHANGED shots => RowHasObject'
<1>1. UNCHANGED emails => EmailsRaced'
  BY DEF Tables, RaceHasOneWinner, EmailsRaced, Row
<1>2. UNCHANGED <<column, settings>> => (settings \in {NoValue, column})'
  BY DEF Tables, RaceHasOneWinner
<1>3. UNCHANGED reviewed /\ calls[c].kind # "screenshot.review" => ReviewsDone'
  BY WroteFacts DEF Tables, ReviewsDone
<1>4. UNCHANGED shots => RowHasObject'
  BY DEF Wrote, Tables, RowHasObject, Row
<1> QED BY <1>1, <1>2, <1>3, <1>4

\* An address is written when no other user has it.
LEMMA SetEmailKeeps ==
  ASSUME TypeOK, Tables, NEW c \in Call, NEW row \in Row, SetEmail(c, row), ~Fail(c, 500)
  PROVE  EmailsRaced' /\ UNCHANGED <<rules, organization, screenshots>>
<1>1. /\ emails' = [emails EXCEPT ![row] = calls[c].value]
      /\ ~\E r \in Row \ {row} : emails[r] = calls[c].value
      /\ UNCHANGED <<rules, organization, screenshots>>
  BY DEF SetEmail
<1>2. \A r \in Row : emails'[r] = IF r = row THEN calls[c].value ELSE emails[r]
  BY <1>1 DEF TypeOK
<1>3. \A r, u \in Row : emails[r] = emails[u] /\ emails[r] # NoValue => r = u
  BY DEF Tables, RaceHasOneWinner
<1>4. EmailsRaced'
  BY <1>1, <1>2, <1>3 DEF EmailsRaced, Row
<1> QED BY <1>1, <1>4

LEMMA WriteKeepsTables ==
  ASSUME TypeOK, Phases, RulesValued, Tables, NEW c \in Call, Write(c)
  PROVE  Tables'
<1> USE DEF users, organization, screenshots
<1>1. CASE Plain(c)
  BY <1>1, PlainKeepsTables
<1>2. CASE ~Plain(c)
  <2>1. /\ Wrote(c)
        /\ \/ CreateRule(c)
           \/ UpdateRule(c) /\ calls[c].row \in Rules
           \/ DeleteRule(c) /\ calls[c].row \in Rules
           \/ CreateUser(c) \/ UpdateUser(c) \/ SuspendUser(c) \/ DeleteUser(c)
           \/ UpdateSettings(c) \/ Review(c) \/ CreateScreenshot(c)
    BY <1>2, WriteCases
  <2>2. ~Fail(c, 500) /\ ImagesStored' /\ UNCHANGED objects
    <3>1. Fail(c, 500) => calls'[c].pc = "answered"
      BY FailMoves
    <3> QED BY <2>1, <3>1, WroteFacts DEF Wrote
  <2>3. c \in Row /\ calls[c].row \in Row
    BY DEF Row, TypeOK, CallRecord
  <2>4. UNCHANGED rules => \A r \in Row : r \in Rules' <=> r \in Rules
    BY DEF Rules, Row
  <2>5. CASE CreateRule(c) \/ DeleteRule(c)
    <3>1. RulesMade' /\ RulesRaced'
      BY <2>1, <2>2, <2>5, CreateRuleKeeps, DeleteRuleKeeps DEF DeleteRule
    <3>2. /\ UNCHANGED <<emails, column, settings, reviewed, shots>>
          /\ calls[c].kind # "screenshot.review"
      BY <2>2, <2>5 DEF CreateRule, DeleteRule, Writing
    <3> QED BY <2>1, <2>2, <3>1, <3>2, OtherTables, TablesByPart
  <2>6. CASE UpdateRule(c)
    <3>1. /\ calls[c].row \in Rules /\ rules' = [rules EXCEPT ![calls[c].row] = calls[c].value]
          /\ UNCHANGED <<emails, column, settings, reviewed, shots>>
          /\ calls[c].kind = "rule.update"
      BY <2>2, <2>6 DEF UpdateRule, Writing
    <3>2. calls[c].value # NoValue
      BY <3>1, AdminAssumption DEF RulesValued
    <3>3. \A r \in Row : r \in Rules' <=> r \in Rules
      BY <3>1, <3>2 DEF Rules, TypeOK
    <3>4. RulesMade' /\ RulesRaced'
      BY <2>1, <3>1, <3>3, SameRules
    <3> QED BY <2>1, <2>2, <3>1, <3>4, OtherTables, TablesByPart
  <2>7. CASE CreateUser(c) \/ UpdateUser(c)
    <3>1. EmailsRaced' /\ UNCHANGED <<rules, organization, screenshots>>
      <4>1. CASE UNCHANGED tables
        <5>1. EmailsRaced'
          BY <4>1 DEF tables, Tables, RaceHasOneWinner, EmailsRaced, Row
        <5> QED BY <4>1, <5>1 DEF tables
      <4>2. CASE \E row \in Row : SetEmail(c, row)
        BY <2>2, <4>2, SetEmailKeeps
      <4> QED BY <2>3, <2>7, <4>1, <4>2 DEF CreateUser, UpdateUser, tables
    <3>2. calls[c].kind \in {"user.create", "user.update"}
      BY <2>7 DEF CreateUser, UpdateUser, Writing
    <3>3. RulesMade' /\ RulesRaced'
      BY <2>1, <2>4, <3>1, <3>2, SameRules
    <3> QED BY <2>1, <2>2, <3>1, <3>2, <3>3, OtherTables, TablesByPart
  <2>8. CASE SuspendUser(c) \/ DeleteUser(c)
    <3>1. /\ UNCHANGED <<rules, emails, organization, screenshots>>
          /\ calls[c].kind \in {"user.suspend", "user.delete"}
      BY <2>8 DEF SuspendUser, DeleteUser, SetStatus, Writing
    <3>2. RulesMade' /\ RulesRaced'
      BY <2>1, <2>4, <3>1, SameRules
    <3> QED BY <2>1, <2>2, <3>1, <3>2, OtherTables, TablesByPart
  <2>9. CASE UpdateSettings(c)
    <3>1. /\ UNCHANGED <<rules, users, screenshots>> /\ settings' \in {NoValue, column'}
          /\ calls[c].kind = "settings.update"
      BY <2>9 DEF UpdateSettings, Writing
    <3>2. RulesMade' /\ RulesRaced'
      BY <2>1, <2>4, <3>1, SameRules
    <3> QED BY <2>1, <2>2, <3>1, <3>2, OtherTables, TablesByPart
  <2>10. CASE Review(c)
    <3>1. /\ UNCHANGED <<rules, users, organization, shots>>
          /\ reviewed' = reviewed \cup {calls[c].row} /\ calls[c].kind = "screenshot.review"
      BY <2>10 DEF Review, Writing
    <3>2. RulesMade' /\ RulesRaced'
      BY <2>1, <2>4, <3>1, SameRules
    <3>3. ReviewsDone'
      BY <2>1, <3>1, WroteFacts DEF Tables, ReviewsDone
    <3> QED BY <2>1, <2>2, <3>1, <3>2, <3>3, OtherTables, TablesByPart
  <2>11. CASE CreateScreenshot(c)
    <3>1. /\ UNCHANGED <<rules, users, organization, reviewed>>
          /\ shots' = [shots EXCEPT ![c] = calls[c].value] /\ calls[c].kind = "upload"
          /\ calls[c].pc = "write"
      BY <2>11 DEF CreateScreenshot, Writing
    <3>2. RulesMade' /\ RulesRaced'
      BY <2>1, <2>4, <3>1, SameRules
    <3>3. calls[c].value \in objects
      BY <3>1 DEF Tables, ImagesStored
    <3>4. RowHasObject'
      BY <2>2, <2>3, <3>1, <3>3 DEF Tables, RowHasObject, TypeOK, Row
    <3> QED BY <2>1, <2>2, <3>1, <3>2, <3>4, OtherTables, TablesByPart
  <2> QED BY <2>1, <2>5, <2>6, <2>7, <2>8, <2>9, <2>10, <2>11
<1> QED BY <1>1, <1>2

LEMMA TablesStep ==
  ASSUME TypeOK, Phases, RulesValued, Tables, PagesKnow, Next
  PROVE  Tables'
<1>1. ASSUME NEW c \in Call, Lookup(c) \/ Breakdown(c) \/ Abort(c) \/ Audit(c)
      PROVE  Tables'
  BY <1>1, LookupIsPlain, OtherPlain, PlainKeepsTables
<1>2. ASSUME NEW c \in Call, Receive(c) PROVE Tables'
  <2>1. /\ Moved(c) /\ calls'[c].pc = "settled" /\ calls'[c].changed = calls[c].changed
        /\ UNCHANGED tables
    BY <1>2, ReceiveMoves DEF Receive
  <2>2. \A d \in Call : /\ calls'[d].kind = calls[d].kind /\ calls'[d].row = calls[d].row
                        /\ calls'[d].changed = calls[d].changed
    BY <2>1 DEF Moved
  <2>3. \A d \in Call : calls'[d].pc = "write" /\ calls'[d].kind = "upload" =>
          calls'[d].value \in objects
    BY <2>1 DEF Moved, Tables, ImagesStored
  <2> QED BY <2>1, <2>2, <2>3, TablesLeft DEF tables, users, organization, screenshots
<1>3. ASSUME NEW t \in Tab, Load(t) PROVE Tables'
  <2>1. \A d \in Call : /\ calls'[d].kind = calls[d].kind /\ calls'[d].row = calls[d].row
                        /\ calls'[d].changed = calls[d].changed
                        /\ calls'[d].pc = calls[d].pc /\ calls'[d].value = calls[d].value
    BY <1>3, LoadMoves
  <2>2. UNCHANGED tables
    BY <1>3 DEF Load
  <2>3. \A d \in Call : calls'[d].pc = "write" /\ calls'[d].kind = "upload" =>
          calls'[d].value \in objects
    BY <2>1 DEF Tables, ImagesStored
  <2> QED BY <2>1, <2>2, <2>3, TablesLeft DEF tables, users, organization, screenshots
<1> QED BY <1>1, <1>2, <1>3, SendKeepsTables, WriteKeepsTables DEF Next

-----------------------------------------------------------------------------
(* What the pages list.                                                    *)

Pages == PagesKnow /\ ListsExplained

\* A statement adds no rule but its call's, and takes away none but the one it deletes.
LEMMA RulesChange ==
  ASSUME TypeOK, Phases, RulesValued, NEW c \in Call, Write(c)
  PROVE  /\ \A r \in Row : r \in Rules' /\ r \notin Rules => r = c
         /\ \A r \in Row : r \in Rules /\ r \notin Rules' =>
              calls[c].kind = "rule.delete" /\ calls[c].row = r
         /\ reviewed \subseteq reviewed'
<1> USE DEF users, organization, screenshots
<1>1. c \in Row /\ calls[c].row \in Row
  BY DEF Row, TypeOK, CallRecord
<1>2. CASE UNCHANGED rules
  <2>1. Rules' = Rules
    BY <1>2 DEF Rules, Row
  <2>2. reviewed \subseteq reviewed'
    BY DEF Write, CreateRule, UpdateRule, DeleteRule, CreateUser, UpdateUser, SetEmail,
           SuspendUser, DeleteUser, SetStatus, UpdateSettings, Review, CreateScreenshot,
           Fail, tables
  <2> QED BY <2>1, <2>2
<1>3. CASE CreateRule(c)
  <2>1. /\ rules' = [rules EXCEPT ![c] = calls[c].value] /\ UNCHANGED reviewed
        /\ calls[c].value # NoValue
    BY <1>3, AdminAssumption DEF CreateRule, Writing, RulesValued
  <2> QED BY <1>1, <2>1 DEF Rules, TypeOK
<1>4. CASE UpdateRule(c) /\ ~UNCHANGED rules
  <2>1. /\ calls[c].row \in Rules /\ rules' = [rules EXCEPT ![calls[c].row] = calls[c].value]
        /\ calls[c].value # NoValue /\ UNCHANGED reviewed
    BY <1>4, AdminAssumption DEF UpdateRule, Writing, Fail, tables, RulesValued
  <2> QED BY <1>1, <2>1 DEF Rules, TypeOK
<1>5. CASE DeleteRule(c) /\ ~UNCHANGED rules
  <2>1. /\ rules' = [rules EXCEPT ![calls[c].row] = NoValue] /\ UNCHANGED reviewed
        /\ calls[c].kind = "rule.delete"
    BY <1>5 DEF DeleteRule, Writing, Fail, tables
  <2> QED BY <1>1, <2>1 DEF Rules, TypeOK
<1> QED BY <1>2, <1>3, <1>4, <1>5
        DEF Write, CreateUser, UpdateUser, SetEmail, SuspendUser, DeleteUser, SetStatus,
            UpdateSettings, Review, CreateScreenshot, Fail, tables

\* A step of a handler before its answer: the pages stay as they are.
LEMMA HandlerKeepsPages ==
  ASSUME TypeOK, Phases, Pages, NEW c \in Call, Moved(c), UNCHANGED pages,
         calls[c].changed => calls'[c].changed,
         ~calls[c].received, ~calls'[c].received,
         \A r \in Row : r \in Rules' /\ r \notin Rules => r = c,
         \A r \in Row : r \in Rules /\ r \notin Rules' =>
           calls[c].kind = "rule.delete" /\ calls[c].row = r /\ calls'[c].changed,
         reviewed \subseteq reviewed'
  PROVE  Pages'
<1>1. /\ \A d \in Call : /\ calls'[d].kind = calls[d].kind /\ calls'[d].row = calls[d].row
                         /\ calls'[d].tab = calls[d].tab
                         /\ calls[d].changed => calls'[d].changed
                         /\ calls'[d].received <=> calls[d].received
      /\ \A d \in Call : d # c => calls'[d] = calls[d]
      /\ UNCHANGED <<shown, queue, listed>>
  BY DEF Moved, pages
<1>2. \A d \in Call : d \in Row
  BY DEF Row
<1>3. \A t \in Tab : shown[t] \subseteq Row
  BY DEF TypeOK
<1>4. PagesKnow'
  BY <1>1 DEF Pages, PagesKnow
<1>5. ASSUME NEW t \in Tab, NEW r \in shown'[t] \ Rules'
      PROVE  \E d \in Call :
               /\ calls'[d].kind = "rule.delete" /\ calls'[d].row = r /\ calls'[d].changed
               /\ ~(calls'[d].tab = t /\ calls'[d].received)
  <2>1. r \in shown[t] /\ r \in Row
    BY <1>1, <1>3, <1>5
  <2>2. CASE r \in Rules
    BY <1>1, <1>5, <2>1, <2>2
  <2>3. CASE r \notin Rules
    <3>1. PICK d \in Call : /\ calls[d].kind = "rule.delete" /\ calls[d].row = r /\ calls[d].changed
                           /\ ~(calls[d].tab = t /\ calls[d].received)
      BY <2>1, <2>3 DEF Pages, ListsExplained
    <3> QED BY <1>1, <3>1
  <2> QED BY <2>2, <2>3
<1>6. ASSUME NEW t \in Tab, NEW d \in Call,
             calls'[d].kind = "rule.create", calls'[d].tab = t,
             calls'[d].received, calls'[d].code = 200, d \in Rules'
      PROVE  d \in shown'[t]
  <2>1. d # c /\ calls'[d] = calls[d] /\ d \in Rules
    BY <1>1, <1>2, <1>6
  <2> QED BY <1>1, <1>6, <2>1 DEF Pages, ListsExplained
<1>7. \A t \in Tab : listed'[t] \ queue'[t] \subseteq reviewed'
  BY <1>1 DEF Pages, ListsExplained
<1>8. ListsExplained'
  BY <1>5, <1>6, <1>7 DEF ListsExplained
<1> QED BY <1>4, <1>8 DEF Pages

LEMMA SendKeepsPages ==
  ASSUME TypeOK, Phases, Tables, Pages, NEW c \in Call, Caller(c)
  PROVE  Pages'
<1>1. PICK t \in Tab \cup {NoTab}, kind \in Kind, row \in Row, value \in Value \cup {NoValue} :
        /\ Send(c, t, kind, row, value)
        /\ kind = "rule.delete" => t \in Tab /\ row \in shown[t]
  BY CallerCases
<1>2. /\ \A d \in Call \ {c} : calls'[d] = calls[d]
      /\ calls[c].pc = "unused"
      /\ calls'[c].kind = kind /\ calls'[c].row = row /\ calls'[c].tab = t
      /\ calls'[c].changed = calls[c].changed /\ calls'[c].received = calls[c].received
      /\ UNCHANGED <<tables, pages>>
  BY <1>1, SendMoves
<1>3. ~calls[c].changed /\ ~calls'[c].changed /\ ~calls[c].received /\ ~calls'[c].received
  BY <1>2 DEF Phases, Phase, Early
<1>4. UNCHANGED <<shown, queue, listed, reviewed, rules>>
  BY <1>2 DEF pages, tables, screenshots
<1>5. Rules' = Rules
  BY <1>4 DEF Rules, Row
<1>6. PagesKnow'
  <2>1. \A s \in Tab : \A d \in Call : d \in shown'[s] => calls'[d].changed
    BY <1>2, <1>4 DEF Pages, PagesKnow
  <2>2. ASSUME NEW s \in Tab, NEW d \in Call,
               calls'[d].kind = "rule.create", calls'[d].tab = s, ~calls'[d].received
        PROVE  /\ d \notin shown'[s]
               /\ \A e \in Call :
                    ~(calls'[e].kind = "rule.delete" /\ calls'[e].tab = s /\ calls'[e].row = d)
    <3>1. CASE d = c
      <4>1. c \notin shown[s]
        BY <1>3 DEF Pages, PagesKnow
      <4>2. \A e \in Call : calls[e].kind = "rule.delete" => calls[e].row # c
        BY <1>3 DEF Tables, RulesMade
      <4> QED BY <1>2, <1>4, <2>2, <3>1, <4>1, <4>2
    <3>2. CASE d # c
      <4>1. calls'[d] = calls[d]
        BY <1>2, <3>2
      <4>2. /\ d \notin shown[s]
            /\ \A e \in Call :
                 ~(calls[e].kind = "rule.delete" /\ calls[e].tab = s /\ calls[e].row = d)
        BY <2>2, <4>1 DEF Pages, PagesKnow
      <4> QED BY <1>1, <1>2, <1>4, <4>2
    <3> QED BY <3>1, <3>2
  <2> QED BY <2>1, <2>2 DEF PagesKnow
<1>7. ListsExplained'
  <2>1. ASSUME NEW s \in Tab, NEW r \in shown'[s] \ Rules'
        PROVE  \E d \in Call :
                 /\ calls'[d].kind = "rule.delete" /\ calls'[d].row = r /\ calls'[d].changed
                 /\ ~(calls'[d].tab = s /\ calls'[d].received)
    <3>1. PICK d \in Call : /\ calls[d].kind = "rule.delete" /\ calls[d].row = r /\ calls[d].changed
                           /\ ~(calls[d].tab = s /\ calls[d].received)
      BY <1>4, <1>5, <2>1 DEF Pages, ListsExplained
    <3> QED BY <1>2, <1>3, <3>1
  <2>2. ASSUME NEW s \in Tab, NEW d \in Call,
               calls'[d].kind = "rule.create", calls'[d].tab = s,
               calls'[d].received, calls'[d].code = 200, d \in Rules'
        PROVE  d \in shown'[s]
    BY <1>2, <1>3, <1>4, <1>5, <2>2 DEF Pages, ListsExplained
  <2>3. \A s \in Tab : listed'[s] \ queue'[s] \subseteq reviewed'
    BY <1>4 DEF Pages, ListsExplained
  <2> QED BY <2>1, <2>2, <2>3 DEF ListsExplained
<1> QED BY <1>6, <1>7 DEF Pages

LEMMA PlainKeepsPages ==
  ASSUME TypeOK, Phases, Pages, NEW c \in Call, Plain(c)
  PROVE  Pages'
<1>1. /\ Moved(c) /\ UNCHANGED <<pages, rules, reviewed>>
      /\ calls'[c].changed = calls[c].changed /\ calls'[c].received = calls[c].received
  BY DEF Plain
<1>2. ~calls[c].received /\ ~calls'[c].received
  BY <1>1 DEF Plain, InFlight, Phases, Phase
<1>3. Rules' = Rules
  BY <1>1 DEF Rules, Row
<1> QED BY <1>1, <1>2, <1>3, HandlerKeepsPages

LEMMA WriteKeepsPages ==
  ASSUME TypeOK, Phases, RulesValued, Pages, NEW c \in Call, Write(c)
  PROVE  Pages'
<1>1. CASE Plain(c)
  BY <1>1, PlainKeepsPages
<1>2. CASE ~Plain(c)
  <2>1. Wrote(c)
    BY <1>2, WriteCases
  <2>2. /\ Moved(c) /\ UNCHANGED pages /\ calls'[c].changed
        /\ ~calls[c].received /\ ~calls'[c].received
    BY <2>1 DEF Wrote
  <2> QED BY <2>2, RulesChange, HandlerKeepsPages
<1> QED BY <1>1, <1>2

\* The answer: a rule the page added and that is gone already was deleted by another page,
\* since this one did not know of it; what the page drops was deleted or reviewed.
LEMMA ReceiveKeepsPages ==
  ASSUME TypeOK, Phases, Tables, Pages, NEW c \in Call, Receive(c)
  PROVE  Pages'
<1>1. /\ Moved(c) /\ calls[c].pc = "answered" /\ calls'[c].received
      /\ calls'[c].changed = calls[c].changed /\ calls'[c].code = calls[c].code
  BY ReceiveMoves
<1>2. /\ \A d \in Call : /\ calls'[d].kind = calls[d].kind /\ calls'[d].row = calls[d].row
                         /\ calls'[d].tab = calls[d].tab /\ calls'[d].changed = calls[d].changed
                         /\ calls'[d].code = calls[d].code
      /\ \A d \in Call : d # c => calls'[d] = calls[d]
  BY <1>1 DEF Moved
<1>3. ~calls[c].received /\ (calls[c].code = 200 <=> calls[c].changed)
  <2>1. calls[c].code \in Code
    BY DEF TypeOK, CallRecord
  <2> QED BY <1>1, <2>1 DEF Phases, Phase, Code
<1>4. /\ \A r \in Row : r \in Rules' <=> r \in Rules
      /\ UNCHANGED <<reviewed, listed>>
  BY DEF Receive, Rules, Row, tables, screenshots
<1>5. c \in Row /\ \A s \in Tab : shown[s] \subseteq Row
  BY DEF Row, TypeOK
<1> DEFINE own == calls[c].tab # NoTab /\ calls[c].code = 200
<1>6. ASSUME NEW s \in Tab
      PROVE  /\ \A r : r \in shown'[s] <=>
                  \/ r \in shown[s]
                     /\ ~(own /\ s = calls[c].tab /\ calls[c].kind = "rule.delete"
                           /\ r = calls[c].row)
                  \/ r = c /\ own /\ s = calls[c].tab /\ calls[c].kind = "rule.create"
             /\ \A r \in queue[s] :
                  r \notin queue'[s] => /\ own /\ calls[c].kind = "screenshot.review"
                                       /\ r = calls[c].row
  <2>1. /\ shown' =
             IF own /\ calls[c].kind = "rule.create"
             THEN [shown EXCEPT ![calls[c].tab] = shown[calls[c].tab] \cup {c}]
             ELSE IF own /\ calls[c].kind = "rule.delete"
             THEN [shown EXCEPT ![calls[c].tab] = shown[calls[c].tab] \ {calls[c].row}]
             ELSE shown
        /\ queue' =
             IF own /\ calls[c].kind = "screenshot.review"
             THEN [queue EXCEPT ![calls[c].tab] = queue[calls[c].tab] \ {calls[c].row}]
             ELSE queue
    BY DEF Receive
  <2>2. shown \in [Tab -> SUBSET Row] /\ queue \in [Tab -> SUBSET Row]
    BY DEF TypeOK
  <2> HIDE DEF own
  <2>3. \A r : r \in shown'[s] <=>
          \/ r \in shown[s]
             /\ ~(own /\ s = calls[c].tab /\ calls[c].kind = "rule.delete" /\ r = calls[c].row)
          \/ r = c /\ own /\ s = calls[c].tab /\ calls[c].kind = "rule.create"
    BY <2>1, <2>2
  <2>4. \A r \in queue[s] :
          r \notin queue'[s] => /\ own /\ calls[c].kind = "screenshot.review"
                               /\ r = calls[c].row
    BY <2>1, <2>2
  <2> QED BY <2>3, <2>4
<1>7. \A s \in Tab : s = calls[c].tab => (own <=> calls[c].changed)
  BY <1>3, AdminAssumption
<1> HIDE DEF own
<1>8. PagesKnow'
  <2>1. \A s \in Tab : \A d \in Call : d \in shown'[s] => calls'[d].changed
    BY <1>2, <1>6, <1>7 DEF Pages, PagesKnow
  <2>2. ASSUME NEW s \in Tab, NEW d \in Call,
               calls'[d].kind = "rule.create", calls'[d].tab = s, ~calls'[d].received
        PROVE  /\ d \notin shown'[s]
               /\ \A e \in Call :
                    ~(calls'[e].kind = "rule.delete" /\ calls'[e].tab = s /\ calls'[e].row = d)
    <3>1. d # c /\ calls'[d] = calls[d]
      BY <1>1, <1>2, <2>2
    <3>2. /\ d \notin shown[s]
          /\ \A e \in Call :
               ~(calls[e].kind = "rule.delete" /\ calls[e].tab = s /\ calls[e].row = d)
      BY <2>2, <3>1 DEF Pages, PagesKnow
    <3> QED BY <1>2, <1>6, <3>1, <3>2
  <2> QED BY <2>1, <2>2 DEF PagesKnow
<1>9. ASSUME NEW s \in Tab, NEW r \in shown'[s] \ Rules'
      PROVE  \E d \in Call :
               /\ calls'[d].kind = "rule.delete" /\ calls'[d].row = r /\ calls'[d].changed
               /\ ~(calls'[d].tab = s /\ calls'[d].received)
  <2>1. r \in Row /\ r \notin Rules
    BY <1>4, <1>5, <1>6, <1>9
  <2>2. CASE r \in shown[s]
    <3>1. PICK d \in Call : /\ calls[d].kind = "rule.delete" /\ calls[d].row = r /\ calls[d].changed
                           /\ ~(calls[d].tab = s /\ calls[d].received)
      BY <2>1, <2>2 DEF Pages, ListsExplained
    <3>2. CASE d # c
      BY <1>2, <3>1, <3>2
    <3>3. CASE d = c
      <4>1. calls[c].tab # s
        BY <1>6, <1>7, <1>9, <3>1, <3>3
      <4> QED BY <1>2, <3>1, <3>3, <4>1
    <3> QED BY <3>2, <3>3
  <2>3. CASE r \notin shown[s]
    <3>1. r = c /\ s = calls[c].tab /\ calls[c].kind = "rule.create" /\ calls[c].changed
      BY <1>6, <1>7, <1>9, <2>3
    <3>2. PICK d \in Call : calls[d].kind = "rule.delete" /\ calls[d].changed /\ calls[d].row = c
      BY <2>1, <3>1 DEF Tables, RulesMade
    <3>3. calls[d].tab # s
      BY <1>3, <3>1, <3>2 DEF Pages, PagesKnow
    <3> QED BY <1>2, <3>1, <3>2, <3>3
  <2> QED BY <2>2, <2>3
<1>10. ASSUME NEW s \in Tab, NEW d \in Call,
              calls'[d].kind = "rule.create", calls'[d].tab = s,
              calls'[d].received, calls'[d].code = 200, d \in Rules'
       PROVE  d \in shown'[s]
  <2>1. d \in Row /\ d \in Rules /\ calls[d].kind = "rule.create" /\ calls[d].tab = s
    BY <1>2, <1>4, <1>10 DEF Row
  <2>2. CASE d = c
    BY <1>2, <1>3, <1>6, <1>7, <1>10, <2>1, <2>2
  <2>3. CASE d # c
    <3>1. d \in shown[s]
      BY <1>2, <1>10, <2>1, <2>3 DEF Pages, ListsExplained
    <3>2. ~(calls[c].kind = "rule.delete" /\ calls[c].changed /\ calls[c].row = d)
      BY <2>1 DEF Tables, RaceHasOneWinner
    <3> QED BY <1>6, <1>7, <3>1, <3>2
  <2> QED BY <2>2, <2>3
<1>11. ASSUME NEW s \in Tab, NEW r \in listed'[s] \ queue'[s]
       PROVE  r \in reviewed'
  <2>1. CASE r \in queue[s]
    <3>1. calls[c].kind = "screenshot.review" /\ calls[c].changed /\ r = calls[c].row
      BY <1>3, <1>6, <1>11, <2>1 DEF own
    <3> QED BY <1>4, <3>1 DEF Tables, ReviewsDone
  <2>2. CASE r \notin queue[s]
    BY <1>4, <1>11, <2>2 DEF Pages, ListsExplained
  <2> QED BY <2>1, <2>2
<1>12. ListsExplained'
  BY <1>9, <1>10, <1>11 DEF ListsExplained
<1> QED BY <1>8, <1>12 DEF Pages

\* A page load: its requests of before are nobody's, and its lists are those of the tables.
LEMMA LoadKeepsPages ==
  ASSUME TypeOK, Phases, Tables, Pages, NEW t \in Tab, Load(t)
  PROVE  Pages'
<1>1. \A c \in Call :
        /\ calls'[c].kind = calls[c].kind /\ calls'[c].row = calls[c].row
        /\ calls'[c].changed = calls[c].changed /\ calls'[c].code = calls[c].code
        /\ calls'[c].received = calls[c].received
        /\ calls'[c].tab = IF calls[c].tab = t THEN NoTab ELSE calls[c].tab
  BY LoadMoves
<1>2. \A c \in Call, s \in Tab : calls'[c].tab = s => s # t /\ calls[c].tab = s
  BY <1>1, AdminAssumption
<1>3. UNCHANGED <<rules, shots, reviewed>>
  BY DEF Load, tables, screenshots
<1>4. Rules' = Rules
  BY <1>3 DEF Rules, Row
<1>5. /\ shown'[t] \subseteq Rules
      /\ listed'[t] \ queue'[t] = {}
      /\ \A s \in Tab \ {t} : shown'[s] = shown[s] /\ queue'[s] = queue[s] /\ listed'[s] = listed[s]
  BY DEF Load, TypeOK
<1>6. PagesKnow'
  <2>1. ASSUME NEW s \in Tab, NEW d \in Call, d \in shown'[s]
        PROVE  calls'[d].changed
    <3>1. CASE s = t
      BY <1>1, <1>5, <2>1, <3>1 DEF Tables, RulesMade
    <3>2. CASE s # t
      BY <1>1, <1>5, <2>1, <3>2 DEF Pages, PagesKnow
    <3> QED BY <3>1, <3>2
  <2>2. ASSUME NEW s \in Tab, NEW d \in Call,
               calls'[d].kind = "rule.create", calls'[d].tab = s, ~calls'[d].received
        PROVE  /\ d \notin shown'[s]
               /\ \A e \in Call :
                    ~(calls'[e].kind = "rule.delete" /\ calls'[e].tab = s /\ calls'[e].row = d)
    <3>1. s # t /\ calls[d].tab = s /\ calls[d].kind = "rule.create" /\ ~calls[d].received
      BY <1>1, <1>2, <2>2
    <3>2. /\ d \notin shown[s]
          /\ \A e \in Call :
               ~(calls[e].kind = "rule.delete" /\ calls[e].tab = s /\ calls[e].row = d)
      BY <3>1 DEF Pages, PagesKnow
    <3> QED BY <1>1, <1>2, <1>5, <3>1, <3>2
  <2> QED BY <2>1, <2>2 DEF PagesKnow
<1>7. ASSUME NEW s \in Tab, NEW r \in shown'[s] \ Rules'
      PROVE  \E d \in Call :
               /\ calls'[d].kind = "rule.delete" /\ calls'[d].row = r /\ calls'[d].changed
               /\ ~(calls'[d].tab = s /\ calls'[d].received)
  <2>1. s # t /\ r \in shown[s] /\ r \notin Rules
    BY <1>4, <1>5, <1>7
  <2>2. PICK d \in Call : /\ calls[d].kind = "rule.delete" /\ calls[d].row = r /\ calls[d].changed
                         /\ ~(calls[d].tab = s /\ calls[d].received)
    BY <2>1 DEF Pages, ListsExplained
  <2> QED BY <1>1, <1>2, <2>2
<1>8. ASSUME NEW s \in Tab, NEW d \in Call,
             calls'[d].kind = "rule.create", calls'[d].tab = s,
             calls'[d].received, calls'[d].code = 200, d \in Rules'
      PROVE  d \in shown'[s]
  <2>1. s # t /\ calls[d].tab = s
    BY <1>2, <1>8
  <2>2. d \in shown[s]
    BY <1>1, <1>4, <1>8, <2>1 DEF Pages, ListsExplained
  <2> QED BY <1>5, <2>1, <2>2
<1>9. \A s \in Tab : listed'[s] \ queue'[s] \subseteq reviewed'
  BY <1>3, <1>5 DEF Pages, ListsExplained
<1>10. ListsExplained'
  BY <1>7, <1>8, <1>9 DEF ListsExplained
<1> QED BY <1>6, <1>10 DEF Pages

LEMMA PagesStep ==
  ASSUME TypeOK, Phases, RulesValued, Tables, Pages, Next
  PROVE  Pages'
<1>1. ASSUME NEW c \in Call, Lookup(c) \/ Breakdown(c) \/ Abort(c) \/ Audit(c)
      PROVE  Pages'
  BY <1>1, LookupIsPlain, OtherPlain, PlainKeepsPages
<1> QED BY <1>1, SendKeepsPages, WriteKeepsPages, ReceiveKeepsPages, LoadKeepsPages DEF Next

-----------------------------------------------------------------------------
LEMMA StepKeeps == IInv /\ [Next]_vars => IInv'
<1> SUFFICES ASSUME IInv, [Next]_vars PROVE IInv'
  OBVIOUS
<1>1. TypeOK /\ Phases /\ RulesValued /\ Tables /\ Pages
  BY DEF IInv, Tables, Pages
<1>2. CASE Next
  <2>1. TypeOK' /\ Phases'
    BY <1>1, <1>2, TypesAndPhases
  <2>2. RulesValued'
    BY <1>1, <1>2, ValuedStep
  <2>3. Tables'
    BY <1>1, <1>2, TablesStep DEF Pages
  <2>4. Pages'
    BY <1>1, <1>2, PagesStep
  <2> QED BY <2>1, <2>2, <2>3, <2>4 DEF IInv, Tables, Pages
<1>3. CASE UNCHANGED vars
  <2> USE DEF vars, users, organization, screenshots
  <2>1. /\ TypeOK' /\ Phases' /\ RulesValued' /\ UNCHANGED <<calls, shown, queue, listed, reviewed>>
        /\ UNCHANGED <<rules, emails, column, settings, shots, objects>>
    BY <1>1, <1>3 DEF TypeOK, Phases, Phase, RulesValued
  <2>2. Rules' = Rules
    BY <2>1 DEF Rules, Row
  <2>3. Tables'
    BY <1>1, <2>1, TablesLeft DEF Tables, ImagesStored
  <2>4. PagesKnow'
    BY <1>1, <2>1 DEF Pages, PagesKnow
  <2>5. ListsExplained'
    BY <1>1, <2>1, <2>2 DEF Pages, ListsExplained
  <2> QED BY <2>1, <2>3, <2>4, <2>5 DEF IInv, Tables
<1> QED BY <1>2, <1>3

LEMMA AdminInvariant == Spec => []IInv
<1> QED BY InitEstablishes, StepKeeps, PTL DEF Spec

-----------------------------------------------------------------------------
(* The theorems.                                                           *)

\* Every variable keeps its type, whatever the calls, the pages and the values.
THEOREM AdminTypeCorrect == Spec => []TypeOK
<1>1. IInv => TypeOK
  BY DEF IInv
<1> QED BY <1>1, AdminInvariant, PTL

\* A rule is deleted by one call at most and stays deleted, an address is one user's, and
\* the two copies of the retention agree: the answers of DeleteRule, SetEmail and
\* UpdateSettings to calls that ran between the look-up and the write.
THEOREM RacesHaveOneWinner == Spec => []RaceHasOneWinner
<1>1. IInv => RaceHasOneWinner
  BY DEF IInv
<1> QED BY <1>1, AdminInvariant, PTL

\* An error means that no table was changed, a success and an audit entry that something was.
THEOREM AnswersAreTrue == Spec => []AnsweredAsDone
<1>1. IInv => AnsweredAsDone
  BY DEF IInv, Phases, Phase, AnsweredAsDone
<1> QED BY <1>1, AdminInvariant, PTL

\* Every screenshot's row has its image in the store.
THEOREM ImagesAreThere == Spec => []RowHasObject
<1>1. IInv => RowHasObject
  BY DEF IInv
<1> QED BY <1>1, AdminInvariant, PTL

\* What a page lists is explained by its own calls and those of others since it was loaded.
THEOREM ListsAreExplained == Spec => []ListsExplained
<1>1. IInv => ListsExplained
  BY DEF IInv
<1> QED BY <1>1, AdminInvariant, PTL
=============================================================================
