--------------------------- MODULE DashboardProofs ---------------------------
(***************************************************************************)
(* The dashboard in the browser: the properties of WebSession, for every   *)
(* number of tabs and of pairs of tokens, and those of Workday, for every  *)
(* number of pages, requests and sessions.                                 *)
(*                                                                         *)
(* WebSession.  Tabs share the cookies and nothing else, so what one tab   *)
(* shows depends on the others only through the cookies of its requests.   *)
(* The invariant says what a load that broke owes that to.                 *)
(*                                                                         *)
(* Workday.  What a panel shows is a copy of the server's state, and the   *)
(* truth about it may be in three places: with the panel, in an answer     *)
(* that is on its way to it, or with the server alone, in which case the   *)
(* panel shows an error message or waits.                                  *)
(***************************************************************************)
EXTENDS WebSession, Workday, TLAPS

\* The tokens a request carries, or brings back, were issued.
CallsIssued ==
  \A t \in Tab : call[t].access \in 0..issued /\ call[t].refresh \in 0..issued

Typed == TypeOK /\ CallsIssued

\* A load that broke, or must renew, is excused; so is one whose token has expired.
LoadsExcused ==
  \A t \in Tab : \A p \in Part :
    /\ part[t][p].pc \in {"refresh", "spent", "store", "broken"} => excused[t]
    /\ part[t][p].pc = "me" => excused[t] \/ part[t][p].token \in valid

Loads == LoadsExcused /\ ErrorNeedsCause

\* The inductive invariant.
IInv == Typed /\ Loads
-----------------------------------------------------------------------------
(* Types.                                                                  *)

LEMMA NothingTyped ==
  /\ NoPart \in PartRecord
  /\ NoCall \in CallRecord
  /\ None \in 0..MaxPairs /\ Part = {"layout", "page"}
<1> QED BY WebSessionAssumption DEF NoPart, NoCall, PartRecord, CallRecord, None, Part

LEMMA InitEstablishes == Init => IInv
<1> SUFFICES ASSUME Init PROVE IInv
  OBVIOUS
<1> USE DEF Init
<1>1. TypeOK
  <2>1. part \in [Tab -> [Part -> PartRecord]] /\ call \in [Tab -> CallRecord]
        /\ adrift \in [Tab -> CallRecord]
    BY NothingTyped
  <2>2. issued \in 0..MaxPairs /\ access \in 0..issued /\ refresh \in 0..issued
    BY WebSessionAssumption DEF None
  <2> QED BY <2>1, <2>2 DEF TypeOK
<1>2. CallsIssued
  <2>1. NoCall.access = 0 /\ NoCall.refresh = 0
    BY DEF NoCall, None
  <2>2. \A t \in Tab : call[t] = NoCall
    OBVIOUS
  <2>3. 0 \in 0..issued
    OBVIOUS
  <2> QED BY <2>1, <2>2, <2>3 DEF CallsIssued
<1>3. Loads
  BY DEF Loads, LoadsExcused, ErrorNeedsCause, NoPart
<1> QED BY <1>1, <1>2, <1>3 DEF IInv, Typed

\* A step of one part of one load.
LEMMA PartTyped ==
  ASSUME TypeOK, NEW t \in Tab, NEW p \in Part, NEW new \in PartRecord,
         part' = [part EXCEPT ![t][p] = new]
  PROVE  part' \in [Tab -> [Part -> PartRecord]]
<1> DEFINE row == [part[t] EXCEPT ![p] = new]
<1>1. row \in [Part -> PartRecord]
  BY DEF TypeOK
<1>2. part' = [part EXCEPT ![t] = row]
  OBVIOUS
<1> HIDE DEF row
<1> QED BY <1>1, <1>2 DEF TypeOK

LEMMA GotoTyped ==
  ASSUME TypeOK, NEW t \in Tab, NEW p \in Part,
         NEW pc \in {"spent", "me"}, Goto(t, p, pc)
  PROVE  part' \in [Tab -> [Part -> PartRecord]]
<1> DEFINE new == [part[t][p] EXCEPT !.pc = pc]
<1>1. new \in PartRecord
  <2>1. part[t][p] \in PartRecord
    BY DEF TypeOK
  <2> QED BY <2>1 DEF PartRecord
<1>2. part' = [part EXCEPT ![t][p] = new]
  BY DEF Goto
<1> HIDE DEF new
<1> QED BY <1>1, <1>2, PartTyped

LEMMA BreakTyped ==
  ASSUME TypeOK, NEW t \in Tab, NEW p \in Part, Break(t, p)
  PROVE  part' \in [Tab -> [Part -> PartRecord]]
<1> DEFINE new == [NoPart EXCEPT !.pc = "broken"]
<1>1. new \in PartRecord
  BY NothingTyped DEF PartRecord
<1>2. part' = [part EXCEPT ![t][p] = new]
  BY DEF Break
<1> HIDE DEF new
<1> QED BY <1>1, <1>2, PartTyped

\* A pair is issued, or none.
LEMMA IssueTyped ==
  ASSUME TypeOK, Issue
  PROVE  /\ issued' \in 0..MaxPairs /\ issued' = issued + 1
         /\ valid' \subseteq 1..issued' /\ known' \subseteq 1..issued'
         /\ 0..issued \subseteq 0..issued' /\ valid \subseteq valid'
<1> QED BY WebSessionAssumption DEF TypeOK, Issue

LEMMA WorldTyped ==
  ASSUME Typed, World
  PROVE  Typed'
<1> USE DEF Typed, server, jar, calls
<1>1. CASE AccessExpires
  BY <1>1 DEF AccessExpires, TypeOK, CallsIssued
<1>2. CASE RefreshExpires
  BY <1>2 DEF RefreshExpires, TypeOK, CallsIssued
<1>3. CASE CookieExpires
  BY <1>3 DEF CookieExpires, TypeOK, CallsIssued, None
<1>4. CASE Suspend
  BY <1>4 DEF Suspend, TypeOK, CallsIssued
<1> QED BY <1>1, <1>2, <1>3, <1>4 DEF World

LEMMA LoadTyped ==
  ASSUME Typed, NEW t \in Tab, Load(t)
  PROVE  Typed'
<1> USE DEF Typed
<1> DEFINE first == IF access # None THEN [NoPart EXCEPT !.pc = "me", !.token = access]
                                     ELSE [NoPart EXCEPT !.pc = "refresh", !.token = refresh]
           row == [p \in Part |-> first]
<1>1. access \in 0..MaxPairs /\ refresh \in 0..MaxPairs
  BY WebSessionAssumption DEF TypeOK
<1>2. first \in PartRecord
  BY <1>1, NothingTyped DEF PartRecord
<1>3. row \in [Part -> PartRecord]
  BY <1>2
<1>4. \/ UNCHANGED part /\ screen' = [screen EXCEPT ![t] = "login"]
      \/ part' = [part EXCEPT ![t] = row] /\ screen' = [screen EXCEPT ![t] = "loading"]
  BY DEF Load
<1> HIDE DEF first, row
<1>5. part' \in [Tab -> [Part -> PartRecord]]
  BY <1>3, <1>4 DEF TypeOK
<1>6. screen' \in [Tab -> {"blank", "login", "loading", "page", "error", "out"}]
  BY <1>4 DEF TypeOK
<1>7. excused' \in [Tab -> BOOLEAN] /\ UNCHANGED <<server, jar, calls>>
  BY DEF Load, TypeOK
<1> QED BY <1>5, <1>6, <1>7 DEF TypeOK, CallsIssued, server, jar, calls

LEMMA RenderTyped ==
  ASSUME Typed, NEW t \in Tab, Render(t)
  PROVE  Typed'
<1> USE DEF Typed, server, jar, calls
<1>1. CASE OpenLogin(t)
  BY <1>1 DEF OpenLogin, TypeOK, CallsIssued
<1>3. CASE Show(t)
  <2> DEFINE row == [p \in Part |-> NoPart]
  <2>1. row \in [Part -> PartRecord]
    BY NothingTyped
  <2>2. part' = [part EXCEPT ![t] = row]
    BY <1>3 DEF Show
  <2> HIDE DEF row
  <2>3. part' \in [Tab -> [Part -> PartRecord]]
    BY <2>1, <2>2 DEF TypeOK
  <2>5. /\ excused' \in [Tab -> BOOLEAN]
        /\ screen' \in [Tab -> {"blank", "login", "loading", "page", "error", "out"}]
    BY <1>3 DEF Show, TypeOK
  <2> QED BY <1>3, <2>3, <2>5 DEF Show, TypeOK, CallsIssued
<1>4. ASSUME NEW p \in Part, Rotate(t, p) PROVE Typed'
  <2>1. part' \in [Tab -> [Part -> PartRecord]]
    BY <1>4, GotoTyped, BreakTyped DEF Rotate
  <2> QED BY <1>4, <2>1 DEF Rotate, TypeOK, CallsIssued
<1>5. ASSUME NEW p \in Part, Reissue(t, p) PROVE Typed'
  <2>1. CASE active
    <3> DEFINE new == [part[t][p] EXCEPT !.pc = "store", !.token = issued']
    <3>1. Issue /\ UNCHANGED <<active, jar, screen, calls, excused>>
      BY <1>5, <2>1 DEF Reissue
    <3>2. new \in PartRecord
      <4>1. part[t][p] \in PartRecord /\ issued' \in 0..MaxPairs
        BY <3>1, IssueTyped DEF TypeOK
      <4> QED BY <4>1 DEF PartRecord
    <3>3. part' = [part EXCEPT ![t][p] = new]
      BY <1>5, <2>1 DEF Reissue
    <3> HIDE DEF new
    <3>4. part' \in [Tab -> [Part -> PartRecord]]
      BY <3>2, <3>3, PartTyped
    <3> QED BY <3>1, <3>4, IssueTyped DEF TypeOK, CallsIssued
  <2>2. CASE ~active
    BY <1>5, <2>2, BreakTyped DEF Reissue, TypeOK, CallsIssued
  <2> QED BY <2>1, <2>2
<1>6. ASSUME NEW p \in Part, Store(t, p) PROVE Typed'
  BY <1>6, BreakTyped DEF Store, TypeOK, CallsIssued
<1>7. ASSUME NEW p \in Part, Me(t, p) PROVE Typed'
  <2> DEFINE new == [NoPart EXCEPT !.pc = "done"]
  <2>1. new \in PartRecord
    BY NothingTyped DEF PartRecord
  <2>2. Break(t, p) \/ part' = [part EXCEPT ![t][p] = new]
    BY <1>7 DEF Me
  <2> HIDE DEF new
  <2>3. part' \in [Tab -> [Part -> PartRecord]]
    BY <2>1, <2>2, BreakTyped, PartTyped
  <2> QED BY <1>7, <2>3 DEF Me, TypeOK, CallsIssued
<1>8. ASSUME NEW p \in Part, PartFails(t, p) PROVE Typed'
  BY <1>8, BreakTyped DEF PartFails, TypeOK, CallsIssued
<1> QED BY LoadTyped, <1>1, <1>3, <1>4, <1>5, <1>6, <1>7, <1>8 DEF Render

\* A call without tokens: before a sign-in, after an answer.
LEMMA NoTokensTyped ==
  ASSUME Typed, NEW t \in Tab, NEW new \in CallRecord, new.access = 0, new.refresh = 0,
         call' = [call EXCEPT ![t] = new], 0..issued \subseteq 0..issued'
  PROVE  call' \in [Tab -> CallRecord] /\ CallsIssued'
<1>1. issued \in Nat
  BY WebSessionAssumption DEF Typed, TypeOK
<1> QED BY <1>1 DEF Typed, TypeOK, CallsIssued

LEMMA ServedTyped ==
  ASSUME Typed, NEW t \in Tab, NEW ok \in BOOLEAN, Served(t, ok), 0..issued \subseteq 0..issued'
  PROVE  call' \in [Tab -> CallRecord] /\ CallsIssued'
<1> DEFINE new == [NoCall EXCEPT !.kind = call[t].kind, !.state = "served", !.ok = ok]
<1>1. call[t] \in CallRecord
  BY DEF Typed, TypeOK
<1>2. new \in CallRecord
  BY <1>1, NothingTyped DEF CallRecord
<1>3. new.access = 0 /\ new.refresh = 0
  BY DEF NoCall, None
<1>4. call' = [call EXCEPT ![t] = new]
  BY DEF Served
<1> HIDE DEF new
<1> QED BY <1>2, <1>3, <1>4, NoTokensTyped

LEMMA DoneTyped ==
  ASSUME Typed, NEW t \in Tab, Done(t), UNCHANGED issued
  PROVE  call' \in [Tab -> CallRecord] /\ CallsIssued'
<1>1. NoCall.access = 0 /\ NoCall.refresh = 0
  BY DEF NoCall, None
<1> QED BY <1>1, NothingTyped, NoTokensTyped DEF Done

LEMMA RequestTyped ==
  ASSUME Typed, NEW t \in Tab, Request(t)
  PROVE  Typed'
<1> USE DEF Typed, server, jar, calls
<1>1. CASE SignIn(t)
  <2> DEFINE new == [NoCall EXCEPT !.kind = "login"]
  <2>1. new \in CallRecord
    BY NothingTyped DEF CallRecord
  <2>2. new.access = 0 /\ new.refresh = 0
    BY DEF NoCall, None
  <2>3. call' = [call EXCEPT ![t] = new] /\ UNCHANGED <<server, jar, screen, part, adrift, excused>>
    BY <1>1 DEF SignIn
  <2> HIDE DEF new
  <2>4. call' \in [Tab -> CallRecord] /\ CallsIssued'
    BY <2>1, <2>2, <2>3, NoTokensTyped
  <2> QED BY <2>3, <2>4 DEF TypeOK
<1>2. CASE SignOut(t)
  <2> DEFINE new == [NoCall EXCEPT !.kind = "logout", !.access = access, !.refresh = refresh]
  <2>1. access \in 0..MaxPairs /\ refresh \in 0..MaxPairs
    BY WebSessionAssumption DEF TypeOK
  <2>2. new \in CallRecord
    BY <2>1, NothingTyped DEF CallRecord
  <2>3. new.access = access /\ new.refresh = refresh
    BY DEF NoCall
  <2>4. call' = [call EXCEPT ![t] = new] /\ UNCHANGED <<server, jar, screen, part, adrift, excused>>
    BY <1>2 DEF SignOut
  <2> HIDE DEF new
  <2> QED BY <2>2, <2>3, <2>4 DEF TypeOK, CallsIssued
<1>4. CASE LoginServed(t)
  <2>1. CASE Served(t, FALSE)
    <3>1. Issue \/ UNCHANGED <<issued, valid, known>>
      BY <1>4, <2>1 DEF LoginServed
    <3>2. /\ issued' \in 0..MaxPairs /\ valid' \subseteq 1..issued' /\ known' \subseteq 1..issued'
          /\ 0..issued \subseteq 0..issued'
      BY <3>1, IssueTyped DEF TypeOK
    <3>3. call' \in [Tab -> CallRecord] /\ CallsIssued'
      BY <2>1, <3>2, ServedTyped
    <3>4. UNCHANGED <<active, jar, screen, part, adrift, excused>>
      BY <1>4 DEF LoginServed
    <3> QED BY <3>2, <3>3, <3>4 DEF TypeOK
  <2>2. CASE ~Served(t, FALSE)
    <3> DEFINE new == [call[t] EXCEPT !.state = "served", !.ok = TRUE,
                                      !.access = issued', !.refresh = issued']
    <3>1. Issue /\ UNCHANGED <<active, jar, screen, part, adrift, excused>>
      BY <1>4, <2>2 DEF LoginServed
    <3>2. call[t] \in CallRecord /\ issued' \in 0..MaxPairs
      BY <3>1, IssueTyped DEF TypeOK
    <3>3. new \in CallRecord /\ new.access = issued' /\ new.refresh = issued'
      BY <3>2 DEF CallRecord
    <3>4. call' = [call EXCEPT ![t] = new]
      BY <1>4, <2>2 DEF LoginServed
    <3> HIDE DEF new
    <3>5. call' \in [Tab -> CallRecord]
      BY <3>3, <3>4 DEF TypeOK
    <3>6. CallsIssued'
      BY <3>1, <3>2, <3>3, <3>4, IssueTyped DEF TypeOK, CallsIssued
    <3> QED BY <3>1, <3>5, <3>6, IssueTyped DEF TypeOK
  <2> QED BY <2>1, <2>2
<1>5. CASE LogoutServed(t)
  <2>1. call' \in [Tab -> CallRecord] /\ CallsIssued'
    BY <1>5, ServedTyped DEF LogoutServed
  <2>2. known' \subseteq known
    BY <1>5 DEF LogoutServed
  <2> QED BY <1>5, <2>1, <2>2 DEF LogoutServed, TypeOK
<1>7. CASE LoginAnswered(t)
  <2>1. call' \in [Tab -> CallRecord] /\ CallsIssued'
    BY <1>7, DoneTyped DEF LoginAnswered
  <2>2. /\ access' \in 0..issued /\ refresh' \in 0..issued
        /\ screen' \in [Tab -> {"blank", "login", "loading", "page", "error", "out"}]
    BY <1>7 DEF LoginAnswered, TypeOK, CallsIssued
  <2> QED BY <1>7, <2>1, <2>2 DEF LoginAnswered, TypeOK
<1>8. CASE LogoutAnswered(t)
  <2>1. call' \in [Tab -> CallRecord] /\ CallsIssued'
    BY <1>8, DoneTyped DEF LogoutAnswered
  <2>2. None \in 0..issued
    BY WebSessionAssumption DEF TypeOK, None
  <2> QED BY <1>8, <2>1, <2>2 DEF LogoutAnswered, TypeOK
<1>10. CASE Lost(t)
  <2>1. call' \in [Tab -> CallRecord] /\ CallsIssued'
    BY <1>10, DoneTyped DEF Lost
  <2>2. /\ screen' \in [Tab -> {"blank", "login", "loading", "page", "error", "out"}]
        /\ excused' \in [Tab -> BOOLEAN] /\ adrift' \in [Tab -> CallRecord]
    BY <1>10 DEF Lost, TypeOK
  <2> QED BY <1>10, <2>1, <2>2 DEF Lost, TypeOK
<1>11. CASE AdriftServed(t)
  <2>1. /\ Issue \/ (UNCHANGED <<issued, valid>> /\ known' \subseteq known)
        /\ UNCHANGED <<active, jar, screen, part, call, excused>>
    BY <1>11 DEF AdriftServed
  <2>2. /\ issued' \in 0..MaxPairs /\ valid' \subseteq 1..issued' /\ known' \subseteq 1..issued'
        /\ 0..issued \subseteq 0..issued'
    BY <2>1, IssueTyped DEF TypeOK
  <2>3. adrift' \in [Tab -> CallRecord]
    BY <1>11, NothingTyped DEF AdriftServed, TypeOK
  <2> QED BY <2>1, <2>2, <2>3 DEF TypeOK, CallsIssued
<1> QED BY <1>1, <1>2, <1>4, <1>5, <1>7, <1>8, <1>10, <1>11 DEF Request

LEMMA TypedStep ==
  ASSUME Typed, [Next]_vars
  PROVE  Typed'
<1>1. CASE UNCHANGED vars
  BY <1>1 DEF vars, Typed, TypeOK, CallsIssued
<1> QED BY <1>1, WorldTyped, RenderTyped, RequestTyped DEF Next

-----------------------------------------------------------------------------
(* Page loads.                                                             *)

\* A step outside the loads.
LEMMA NoLoadBreaks ==
  ASSUME Loads, UNCHANGED part, valid \subseteq valid',
         \A t \in Tab : excused[t] => excused'[t],
         \A t \in Tab : screen'[t] = "error" => screen[t] = "error" \/ excused'[t]
  PROVE  Loads'
<1>1. LoadsExcused'
  BY DEF Loads, LoadsExcused
<1>2. ErrorNeedsCause'
  BY DEF Loads, ErrorNeedsCause
<1> QED BY <1>1, <1>2 DEF Loads

\* A step of one part.
LEMMA PartMoves ==
  ASSUME Typed, Loads, NEW t \in Tab, NEW p \in Part, NEW new \in PartRecord,
         part' = [part EXCEPT ![t][p] = new], UNCHANGED screen, valid \subseteq valid',
         \A s \in Tab : excused[s] => excused'[s],
         new.pc \in {"refresh", "spent", "store", "broken"} => excused'[t],
         new.pc = "me" => excused'[t] \/ new.token \in valid'
  PROVE  Loads'
<1>1. LoadsExcused'
  <2> SUFFICES ASSUME NEW s \in Tab, NEW q \in Part
               PROVE  /\ part'[s][q].pc \in {"refresh", "spent", "store", "broken"} => excused'[s]
                      /\ part'[s][q].pc = "me" =>
                           excused'[s] \/ part'[s][q].token \in valid'
    BY DEF LoadsExcused
  <2>1. CASE s = t /\ q = p
    <3>1. part'[s][q] = new
      BY <2>1 DEF Typed, TypeOK
    <3> QED BY <2>1, <3>1
  <2>2. CASE ~(s = t /\ q = p)
    <3>1. part'[s][q] = part[s][q]
      BY <2>2 DEF Typed, TypeOK
    <3> QED BY <3>1 DEF Loads, LoadsExcused
  <2> QED BY <2>1, <2>2
<1>2. ErrorNeedsCause'
  BY DEF Loads, ErrorNeedsCause
<1> QED BY <1>1, <1>2 DEF Loads

LEMMA BreakExcused ==
  ASSUME Typed, Loads, NEW t \in Tab, NEW p \in Part, Break(t, p), UNCHANGED screen,
         valid \subseteq valid', excused'[t], \A s \in Tab : excused[s] => excused'[s]
  PROVE  Loads'
<1> DEFINE new == [NoPart EXCEPT !.pc = "broken"]
<1>1. new \in PartRecord /\ new.pc = "broken"
  BY NothingTyped DEF PartRecord
<1>2. part' = [part EXCEPT ![t][p] = new]
  BY DEF Break
<1> HIDE DEF new
<1> QED BY <1>1, <1>2, PartMoves

LEMMA GotoExcused ==
  ASSUME Typed, Loads, NEW t \in Tab, NEW p \in Part, Goto(t, p, "spent"),
         UNCHANGED <<screen, valid, excused>>, excused[t]
  PROVE  Loads'
<1> DEFINE new == [part[t][p] EXCEPT !.pc = "spent"]
<1>1. part[t][p] \in PartRecord
  BY DEF Typed, TypeOK
<1>2. new \in PartRecord /\ new.pc = "spent"
  BY <1>1 DEF PartRecord
<1>3. part' = [part EXCEPT ![t][p] = new]
  BY DEF Goto
<1> HIDE DEF new
<1> QED BY <1>2, <1>3, PartMoves

\* A load that begins with an access token that has expired is excused, and so is one that
\* begins without any.
LEMMA LoadKeepsLoads ==
  ASSUME Typed, Loads, NEW t \in Tab, Load(t)
  PROVE  Loads'
<1> DEFINE first == IF access # None THEN [NoPart EXCEPT !.pc = "me", !.token = access]
                                     ELSE [NoPart EXCEPT !.pc = "refresh", !.token = refresh]
           row == [p \in Part |-> first]
<1>1. None \notin valid
  BY WebSessionAssumption DEF Typed, TypeOK, None
<1>2. /\ \A s \in Tab : s # t => excused'[s] = excused[s] /\ screen'[s] = screen[s]
      /\ excused'[t] <=> access \notin valid
      /\ screen'[t] \in {"login", "loading"}
      /\ UNCHANGED valid
  BY DEF Load, Typed, TypeOK, server
<1>3. ErrorNeedsCause'
  BY <1>2 DEF Loads, ErrorNeedsCause
<1>4. LoadsExcused'
  <2>1. CASE access = None /\ refresh = None
    <3>1. part' = part /\ excused'[t]
      BY <1>1, <1>2, <2>1 DEF Load
    <3> QED BY <1>2, <3>1 DEF Loads, LoadsExcused
  <2>2. CASE ~(access = None /\ refresh = None)
    <3>1. /\ first.pc = IF access # None THEN "me" ELSE "refresh"
          /\ access # None => first.token = access
      BY DEF NoPart
    <3>2. part' = [part EXCEPT ![t] = row]
      BY <2>2 DEF Load
    <3>3. \A p \in Part : row[p] = first
      OBVIOUS
    <3> HIDE DEF first, row
    <3>4. \A s \in Tab : part'[s] = IF s = t THEN row ELSE part[s]
      BY <3>2 DEF Typed, TypeOK
    <3> QED BY <1>1, <1>2, <3>1, <3>3, <3>4 DEF Loads, LoadsExcused
  <2> QED BY <2>1, <2>2
<1> QED BY <1>3, <1>4 DEF Loads

LEMMA RenderKeepsLoads ==
  ASSUME Typed, Loads, NEW t \in Tab, Render(t)
  PROVE  Loads'
<1> USE DEF server, jar, calls
<1>1. CASE OpenLogin(t)
  <2>1. /\ UNCHANGED <<part, valid, excused>>
        /\ \A s \in Tab : screen'[s] = "error" => screen[s] = "error"
    BY <1>1 DEF OpenLogin, Typed, TypeOK
  <2> QED BY <2>1, NoLoadBreaks
<1>3. CASE Show(t)
  <2> DEFINE row == [p \in Part |-> NoPart]
  <2>1. \A p \in Part : row[p].pc = "idle"
    BY DEF NoPart
  <2>2. part' = [part EXCEPT ![t] = row] /\ UNCHANGED valid
    BY <1>3 DEF Show
  <2> HIDE DEF row
  <2>3. \A s \in Tab : part'[s] = IF s = t THEN row ELSE part[s]
    BY <2>2 DEF Typed, TypeOK
  <2>4. \A s \in Tab : s # t => screen'[s] = screen[s] /\ excused'[s] = excused[s]
    BY <1>3 DEF Show, Typed, TypeOK
  <2>5. screen'[t] = "error" => excused'[t]
    BY <1>3 DEF Show, Typed, TypeOK, Loads, LoadsExcused
  <2>6. LoadsExcused'
    BY <2>1, <2>2, <2>3, <2>4 DEF Loads, LoadsExcused
  <2>7. ErrorNeedsCause'
    BY <2>4, <2>5 DEF Loads, ErrorNeedsCause
  <2> QED BY <2>6, <2>7 DEF Loads
<1>4. ASSUME NEW p \in Part, Rotate(t, p) PROVE Loads'
  <2>1. excused[t] /\ UNCHANGED <<screen, valid, excused>>
    BY <1>4 DEF Rotate, Loads, LoadsExcused
  <2>2. Goto(t, p, "spent") \/ Break(t, p)
    BY <1>4 DEF Rotate
  <2> QED BY <2>1, <2>2, GotoExcused, BreakExcused
<1>5. ASSUME NEW p \in Part, Reissue(t, p) PROVE Loads'
  <2>1. excused[t] /\ UNCHANGED <<screen, excused>>
    BY <1>5 DEF Reissue, Loads, LoadsExcused
  <2>2. CASE active
    <3> DEFINE new == [part[t][p] EXCEPT !.pc = "store", !.token = issued']
    <3>1. Issue /\ part[t][p] \in PartRecord
      BY <1>5, <2>2 DEF Reissue, Typed, TypeOK
    <3>2. new \in PartRecord /\ new.pc = "store" /\ valid \subseteq valid'
      BY <3>1, IssueTyped DEF PartRecord, Typed
    <3>3. part' = [part EXCEPT ![t][p] = new]
      BY <1>5, <2>2 DEF Reissue
    <3> HIDE DEF new
    <3> QED BY <2>1, <3>2, <3>3, PartMoves
  <2>3. CASE ~active
    <3>1. Break(t, p) /\ UNCHANGED valid
      BY <1>5, <2>3 DEF Reissue
    <3> QED BY <2>1, <3>1, BreakExcused
  <2> QED BY <2>2, <2>3
<1>6. ASSUME NEW p \in Part, Store(t, p) PROVE Loads'
  <2>1. excused[t] /\ Break(t, p) /\ UNCHANGED <<screen, valid, excused>>
    BY <1>6 DEF Store, Loads, LoadsExcused
  <2> QED BY <2>1, BreakExcused
<1>7. ASSUME NEW p \in Part, Me(t, p) PROVE Loads'
  <2>1. UNCHANGED <<screen, valid, excused>> /\ (excused[t] \/ part[t][p].token \in valid)
    BY <1>7 DEF Me, Loads, LoadsExcused
  <2>2. CASE part[t][p].token \notin valid
    <3>1. Break(t, p)
      BY <1>7, <2>2 DEF Me
    <3> QED BY <2>1, <2>2, <3>1, BreakExcused
  <2>3. CASE part[t][p].token \in valid
    <3> DEFINE new == [NoPart EXCEPT !.pc = "done"]
    <3>1. new \in PartRecord /\ new.pc = "done"
      BY NothingTyped DEF PartRecord
    <3>2. part' = [part EXCEPT ![t][p] = new]
      BY <1>7, <2>3 DEF Me
    <3> HIDE DEF new
    <3> QED BY <2>1, <3>1, <3>2, PartMoves
  <2> QED BY <2>2, <2>3
<1>8. ASSUME NEW p \in Part, PartFails(t, p) PROVE Loads'
  <2>1. /\ Break(t, p) /\ UNCHANGED <<screen, valid>>
        /\ excused'[t] /\ \A s \in Tab : excused[s] => excused'[s]
    BY <1>8 DEF PartFails, Typed, TypeOK
  <2> QED BY <2>1, BreakExcused
<1> QED BY LoadKeepsLoads, <1>1, <1>3, <1>4, <1>5, <1>6, <1>7, <1>8 DEF Render

LEMMA WorldKeepsLoads ==
  ASSUME Typed, Loads, World
  PROVE  Loads'
<1> USE DEF server, jar, calls
<1>1. CASE AccessExpires
  <2>1. PICK n \in valid :
          /\ valid' = valid \ {n} /\ UNCHANGED <<screen, part>>
          /\ excused' = [t \in Tab |-> excused[t] \/ \E p \in Part : part[t][p].token = n]
    BY <1>1 DEF AccessExpires
  <2>2. \A t \in Tab : excused[t] => excused'[t]
    BY <2>1
  <2>3. \A t \in Tab, p \in Part : part[t][p].token = n => excused'[t]
    BY <2>1
  <2>4. LoadsExcused'
    BY <2>1, <2>2, <2>3 DEF Loads, LoadsExcused
  <2>5. ErrorNeedsCause'
    BY <2>1, <2>2 DEF Loads, ErrorNeedsCause
  <2> QED BY <2>4, <2>5 DEF Loads
<1>2. CASE RefreshExpires \/ CookieExpires \/ Suspend
  <2>1. UNCHANGED <<screen, part, valid, excused>>
    BY <1>2 DEF RefreshExpires, CookieExpires, Suspend
  <2> QED BY <2>1, NoLoadBreaks
<1> QED BY <1>1, <1>2 DEF World

LEMMA RequestKeepsLoads ==
  ASSUME Typed, Loads, NEW t \in Tab, Request(t)
  PROVE  Loads'
<1> USE DEF server, jar, calls
<1>1. UNCHANGED part
  BY DEF Request, SignIn, SignOut, LoginServed, LogoutServed, LoginAnswered,
         LogoutAnswered, Lost, AdriftServed
<1>2. valid \subseteq valid'
  <2>1. CASE Issue
    BY <2>1, IssueTyped DEF Typed
  <2>2. CASE UNCHANGED valid
    BY <2>2
  <2>3. Issue \/ UNCHANGED valid
    BY DEF Request, SignIn, SignOut, LoginServed, LogoutServed, LoginAnswered,
         LogoutAnswered, Lost, AdriftServed
  <2> QED BY <2>1, <2>2, <2>3
<1>3. CASE Lost(t)
  <2>1. /\ \A s \in Tab : excused[s] => excused'[s]
        /\ \A s \in Tab : screen'[s] = "error" => screen[s] = "error" \/ excused'[s]
    BY <1>3 DEF Lost, Typed, TypeOK
  <2> QED BY <1>1, <1>2, <2>1, NoLoadBreaks
<1>4. CASE ~Lost(t)
  <2>1. UNCHANGED excused
    BY <1>4 DEF Request, SignIn, SignOut, LoginServed, LogoutServed, LoginAnswered,
                LogoutAnswered, AdriftServed
  <2>2. \A s \in Tab : screen'[s] = "error" => screen[s] = "error"
    <3>1. CASE LoginAnswered(t)
      BY <3>1 DEF LoginAnswered, Typed, TypeOK
    <3>2. CASE LogoutAnswered(t)
      BY <3>2 DEF LogoutAnswered, Typed, TypeOK
    <3>3. CASE UNCHANGED screen
      BY <3>3
    <3> QED BY <1>4, <3>1, <3>2, <3>3
            DEF Request, SignIn, SignOut, LoginServed, LogoutServed, AdriftServed
  <2> QED BY <1>1, <1>2, <2>1, <2>2, NoLoadBreaks
<1> QED BY <1>3, <1>4

LEMMA LoadsStep ==
  ASSUME Typed, Loads, [Next]_vars
  PROVE  Loads'
<1>1. CASE UNCHANGED vars
  BY <1>1, NoLoadBreaks DEF vars
<1> QED BY <1>1, WorldKeepsLoads, RenderKeepsLoads, RequestKeepsLoads DEF Next

-----------------------------------------------------------------------------
\* The cookies of a browser without a session are written by the answer of a sign-in only.
LEMMA CookiesComeFromSignIn ==
  ASSUME Typed, access = None, refresh = None, <<access', refresh'>> # <<None, None>>, [Next]_vars
  PROVE  \E t \in Tab : call[t].kind = "login" /\ call[t].ok /\ call'[t] = NoCall
<1> USE DEF server, jar, calls
<1>1. ~UNCHANGED vars
  BY DEF vars
<1>2. ~World
  BY DEF World, AccessExpires, RefreshExpires, CookieExpires, Suspend
<1>3. ASSUME NEW t \in Tab, Render(t) PROVE FALSE
  BY <1>3 DEF Render, Load, OpenLogin, Show, Rotate, Reissue, Store, Me, PartFails
<1>4. ASSUME NEW t \in Tab, Request(t) PROVE LoginAnswered(t) /\ call[t].ok
  BY <1>4 DEF Request, SignIn, SignOut, LoginServed, LogoutServed, LoginAnswered,
         LogoutAnswered, Lost, AdriftServed
<1>5. PICK t \in Tab : LoginAnswered(t) /\ call[t].ok
  BY <1>1, <1>2, <1>3, <1>4 DEF Next
<1>6. call[t].kind = "login" /\ call'[t] = NoCall
  BY <1>5 DEF LoginAnswered, Done, Typed, TypeOK
<1> QED BY <1>5, <1>6

LEMMA WebSessionInvariant == Spec => []IInv
<1>1. IInv /\ [Next]_vars => IInv'
  BY TypedStep, LoadsStep DEF IInv
<1> QED BY <1>1, InitEstablishes, PTL DEF Spec

\* Cookies, tokens, loads and requests keep their types: no cookie holds a pair that
\* was not issued.
THEOREM WebSessionTypeCorrect == Spec => []TypeOK
<1>1. IInv => TypeOK
  BY DEF IInv, Typed
<1> QED BY <1>1, WebSessionInvariant, PTL

\* Only signing in brings a session back to a browser that has none (session.ts:26-50,
\* login/route.ts, logout/route.ts), however many tabs load or call while it signs out.
THEOREM SignedOutTheorem == Spec => SignedOutStaysOut
<1>1. IInv /\ [Next]_vars =>
        [access = None /\ refresh = None /\ <<access', refresh'>> # <<None, None>>
           => \E t \in Tab : call[t].kind = "login" /\ call[t].ok /\ call'[t] = NoCall]_vars
  BY CookiesComeFromSignIn DEF IInv
<1> QED BY <1>1, WebSessionInvariant, PTL DEF Spec, SignedOutStaysOut

\* The error page has a cause in its own load (session.ts:56-78): an access token that was
\* missing or expired, or a failed call; for every number of tabs that share the cookies.
THEOREM ErrorsHaveCauses == Spec => []ErrorNeedsCause
<1>1. IInv => ErrorNeedsCause
  BY DEF IInv, Loads
<1> QED BY <1>1, WebSessionInvariant, PTL
-----------------------------------------------------------------------------
(* The workday panel.                                                      *)

\* A page waits for one call at a time, and only while its panel is shown.
OneCall ==
  \A r1, r2 \in Slot : reqs[r1].by \in Panel /\ reqs[r1].by = reqs[r2].by => r1 = r2

Waits ==
  \A r \in Slot : reqs[r].by \in Panel => view[reqs[r].by] = "shown" /\ reqs[r].kind # "none"

\* Where the truth about the open session is while a page is sure: in what the panel shows, or
\* in the answer that is on its way to it.
PanelTruth(p) ==
  sure[p] =>
    /\ view[p] = "rendered" => (status[p] <=> Active)
    /\ view[p] = "shown" /\ ~Busy(p) /\ ~error[p] => (status[p] <=> Active)
    /\ \A r \in Slot : reqs[r].by = p /\ reqs[r].pc = "done" /\ reqs[r].ok
                         => (Active <=> reqs[r].kind = "start")

\* The inductive invariant.
WorkdayInv == WorkdayTypeOK /\ OneCall /\ Waits /\ (\A p \in Panel : PanelTruth(p))

LEMMA WorkdayNothingTyped == NoRequest \in WorkdayRequest /\ NoRequest.by \notin Panel
<1> QED BY WorkdayAssumption DEF NoRequest, WorkdayRequest

LEMMA WorkdayInitEstablishes == WorkdayInit => WorkdayInv
<1> SUFFICES ASSUME WorkdayInit PROVE WorkdayInv
  OBVIOUS
<1> USE DEF WorkdayInit
<1>1. WorkdayTypeOK
  <2>1. reqs \in [Slot -> WorkdayRequest]
    BY WorkdayNothingTyped
  <2>2. \A r \in Slot : reqs[r].pc = "sent"
    BY DEF NoRequest
  <2> QED BY <2>1, <2>2 DEF WorkdayTypeOK
<1>2. OneCall /\ Waits
  BY WorkdayNothingTyped DEF OneCall, Waits
<1>3. \A p \in Panel : PanelTruth(p)
  BY DEF PanelTruth
<1> QED BY <1>1, <1>2, <1>3 DEF WorkdayInv

\* An answer changes the state and the result of its request only.
LEMMA AnswerTyped ==
  ASSUME WorkdayTypeOK, NEW r \in Slot, NEW ok \in BOOLEAN, Answer(r, ok)
  PROVE  /\ reqs' \in [Slot -> WorkdayRequest]
         /\ \A q \in Slot : reqs'[q].pc = "close" => reqs'[q].sid \in Session
         /\ \A q \in Slot : reqs'[q].by = reqs[q].by /\ reqs'[q].kind = reqs[q].kind
         /\ \A q \in Slot : q # r => reqs'[q] = reqs[q]
         /\ reqs'[r].pc = "done" /\ reqs'[r].ok = ok
<1> DEFINE answered == [reqs[r] EXCEPT !.pc = "done", !.ok = ok]
<1>1. /\ answered \in WorkdayRequest
      /\ answered.pc = "done" /\ answered.ok = ok
      /\ answered.by = reqs[r].by /\ answered.kind = reqs[r].kind
  BY DEF WorkdayTypeOK, WorkdayRequest
<1>2. reqs' = [reqs EXCEPT ![r] = answered]
  BY DEF Answer, WorkdayTypeOK, WorkdayRequest
<1> HIDE DEF answered
<1> QED BY <1>1, <1>2 DEF WorkdayTypeOK

LEMMA ToldTyped ==
  ASSUME WorkdayTypeOK, NEW r \in Slot, NEW knows \in BOOLEAN, Told(r, knows)
  PROVE  sure' \in [Panel -> BOOLEAN]
<1> QED BY DEF WorkdayTypeOK, Told, Active

LEMMA WorkdayTypedStep ==
  ASSUME WorkdayInv, [WorkdayNext]_workdayVars
  PROVE  WorkdayTypeOK'
<1> USE DEF WorkdayInv, WorkdayTypeOK, panels
<1>1. CASE UNCHANGED workdayVars
  BY <1>1 DEF workdayVars
<1>2. ASSUME NEW p \in Panel, Reload(p) \/ Revisit(p) PROVE WorkdayTypeOK'
  <2>1. \A r \in Slot : /\ [reqs[r] EXCEPT !.by = Nobody] \in WorkdayRequest
                        /\ [reqs[r] EXCEPT !.by = Nobody].pc = reqs[r].pc
                        /\ [reqs[r] EXCEPT !.by = Nobody].sid = reqs[r].sid
    BY DEF WorkdayRequest
  <2>2. reqs' \in [Slot -> WorkdayRequest]
    BY <1>2, <2>1 DEF Reload, Revisit, Unmount
  <2>3. \A r \in Slot : reqs'[r].pc = reqs[r].pc /\ reqs'[r].sid = reqs[r].sid
    BY <1>2, <2>1 DEF Reload, Revisit, Unmount
  <2> QED BY <1>2, <2>2, <2>3 DEF Reload, Revisit, Unmount
<1>3. ASSUME NEW p \in Panel, RenderPage(p) PROVE WorkdayTypeOK'
  BY <1>3 DEF RenderPage, Active
<1>4. ASSUME NEW p \in Panel, ShowPage(p) PROVE WorkdayTypeOK'
  BY <1>4 DEF ShowPage
<1>5. ASSUME NEW p \in Panel, Press(p) PROVE WorkdayTypeOK'
  <2> DEFINE asks == [NoRequest EXCEPT !.kind = IF status[p] THEN "end" ELSE "start", !.by = p]
  <2>1. asks \in WorkdayRequest /\ asks.pc = "sent"
    BY DEF NoRequest, WorkdayRequest
  <2> HIDE DEF asks
  <2>2. PICK r \in Slot : reqs' = [reqs EXCEPT ![r] = asks]
    BY <1>5 DEF Press, asks
  <2>3. reqs' \in [Slot -> WorkdayRequest]
    BY <2>1, <2>2
  <2>4. \A q \in Slot : reqs'[q].pc = "close" => reqs'[q].sid \in Session
    BY <2>1, <2>2
  <2> QED BY <1>5, <2>3, <2>4 DEF Press
<1>6. ASSUME NEW r \in Slot, Receive(r) PROVE WorkdayTypeOK'
  <2>1. reqs' \in [Slot -> WorkdayRequest]
    BY <1>6, WorkdayNothingTyped DEF Receive
  <2>2. \A q \in Slot : reqs'[q].pc = "close" => reqs'[q].sid \in Session
    <3>1. NoRequest.pc = "sent"
      BY DEF NoRequest
    <3> QED BY <1>6, <3>1 DEF Receive
  <2>3. status' \in [Panel -> BOOLEAN] /\ error' \in [Panel -> BOOLEAN]
    BY <1>6 DEF Receive, WorkdayRequest
  <2> QED BY <1>6, <2>1, <2>2, <2>3 DEF Receive
<1>7. ASSUME NEW r \in Slot, CallFails(r) PROVE WorkdayTypeOK'
  BY <1>7 DEF CallFails, WorkdayRequest
<1>8. ASSUME NEW r \in Slot, Refuse(r) PROVE WorkdayTypeOK'
  BY <1>8, AnswerTyped DEF Refuse
<1>9. ASSUME NEW r \in Slot, FindExisting(r) PROVE WorkdayTypeOK'
  <2>1. CASE Active
    BY <1>9, <2>1, AnswerTyped, ToldTyped DEF FindExisting
  <2>2. CASE ~Active
    <3>1. reqs' = [reqs EXCEPT ![r].pc = "create"] /\ sure' = sure
      BY <1>9, <2>2 DEF FindExisting
    <3> QED BY <1>9, <3>1 DEF FindExisting, WorkdayRequest
  <2> QED BY <2>1, <2>2
<1>10. ASSUME NEW r \in Slot, CreateSession(r) PROVE WorkdayTypeOK'
  <2>1. sessions' \in [Session -> {"none", "active", "ended"}]
    BY <1>10 DEF CreateSession
  <2> QED BY <1>10, <2>1, AnswerTyped, ToldTyped DEF CreateSession
<1>11. ASSUME NEW r \in Slot, FindToEnd(r) PROVE WorkdayTypeOK'
  <2>1. CASE Answer(r, TRUE) /\ Told(r, TRUE)
    BY <1>11, <2>1, AnswerTyped, ToldTyped DEF FindToEnd
  <2>2. ASSUME NEW s \in Session, UNCHANGED sure,
               reqs' = [reqs EXCEPT ![r].pc = "close", ![r].sid = s]
        PROVE  WorkdayTypeOK'
    <3> DEFINE found == [reqs[r] EXCEPT !.pc = "close", !.sid = s]
    <3>1. found \in WorkdayRequest /\ found.pc = "close" /\ found.sid = s
      BY DEF WorkdayRequest
    <3>2. reqs' = [reqs EXCEPT ![r] = found]
      BY <2>2 DEF WorkdayRequest
    <3> HIDE DEF found
    <3> QED BY <1>11, <2>2, <3>1, <3>2 DEF FindToEnd
  <2> QED BY <1>11, <2>1, <2>2 DEF FindToEnd
<1>12. ASSUME NEW r \in Slot, CloseFound(r) PROVE WorkdayTypeOK'
  <2>1. sessions' \in [Session -> {"none", "active", "ended"}]
    BY <1>12 DEF CloseFound
  <2>2. (~Active') \in BOOLEAN
    BY DEF Active
  <2> QED BY <1>12, <2>1, <2>2, AnswerTyped, ToldTyped DEF CloseFound
<1>13. ASSUME NEW r \in Slot, Vanish(r) PROVE WorkdayTypeOK'
  <2>1. reqs' \in [Slot -> WorkdayRequest]
    BY <1>13, WorkdayNothingTyped DEF Vanish
  <2>2. NoRequest.pc = "sent"
    BY DEF NoRequest
  <2> QED BY <1>13, <2>1, <2>2 DEF Vanish
<1>14. CASE Elsewhere
  BY <1>14 DEF Elsewhere
<1> QED BY <1>1, <1>2, <1>3, <1>4, <1>5, <1>6, <1>7, <1>8, <1>9, <1>10, <1>11, <1>12,
           <1>13, <1>14 DEF WorkdayNext, Browser, Backend

\* Requests of the pages come with a press and go with an answer; in between they keep their
\* page or lose it.
LEMMA CallsStep ==
  ASSUME WorkdayInv, [WorkdayNext]_workdayVars
  PROVE  OneCall' /\ Waits'
<1> USE DEF panels
<1> DEFINE Fewer == \A r \in Slot : /\ reqs'[r].by \in Panel => reqs'[r].by = reqs[r].by
                                    /\ reqs'[r].by \in Panel => reqs'[r].kind = reqs[r].kind
                                    /\ reqs'[r].by \in Panel => view'[reqs[r].by] = "shown"
<1>1. Fewer => OneCall' /\ Waits'
  BY DEF WorkdayInv, OneCall, Waits
<1>2. CASE UNCHANGED workdayVars
  BY <1>2 DEF workdayVars, WorkdayInv, OneCall, Waits
<1>3. ASSUME NEW p \in Panel, Reload(p) \/ Revisit(p) PROVE Fewer
  <2>1. reqs' = [r \in Slot |-> IF reqs[r].by = p THEN [reqs[r] EXCEPT !.by = Nobody] ELSE reqs[r]]
    BY <1>3 DEF Reload, Revisit, Unmount
  <2>2. \A q \in Panel : q # p => view'[q] = view[q]
    BY <1>3 DEF Reload, Revisit, Unmount, WorkdayInv, WorkdayTypeOK
  <2>3. \A r \in Slot : reqs[r].by = p => reqs'[r].by = Nobody
    BY <2>1 DEF WorkdayInv, WorkdayTypeOK, WorkdayRequest
  <2>4. \A r \in Slot : reqs[r].by # p => reqs'[r] = reqs[r]
    BY <2>1
  <2> QED BY <2>2, <2>3, <2>4, WorkdayAssumption DEF WorkdayInv, Waits
<1>4. ASSUME NEW p \in Panel, RenderPage(p) \/ ShowPage(p) PROVE Fewer
  BY <1>4 DEF RenderPage, ShowPage, WorkdayInv, WorkdayTypeOK, Waits
<1>5. ASSUME NEW p \in Panel, Press(p) PROVE OneCall' /\ Waits'
  <2> DEFINE asks == [NoRequest EXCEPT !.kind = IF status[p] THEN "end" ELSE "start", !.by = p]
  <2>1. asks.by = p /\ asks.kind # "none"
    BY DEF NoRequest
  <2> HIDE DEF asks
  <2>2. PICK r \in Slot : reqs' = [reqs EXCEPT ![r] = asks]
    BY <1>5 DEF Press, asks
  <2>3. reqs'[r] = asks /\ \A q \in Slot : q # r => reqs'[q] = reqs[q] /\ reqs[q].by # p
    BY <1>5, <2>2 DEF Press, Busy, WorkdayInv, WorkdayTypeOK
  <2>4. view'[p] = "shown" /\ view' = view
    BY <1>5 DEF Press
  <2> QED BY <2>1, <2>3, <2>4 DEF WorkdayInv, OneCall, Waits
<1>6. ASSUME NEW r \in Slot, Receive(r) \/ Vanish(r) PROVE Fewer
  <2>1. reqs' = [reqs EXCEPT ![r] = NoRequest] /\ view' = view
    BY <1>6 DEF Receive, Vanish
  <2> QED BY <2>1, WorkdayNothingTyped DEF WorkdayInv, WorkdayTypeOK, Waits
<1>7. ASSUME NEW r \in Slot, CallFails(r) PROVE Fewer
  <2>1. reqs' = [reqs EXCEPT ![r].by = Nobody] /\ view' = view
    BY <1>7 DEF CallFails
  <2> QED BY <2>1, WorkdayAssumption DEF WorkdayInv, WorkdayTypeOK, WorkdayRequest, Waits
<1>8. ASSUME NEW r \in Slot, NEW ok \in BOOLEAN, Answer(r, ok), UNCHANGED view PROVE Fewer
  BY <1>8, AnswerTyped DEF WorkdayInv, Waits
<1>9. ASSUME NEW r \in Slot, FindExisting(r), ~Active PROVE Fewer
  <2>1. reqs' = [reqs EXCEPT ![r].pc = "create"] /\ view' = view
    BY <1>9 DEF FindExisting
  <2> QED BY <2>1 DEF WorkdayInv, WorkdayTypeOK, WorkdayRequest, Waits
<1>10. ASSUME NEW r \in Slot, NEW s \in Session, UNCHANGED view,
              reqs' = [reqs EXCEPT ![r].pc = "close", ![r].sid = s]
       PROVE  Fewer
  BY <1>10 DEF WorkdayInv, WorkdayTypeOK, WorkdayRequest, Waits
<1>11. CASE Elsewhere
  BY <1>11 DEF Elsewhere, WorkdayInv, OneCall, Waits
<1> HIDE DEF Fewer
<1>12. ASSUME NEW r \in Slot, FindExisting(r) PROVE Fewer
  BY <1>8, <1>9, <1>12 DEF FindExisting
<1>13. ASSUME NEW r \in Slot, FindToEnd(r) PROVE Fewer
  BY <1>8, <1>10, <1>13 DEF FindToEnd
<1>14. ASSUME NEW r \in Slot, Refuse(r) \/ CreateSession(r) \/ CloseFound(r) PROVE Fewer
  BY <1>8, <1>14 DEF Refuse, CreateSession, CloseFound
<1> QED BY <1>1, <1>2, <1>3, <1>4, <1>5, <1>6, <1>7, <1>11, <1>12, <1>13, <1>14
        DEF WorkdayNext, Browser, Backend

\* A page to which nothing happened knows what it knew, while the answers on their way to it
\* are the same, or are refusals.
LEMMA TruthKept ==
  ASSUME NEW p \in Panel, PanelTruth(p),
         sure'[p] => sure[p] /\ (Active' <=> Active),
         view'[p] = view[p], status'[p] = status[p], error'[p] = error[p],
         \A r \in Slot : reqs'[r].by = p <=> reqs[r].by = p,
         \A r \in Slot : reqs[r].by = p =>
           reqs'[r] = reqs[r] \/ reqs'[r].pc # "done" \/ ~reqs'[r].ok
  PROVE  PanelTruth(p)'
<1> QED BY DEF PanelTruth, Busy

\* A page that waits for the answer knows what the answer says.
LEMMA TruthAnswered ==
  ASSUME WorkdayInv, NEW r \in Slot, NEW p \in Panel, reqs[r].by = p, view' = view,
         Answer(r, TRUE), sure'[p] => (Active' <=> reqs[r].kind = "start")
  PROVE  PanelTruth(p)'
<1>1. view'[p] = "shown"
  BY DEF WorkdayInv, Waits
<1>2. reqs'[r].by = p /\ reqs'[r].kind = reqs[r].kind
  BY AnswerTyped DEF WorkdayInv
<1>3. \A q \in Slot : reqs'[q].by = p => q = r
  BY AnswerTyped DEF WorkdayInv, OneCall
<1>4. Busy(p)'
  BY <1>2 DEF Busy
<1> QED BY <1>1, <1>2, <1>3, <1>4 DEF PanelTruth

\* An answer is the truth for the page that waits for it, and changes nothing for the others
\* unless it opens the first session or ends the last one.
LEMMA TruthTold ==
  ASSUME WorkdayInv, NEW r \in Slot, NEW knows \in BOOLEAN, UNCHANGED panels,
         Answer(r, TRUE), Told(r, knows), knows => (Active' <=> reqs[r].kind = "start"),
         NEW p \in Panel
  PROVE  PanelTruth(p)'
<1>1. view' = view /\ status' = status /\ error' = error
  BY DEF panels
<1>2. CASE reqs[r].by = p
  <2>1. sure'[p] = knows
    BY <1>2 DEF Told
  <2> QED BY <1>1, <1>2, <2>1, TruthAnswered
<1>3. CASE reqs[r].by # p
  <2>1. sure'[p] => sure[p] /\ (Active' <=> Active)
    BY <1>3 DEF Told
  <2>2. \A q \in Slot : (reqs'[q].by = p <=> reqs[q].by = p)
    BY AnswerTyped DEF WorkdayInv
  <2>3. \A q \in Slot : reqs[q].by = p => reqs'[q] = reqs[q]
    BY <1>3, AnswerTyped DEF WorkdayInv
  <2> QED BY <1>1, <2>1, <2>2, <2>3, TruthKept DEF WorkdayInv
<1> QED BY <1>2, <1>3

LEMMA TruthStep ==
  ASSUME WorkdayInv, [WorkdayNext]_workdayVars, NEW p \in Panel
  PROVE  PanelTruth(p)'
<1> USE DEF panels
<1>t. WorkdayTypeOK /\ PanelTruth(p)
  BY DEF WorkdayInv
<1>1. CASE UNCHANGED workdayVars
  <2>1. Active' <=> Active
    BY <1>1 DEF workdayVars, Active
  <2> QED BY <1>1, <1>t, <2>1, TruthKept DEF workdayVars
<1>2. ASSUME NEW q \in Panel, Reload(q) \/ Revisit(q) PROVE PanelTruth(p)'
  <2>1. CASE p = q
    <3>1. ~sure'[p]
      BY <1>2, <1>t, <2>1 DEF Reload, Revisit, Unmount, WorkdayTypeOK
    <3> QED BY <3>1 DEF PanelTruth
  <2>2. CASE p # q
    <3>1. /\ view'[p] = view[p] /\ status'[p] = status[p]
          /\ error'[p] = error[p] /\ sure'[p] = sure[p]
      BY <1>2, <1>t, <2>2 DEF Reload, Revisit, Unmount, WorkdayTypeOK
    <3>2. Active' <=> Active
      BY <1>2 DEF Reload, Revisit, Unmount, Active
    <3>3. reqs' = [r \in Slot |->
                     IF reqs[r].by = q THEN [reqs[r] EXCEPT !.by = Nobody] ELSE reqs[r]]
      BY <1>2 DEF Reload, Revisit, Unmount
    <3>4. \A r \in Slot : reqs[r].by = q => reqs'[r].by = Nobody
      BY <1>t, <3>3 DEF WorkdayTypeOK, WorkdayRequest
    <3>5. \A r \in Slot : reqs[r].by # q => reqs'[r] = reqs[r]
      BY <3>3
    <3> QED BY <1>t, <2>2, <3>1, <3>2, <3>4, <3>5, TruthKept, WorkdayAssumption
  <2> QED BY <2>1, <2>2
<1>3. ASSUME NEW q \in Panel, RenderPage(q) PROVE PanelTruth(p)'
  <2>1. (Active' <=> Active) /\ reqs' = reqs /\ error' = error
    BY <1>3 DEF RenderPage, Active
  <2>2. CASE p = q
    <3>1. view'[p] = "rendered" /\ (sure'[p] => (status'[p] <=> Active))
      BY <1>3, <1>t, <2>2 DEF RenderPage, WorkdayTypeOK
    <3>2. \A r \in Slot : reqs[r].by # p
      BY <1>3, <2>2 DEF RenderPage, WorkdayInv, Waits
    <3> QED BY <2>1, <3>1, <3>2 DEF PanelTruth
  <2>3. CASE p # q
    <3>1. view'[p] = view[p] /\ status'[p] = status[p] /\ sure'[p] = sure[p]
      BY <1>3, <1>t, <2>3 DEF RenderPage, WorkdayTypeOK
    <3> QED BY <1>t, <2>1, <3>1, TruthKept
  <2> QED BY <2>2, <2>3
<1>4. ASSUME NEW q \in Panel, ShowPage(q) PROVE PanelTruth(p)'
  <2>1. /\ Active' <=> Active
        /\ reqs' = reqs /\ error' = error /\ status' = status /\ sure' = sure
    BY <1>4 DEF ShowPage, Active
  <2>2. view'[p] = view[p] \/ (view[p] = "rendered" /\ view'[p] = "shown")
    <3>1. view \in [Panel -> {"asked", "rendered", "shown"}]
      BY <1>t DEF WorkdayTypeOK
    <3>2. view[q] = "rendered" /\ view' = [view EXCEPT ![q] = "shown"]
      BY <1>4 DEF ShowPage
    <3> QED BY <3>1, <3>2
  <2>3. Busy(p)' <=> Busy(p)
    BY <2>1 DEF Busy
  <2> QED BY <1>t, <2>1, <2>2, <2>3 DEF PanelTruth
<1>5. ASSUME NEW q \in Panel, Press(q) PROVE PanelTruth(p)'
  <2> DEFINE asks == [NoRequest EXCEPT !.kind = IF status[q] THEN "end" ELSE "start", !.by = q]
  <2>1. asks.by = q /\ asks.pc = "sent"
    BY DEF NoRequest
  <2> HIDE DEF asks
  <2>2. PICK r \in Slot : reqs[r].kind = "none" /\ reqs' = [reqs EXCEPT ![r] = asks]
    BY <1>5 DEF Press, asks
  <2>3. reqs[r].by \notin Panel
    BY <2>2 DEF WorkdayInv, Waits
  <2>4. reqs'[r] = asks /\ \A x \in Slot : x # r => reqs'[x] = reqs[x]
    BY <1>t, <2>2 DEF WorkdayTypeOK
  <2>5. (Active' <=> Active) /\ sure' = sure /\ view' = view /\ status' = status
    BY <1>5 DEF Press, Active
  <2>6. CASE p = q
    <3>1. Busy(p)' /\ view'[p] = "shown"
      BY <1>5, <2>1, <2>4, <2>6 DEF Press, Busy
    <3>2. \A x \in Slot : reqs'[x].by = p => x = r
      BY <1>5, <2>4, <2>6 DEF Press, Busy
    <3> QED BY <2>1, <2>4, <3>1, <3>2 DEF PanelTruth
  <2>7. CASE p # q
    <3>1. error'[p] = error[p]
      BY <1>5, <1>t, <2>7 DEF Press, WorkdayTypeOK
    <3>2. \A x \in Slot : reqs'[x].by = p <=> reqs[x].by = p
      BY <2>1, <2>3, <2>4, <2>7
    <3>3. \A x \in Slot : reqs[x].by = p => reqs'[x] = reqs[x]
      BY <2>3, <2>4
    <3> QED BY <1>t, <2>5, <3>1, <3>2, <3>3, TruthKept
  <2> QED BY <2>6, <2>7
<1>6. ASSUME NEW r \in Slot, Receive(r) PROVE PanelTruth(p)'
  <2>1. reqs[r].by \in Panel /\ reqs[r].pc = "done" /\ reqs' = [reqs EXCEPT ![r] = NoRequest]
    BY <1>6 DEF Receive
  <2>2. reqs'[r] = NoRequest /\ \A x \in Slot : x # r => reqs'[x] = reqs[x]
    BY <1>t, <2>1 DEF WorkdayTypeOK
  <2>3. (Active' <=> Active) /\ sure' = sure /\ view' = view
    BY <1>6 DEF Receive, Active
  <2>4. CASE p = reqs[r].by
    <3>1. view'[p] = "shown"
      BY <2>3, <2>4 DEF WorkdayInv, Waits
    <3>2. \A x \in Slot : reqs'[x].by # p
      BY <2>2, <2>4, WorkdayNothingTyped DEF WorkdayInv, OneCall
    <3>3. error'[p] = ~reqs[r].ok /\ (reqs[r].ok => (status'[p] <=> reqs[r].kind = "start"))
      BY <1>6, <1>t, <2>4 DEF Receive, WorkdayTypeOK, WorkdayRequest
    <3>4. sure[p] /\ reqs[r].ok => (Active <=> reqs[r].kind = "start")
      BY <1>t, <2>1, <2>4 DEF PanelTruth
    <3> QED BY <2>3, <3>1, <3>2, <3>3, <3>4 DEF PanelTruth
  <2>5. CASE p # reqs[r].by
    <3>1. status'[p] = status[p] /\ error'[p] = error[p]
      BY <1>6, <1>t, <2>5 DEF Receive, WorkdayTypeOK
    <3> QED BY <1>t, <2>2, <2>3, <2>5, <3>1, TruthKept, WorkdayNothingTyped
  <2> QED BY <2>4, <2>5
<1>7. ASSUME NEW r \in Slot, CallFails(r) PROVE PanelTruth(p)'
  <2>1. reqs[r].by \in Panel /\ reqs' = [reqs EXCEPT ![r].by = Nobody]
    BY <1>7 DEF CallFails
  <2>2. reqs'[r].by = Nobody /\ \A x \in Slot : x # r => reqs'[x] = reqs[x]
    BY <1>t, <2>1 DEF WorkdayTypeOK, WorkdayRequest
  <2>3. (Active' <=> Active) /\ sure' = sure /\ view' = view /\ status' = status
    BY <1>7 DEF CallFails, Active
  <2>4. CASE p = reqs[r].by
    <3>1. view'[p] = "shown" /\ error'[p]
      BY <1>7, <1>t, <2>3, <2>4 DEF CallFails, WorkdayTypeOK, WorkdayInv, Waits
    <3>2. \A x \in Slot : reqs'[x].by # p
      BY <2>2, <2>4, WorkdayAssumption DEF WorkdayInv, OneCall
    <3> QED BY <3>1, <3>2 DEF PanelTruth
  <2>5. CASE p # reqs[r].by
    <3>1. error'[p] = error[p]
      BY <1>7, <1>t, <2>5 DEF CallFails, WorkdayTypeOK
    <3> QED BY <1>t, <2>2, <2>3, <2>5, <3>1, TruthKept, WorkdayAssumption
  <2> QED BY <2>4, <2>5
<1>8. ASSUME NEW r \in Slot, Refuse(r) PROVE PanelTruth(p)'
  <2>1. (Active' <=> Active) /\ sure' = sure /\ view' = view /\ status' = status /\ error' = error
    BY <1>8 DEF Refuse, Active
  <2>2. \A x \in Slot : reqs'[x].by = reqs[x].by /\ (reqs'[x] = reqs[x] \/ ~reqs'[x].ok)
    BY <1>8, <1>t, AnswerTyped DEF Refuse
  <2> QED BY <1>t, <2>1, <2>2, TruthKept
<1>9. ASSUME NEW r \in Slot, FindExisting(r) PROVE PanelTruth(p)'
  <2>1. CASE Active
    <3>1. Active' /\ reqs[r].kind = "start"
      BY <1>9, <2>1 DEF FindExisting, Active, At
    <3> QED BY <1>9, <2>1, <3>1, TruthTold DEF FindExisting
  <2>2. CASE ~Active
    <3>1. reqs' = [reqs EXCEPT ![r].pc = "create"]
      BY <1>9, <2>2 DEF FindExisting
    <3>2. (Active' <=> Active) /\ UNCHANGED <<view, status, error, sure>>
      BY <1>9, <2>2 DEF FindExisting, Active
    <3>3. /\ reqs'[r].by = reqs[r].by /\ reqs'[r].pc = "create"
          /\ \A x \in Slot : x # r => reqs'[x] = reqs[x]
      BY <1>t, <3>1 DEF WorkdayTypeOK, WorkdayRequest
    <3>4. \A x \in Slot : reqs'[x].by = reqs[x].by
      BY <3>3
    <3>5. \A x \in Slot : reqs'[x] = reqs[x] \/ reqs'[x].pc # "done"
      BY <3>3
    <3> QED BY <1>t, <3>2, <3>4, <3>5, TruthKept
  <2> QED BY <2>1, <2>2
<1>10. ASSUME NEW r \in Slot, CreateSession(r) PROVE PanelTruth(p)'
  <2>1. Active' /\ reqs[r].kind = "start"
    BY <1>10, <1>t DEF CreateSession, Active, At, WorkdayTypeOK
  <2> QED BY <1>10, <2>1, TruthTold DEF CreateSession
<1>11. ASSUME NEW r \in Slot, FindToEnd(r) PROVE PanelTruth(p)'
  <2>1. ASSUME ~Active, Answer(r, TRUE), Told(r, TRUE) PROVE PanelTruth(p)'
    <3>1. ~Active' /\ reqs[r].kind = "end"
      BY <1>11, <2>1 DEF FindToEnd, Active, At
    <3> QED BY <1>11, <2>1, <3>1, TruthTold DEF FindToEnd
  <2>2. ASSUME NEW s \in Session, UNCHANGED sure,
               reqs' = [reqs EXCEPT ![r].pc = "close", ![r].sid = s]
        PROVE  PanelTruth(p)'
    <3>1. (Active' <=> Active) /\ UNCHANGED <<view, status, error>>
      BY <1>11 DEF FindToEnd, Active
    <3>2. /\ reqs'[r].by = reqs[r].by /\ reqs'[r].pc = "close"
          /\ \A x \in Slot : x # r => reqs'[x] = reqs[x]
      BY <1>t, <2>2 DEF WorkdayTypeOK, WorkdayRequest
    <3>3. \A x \in Slot : reqs'[x].by = reqs[x].by
      BY <3>2
    <3>4. \A x \in Slot : reqs'[x] = reqs[x] \/ reqs'[x].pc # "done"
      BY <3>2
    <3> QED BY <1>t, <2>2, <3>1, <3>3, <3>4, TruthKept
  <2> QED BY <1>11, <2>1, <2>2 DEF FindToEnd
<1>12. ASSUME NEW r \in Slot, CloseFound(r) PROVE PanelTruth(p)'
  <2>1. (~Active') \in BOOLEAN /\ (~Active' => (Active' <=> reqs[r].kind = "start"))
    BY <1>12 DEF CloseFound, Active, At
  <2> QED BY <1>12, <2>1, TruthTold DEF CloseFound
<1>13. ASSUME NEW r \in Slot, Vanish(r) PROVE PanelTruth(p)'
  <2>1. reqs' = [reqs EXCEPT ![r] = NoRequest] /\ reqs[r].by \notin Panel
    BY <1>13, WorkdayAssumption DEF Vanish
  <2>2. reqs'[r] = NoRequest /\ \A x \in Slot : x # r => reqs'[x] = reqs[x]
    BY <1>t, <2>1 DEF WorkdayTypeOK
  <2>3. (Active' <=> Active) /\ UNCHANGED <<view, status, error, sure>>
    BY <1>13 DEF Vanish, Active
  <2> QED BY <1>t, <2>1, <2>2, <2>3, TruthKept, WorkdayNothingTyped
<1>14. CASE Elsewhere
  <2>1. sure'[p] => sure[p] /\ (Active' <=> Active)
    BY <1>14 DEF Elsewhere
  <2>2. UNCHANGED <<reqs, view, status, error>>
    BY <1>14 DEF Elsewhere
  <2> QED BY <1>t, <2>1, <2>2, TruthKept
<1> QED BY <1>1, <1>2, <1>3, <1>4, <1>5, <1>6, <1>7, <1>8, <1>9, <1>10, <1>11, <1>12,
           <1>13, <1>14 DEF WorkdayNext, Browser, Backend

-----------------------------------------------------------------------------
LEMMA WorkdayInvariant == WorkdaySpec => []WorkdayInv
<1>1. WorkdayInv /\ [WorkdayNext]_workdayVars => WorkdayInv'
  BY WorkdayTypedStep, CallsStep, TruthStep DEF WorkdayInv
<1> QED BY <1>1, WorkdayInitEstablishes, PTL DEF WorkdaySpec

\* Sessions, requests and pages keep their types, and a handler closes only a session that it
\* has found.
THEOREM WorkdayTypeCorrect == WorkdaySpec => []WorkdayTypeOK
<1>1. WorkdayInv => WorkdayTypeOK
  BY DEF WorkdayInv
<1> QED BY <1>1, WorkdayInvariant, PTL

\* What a panel at rest shows is so or comes with an error message (workday-panel.tsx:67-94),
\* also when the proxy answers an error for a call that the API has done, or does later
\* (proxy/[...path]/route.ts:29), and when two calls have opened two sessions; for every number
\* of pages, requests and sessions, and as far as the page was told (Told).
THEOREM PanelTellsTruth == WorkdaySpec => []PanelAgrees
<1>1. WorkdayInv => PanelAgrees
  BY DEF WorkdayInv, PanelTruth, PanelAgrees
<1> QED BY <1>1, WorkdayInvariant, PTL

=============================================================================
