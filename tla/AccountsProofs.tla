---------------------------- MODULE AccountsProofs ----------------------------
(***************************************************************************)
(* The safety properties of Accounts, for every number of users, calls,    *)
(* refresh tokens and enrolment tokens.                                    *)
(***************************************************************************)
EXTENDS Accounts, TLAPS

(***************************************************************************)
(* The inductive invariant.  A call is granted because of what it saw on   *)
(* its way, and what it saw last still says something of the moment it was *)
(* sent: a suspended user stays suspended, a token that is gone stays      *)
(* gone.  A token on its way to the browser is known to nobody else, so    *)
(* nothing can have spent it when it is stored.                            *)
(***************************************************************************)

\* Every token issued has an owner.
Issued ==
  /\ \A t \in 1..issued : owner[t] \in User
  /\ \A e \in EnrollToken : enroll[e].state # "none" => enroll[e].user \in User

\* Which kinds of call reach which step, and what they carry.
OnItsWay ==
  \A c \in Call :
    LET q == calls[c] IN
    /\ q.token \in 0..issued
    /\ q.pc = "idle" => q.token = None
    /\ q.kind \in {"login", "enroll"} => q.token = None
    /\ q.kind = "logout" => q.pc \in {"revoke", "revoked"}
    /\ q.pc = "get" => q.kind = "refresh" /\ q.token \in 1..issued
    /\ q.pc \in {"del", "find", "issue"} => q.kind \in {"login", "refresh"} /\ q.user \in User
    /\ q.pc = "issued" => q.kind \in {"login", "refresh"} /\ q.next \in 1..issued
    /\ q.pc \in {"lookup", "transact", "enrolled"} =>
         q.kind = "enroll" /\ q.enroll \in EnrollToken /\ enroll[q.enroll].state # "none"

\* What a call that may still be granted knows of the moment it was sent.
SentGood ==
  \A c \in Call :
    LET q == calls[c] IN
    /\ q.pc = "get" /\ q.token \in live /\ Active(owner[q.token]) => q.good
    /\ q.pc \in {"del", "find"} /\ Active(q.user) => q.good
    /\ q.pc = "lookup" /\ enroll[q.enroll].state = "fresh" /\ Active(enroll[q.enroll].user)
         => q.good
    /\ q.pc \in {"issue", "transact"} => q.good

\* A token in an answer is good, and known to nobody yet.
Answered(c) == calls[c].pc = "issued"

Fresh ==
  \A c \in Call :
    Answered(c) =>
      /\ calls[c].next # auth
      /\ calls[c].next \in live \/ calls[c].next \in forfeited

Unspent == \A c, d \in Call : Answered(c) => calls[d].token # calls[c].next

Distinct == \A c, d \in Call : Answered(c) /\ Answered(d) /\ c # d => calls[c].next # calls[d].next

\* A call whose client is gone has forfeited its token.
Forgotten ==
  \A c \in Call : ~calls[c].waiting /\ calls[c].token # None => calls[c].token \in forfeited

\* StoredTokenLive, with the call that presents the token.
Held ==
  auth # None /\ auth \notin live /\ auth \notin forfeited => \E c \in Call : calls[c].token = auth

IInv ==
  /\ TypeOK /\ Issued /\ OnItsWay
  /\ SentGood /\ GoodCredentials
  /\ Fresh /\ Unspent /\ Distinct /\ Forgotten /\ Held
  /\ ConsumedIffEnrolled

\* One call goes from p to pc; it may learn its user and the token of its answer.
Moves(c, p, pc, user, next) ==
  /\ calls[c].pc = p
  /\ calls' \in [Call -> CallRecord]
  /\ \A d \in Call : d # c => calls'[d] = calls[d]
  /\ calls'[c].pc = pc /\ calls'[c].user = user /\ calls'[c].next = next
  /\ calls'[c].kind = calls[c].kind /\ calls'[c].token = calls[c].token
  /\ calls'[c].enroll = calls[c].enroll /\ calls'[c].waiting = calls[c].waiting
  /\ calls'[c].good = calls[c].good

\* One call begins or ends: its record is replaced.
Becomes(c, q) ==
  /\ calls' \in [Call -> CallRecord]
  /\ \A d \in Call : d # c => calls'[d] = calls[d]
  /\ calls'[c] = q

\* The clients of some calls stop waiting.
Abandoned(C) ==
  /\ calls' \in [Call -> CallRecord]
  /\ \A d \in Call \ C : calls'[d] = calls[d]
  /\ \A d \in C :
       /\ ~calls'[d].waiting
       /\ calls'[d].pc = calls[d].pc /\ calls'[d].kind = calls[d].kind
       /\ calls'[d].user = calls[d].user /\ calls'[d].token = calls[d].token
       /\ calls'[d].enroll = calls[d].enroll /\ calls'[d].next = calls[d].next
       /\ calls'[d].good = calls[d].good
-----------------------------------------------------------------------------
LEMMA IdleTyped == Idle \in CallRecord
  BY DEF Idle, CallRecord, Place, Kind

LEMMA GotoMoves ==
  ASSUME TypeOK, NEW c \in Call, NEW pc \in Place, Goto(c, pc)
  PROVE  Moves(c, calls[c].pc, pc, calls[c].user, calls[c].next)
<1>1. calls[c] \in CallRecord
  BY DEF TypeOK
<1> DEFINE new == [calls[c] EXCEPT !.pc = pc]
<1>2. new \in CallRecord
  BY <1>1 DEF CallRecord
<1>3. /\ new.pc = pc /\ new.user = calls[c].user /\ new.next = calls[c].next
      /\ new.kind = calls[c].kind /\ new.token = calls[c].token
      /\ new.enroll = calls[c].enroll /\ new.waiting = calls[c].waiting
      /\ new.good = calls[c].good
  BY <1>1
<1>4. calls' = [calls EXCEPT ![c] = new]
  BY DEF Goto
<1> HIDE DEF new
<1> QED BY <1>2, <1>3, <1>4 DEF Moves, TypeOK

LEMMA FoundMoves ==
  ASSUME TypeOK, NEW c \in Call, NEW user \in User,
         calls' = [calls EXCEPT ![c] = [@ EXCEPT !.pc = "del", !.user = user]]
  PROVE  Moves(c, calls[c].pc, "del", user, calls[c].next)
<1>1. calls[c] \in CallRecord
  BY DEF TypeOK
<1> DEFINE new == [calls[c] EXCEPT !.pc = "del", !.user = user]
<1>2. new \in CallRecord
  BY <1>1 DEF CallRecord, Place
<1>3. /\ new.pc = "del" /\ new.user = user /\ new.next = calls[c].next
      /\ new.kind = calls[c].kind /\ new.token = calls[c].token
      /\ new.enroll = calls[c].enroll /\ new.waiting = calls[c].waiting
      /\ new.good = calls[c].good
  BY <1>1
<1>4. calls' = [calls EXCEPT ![c] = new]
  OBVIOUS
<1> HIDE DEF new
<1> QED BY <1>2, <1>3, <1>4 DEF Moves, TypeOK

LEMMA IssuedMoves ==
  ASSUME TypeOK, NEW c \in Call, NEW next \in Token,
         calls' = [calls EXCEPT ![c] = [@ EXCEPT !.pc = "issued", !.next = next]]
  PROVE  Moves(c, calls[c].pc, "issued", calls[c].user, next)
<1>1. calls[c] \in CallRecord
  BY DEF TypeOK
<1> DEFINE new == [calls[c] EXCEPT !.pc = "issued", !.next = next]
<1>2. new \in CallRecord
  BY <1>1 DEF CallRecord, Place
<1>3. /\ new.pc = "issued" /\ new.user = calls[c].user /\ new.next = next
      /\ new.kind = calls[c].kind /\ new.token = calls[c].token
      /\ new.enroll = calls[c].enroll /\ new.waiting = calls[c].waiting
      /\ new.good = calls[c].good
  BY <1>1
<1>4. calls' = [calls EXCEPT ![c] = new]
  OBVIOUS
<1> HIDE DEF new
<1> QED BY <1>2, <1>3, <1>4 DEF Moves, TypeOK

LEMMA InitEstablishes == Init => IInv
<1> SUFFICES ASSUME Init PROVE IInv
  OBVIOUS
<1> USE DEF Init
<1>1. TypeOK
  BY AccountsAssumption, IdleTyped DEF TypeOK, None
<1>2. Issued /\ SentGood /\ GoodCredentials
  BY DEF Issued, SentGood, GoodCredentials, Idle
<1>3. OnItsWay /\ Fresh /\ Unspent /\ Distinct /\ Forgotten /\ Held
  BY DEF OnItsWay, Fresh, Unspent, Distinct, Answered, Forgotten, Held, Idle, None
<1>4. ConsumedIffEnrolled
  BY DEF ConsumedIffEnrolled
<1> QED
  BY <1>1, <1>2, <1>3, <1>4 DEF IInv

LEMMA BeginBecomes ==
  ASSUME TypeOK, NEW c \in Call, NEW pc \in Place, NEW kind \in Kind,
         NEW user \in User \cup {NoUser}, NEW token \in Token \cup {None},
         NEW e \in EnrollToken \cup {None}, NEW good \in BOOLEAN,
         Begin(c, pc, kind, user, token, e, good)
  PROVE  /\ calls[c].pc = "idle"
         /\ Becomes(c, [pc |-> pc, kind |-> kind, user |-> user, token |-> token,
                        enroll |-> e, next |-> None, waiting |-> TRUE, good |-> good])
         /\ UNCHANGED <<status, enroll, devices, issued, owner, live, auth, forfeited>>
<1> DEFINE new == [pc |-> pc, kind |-> kind, user |-> user, token |-> token,
                   enroll |-> e, next |-> None, waiting |-> TRUE, good |-> good]
<1>1. new \in CallRecord
  BY DEF CallRecord
<1>2. calls[c].pc = "idle" /\ calls' = [calls EXCEPT ![c] = new]
  BY DEF Begin
<1>3. Becomes(c, new)
  <2> HIDE DEF new
  <2> QED BY <1>1, <1>2 DEF Becomes, TypeOK
<1> QED BY <1>2, <1>3 DEF Begin, tables, tokens

LEMMA LeftTyped ==
  ASSUME NEW q \in CallRecord
  PROVE  LET r == [q EXCEPT !.waiting = FALSE] IN
         /\ r \in CallRecord /\ ~r.waiting
         /\ r.pc = q.pc /\ r.kind = q.kind /\ r.user = q.user /\ r.token = q.token
         /\ r.enroll = q.enroll /\ r.next = q.next /\ r.good = q.good
  BY DEF CallRecord

LEMMA ReturnBecomes ==
  ASSUME TypeOK, NEW c \in Call, Return(c)
  PROVE  Becomes(c, Idle)
  BY IdleTyped DEF Return, Becomes, TypeOK

LEMMA LoginPreserves ==
  ASSUME IInv, NEW c \in Call, Login(c)
  PROVE  IInv'
<1> USE AccountsAssumption DEF IInv
<1> PICK u \in User : Begin(c, "find", "login", u, None, None, Active(u))
  BY DEF Login
<1> DEFINE good == Active(u)
<1>a. good \in BOOLEAN /\ (Active(u) => good)
  BY DEF Active
<1>b. Begin(c, "find", "login", u, None, None, good)
  OBVIOUS
<1>d. issued \in Nat
  BY DEF TypeOK
<1> HIDE DEF good
<1>0. /\ calls[c].pc = "idle"
      /\ Becomes(c, [pc |-> "find", kind |-> "login", user |-> u, token |-> None, enroll |-> None,
                     next |-> None, waiting |-> TRUE, good |-> good])
      /\ UNCHANGED <<status, enroll, devices, issued, owner, live, auth, forfeited>>
      /\ issued \in Nat /\ good \in BOOLEAN /\ (Active(u) => good)
  <2>1. TypeOK /\ "find" \in Place /\ "login" \in Kind
    BY DEF Place, Kind
  <2> HIDE DEF IInv
  <2> QED BY <1>a, <1>b, <1>d, <2>1, BeginBecomes
<1>1. TypeOK'
  BY <1>0 DEF TypeOK, Becomes
<1>2. Issued'
  BY <1>0 DEF Issued
<1>3. OnItsWay'
  BY <1>0 DEF Becomes, OnItsWay
<1>4. SentGood'
  BY <1>0 DEF Becomes, SentGood, Active
<1>5. GoodCredentials'
  BY <1>0 DEF Becomes, GoodCredentials
<1>6. Fresh'
  BY <1>0 DEF Becomes, Fresh, Answered
<1>7. Unspent'
  BY <1>0 DEF Becomes, Unspent, Answered, OnItsWay
<1>8. Distinct'
  BY <1>0 DEF Becomes, Distinct, Answered
<1>9. Forgotten'
  BY <1>0 DEF Becomes, Forgotten
<1>10. Held'
  BY <1>0 DEF Becomes, Held, OnItsWay
<1>11. ConsumedIffEnrolled'
  BY <1>0 DEF ConsumedIffEnrolled
<1> QED
  BY <1>1, <1>2, <1>3, <1>4, <1>5, <1>6, <1>7, <1>8, <1>9, <1>10, <1>11

LEMMA RefreshPreserves ==
  ASSUME IInv, NEW c \in Call, Refresh(c)
  PROVE  IInv'
<1> USE AccountsAssumption DEF IInv
<1> DEFINE good == auth \in live /\ Active(owner[auth])
<1>a. auth \in 1..issued /\ auth \in Token
  BY DEF Refresh, TypeOK, Token, None
<1>b. good \in BOOLEAN /\ (auth \in live /\ Active(owner[auth]) => good)
  OBVIOUS
<1>d. Begin(c, "get", "refresh", NoUser, auth, None, good)
  BY DEF Refresh
<1> HIDE DEF good
<1>0. /\ calls[c].pc = "idle"
      /\ Becomes(c, [pc |-> "get", kind |-> "refresh", user |-> NoUser, token |-> auth, enroll |-> None,
                     next |-> None, waiting |-> TRUE, good |-> good])
      /\ UNCHANGED <<status, enroll, devices, issued, owner, live, auth, forfeited>>
      /\ auth \in 1..issued
      /\ good \in BOOLEAN /\ (auth \in live /\ Active(owner[auth]) => good)
  <2>1. TypeOK /\ "get" \in Place /\ "refresh" \in Kind
    BY DEF Place, Kind
  <2> HIDE DEF IInv
  <2> QED BY <1>a, <1>b, <1>d, <2>1, BeginBecomes
<1>1. TypeOK'
  BY <1>0 DEF TypeOK, Becomes
<1>2. Issued'
  BY <1>0 DEF Issued
<1>3. OnItsWay'
  BY <1>0 DEF Becomes, OnItsWay
<1>4. SentGood'
  BY <1>0 DEF Becomes, SentGood, Active
<1>5. GoodCredentials'
  BY <1>0 DEF Becomes, GoodCredentials
<1>6. Fresh'
  BY <1>0 DEF Becomes, Fresh, Answered
<1>7. Unspent'
  BY <1>0 DEF Becomes, Unspent, Answered, Fresh
<1>8. Distinct'
  BY <1>0 DEF Becomes, Distinct, Answered
<1>9. Forgotten'
  BY <1>0 DEF Becomes, Forgotten
<1>10. Held'
  BY <1>0 DEF Becomes, Held
<1>11. ConsumedIffEnrolled'
  BY <1>0 DEF ConsumedIffEnrolled
<1> QED
  BY <1>1, <1>2, <1>3, <1>4, <1>5, <1>6, <1>7, <1>8, <1>9, <1>10, <1>11

LEMMA LogoutPreserves ==
  ASSUME IInv, NEW c \in Call, Logout(c)
  PROVE  IInv'
<1> USE AccountsAssumption DEF IInv
<1>a. auth \in 1..issued /\ auth \in Token
  BY DEF Logout, TypeOK, Token, None
<1>0. /\ calls[c].pc = "idle"
      /\ Becomes(c, [pc |-> "revoke", kind |-> "logout", user |-> NoUser, token |-> auth, enroll |-> None,
                     next |-> None, waiting |-> TRUE, good |-> FALSE])
      /\ UNCHANGED <<status, enroll, devices, issued, owner, live, auth, forfeited>>
      /\ auth \in 1..issued
  BY <1>a, BeginBecomes DEF Logout, Place, Kind
<1>1. TypeOK'
  BY <1>0 DEF TypeOK, Becomes
<1>2. Issued'
  BY <1>0 DEF Issued
<1>3. OnItsWay'
  BY <1>0 DEF Becomes, OnItsWay
<1>4. SentGood'
  BY <1>0 DEF Becomes, SentGood, Active
<1>5. GoodCredentials'
  BY <1>0 DEF Becomes, GoodCredentials
<1>6. Fresh'
  BY <1>0 DEF Becomes, Fresh, Answered
<1>7. Unspent'
  BY <1>0 DEF Becomes, Unspent, Answered, Fresh
<1>8. Distinct'
  BY <1>0 DEF Becomes, Distinct, Answered
<1>9. Forgotten'
  BY <1>0 DEF Becomes, Forgotten
<1>10. Held'
  BY <1>0 DEF Becomes, Held
<1>11. ConsumedIffEnrolled'
  BY <1>0 DEF ConsumedIffEnrolled
<1> QED
  BY <1>1, <1>2, <1>3, <1>4, <1>5, <1>6, <1>7, <1>8, <1>9, <1>10, <1>11

LEMMA EnrollPreserves ==
  ASSUME IInv, NEW c \in Call, Enroll(c)
  PROVE  IInv'
<1> USE AccountsAssumption DEF IInv
<1> PICK e \in EnrollToken :
       /\ enroll[e].state # "none"
       /\ Begin(c, "lookup", "enroll", enroll[e].user, None, e,
                enroll[e].state = "fresh" /\ Active(enroll[e].user))
  BY DEF Enroll
<1> DEFINE good == enroll[e].state = "fresh" /\ Active(enroll[e].user)
<1>a. good \in BOOLEAN /\ (enroll[e].state = "fresh" /\ Active(enroll[e].user) => good)
  OBVIOUS
<1>b. Begin(c, "lookup", "enroll", enroll[e].user, None, e, good)
  OBVIOUS
<1>d. issued \in Nat /\ enroll[e].user \in User \cup {NoUser}
  BY DEF TypeOK
<1> HIDE DEF good
<1>0. /\ calls[c].pc = "idle"
      /\ Becomes(c, [pc |-> "lookup", kind |-> "enroll", user |-> enroll[e].user, token |-> None, enroll |-> e,
                     next |-> None, waiting |-> TRUE, good |-> good])
      /\ UNCHANGED <<status, enroll, devices, issued, owner, live, auth, forfeited>>
      /\ enroll[e].state # "none"
      /\ issued \in Nat
      /\ good \in BOOLEAN /\ (enroll[e].state = "fresh" /\ Active(enroll[e].user) => good)
  <2>1. TypeOK /\ "lookup" \in Place /\ "enroll" \in Kind
    BY DEF Place, Kind
  <2> HIDE DEF IInv
  <2> QED BY <1>a, <1>b, <1>d, <2>1, BeginBecomes
<1>1. TypeOK'
  BY <1>0 DEF TypeOK, Becomes
<1>2. Issued'
  BY <1>0 DEF Issued
<1>3. OnItsWay'
  BY <1>0 DEF Becomes, OnItsWay
<1>4. SentGood'
  BY <1>0 DEF Becomes, SentGood, Active
<1>5. GoodCredentials'
  BY <1>0 DEF Becomes, GoodCredentials
<1>6. Fresh'
  BY <1>0 DEF Becomes, Fresh, Answered
<1>7. Unspent'
  BY <1>0 DEF Becomes, Unspent, Answered, OnItsWay
<1>8. Distinct'
  BY <1>0 DEF Becomes, Distinct, Answered
<1>9. Forgotten'
  BY <1>0 DEF Becomes, Forgotten
<1>10. Held'
  BY <1>0 DEF Becomes, Held, OnItsWay
<1>11. ConsumedIffEnrolled'
  BY <1>0 DEF ConsumedIffEnrolled
<1> QED
  BY <1>1, <1>2, <1>3, <1>4, <1>5, <1>6, <1>7, <1>8, <1>9, <1>10, <1>11

LEMMA RedisGetPreserves ==
  ASSUME IInv, NEW c \in Call, RedisGet(c)
  PROVE  IInv'
<1> USE AccountsAssumption DEF IInv
<1>a. calls[c].token \in live => owner[calls[c].token] \in User
  BY DEF TypeOK, Issued
<1>0. /\ calls[c].pc = "get"
      /\ \/ calls[c].token \in live /\ Moves(c, "get", "del", owner[calls[c].token], calls[c].next)
         \/ Moves(c, "get", "refused", calls[c].user, calls[c].next)
      /\ UNCHANGED <<status, enroll, devices, issued, owner, live, auth, forfeited>>
  BY <1>a, FoundMoves, GotoMoves DEF RedisGet, Place, tables, tokens
<1>1. TypeOK'
  BY <1>0 DEF TypeOK, Moves
<1>2. Issued'
  BY <1>0 DEF Issued
<1>3. OnItsWay'
  BY <1>0 DEF Moves, OnItsWay, Issued
<1>4. SentGood'
  BY <1>0 DEF Moves, SentGood, Active
<1>5. GoodCredentials'
  BY <1>0 DEF Moves, GoodCredentials
<1>6. Fresh'
  BY <1>0 DEF Moves, Fresh, Answered
<1>7. Unspent'
  BY <1>0 DEF Moves, Unspent, Answered
<1>8. Distinct'
  BY <1>0 DEF Moves, Distinct, Answered
<1>9. Forgotten'
  BY <1>0 DEF Moves, Forgotten
<1>10. Held'
  BY <1>0 DEF Moves, Held
<1>11. ConsumedIffEnrolled'
  BY <1>0 DEF ConsumedIffEnrolled
<1> QED
  BY <1>1, <1>2, <1>3, <1>4, <1>5, <1>6, <1>7, <1>8, <1>9, <1>10, <1>11

LEMMA RedisDelPreserves ==
  ASSUME IInv, NEW c \in Call, RedisDel(c)
  PROVE  IInv'
<1> USE AccountsAssumption DEF IInv
<1>0. /\ Moves(c, "del", "find", calls[c].user, calls[c].next)
      /\ live' = live \ {calls[c].token}
      /\ UNCHANGED <<status, enroll, devices, issued, owner, auth, forfeited>>
  BY GotoMoves DEF RedisDel, Place, tables
<1>1. TypeOK'
  BY <1>0 DEF TypeOK, Moves
<1>2. Issued'
  BY <1>0 DEF Issued
<1>3. OnItsWay'
  BY <1>0 DEF Moves, OnItsWay
<1>4. SentGood'
  BY <1>0 DEF Moves, SentGood, Active
<1>5. GoodCredentials'
  BY <1>0 DEF Moves, GoodCredentials
<1>6. Fresh'
  BY <1>0 DEF Moves, Fresh, Answered, Unspent
<1>7. Unspent'
  BY <1>0 DEF Moves, Unspent, Answered
<1>8. Distinct'
  BY <1>0 DEF Moves, Distinct, Answered
<1>9. Forgotten'
  BY <1>0 DEF Moves, Forgotten
<1>10. Held'
  BY <1>0 DEF Moves, Held
<1>11. ConsumedIffEnrolled'
  BY <1>0 DEF ConsumedIffEnrolled
<1> QED
  BY <1>1, <1>2, <1>3, <1>4, <1>5, <1>6, <1>7, <1>8, <1>9, <1>10, <1>11

LEMMA FindUserPreserves ==
  ASSUME IInv, NEW c \in Call, FindUser(c)
  PROVE  IInv'
<1> USE AccountsAssumption DEF IInv
<1>0. /\ \/ Active(calls[c].user) /\ Moves(c, "find", "issue", calls[c].user, calls[c].next)
         \/ Moves(c, "find", "refused", calls[c].user, calls[c].next)
      /\ UNCHANGED <<status, enroll, devices, issued, owner, live, auth, forfeited>>
  BY GotoMoves DEF FindUser, Place, tables, tokens
<1>1. TypeOK'
  BY <1>0 DEF TypeOK, Moves
<1>2. Issued'
  BY <1>0 DEF Issued
<1>3. OnItsWay'
  BY <1>0 DEF Moves, OnItsWay
<1>4. SentGood'
  BY <1>0 DEF Moves, SentGood, Active
<1>5. GoodCredentials'
  BY <1>0 DEF Moves, GoodCredentials
<1>6. Fresh'
  BY <1>0 DEF Moves, Fresh, Answered
<1>7. Unspent'
  BY <1>0 DEF Moves, Unspent, Answered
<1>8. Distinct'
  BY <1>0 DEF Moves, Distinct, Answered
<1>9. Forgotten'
  BY <1>0 DEF Moves, Forgotten
<1>10. Held'
  BY <1>0 DEF Moves, Held
<1>11. ConsumedIffEnrolled'
  BY <1>0 DEF ConsumedIffEnrolled
<1> QED
  BY <1>1, <1>2, <1>3, <1>4, <1>5, <1>6, <1>7, <1>8, <1>9, <1>10, <1>11

LEMMA IssueTokensPreserves ==
  ASSUME IInv, NEW c \in Call, IssueTokens(c)
  PROVE  IInv'
<1> USE AccountsAssumption DEF IInv
<1>a. issued + 1 \in Token /\ issued \in Nat /\ auth \in 0..issued
  BY DEF IssueTokens, TypeOK, Token
<1>0. /\ Moves(c, "issue", "issued", calls[c].user, issued + 1)
      /\ issued \in Nat /\ auth \in 0..issued
      /\ issued' = issued + 1
      /\ owner' = [owner EXCEPT ![issued + 1] = calls[c].user]
      /\ live' = live \cup {issued + 1}
      /\ UNCHANGED <<status, enroll, devices, auth, forfeited>>
  BY <1>a, IssuedMoves DEF IssueTokens, tables
<1>1. TypeOK'
  BY <1>0 DEF TypeOK, CallRecord, Token, None, Moves
<1>2. Issued'
  <2>1. calls[c].user \in User
    BY <1>0 DEF Moves, OnItsWay
  <2>2. owner'[issued + 1] = calls[c].user
    BY <1>0, <1>a DEF TypeOK
  <2>3. \A t \in 1..issued : owner'[t] = owner[t]
    BY <1>0, <1>a
  <2> QED BY <1>0, <2>1, <2>2, <2>3 DEF Issued
<1>3. OnItsWay'
  BY <1>0 DEF Moves, OnItsWay
<1>4. SentGood'
  BY <1>0 DEF Moves, SentGood, OnItsWay, Active
<1>5. GoodCredentials'
  BY <1>0 DEF Moves, GoodCredentials, SentGood
<1>6. Fresh'
  BY <1>0 DEF Moves, Fresh, Answered
<1>7. Unspent'
  BY <1>0 DEF Moves, Unspent, Answered, OnItsWay
<1>8. Distinct'
  BY <1>0 DEF Moves, Distinct, Answered, OnItsWay
<1>9. Forgotten'
  BY <1>0 DEF Moves, Forgotten
<1>10. Held'
  BY <1>0 DEF Moves, Held
<1>11. ConsumedIffEnrolled'
  BY <1>0 DEF ConsumedIffEnrolled
<1> QED
  BY <1>1, <1>2, <1>3, <1>4, <1>5, <1>6, <1>7, <1>8, <1>9, <1>10, <1>11

LEMMA RevokePreserves ==
  ASSUME IInv, NEW c \in Call, Revoke(c)
  PROVE  IInv'
<1> USE AccountsAssumption DEF IInv
<1>0. /\ Moves(c, "revoke", "revoked", calls[c].user, calls[c].next)
      /\ live' = live \ {calls[c].token}
      /\ UNCHANGED <<status, enroll, devices, issued, owner, auth, forfeited>>
  BY GotoMoves DEF Revoke, Place, tables
<1>1. TypeOK'
  BY <1>0 DEF TypeOK, Moves
<1>2. Issued'
  BY <1>0 DEF Issued
<1>3. OnItsWay'
  BY <1>0 DEF Moves, OnItsWay
<1>4. SentGood'
  BY <1>0 DEF Moves, SentGood, Active
<1>5. GoodCredentials'
  BY <1>0 DEF Moves, GoodCredentials
<1>6. Fresh'
  BY <1>0 DEF Moves, Fresh, Answered, Unspent
<1>7. Unspent'
  BY <1>0 DEF Moves, Unspent, Answered
<1>8. Distinct'
  BY <1>0 DEF Moves, Distinct, Answered
<1>9. Forgotten'
  BY <1>0 DEF Moves, Forgotten
<1>10. Held'
  BY <1>0 DEF Moves, Held
<1>11. ConsumedIffEnrolled'
  BY <1>0 DEF ConsumedIffEnrolled
<1> QED
  BY <1>1, <1>2, <1>3, <1>4, <1>5, <1>6, <1>7, <1>8, <1>9, <1>10, <1>11

LEMMA EnrollLookupPreserves ==
  ASSUME IInv, NEW c \in Call, EnrollLookup(c)
  PROVE  IInv'
<1> USE AccountsAssumption DEF IInv
<1>0. /\ \/ /\ enroll[calls[c].enroll].state = "fresh"
             /\ Active(enroll[calls[c].enroll].user)
             /\ Moves(c, "lookup", "transact", calls[c].user, calls[c].next)
         \/ Moves(c, "lookup", "refused", calls[c].user, calls[c].next)
      /\ UNCHANGED <<status, enroll, devices, issued, owner, live, auth, forfeited>>
  BY GotoMoves DEF EnrollLookup, Place, tables, tokens
<1>1. TypeOK'
  BY <1>0 DEF TypeOK, Moves
<1>2. Issued'
  BY <1>0 DEF Issued
<1>3. OnItsWay'
  BY <1>0 DEF Moves, OnItsWay
<1>4. SentGood'
  BY <1>0 DEF Moves, SentGood, Active
<1>5. GoodCredentials'
  BY <1>0 DEF Moves, GoodCredentials
<1>6. Fresh'
  BY <1>0 DEF Moves, Fresh, Answered
<1>7. Unspent'
  BY <1>0 DEF Moves, Unspent, Answered
<1>8. Distinct'
  BY <1>0 DEF Moves, Distinct, Answered
<1>9. Forgotten'
  BY <1>0 DEF Moves, Forgotten
<1>10. Held'
  BY <1>0 DEF Moves, Held
<1>11. ConsumedIffEnrolled'
  BY <1>0 DEF ConsumedIffEnrolled
<1> QED
  BY <1>1, <1>2, <1>3, <1>4, <1>5, <1>6, <1>7, <1>8, <1>9, <1>10, <1>11

LEMMA EnrollTransactPreserves ==
  ASSUME IInv, NEW c \in Call, EnrollTransact(c)
  PROVE  IInv'
<1> USE AccountsAssumption DEF IInv
<1>0. /\ Moves(c, "transact", "enrolled", calls[c].user, calls[c].next)
      /\ devices' = devices \cup {calls[c].enroll}
      /\ enroll' = [enroll EXCEPT ![calls[c].enroll].state = "consumed"]
      /\ UNCHANGED <<status, issued, owner, live, auth, forfeited>>
  BY GotoMoves DEF EnrollTransact, Place, tokens
<1>1. TypeOK'
  BY <1>0 DEF TypeOK, CallRecord, Moves, OnItsWay
<1>2. Issued'
  BY <1>0 DEF Moves, Issued, OnItsWay
<1>3. OnItsWay'
  BY <1>0 DEF Moves, OnItsWay
<1>4. SentGood'
  BY <1>0 DEF Moves, SentGood, Active
<1>5. GoodCredentials'
  BY <1>0 DEF Moves, GoodCredentials, SentGood
<1>6. Fresh'
  BY <1>0 DEF Moves, Fresh, Answered
<1>7. Unspent'
  BY <1>0 DEF Moves, Unspent, Answered
<1>8. Distinct'
  BY <1>0 DEF Moves, Distinct, Answered
<1>9. Forgotten'
  BY <1>0 DEF Moves, Forgotten
<1>10. Held'
  BY <1>0 DEF Moves, Held
<1>11. ConsumedIffEnrolled'
  BY <1>0 DEF ConsumedIffEnrolled, TypeOK
<1> QED
  BY <1>1, <1>2, <1>3, <1>4, <1>5, <1>6, <1>7, <1>8, <1>9, <1>10, <1>11

LEMMA ReceivePreserves ==
  ASSUME IInv, NEW c \in Call, Receive(c)
  PROVE  IInv'
<1> USE AccountsAssumption DEF IInv
<1>a. Becomes(c, Idle)
  BY ReturnBecomes DEF Receive
<1>b. \/ calls[c].pc = "issued" /\ auth' = calls[c].next
      \/ auth' = None
      \/ ~(calls[c].waiting /\ (calls[c].pc = "issued" \/ SignsOut(c))) /\ auth' = auth
  BY DEF Receive
<1>0. /\ Becomes(c, Idle)
      /\ calls[c].pc \in {"issued", "refused", "revoked", "enrolled"}
      /\ issued \in Nat
      /\ UNCHANGED <<status, enroll, devices, issued, owner, live, forfeited>>
  BY <1>a DEF TypeOK, Receive, Done, tables, tokens
<1>1. TypeOK'
  BY <1>0, <1>b DEF TypeOK, None, Becomes, OnItsWay
<1>2. Issued'
  BY <1>0 DEF Issued
<1>3. OnItsWay'
  BY <1>0 DEF None, Becomes, Idle, OnItsWay
<1>4. SentGood'
  BY <1>0 DEF Becomes, Idle, SentGood, Active
<1>5. GoodCredentials'
  BY <1>0 DEF Becomes, Idle, GoodCredentials
<1>6. Fresh'
  BY <1>0, <1>b DEF None, Becomes, Idle, Fresh, Answered, OnItsWay, Distinct
<1>7. Unspent'
  BY <1>0, <1>b DEF None, Becomes, Idle, Unspent, Answered, OnItsWay
<1>8. Distinct'
  BY <1>0, <1>b DEF Becomes, Idle, Distinct, Answered
<1>9. Forgotten'
  BY <1>0, <1>b DEF Becomes, Idle, Forgotten
<1>10. Held'
  <2>1. CASE calls[c].pc = "issued" /\ auth' = calls[c].next
    BY <1>0, <2>1 DEF Held, Fresh, Answered
  <2>2. CASE auth' = None
    BY <2>2 DEF Held
  <2>3. CASE auth' = auth /\ ~(calls[c].waiting /\ (calls[c].pc = "issued" \/ SignsOut(c)))
    <3>1. calls[c].token = None \/ calls[c].token \in forfeited
      <4>1. calls[c].waiting => calls[c].kind \in {"login", "enroll"} \/ calls[c].pc = "enrolled"
        <5>1. calls[c].kind \in Kind
          BY DEF TypeOK, CallRecord
        <5> QED BY <1>0, <2>3, <5>1 DEF SignsOut, OnItsWay, Kind
      <4> QED BY <4>1 DEF OnItsWay, Forgotten
    <3> QED BY <1>0, <2>3, <3>1 DEF Held, Becomes
  <2> QED BY <1>b, <2>1, <2>2, <2>3
<1>11. ConsumedIffEnrolled'
  BY <1>0 DEF ConsumedIffEnrolled
<1> QED
  BY <1>1, <1>2, <1>3, <1>4, <1>5, <1>6, <1>7, <1>8, <1>9, <1>10, <1>11

LEMMA LosePreserves ==
  ASSUME IInv, NEW c \in Call, Lose(c)
  PROVE  IInv'
<1> USE AccountsAssumption DEF IInv
<1>a. ASSUME calls' = [calls EXCEPT ![c].waiting = FALSE]
      PROVE  Abandoned({c})
  BY <1>a, LeftTyped DEF Abandoned, TypeOK
<1>0. /\ Becomes(c, Idle) \/ Abandoned({c})
      /\ auth' = auth \/ auth' = None
      /\ forfeited' = forfeited \cup ({calls[c].token} \ {None})
      /\ issued \in Nat
      /\ UNCHANGED <<status, enroll, devices, issued, owner, live>>
  BY <1>a, ReturnBecomes DEF TypeOK, Lose, Presented, tables, tokens
<1>1. TypeOK'
  <2>1. issued \in Nat /\ forfeited \subseteq 1..issued
    BY DEF TypeOK
  <2>2. \A d \in Call : calls[d].token # None => calls[d].token \in 1..issued
    BY <2>1 DEF OnItsWay, None
  <2>3. forfeited' \subseteq 1..issued
    BY <1>0, <2>1, <2>2
  <2> QED BY <1>0, <2>3 DEF TypeOK, Becomes, Abandoned, None
<1>2. Issued'
  BY <1>0 DEF Issued
<1>3. OnItsWay'
  BY <1>0 DEF None, Becomes, Abandoned, Idle, OnItsWay
<1>4. SentGood'
  BY <1>0 DEF Becomes, Abandoned, Idle, SentGood, Active
<1>5. GoodCredentials'
  BY <1>0 DEF Becomes, Abandoned, Idle, GoodCredentials
<1>6. Fresh'
  BY <1>0 DEF None, Becomes, Abandoned, Idle, Fresh, Answered, OnItsWay
<1>7. Unspent'
  BY <1>0 DEF None, Becomes, Abandoned, Idle, Unspent, Answered, OnItsWay
<1>8. Distinct'
  BY <1>0 DEF Becomes, Abandoned, Idle, Distinct, Answered
<1>9. Forgotten'
  BY <1>0 DEF Becomes, Abandoned, Idle, Forgotten
<1>10. Held'
  BY <1>0 DEF Becomes, Abandoned, Held
<1>11. ConsumedIffEnrolled'
  BY <1>0 DEF ConsumedIffEnrolled
<1> QED
  BY <1>1, <1>2, <1>3, <1>4, <1>5, <1>6, <1>7, <1>8, <1>9, <1>10, <1>11

LEMMA KillPreserves ==
  ASSUME IInv, Kill
  PROVE  IInv'
<1> USE AccountsAssumption DEF IInv
<1>a. Abandoned(Call)
  BY LeftTyped DEF Kill, Abandoned, TypeOK
<1>0. /\ Abandoned(Call)
      /\ forfeited' = forfeited \cup ({calls[c].token : c \in {c \in Call : calls[c].waiting}} \ {None})
      /\ UNCHANGED <<status, enroll, devices, issued, owner, live, auth>>
  BY <1>a DEF Kill, Presented, tables, tokens
<1>1. TypeOK'
  <2>1. issued \in Nat /\ forfeited \subseteq 1..issued
    BY DEF TypeOK
  <2>2. \A d \in Call : calls[d].token # None => calls[d].token \in 1..issued
    BY <2>1 DEF OnItsWay, None
  <2>3. forfeited' \subseteq 1..issued
    BY <1>0, <2>1, <2>2
  <2> QED BY <1>0, <2>3 DEF TypeOK, Abandoned
<1>2. Issued'
  BY <1>0 DEF Issued
<1>3. OnItsWay'
  BY <1>0 DEF Abandoned, OnItsWay
<1>4. SentGood'
  BY <1>0 DEF Abandoned, SentGood, Active
<1>5. GoodCredentials'
  BY <1>0 DEF Abandoned, GoodCredentials
<1>6. Fresh'
  BY <1>0 DEF Abandoned, Fresh, Answered
<1>7. Unspent'
  BY <1>0 DEF Abandoned, Unspent, Answered
<1>8. Distinct'
  BY <1>0 DEF Abandoned, Distinct, Answered
<1>9. Forgotten'
  BY <1>0 DEF Abandoned, Forgotten
<1>10. Held'
  BY <1>0 DEF Held, Forgotten
<1>11. ConsumedIffEnrolled'
  BY <1>0 DEF ConsumedIffEnrolled
<1> QED
  BY <1>1, <1>2, <1>3, <1>4, <1>5, <1>6, <1>7, <1>8, <1>9, <1>10, <1>11

LEMMA ExpirePreserves ==
  ASSUME IInv, NEW t \in Token, Expire(t)
  PROVE  IInv'
<1> USE AccountsAssumption DEF IInv
<1>0. /\ live' = live \ {t}
      /\ t \in live
      /\ forfeited' = forfeited \cup {t}
      /\ calls' = calls
      /\ UNCHANGED <<status, enroll, devices, issued, owner, auth>>
  BY DEF Expire, tables
<1>1. TypeOK'
  BY <1>0 DEF TypeOK
<1>2. Issued'
  BY <1>0 DEF Issued
<1>3. OnItsWay'
  BY <1>0 DEF OnItsWay
<1>4. SentGood'
  BY <1>0 DEF SentGood, Active
<1>5. GoodCredentials'
  BY <1>0 DEF GoodCredentials
<1>6. Fresh'
  BY <1>0 DEF Fresh, Answered
<1>7. Unspent'
  BY <1>0 DEF Unspent, Answered
<1>8. Distinct'
  BY <1>0 DEF Distinct, Answered
<1>9. Forgotten'
  BY <1>0 DEF Forgotten
<1>10. Held'
  BY <1>0 DEF Held
<1>11. ConsumedIffEnrolled'
  BY <1>0 DEF ConsumedIffEnrolled
<1> QED
  BY <1>1, <1>2, <1>3, <1>4, <1>5, <1>6, <1>7, <1>8, <1>9, <1>10, <1>11

LEMMA SetStatusPreserves ==
  ASSUME IInv, NEW u \in User, SetStatus(u)
  PROVE  IInv'
<1> USE AccountsAssumption DEF IInv
<1>0. /\ status' \in [User -> {"active", "suspended", "deleted"}]
      /\ \A v \in User : status'[v] = "active" => status[v] = "active"
      /\ calls' = calls
      /\ UNCHANGED <<enroll, devices, issued, owner, live, auth, forfeited>>
  BY DEF SetStatus, TypeOK, tokens
<1>1. TypeOK'
  BY <1>0 DEF TypeOK
<1>2. Issued'
  BY <1>0 DEF Issued
<1>3. OnItsWay'
  BY <1>0 DEF OnItsWay
<1>4. SentGood'
  BY <1>0 DEF SentGood, OnItsWay, Issued, Active
<1>5. GoodCredentials'
  BY <1>0 DEF GoodCredentials
<1>6. Fresh'
  BY <1>0 DEF Fresh, Answered
<1>7. Unspent'
  BY <1>0 DEF Unspent, Answered
<1>8. Distinct'
  BY <1>0 DEF Distinct, Answered
<1>9. Forgotten'
  BY <1>0 DEF Forgotten
<1>10. Held'
  BY <1>0 DEF Held
<1>11. ConsumedIffEnrolled'
  BY <1>0 DEF ConsumedIffEnrolled
<1> QED
  BY <1>1, <1>2, <1>3, <1>4, <1>5, <1>6, <1>7, <1>8, <1>9, <1>10, <1>11

LEMMA IssueEnrollTokenPreserves ==
  ASSUME IInv, NEW e \in EnrollToken, IssueEnrollToken(e)
  PROVE  IInv'
<1> USE AccountsAssumption DEF IInv
<1> PICK u \in User : enroll' = [enroll EXCEPT ![e] = [user |-> u, state |-> "fresh"]]
  BY DEF IssueEnrollToken
<1>0. /\ enroll[e].state = "none"
      /\ enroll' = [enroll EXCEPT ![e] = [user |-> u, state |-> "fresh"]]
      /\ calls' = calls
      /\ UNCHANGED <<status, devices, issued, owner, live, auth, forfeited>>
  BY DEF IssueEnrollToken, tokens
<1>1. TypeOK'
  BY <1>0 DEF TypeOK
<1>2. Issued'
  BY <1>0 DEF Issued
<1>3. OnItsWay'
  BY <1>0 DEF OnItsWay
<1>4. SentGood'
  BY <1>0 DEF SentGood, OnItsWay, Active
<1>5. GoodCredentials'
  BY <1>0 DEF GoodCredentials
<1>6. Fresh'
  BY <1>0 DEF Fresh, Answered
<1>7. Unspent'
  BY <1>0 DEF Unspent, Answered
<1>8. Distinct'
  BY <1>0 DEF Distinct, Answered
<1>9. Forgotten'
  BY <1>0 DEF Forgotten
<1>10. Held'
  BY <1>0 DEF Held
<1>11. ConsumedIffEnrolled'
  BY <1>0 DEF ConsumedIffEnrolled
<1> QED
  BY <1>1, <1>2, <1>3, <1>4, <1>5, <1>6, <1>7, <1>8, <1>9, <1>10, <1>11

LEMMA NextPreserves ==
  ASSUME IInv, [Next]_vars
  PROVE  IInv'
<1>1. ASSUME NEW c \in Call,
             Login(c) \/ Refresh(c) \/ Logout(c) \/ Enroll(c) \/ Receive(c) \/ Lose(c)
      PROVE  IInv'
  BY <1>1, LoginPreserves, RefreshPreserves, LogoutPreserves, EnrollPreserves,
     ReceivePreserves, LosePreserves
<1>2. ASSUME NEW c \in Call, Server(c)
      PROVE  IInv'
  BY <1>2, RedisGetPreserves, RedisDelPreserves, FindUserPreserves, IssueTokensPreserves,
     RevokePreserves, EnrollLookupPreserves, EnrollTransactPreserves DEF Server
<1>3. ASSUME NEW t \in Token, Expire(t)
      PROVE  IInv'
  BY <1>3, ExpirePreserves
<1>4. ASSUME NEW u \in User, SetStatus(u)
      PROVE  IInv'
  BY <1>4, SetStatusPreserves
<1>5. ASSUME NEW e \in EnrollToken, IssueEnrollToken(e)
      PROVE  IInv'
  BY <1>5, IssueEnrollTokenPreserves
<1>6. CASE UNCHANGED vars
  BY <1>6 DEF vars, IInv, TypeOK, Issued, OnItsWay, SentGood, GoodCredentials, Fresh, Unspent,
     Distinct, Forgotten, Held, ConsumedIffEnrolled, Answered, Active
<1> QED
  BY <1>1, <1>2, <1>3, <1>4, <1>5, <1>6, KillPreserves DEF Next

LEMMA AccountsInvariant == Spec => []IInv
  BY InitEstablishes, NextPreserves, PTL DEF Spec
-----------------------------------------------------------------------------
\* Every call and every table of Accounts keeps its type.
THEOREM AccountsTypeCorrect == Spec => []TypeOK
<1>1. IInv => TypeOK
  BY DEF IInv
<1> QED
  BY AccountsInvariant, <1>1, PTL

\* auth.service.ts, agent.service.ts: whoever is given tokens, or enrolled, had credentials
\* that were good when the request was sent, however the calls interleave.
THEOREM OnlyTheGoodAreGranted == Spec => []GoodCredentials
<1>1. IInv => GoodCredentials
  BY DEF IInv
<1> QED
  BY AccountsInvariant, <1>1, PTL

\* api.ts: the browser's token is taken by the server, or was forfeited, or is under way.
THEOREM BrowserKeepsALiveToken == Spec => []StoredTokenLive
<1>1. IInv => StoredTokenLive
  BY DEF IInv, Held, StoredTokenLive
<1> QED
  BY AccountsInvariant, <1>1, PTL

\* agent.service.ts, enrollAgent: a token is marked exactly when a device was created under it.
THEOREM MarkedWithItsDevice == Spec => []ConsumedIffEnrolled
<1>1. IInv => ConsumedIffEnrolled
  BY DEF IInv
<1> QED
  BY AccountsInvariant, <1>1, PTL

\* auth.service.ts: a refresh token that left Redis never comes back.
THEOREM TokensNeverRevive == Spec => NoRevival
<1>1. ASSUME TypeOK, [Next]_vars, NEW t \in 1..issued, t \notin live
      PROVE  t \notin live'
  <2>1. issued \in Nat
    BY <1>1 DEF TypeOK
  <2>2. live' \subseteq live \/ live' = live \cup {issued + 1}
    BY <1>1 DEF Next, Login, Refresh, Logout, Enroll, Begin, Server, RedisGet, RedisDel, FindUser,
       IssueTokens, Revoke, EnrollLookup, EnrollTransact, Receive, Lose, Kill, Expire, SetStatus,
       IssueEnrollToken, tables, tokens, vars
  <2> QED BY <1>1, <2>1, <2>2
<1>2. TypeOK /\ [Next]_vars => [\A t \in 1..issued : t \notin live => t \notin live']_vars
  BY <1>1
<1> QED
  BY AccountsTypeCorrect, <1>2, PTL DEF Spec, NoRevival
==============================================================================
