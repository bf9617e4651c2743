------------------------------ MODULE Accounts ------------------------------
(***************************************************************************)
(* Credentials: refresh tokens, enrolment tokens and the status of the     *)
(* users they belong to (services/auth.service.ts, users.service.ts and    *)
(* the enrolment half of agent.service.ts), with one browser extension     *)
(* that renews its token (apps/extension/src/lib/api.ts).                  *)
(*                                                                         *)
(* A call is a handler of the client together with the request it waits    *)
(* for; every command to Redis and every statement to Postgres is a step   *)
(* of it.  Calls interleave, those of one browser included: each of its    *)
(* handlers reads the storage, renews the token, and writes the storage.   *)
(* Refresh tokens are numbered in the order they are issued.               *)
(***************************************************************************)
EXTENDS Naturals, FiniteSets

CONSTANTS
  User,
  NoUser,
  Call,         \* slots for calls under way
  EnrollToken,  \* enrolment tokens that may be issued
  MaxTokens     \* bound: refresh tokens ever issued

ASSUME AccountsAssumption == NoUser \notin User /\ MaxTokens \in Nat

\* No token; also what a client holds that is signed out.
None == 0

Token == 1..MaxTokens

VARIABLES
  status,     \* User.status
  issued,     \* number of refresh tokens issued so far
  owner,      \* the user a refresh token was issued to
  live,       \* the keys rt:<jti> in Redis
  enroll,     \* the EnrollToken table
  devices,    \* enrolment tokens under which a device was created, with the calls that did
  auth,       \* the refresh token in the extension's storage
  calls,
  forfeited   \* history: refresh tokens that expired, or were presented in a call whose
              \* answer the client did not get

vars == <<status, issued, owner, live, enroll, devices, auth, calls, forfeited>>

Kind == {"login", "refresh", "logout", "enroll"}

Place == {"idle", "get", "del", "find", "issue", "issued", "refused", "revoke", "revoked",
          "lookup", "transact", "enrolled"}

CallRecord ==
  [pc : Place, kind : Kind, user : User \cup {NoUser}, token : Token \cup {None},
   enroll : EnrollToken \cup {None}, next : Token \cup {None}, waiting : BOOLEAN, good : BOOLEAN]

Idle == [pc |-> "idle", kind |-> "login", user |-> NoUser, token |-> None, enroll |-> None,
         next |-> None, waiting |-> FALSE, good |-> FALSE]

TypeOK ==
  /\ status \in [User -> {"active", "suspended", "deleted"}]
  /\ issued \in 0..MaxTokens
  /\ owner \in [Token -> User \cup {NoUser}]
  /\ live \subseteq 1..issued
  /\ enroll \in [EnrollToken -> [user : User \cup {NoUser}, state : {"none", "fresh", "consumed"}]]
  /\ devices \in SUBSET EnrollToken
  /\ auth \in 0..issued
  /\ calls \in [Call -> CallRecord]
  /\ forfeited \subseteq 1..issued

Init ==
  /\ status = [u \in User |-> "active"]
  /\ issued = 0
  /\ owner = [t \in Token |-> NoUser]
  /\ live = {}
  /\ enroll = [e \in EnrollToken |-> [user |-> NoUser, state |-> "none"]]
  /\ devices = {}
  /\ auth = None
  /\ calls = [c \in Call |-> Idle]
  /\ forfeited = {}

tables == <<status, enroll, devices>>
tokens == <<issued, owner, live>>
-----------------------------------------------------------------------------
(* The clients send.                                                       *)

Active(u) == status[u] = "active"

\* A call begins; `good' is history: whether its credentials were good when it was sent.
Begin(c, pc, kind, user, token, e, good) ==
  /\ calls[c].pc = "idle"
  /\ calls' = [calls EXCEPT ![c] = [pc |-> pc, kind |-> kind, user |-> user, token |-> token,
                                   enroll |-> e, next |-> None, waiting |-> TRUE, good |-> good]]
  /\ UNCHANGED <<tables, tokens, auth, forfeited>>

\* login, from the popup.
Login(c) == \E u \in User : Begin(c, "find", "login", u, None, None, Active(u))

\* getValidToken of a handler whose access token is about to expire.
Refresh(c) ==
  /\ auth # None
  /\ Begin(c, "get", "refresh", NoUser, auth, None, auth \in live /\ Active(owner[auth]))

\* logout; signed out already, nothing happens.
Logout(c) ==
  /\ auth # None
  /\ Begin(c, "revoke", "logout", NoUser, auth, None, FALSE)

\* POST /auth/agent/enroll, from an agent that was given the token.
Enroll(c) ==
  \E e \in EnrollToken :
    /\ enroll[e].state # "none"
    /\ Begin(c, "lookup", "enroll", enroll[e].user, None, e,
             enroll[e].state = "fresh" /\ Active(enroll[e].user))
-----------------------------------------------------------------------------
(* The server.                                                             *)

Goto(c, pc) == calls' = [calls EXCEPT ![c].pc = pc]

\* Mutant: the signature of the token is all that is asked.
RedisGetUnchecked(c) ==
  /\ calls[c].pc = "get"
  /\ calls' = [calls EXCEPT ![c] = [@ EXCEPT !.pc = "del", !.user = owner[calls[c].token]]]
  /\ UNCHANGED <<tables, tokens, auth, forfeited>>

\* rotateRefreshToken: the token must still be in Redis ...
RedisGet(c) ==
  /\ calls[c].pc = "get"
  /\ IF calls[c].token \in live
       THEN calls' = [calls EXCEPT ![c] = [@ EXCEPT !.pc = "del", !.user = owner[calls[c].token]]]
       ELSE Goto(c, "refused")
  /\ UNCHANGED <<tables, tokens, auth, forfeited>>

\* ... and is deleted, regardless of what happens next.
RedisDel(c) ==
  /\ calls[c].pc = "del"
  /\ live' = live \ {calls[c].token}
  /\ Goto(c, "find")
  /\ UNCHANGED <<tables, issued, owner, auth, forfeited>>

\* The user must be active; a login may also fail on the password.
FindUser(c) ==
  /\ calls[c].pc = "find"
  /\ \/ Active(calls[c].user) /\ Goto(c, "issue")
     \/ /\ ~Active(calls[c].user) \/ calls[c].kind = "login"
        /\ Goto(c, "refused")
  /\ UNCHANGED <<tables, tokens, auth, forfeited>>

\* Mutant: the old token is kept alive next to the new one.
IssueTokensSliding(c) ==
  /\ calls[c].pc = "issue"
  /\ issued < MaxTokens
  /\ issued' = issued + 1
  /\ owner' = [owner EXCEPT ![issued + 1] = calls[c].user]
  /\ live' = live \cup {issued + 1} \cup ({calls[c].token} \ {None})
  /\ calls' = [calls EXCEPT ![c] = [@ EXCEPT !.pc = "issued", !.next = issued + 1]]
  /\ UNCHANGED <<tables, auth, forfeited>>

\* issueTokens.
IssueTokens(c) ==
  /\ calls[c].pc = "issue"
  /\ issued < MaxTokens
  /\ issued' = issued + 1
  /\ owner' = [owner EXCEPT ![issued + 1] = calls[c].user]
  /\ live' = live \cup {issued + 1}
  /\ calls' = [calls EXCEPT ![c] = [@ EXCEPT !.pc = "issued", !.next = issued + 1]]
  /\ UNCHANGED <<tables, auth, forfeited>>

\* revokeRefreshToken.
Revoke(c) ==
  /\ calls[c].pc = "revoke"
  /\ live' = live \ {calls[c].token}
  /\ Goto(c, "revoked")
  /\ UNCHANGED <<tables, issued, owner, auth, forfeited>>

\* enrollAgent: the token is looked up; expiry is refused like a token already used ...
EnrollLookup(c) ==
  LET e == calls[c].enroll IN
  /\ calls[c].pc = "lookup"
  /\ \/ enroll[e].state = "fresh" /\ Active(enroll[e].user) /\ Goto(c, "transact")
     \/ Goto(c, "refused")
  /\ UNCHANGED <<tables, tokens, auth, forfeited>>

\* Mutant: the device is created outside the transaction, which may then fail.
EnrollInTwoWrites(c) ==
  LET e == calls[c].enroll IN
  /\ calls[c].pc = "transact"
  /\ devices' = devices \cup {e}
  /\ \/ enroll' = [enroll EXCEPT ![e].state = "consumed"] /\ Goto(c, "enrolled")
     \/ UNCHANGED enroll /\ Goto(c, "refused")
  /\ UNCHANGED <<status, tokens, auth, forfeited>>

\* ... and one transaction creates the device and marks the token.
EnrollTransact(c) ==
  LET e == calls[c].enroll IN
  /\ calls[c].pc = "transact"
  /\ devices' = devices \cup {e}
  /\ enroll' = [enroll EXCEPT ![e].state = "consumed"]
  /\ Goto(c, "enrolled")
  /\ UNCHANGED <<status, tokens, auth, forfeited>>
-----------------------------------------------------------------------------
(* The clients receive.                                                    *)

Done == {"issued", "refused", "revoked", "enrolled"}

Return(c) == calls' = [calls EXCEPT ![c] = Idle]

\* logout, and a refused renewal, clear the storage.
SignsOut(c) == calls[c].pc = "revoked" \/ (calls[c].pc = "refused" /\ calls[c].kind = "refresh")

\* Mutant: the new access token is stored next to the old refresh token.
KeepOldToken(c) ==
  LET signedIn == calls[c].waiting /\ calls[c].pc = "issued" /\ calls[c].kind = "login" IN
  /\ calls[c].pc \in Done
  /\ \/ signedIn /\ auth' = calls[c].next
     \/ calls[c].waiting /\ SignsOut(c) /\ auth' = None
     \/ ~signedIn /\ ~(calls[c].waiting /\ SignsOut(c)) /\ UNCHANGED auth
  /\ Return(c)
  /\ UNCHANGED <<tables, tokens, forfeited>>

\* The client, if it still waits, stores the new tokens of login and refresh.
Receive(c) ==
  /\ calls[c].pc \in Done
  /\ \/ calls[c].waiting /\ calls[c].pc = "issued" /\ auth' = calls[c].next
     \/ calls[c].waiting /\ SignsOut(c) /\ auth' = None
     \/ ~(calls[c].waiting /\ (calls[c].pc = "issued" \/ SignsOut(c))) /\ UNCHANGED auth
  /\ Return(c)
  /\ UNCHANGED <<tables, tokens, forfeited>>

Presented(C) == {calls[c].token : c \in C} \ {None}

\* The request is lost on its way, or the client loses the answer while the server works
\* on.  logout ignores the failure and clears the storage.
Lose(c) ==
  /\ calls[c].waiting
  /\ \/ Return(c) /\ calls[c].pc \in {"get", "find", "revoke", "lookup"}
     \/ calls' = [calls EXCEPT ![c].waiting = FALSE]
  /\ auth' = IF calls[c].kind = "logout" THEN None ELSE auth
  /\ forfeited' = forfeited \cup Presented({c})
  /\ UNCHANGED <<tables, tokens>>

\* The browser stops the service worker and all its handlers.
Kill ==
  LET killed == {c \in Call : calls[c].waiting} IN
  /\ killed # {}
  /\ calls' = [c \in Call |-> [calls[c] EXCEPT !.waiting = FALSE]]
  /\ forfeited' = forfeited \cup Presented(killed)
  /\ UNCHANGED <<tables, tokens, auth>>
-----------------------------------------------------------------------------
(* Time and the administrators.                                            *)

\* A key reaches the end of its time to live, and so does the token itself.
Expire(t) ==
  /\ t \in live
  /\ live' = live \ {t}
  /\ forfeited' = forfeited \cup {t}
  /\ UNCHANGED <<tables, issued, owner, auth, calls>>

\* Mutant: a status the schema does not know.
SetStatusErased(u) ==
  /\ status' = [status EXCEPT ![u] = "erased"]
  /\ UNCHANGED <<enroll, devices, tokens, auth, calls, forfeited>>

\* suspendUser and deleteUser ask nothing about the status they replace.
SetStatus(u) ==
  /\ status' \in {[status EXCEPT ![u] = s] : s \in {"suspended", "deleted"}}
  /\ UNCHANGED <<enroll, devices, tokens, auth, calls, forfeited>>

\* issueEnrollToken.
IssueEnrollToken(e) ==
  /\ enroll[e].state = "none"
  /\ \E u \in User :
       /\ Active(u)
       /\ enroll' = [enroll EXCEPT ![e] = [user |-> u, state |-> "fresh"]]
  /\ UNCHANGED <<status, devices, tokens, auth, calls, forfeited>>

Server(c) ==
  RedisGet(c) \/ RedisDel(c) \/ FindUser(c) \/ IssueTokens(c) \/ Revoke(c)
    \/ EnrollLookup(c) \/ EnrollTransact(c)

Next ==
  \/ \E c \in Call :
       Login(c) \/ Refresh(c) \/ Logout(c) \/ Enroll(c) \/ Server(c) \/ Receive(c) \/ Lose(c)
  \/ Kill
  \/ \E t \in Token : Expire(t)
  \/ \E u \in User : SetStatus(u)
  \/ \E e \in EnrollToken : IssueEnrollToken(e)

Spec == Init /\ [][Next]_vars
-----------------------------------------------------------------------------
(* Properties.                                                             *)

\* api.md, security.md: a token that was spent, revoked or expired before the request was
\* sent is refused, and so is everybody who was suspended by then.
GoodCredentials == \A c \in Call : calls[c].pc \in {"issued", "enrolled"} => calls[c].good

\* A refresh token that is gone never comes back: rotation always draws a new one.
NoRevival == [][\A t \in 1..issued : t \notin live => t \notin live']_vars

\* api.ts: the extension is never stranded with a token the server no longer takes, unless
\* the token expired, a call with it is under way, or the answer of one was lost.
StoredTokenLive ==
  auth # None =>
    auth \in live \cup forfeited \cup {calls[c].token : c \in Call}

\* An enrolment token is marked exactly when a device was created under it.
ConsumedIffEnrolled == \A e \in EnrollToken : enroll[e].state = "consumed" <=> e \in devices
=============================================================================
