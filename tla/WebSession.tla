----------------------------- MODULE WebSession -----------------------------
(***************************************************************************)
(* The dashboard's session: the cookies of one browser, the page loads     *)
(* that read them (lib/session.ts, middleware.ts), and the route handlers  *)
(* that may write them (app/api/auth).  What a page does once it is shown, *)
(* and the proxy that reads the cookies and never writes them, are in      *)
(* Workday, Admin and Live.                                                *)
(*                                                                         *)
(* Every login and every renewal issues a pair of tokens; pairs are        *)
(* numbered, and a token goes by the number of its pair.                   *)
(***************************************************************************)
EXTENDS Naturals

CONSTANTS
  Tab,        \* tabs of the browser
  MaxPairs    \* bound: pairs ever issued

ASSUME WebSessionAssumption == MaxPairs \in Nat

\* No cookie, no token.
None == 0

Pair == 1..MaxPairs

VARIABLES
  issued,     \* number of pairs issued so far
  valid,      \* pairs whose access token has not expired
  known,      \* pairs whose refresh token is in Redis
  active,     \* User.status = active
  access,     \* the cookie wt_access
  refresh,    \* the cookie wt_refresh
  screen,     \* what a tab shows
  part,       \* a page load: the layout and the page each call requireUser
  call,       \* the sign-in or sign-out the tab waits for
  adrift,     \* bound: the last one that it has given up before it was served
  excused     \* history: the load of this tab met a missing or expired token, or a failure

vars == <<issued, valid, known, active, access, refresh, screen, part, call, adrift, excused>>

server == <<issued, valid, known, active>>
jar == <<access, refresh>>
calls == <<call, adrift>>

Part == {"layout", "page"}

PartRecord ==
  [pc : {"idle", "refresh", "spent", "store", "me", "done", "broken"},
   token : 0..MaxPairs]

CallRecord ==
  [kind : {"none", "login", "logout"}, state : {"sent", "served"},
   access : 0..MaxPairs, refresh : 0..MaxPairs, ok : BOOLEAN]

NoPart == [pc |-> "idle", token |-> None]
NoCall == [kind |-> "none", state |-> "sent", access |-> None, refresh |-> None, ok |-> FALSE]

TypeOK ==
  /\ issued \in 0..MaxPairs
  /\ valid \subseteq 1..issued
  /\ known \subseteq 1..issued
  /\ active \in BOOLEAN
  /\ access \in 0..issued
  /\ refresh \in 0..issued
  /\ screen \in [Tab -> {"blank", "login", "loading", "page", "error", "out"}]
  /\ part \in [Tab -> [Part -> PartRecord]]
  /\ call \in [Tab -> CallRecord]
  /\ adrift \in [Tab -> CallRecord]
  /\ excused \in [Tab -> BOOLEAN]

Init ==
  /\ issued = 0
  /\ valid = {}
  /\ known = {}
  /\ active = TRUE
  /\ access = None
  /\ refresh = None
  /\ screen = [t \in Tab |-> "blank"]
  /\ part = [t \in Tab |-> [p \in Part |-> NoPart]]
  /\ call = [t \in Tab |-> NoCall]
  /\ adrift = [t \in Tab |-> NoCall]
  /\ excused = [t \in Tab |-> FALSE]
-----------------------------------------------------------------------------
(* Time, and what others do.                                               *)

AccessExpires ==
  \E n \in valid :
    /\ valid' = valid \ {n}
    /\ excused' = [t \in Tab |-> excused[t] \/ \E p \in Part : part[t][p].token = n]
    /\ UNCHANGED <<issued, known, active, jar, screen, part, calls>>

RefreshExpires ==
  \E n \in known :
    /\ known' = known \ {n}
    /\ UNCHANGED <<issued, valid, active, jar, screen, part, calls, excused>>

\* A cookie lives as long as its token, from a moment later on.
CookieExpires ==
  /\ \/ access # None /\ access \notin valid /\ access' = None /\ refresh' = refresh
     \/ refresh # None /\ refresh \notin known \cup valid /\ refresh' = None /\ access' = access
  /\ UNCHANGED <<server, screen, part, calls, excused>>

Suspend ==
  /\ active
  /\ active' = FALSE
  /\ UNCHANGED <<issued, valid, known, jar, screen, part, calls, excused>>

\* Mutant: the numbers of the pairs are not counted on.
IssueUncounted ==
  /\ issued < MaxPairs
  /\ issued' = issued
  /\ valid' = valid \cup {issued + 1}
  /\ known' = known \cup {issued + 1}

\* issueTokens.
Issue ==
  /\ issued < MaxPairs
  /\ issued' = issued + 1
  /\ valid' = valid \cup {issued'}
  /\ known' = known \cup {issued'}
-----------------------------------------------------------------------------
(* Page loads.                                                             *)

\* Mutant: a load renews the pair whenever there is a refresh token.
LoadRenews(t) ==
  /\ screen[t] # "loading"
  /\ call[t].kind = "none"
  /\ LET first == IF refresh = None THEN [NoPart EXCEPT !.pc = "me", !.token = access]
                                    ELSE [NoPart EXCEPT !.pc = "refresh", !.token = refresh]
     IN IF access = None /\ refresh = None
          THEN /\ screen' = [screen EXCEPT ![t] = "login"]
               /\ UNCHANGED part
          ELSE /\ screen' = [screen EXCEPT ![t] = "loading"]
               /\ part' = [part EXCEPT ![t] = [p \in Part |-> first]]
  /\ excused' = [excused EXCEPT ![t] = access \notin valid]
  /\ UNCHANGED <<server, jar, calls>>

\* A page of the dashboard is asked for with the cookies of this moment.  The middleware
\* sends a browser with neither cookie to the login page.
Load(t) ==
  /\ screen[t] # "loading"
  /\ call[t].kind = "none"
  /\ LET first == IF access # None THEN [NoPart EXCEPT !.pc = "me", !.token = access]
                                   ELSE [NoPart EXCEPT !.pc = "refresh", !.token = refresh]
     IN IF access = None /\ refresh = None
          THEN /\ screen' = [screen EXCEPT ![t] = "login"]
               /\ UNCHANGED part
          ELSE /\ screen' = [screen EXCEPT ![t] = "loading"]
               /\ part' = [part EXCEPT ![t] = [p \in Part |-> first]]
  /\ excused' = [excused EXCEPT ![t] = access \notin valid]
  /\ UNCHANGED <<server, jar, calls>>

\* The login page is public.
OpenLogin(t) ==
  /\ screen[t] \notin {"loading", "login"}
  /\ call[t].kind = "none"
  /\ screen' = [screen EXCEPT ![t] = "login"]
  /\ UNCHANGED <<server, jar, part, calls, excused>>

Goto(t, p, pc) == part' = [part EXCEPT ![t][p] = [@ EXCEPT !.pc = pc]]

\* The part threw.
Break(t, p) == part' = [part EXCEPT ![t][p] = [NoPart EXCEPT !.pc = "broken"]]

\* api.refresh: the token must be in Redis, and is spent whatever happens next ...
Rotate(t, p) ==
  /\ part[t][p].pc = "refresh"
  /\ IF part[t][p].token \in known THEN Goto(t, p, "spent") ELSE Break(t, p)
  /\ known' = known \ {part[t][p].token}
  /\ UNCHANGED <<issued, valid, active, jar, screen, calls, excused>>

\* ... and the user must be active.
Reissue(t, p) ==
  /\ part[t][p].pc = "spent"
  /\ IF active
       THEN /\ Issue
            /\ part' = [part EXCEPT ![t][p] = [@ EXCEPT !.pc = "store", !.token = issued']]
       ELSE /\ Break(t, p)
            /\ UNCHANGED <<issued, valid, known>>
  /\ UNCHANGED <<active, jar, screen, calls, excused>>

\* Mutant: the cookies can be written while a page is rendered.
StoreInRender(t, p) ==
  /\ part[t][p].pc = "store"
  /\ access' = part[t][p].token
  /\ refresh' = part[t][p].token
  /\ Goto(t, p, "me")
  /\ UNCHANGED <<server, screen, calls, excused>>

\* setSessionCookies: a page that is being rendered cannot write cookies, so this throws, and
\* so does the clearSessionCookies of the catch.  The new pair is lost.
Store(t, p) ==
  /\ part[t][p].pc = "store"
  /\ Break(t, p)
  /\ UNCHANGED <<server, jar, screen, calls, excused>>

\* api.me.  An expired token is a 401, whose handler throws on clearSessionCookies.  What the
\* page asks for afterwards breaks nothing.
Me(t, p) ==
  /\ part[t][p].pc = "me"
  /\ IF part[t][p].token \notin valid
       THEN Break(t, p)
       ELSE part' = [part EXCEPT ![t][p] = [NoPart EXCEPT !.pc = "done"]]
  /\ UNCHANGED <<server, jar, screen, calls, excused>>

\* The API cannot be reached, its answer is lost, or is another error.  A renewal that is done
\* all the same is an end of the old token (RefreshExpires), and a pair that nobody holds.
PartFails(t, p) ==
  /\ part[t][p].pc \in {"refresh", "spent", "me"}
  /\ Break(t, p)
  /\ excused' = [excused EXCEPT ![t] = TRUE]
  /\ UNCHANGED <<server, jar, screen, calls>>

\* The page is shown; one part that threw makes it the error page.
Show(t) ==
  /\ screen[t] = "loading"
  /\ \A p \in Part : part[t][p].pc \in {"done", "broken"}
  /\ IF \A p \in Part : part[t][p].pc = "done"
       THEN /\ screen' = [screen EXCEPT ![t] = "page"]
            /\ excused' = [excused EXCEPT ![t] = FALSE]
       ELSE /\ screen' = [screen EXCEPT ![t] = "error"]
            /\ UNCHANGED excused
  /\ part' = [part EXCEPT ![t] = [p \in Part |-> NoPart]]
  /\ UNCHANGED <<server, jar, calls>>
-----------------------------------------------------------------------------
(* Route handlers: sign-in and sign-out.                                   *)

\* Signing in does not look at the cookies.
SignIn(t) ==
  /\ screen[t] = "login"
  /\ call[t].kind = "none"
  /\ call' = [call EXCEPT ![t] = [NoCall EXCEPT !.kind = "login"]]
  /\ UNCHANGED <<server, jar, screen, part, adrift, excused>>

\* The request leaves with the cookies of this moment.
SignOut(t) ==
  /\ screen[t] = "page"
  /\ call[t].kind = "none"
  /\ call' = [call EXCEPT ![t] =
       [NoCall EXCEPT !.kind = "logout", !.access = access, !.refresh = refresh]]
  /\ UNCHANGED <<server, jar, screen, part, adrift, excused>>

\* What the handler makes of the call.
Served(t, ok) ==
  call' = [call EXCEPT ![t] = [NoCall EXCEPT !.kind = call[t].kind, !.state = "served", !.ok = ok]]

\* POST /api/auth/login: the tokens go into the cookies of the answer.
LoginServed(t) ==
  /\ call[t].kind = "login" /\ call[t].state = "sent"
  /\ \/ /\ active /\ Issue
        /\ call' = [call EXCEPT ![t] =
             [@ EXCEPT !.state = "served", !.ok = TRUE, !.access = issued', !.refresh = issued']]
     \/ /\ Served(t, FALSE)          \* wrong password, not active, or no answer of the API,
        /\ \/ active /\ Issue          \* which may have done its part
           \/ UNCHANGED <<issued, valid, known>>
  /\ UNCHANGED <<active, jar, screen, part, adrift, excused>>

\* The token is revoked only when both cookies came along.
Revoked(c) == IF c.access # None /\ c.refresh # None THEN {c.refresh} ELSE {}

\* POST /api/auth/logout: the API may be out of reach.
LogoutServed(t) ==
  /\ call[t].kind = "logout" /\ call[t].state = "sent"
  /\ Served(t, TRUE)
  /\ known' \in {known, known \ Revoked(call[t])}
  /\ UNCHANGED <<issued, valid, active, jar, screen, part, adrift, excused>>

Done(t) == call' = [call EXCEPT ![t] = NoCall]

\* The browser takes the cookies of the answer; the form goes on to a page.
LoginAnswered(t) ==
  /\ call[t].kind = "login" /\ call[t].state = "served"
  /\ Done(t)
  /\ IF call[t].ok
       THEN /\ access' = call[t].access
            /\ refresh' = call[t].refresh
            /\ screen' = [screen EXCEPT ![t] = "blank"]
       ELSE UNCHANGED <<jar, screen>>
  /\ UNCHANGED <<server, part, adrift, excused>>

LogoutAnswered(t) ==
  /\ call[t].kind = "logout" /\ call[t].state = "served"
  /\ Done(t)
  /\ access' = None
  /\ refresh' = None
  /\ screen' = [screen EXCEPT ![t] = "out"]
  /\ UNCHANGED <<server, part, adrift, excused>>

\* The answer, or the request, is lost: a form shows the browser's error page, a script an
\* error message.  What was sent may still be on its way to the handler.
Lost(t) ==
  /\ call[t].kind # "none"
  /\ Done(t)
  /\ adrift' = [adrift EXCEPT ![t] = IF call[t].state = "sent" THEN call[t] ELSE @]
  /\ screen' = [screen EXCEPT ![t] = IF call[t].kind = "logout" THEN "error" ELSE @]
  /\ excused' = [excused EXCEPT ![t] = TRUE]
  /\ UNCHANGED <<server, jar, part>>

\* A request that was given up is served; its answer, and the cookies in it, reach nobody.
AdriftServed(t) ==
  /\ \/ adrift[t].kind = "login" /\ active /\ Issue
     \/ /\ adrift[t].kind = "logout"
        /\ known' = known \ Revoked(adrift[t])
        /\ UNCHANGED <<issued, valid>>
  /\ adrift' = [adrift EXCEPT ![t] = NoCall]
  /\ UNCHANGED <<active, jar, screen, part, call, excused>>
-----------------------------------------------------------------------------
World == AccessExpires \/ RefreshExpires \/ CookieExpires \/ Suspend

Render(t) ==
  \/ Load(t) \/ OpenLogin(t) \/ Show(t)
  \/ \E p \in Part : Rotate(t, p) \/ Reissue(t, p) \/ Store(t, p) \/ Me(t, p) \/ PartFails(t, p)

Request(t) ==
  \/ SignIn(t) \/ SignOut(t) \/ LoginServed(t) \/ LogoutServed(t)
  \/ LoginAnswered(t) \/ LogoutAnswered(t) \/ Lost(t) \/ AdriftServed(t)

Next == World \/ \E t \in Tab : Render(t) \/ Request(t)

Spec == Init /\ [][Next]_vars
-----------------------------------------------------------------------------
(* Properties.                                                             *)

\* A browser that has no session gets one only by the answer to a sign-in: no page load that
\* was under way in another tab when the user signed out brings a session back.
SignedOutStaysOut ==
  [][access = None /\ refresh = None /\ <<access', refresh'>> # <<None, None>>
       => \E t \in Tab : call[t].kind = "login" /\ call[t].ok /\ call'[t] = NoCall]_vars

\* The error page is never shown to a browser whose load began with an access token that
\* stayed valid and met no failure: what another tab's renewal, sign-in or sign-out does
\* to the cookies meanwhile does not break it.
ErrorNeedsCause == \A t \in Tab : screen[t] = "error" => excused[t]
=============================================================================
