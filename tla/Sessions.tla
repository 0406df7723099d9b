------------------------------- MODULE Sessions -------------------------------
(***************************************************************************)
(* How one tab of the admin panel or of the storefront stays signed in:    *)
(* lib/api.ts and store/auth.ts of either application, against the         *)
(* backend's single-use refresh tokens (plugins/auth).                     *)
(*                                                                         *)
(* A sign-in or a refresh issues a pair: the access token that the page    *)
(* keeps in the local storage, and the refresh token that the browser      *)
(* keeps as a cookie.  Both of a pair have one number; 0 stands for none.  *)
(***************************************************************************)
EXTENDS Naturals, FiniteSets

CONSTANTS Requests,    \* requests the page may have in flight together
          MaxIssued    \* how many pairs of tokens are issued at most

ASSUME SessionsAssumption == IsFiniteSet(Requests) /\ MaxIssued \in Nat

VARIABLES
  app,      \* "admin" or "storefront"
  token,    \* the access token in the local storage
  cookie,   \* the refresh token in the browser
  lapsed,   \* access tokens up to this one have expired
  live,     \* refresh tokens that the backend would accept
  issued,   \* how many pairs were issued
  phase,    \* of each request
  bearer,   \* the access token each request carries
  refresh,  \* the refresh each request started, if any
  shared,   \* the admin panel's refreshPromise: the requests whose refresh it is
  loading,  \* the access token that init is asking /api/auth/me about
  user,     \* the page shows somebody signed in
  signing,  \* the sign-in under way
  granted,  \* the pair its answer brings
  leaving,  \* the sign-out was sent
  crossed,  \* a refresh ran next to another one, or next to a sign-in
  out       \* "clean": signed out, with nothing in flight that could undo it

browser == <<token, cookie>>
backendTokens == <<lapsed, live, issued>>
traffic == <<phase, bearer, refresh, shared>>
account == <<loading, user, signing, granted, leaving>>
sessionVars == <<app, browser, backendTokens, traffic, account, crossed, out>>

Pairs == 0 .. MaxIssued
NoRefresh == [phase |-> "none", carries |-> 0, brings |-> 0]
Refreshing == {r \in Requests : refresh[r] # NoRefresh}
InFlight == {r \in Requests : phase[r] # "idle"}
\* An active request may still lead to one more pair, and so may a sign-in.
Room == issued + Cardinality(InFlight) + (IF signing = "no" THEN 0 ELSE 1) < MaxIssued
----------------------------------------------------------------------------
\* A request to a path that needs somebody signed in.  The admin panel shows no such
\* page while it loads or when nobody is.
Send(r) ==
  /\ phase[r] = "idle"
  /\ Room
  /\ app = "admin" => user /\ loading = 0
  /\ phase' = [phase EXCEPT ![r] = "sent"]
  /\ bearer' = [bearer EXCEPT ![r] = token]
  /\ UNCHANGED <<app, browser, backendTokens, refresh, shared, account, crossed, out>>

Serves(r) ==
  /\ phase[r] = "sent"
  /\ phase' = [phase EXCEPT ![r] = IF bearer[r] > lapsed THEN "good" ELSE "denied"]
  /\ UNCHANGED <<app, browser, backendTokens, bearer, refresh, shared, account, crossed, out>>

\* The answer arrives, or none does; a retried request is not tried again.
Finish(r) ==
  /\ phase[r] \in {"sent", "good", "denied", "again"}
  /\ phase' = [phase EXCEPT ![r] = "idle"]
  /\ UNCHANGED <<app, browser, backendTokens, bearer, refresh, shared, account, crossed, out>>

\* Faults: a refresh of its own for every request; one that releases only whoever started
\* it; a sign-out that leaves the cookie.
JoinsFault == FALSE
WaitingFault(r) == {r}
DeletesCookieFault == FALSE

Joins == app = "admin" /\ shared # {}
\* A 401: the admin panel's requests share one refresh, the storefront's start one each.
Denied(r) ==
  /\ phase[r] = "denied"
  /\ phase' = [phase EXCEPT ![r] = "waiting"]
  /\ refresh' = IF Joins THEN refresh
                ELSE [refresh EXCEPT ![r] = [phase |-> "sent", carries |-> cookie, brings |-> 0]]
  /\ shared' = IF app = "admin" /\ ~Joins THEN {r} ELSE shared
  /\ crossed' = (crossed \/ (app = "storefront" /\ Refreshing # {}))
  /\ UNCHANGED <<app, browser, backendTokens, bearer, account, out>>

Waiting(r) == IF app = "admin" THEN {q \in Requests : phase[q] = "waiting"} ELSE {r}
Settled(r, next) ==
  /\ phase' = [q \in Requests |-> IF q \in Waiting(r) THEN next ELSE phase[q]]
  /\ refresh' = [refresh EXCEPT ![r] = NoRefresh]
  /\ shared' = shared \ {r}

\* The backend reads the refresh token's row, and commits its successor later.
ReadRefreshToken(r) ==
  /\ refresh[r].phase = "sent"
  /\ refresh' = [refresh EXCEPT ![r].phase = IF refresh[r].carries \in live THEN "read" ELSE "refused"]
  /\ UNCHANGED <<app, browser, backendTokens, phase, bearer, shared, account, crossed, out>>

RotateRefreshToken(r) ==
  /\ refresh[r].phase = "read"
  /\ issued' = issued + 1
  /\ live' = (live \ {refresh[r].carries}) \cup {issued + 1}
  /\ refresh' = [refresh EXCEPT ![r].phase = "done", ![r].brings = issued + 1]
  /\ UNCHANGED <<app, browser, lapsed, phase, bearer, shared, account, crossed, out>>

\* Any other error than a refusal: before the row is read, with the rotation rolled back, or
\* on the way back, after it was committed.
FailRefresh(r) ==
  /\ refresh[r].phase \in {"sent", "read", "done"}
  /\ refresh' = [refresh EXCEPT ![r].phase = "failed"]
  /\ UNCHANGED <<app, browser, backendTokens, phase, bearer, shared, account, crossed, out>>

\* The answer is stored, and every request that waited for it is sent once more.
Refreshed(r) ==
  /\ refresh[r].phase = "done"
  /\ token' = refresh[r].brings
  /\ cookie' = refresh[r].brings
  /\ Settled(r, "again")
  /\ UNCHANGED <<app, backendTokens, bearer, account, crossed, out>>

\* The answer is an error, a refusal or any other (!res.ok): the token is dropped.  The
\* admin panel loads its sign-in page, and with it a new document; the storefront's page
\* stays as it is.
RefreshRefused(r) ==
  /\ refresh[r].phase \in {"refused", "failed"}
  /\ token' = 0
  /\ IF app = "admin"
     THEN /\ phase' = [q \in Requests |-> "idle"]
          /\ refresh' = [q \in Requests |-> NoRefresh]
          /\ shared' = {} /\ loading' = 0 /\ user' = FALSE
          /\ signing' = "no" /\ granted' = 0 /\ leaving' = FALSE
     ELSE Settled(r, "idle") /\ UNCHANGED account
  /\ UNCHANGED <<app, cookie, backendTokens, bearer, crossed, out>>

\* No answer: every request that waited for it fails, and the token stays.
RefreshLost(r) ==
  /\ refresh[r] # NoRefresh
  /\ Settled(r, "idle")
  /\ UNCHANGED <<app, browser, backendTokens, bearer, account, crossed, out>>
----------------------------------------------------------------------------
\* The document is loaded again: init asks who is signed in, if there is a token.
Reload ==
  /\ InFlight = {} /\ signing = "no" /\ ~leaving
  /\ loading' = token
  /\ user' = FALSE
  /\ UNCHANGED <<app, browser, backendTokens, traffic, signing, granted, leaving, crossed, out>>

\* /api/auth/me is an auth endpoint: a 401 is not followed by a refresh, and whatever
\* goes wrong drops the token.
MeAnswered ==
  /\ loading # 0
  /\ loading' = 0
  /\ \/ loading > lapsed /\ user' = TRUE /\ UNCHANGED token
     \/ user' = FALSE /\ token' = 0
  /\ UNCHANGED <<app, cookie, backendTokens, traffic, signing, granted, leaving, crossed, out>>

SignIn ==
  /\ ~user /\ loading = 0 /\ signing = "no" /\ Room
  /\ signing' = "password"
  /\ UNCHANGED <<app, browser, backendTokens, traffic, loading, user, granted, leaving, crossed, out>>

\* The code that was mailed is entered; the button waits for the answer.
EnterCode ==
  /\ signing = "code"
  /\ signing' = "typed"
  /\ UNCHANGED <<app, browser, backendTokens, traffic, loading, user, granted, leaving, crossed, out>>

\* A password is answered with a pair or, for accounts with a second factor, with a
\* pending token; a code with a pair.
SignInServed ==
  /\ signing \in {"password", "typed"}
  /\ \/ /\ issued' = issued + 1 /\ live' = live \cup {issued + 1}
        /\ granted' = issued + 1 /\ signing' = "granted"
     \/ signing' \in {"no", "code"} /\ UNCHANGED <<issued, live, granted>>
  /\ UNCHANGED <<app, browser, lapsed, traffic, loading, user, leaving, crossed, out>>

SignedIn ==
  /\ signing = "granted"
  /\ token' = granted /\ cookie' = granted
  /\ user' = TRUE /\ signing' = "no" /\ granted' = 0
  /\ crossed' = (crossed \/ Refreshing # {})
  /\ out' = "in"
  /\ UNCHANGED <<app, backendTokens, traffic, loading, leaving>>

SignInLost ==
  /\ signing \in {"password", "code", "typed", "granted"}
  /\ signing' = "no" /\ granted' = 0
  /\ UNCHANGED <<app, browser, backendTokens, traffic, loading, user, leaving, crossed, out>>

SignOut ==
  /\ user /\ ~leaving
  /\ leaving' = TRUE
  /\ UNCHANGED <<app, browser, backendTokens, traffic, loading, user, signing, granted, crossed, out>>

\* The cookie's path keeps it from the sign-out request, so the backend revokes nothing;
\* its answer deletes the cookie.  The page forgets the token with or without an answer.
DeletesCookie == TRUE
SignedOut ==
  /\ leaving
  /\ leaving' = FALSE /\ token' = 0 /\ user' = FALSE
  /\ \/ /\ cookie' = IF DeletesCookie THEN 0 ELSE cookie
        /\ out' = IF Refreshing = {} /\ signing = "no" THEN "clean" ELSE "unclean"
     \/ UNCHANGED cookie /\ out' = "unclean"
  /\ UNCHANGED <<app, backendTokens, traffic, loading, signing, granted, crossed>>
----------------------------------------------------------------------------
\* Fifteen minutes pass; or the backend ends the session (a new password, seven days).
Lapse ==
  /\ lapsed < issued
  /\ lapsed' = issued
  /\ UNCHANGED <<app, browser, live, issued, traffic, account, crossed, out>>

EndSession ==
  /\ live # {}
  /\ live' = {}
  /\ UNCHANGED <<app, browser, lapsed, issued, traffic, account, crossed, out>>

SessionInit ==
  /\ app \in {"admin", "storefront"}
  /\ token = 0 /\ cookie = 0
  /\ lapsed = 0 /\ live = {} /\ issued = 0
  /\ phase = [r \in Requests |-> "idle"]
  /\ bearer = [r \in Requests |-> 0]
  /\ refresh = [r \in Requests |-> NoRefresh]
  /\ shared = {}
  /\ loading = 0 /\ user = FALSE
  /\ signing = "no" /\ granted = 0 /\ leaving = FALSE
  /\ crossed = FALSE /\ out = "in"

Goes(r) ==
  \/ Serves(r) \/ Finish(r) \/ Denied(r)
  \/ ReadRefreshToken(r) \/ RotateRefreshToken(r) \/ FailRefresh(r)
  \/ Refreshed(r) \/ RefreshRefused(r) \/ RefreshLost(r)

SessionNext ==
  \/ \E r \in Requests : Send(r) \/ Goes(r)
  \/ Reload \/ MeAnswered
  \/ SignIn \/ EnterCode \/ SignInServed \/ SignedIn \/ SignInLost
  \/ SignOut \/ SignedOut
  \/ Lapse \/ EndSession
----------------------------------------------------------------------------
SessionTypeOK ==
  /\ app \in {"admin", "storefront"}
  /\ token \in Pairs /\ cookie \in Pairs
  /\ lapsed \in Pairs /\ issued \in Pairs /\ live \subseteq 1 .. issued
  /\ phase \in [Requests -> {"idle", "sent", "good", "denied", "waiting", "again"}]
  /\ bearer \in [Requests -> Pairs]
  /\ refresh \in [Requests -> [phase : {"none", "sent", "read", "done", "refused", "failed"},
                               carries : Pairs, brings : Pairs]]
  /\ shared \subseteq Requests
  /\ loading \in Pairs /\ user \in BOOLEAN
  /\ signing \in {"no", "password", "code", "typed", "granted"} /\ granted \in Pairs
  /\ leaving \in BOOLEAN /\ crossed \in BOOLEAN /\ out \in {"in", "clean", "unclean"}

\* The requests of one page do not race each other out of the session (lib/api.ts:17-20):
\* a refresh is refused only when the session is over, that is when the browser's refresh
\* token is one that the backend does not accept.  Apart from a sign-out and from loading the
\* page anew, the token is otherwise dropped only after an answer that is an error but no
\* refusal, which both applications take for one; or where two refreshes cross, as they may
\* in the storefront, which does not share them, and a refresh and a sign-in in either.
SignsOut == leaving /\ ~leaving'
FindsOut == loading # 0 /\ loading' = 0
BackendFailed == \E r \in Requests : refresh[r].phase = "failed"
RacesKeepTheSession ==
  [][token # 0 /\ token' = 0 /\ ~SignsOut /\ ~FindsOut
       => cookie \notin live \/ crossed \/ BackendFailed]_sessionVars

\* Somebody who signed out, whose sign-out was answered and who had no refresh or sign-in
\* under way, has no token until the next sign-in, whatever requests the page sends.
SignedOutStays == out = "clean" => token = 0

\* A request that waits for a refresh, its own or the shared one, does not wait for ever.
WaitersReleased == \A r \in Requests : []<>(phase[r] # "waiting")
==============================================================================
