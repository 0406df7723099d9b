----------------------------- MODULE SessionsProofs -----------------------------
(***************************************************************************)
(* Proofs about Sessions, for every finite set of requests and any number  *)
(* of issued pairs, and about the tab that has such a session and a desk.  *)
(***************************************************************************)
EXTENDS Pages, DesksProofs

SessionSpec == SessionInit /\ [][SessionNext]_sessionVars

\* Requests and a sign-in that may still lead to one more pair each.
Costly == {r \in Requests : phase[r] \in {"sent", "denied"} \/ refresh[r].phase \in {"sent", "read"}}
Cost == IF signing \in {"no", "granted"} THEN 0 ELSE 1
Budget == issued + Cardinality(Costly) + Cost <= MaxIssued

\* Whoever refreshes waits, and in the admin panel nobody waits without the shared refresh.
RefreshersWait == \A r \in Requests : refresh[r] # NoRefresh => phase[r] = "waiting"
SharedIsRefreshing == shared = IF app = "admin" THEN Refreshing ELSE {}
WaitersHaveRefresh ==
  \A r \in Requests : phase[r] = "waiting" =>
    IF app = "admin" THEN Refreshing # {} ELSE refresh[r] # NoRefresh

\* One refresh at a time, unless two of the storefront crossed.
OneRefresh == (app = "admin" \/ ~crossed) => \A q, r \in Refreshing : q = r

\* Every token in circulation was issued, and an answer brings one.
Circulating ==
  /\ cookie <= issued /\ granted <= issued
  /\ signing = "granted" => granted # 0
  /\ \A r \in Requests : /\ refresh[r].carries <= issued /\ refresh[r].brings <= issued
                         /\ refresh[r].phase = "done" => refresh[r].brings # 0

\* A refresh that crossed nothing carries the browser's token, unless a sign-out removed
\* that; what was refused stays refused.
CarriesCookie ==
  ~crossed => \A r \in Refreshing : /\ cookie \in {0, refresh[r].carries}
                                    /\ refresh[r].phase = "refused" => refresh[r].carries \notin live

\* After a clean sign-out there is no token, neither on the page nor under way.
NothingLeft ==
  out = "clean" =>
    /\ token = 0 /\ cookie = 0
    /\ \A r \in Requests : refresh[r].carries = 0 /\ refresh[r].phase \notin {"read", "done"}

SessionInv ==
  /\ SessionTypeOK /\ Budget
  /\ RefreshersWait /\ SharedIsRefreshing /\ WaitersHaveRefresh /\ OneRefresh
  /\ Circulating /\ CarriesCookie /\ NothingLeft
-----------------------------------------------------------------------------
LEMMA Cards ==
  ASSUME NEW T \in SUBSET Requests, NEW S \in SUBSET T
  PROVE  /\ IsFiniteSet(T) /\ Cardinality(T) \in Nat
         /\ IsFiniteSet(S) /\ Cardinality(S) \in Nat /\ Cardinality(S) <= Cardinality(T)
<1>1. IsFiniteSet(T)
  BY FS_Subset, SessionsAssumption
<1>2. IsFiniteSet(S) /\ Cardinality(S) <= Cardinality(T)
  BY <1>1, FS_Subset
<1> QED
  BY <1>1, <1>2, FS_CardinalityType

LEMMA CostlyInFlight ==
  ASSUME RefreshersWait
  PROVE  Costly \subseteq InFlight /\ InFlight \subseteq Requests
BY DEF RefreshersWait, Costly, InFlight, NoRefresh

\* A step after which less can still be issued keeps the budget.
LEMMA Cheaper ==
  ASSUME Budget, issued \in Nat, issued' = issued, Costly' \subseteq Costly, Cost' <= Cost
  PROVE  Budget'
<1>1. Cardinality(Costly') \in Nat /\ Cardinality(Costly) \in Nat
      /\ Cardinality(Costly') <= Cardinality(Costly)
  BY Cards DEF Costly
<1> QED
  BY <1>1, SessionsAssumption DEF Budget, Cost

\* No step issues more than MaxIssued pairs: a new request or sign-in leaves room for one
\* pair of each that is under way, and an issued pair is one of those.
LEMMA BudgetStep ==
  ASSUME SessionInv, [SessionNext]_sessionVars
  PROVE  Budget'
<1> USE DEF SessionInv, SessionTypeOK, Pairs
<1>1. Costly \subseteq InFlight /\ InFlight \subseteq Requests
  BY CostlyInFlight
<1>2. Cardinality(Costly) \in Nat /\ Cardinality(InFlight) \in Nat /\ Cardinality(Costly) <= Cardinality(InFlight)
  BY <1>1, Cards
<1>3. Cost \in {0, 1} /\ MaxIssued \in Nat /\ issued \in Nat
  BY SessionsAssumption DEF Cost
<1>4. ASSUME NEW r \in Requests, Send(r)
      PROVE  Budget'
  <2>1. Costly' \subseteq Costly \cup {r}
    BY <1>4 DEF Send, Costly
  <2>2. r \notin Costly
    BY <1>1, <1>4 DEF Send, InFlight
  <2>3. IsFiniteSet(Costly) /\ Cardinality(Costly \cup {r}) = Cardinality(Costly) + 1
    BY <1>1, <2>2, Cards, FS_AddElement
  <2>4. Cardinality(Costly') <= Cardinality(Costly) + 1 /\ Cardinality(Costly') \in Nat
    BY <2>1, <2>3, <1>1, Cards
  <2>5. Cost' = Cost /\ Cost <= (IF signing = "no" THEN 0 ELSE 1) /\ issued' = issued
    BY <1>4 DEF Send, Cost, account, backendTokens
  <2>6. issued + Cardinality(InFlight) + (IF signing = "no" THEN 0 ELSE 1) < MaxIssued
    BY <1>4 DEF Send, Room
  <2> QED
    BY <1>2, <1>3, <2>4, <2>5, <2>6 DEF Budget
<1>5. ASSUME NEW r \in Requests, RotateRefreshToken(r)
      PROVE  Budget'
  <2>1. r \in Costly /\ Costly' \subseteq Costly \ {r}
    BY <1>5 DEF RotateRefreshToken, Costly, RefreshersWait, NoRefresh
  <2>2. IsFiniteSet(Costly) /\ Cardinality(Costly \ {r}) = Cardinality(Costly) - 1
    BY <1>1, <2>1, Cards, FS_RemoveElement
  <2>3. Cardinality(Costly') <= Cardinality(Costly) - 1 /\ Cardinality(Costly') \in Nat
    BY <2>1, <2>2, <1>1, Cards
  <2>4. Cost' = Cost /\ issued' = issued + 1
    BY <1>5 DEF RotateRefreshToken, Cost, account
  <2> QED
    BY <1>2, <1>3, <2>3, <2>4 DEF Budget
<1>6. CASE SignIn
  <2>1. Costly' = Costly /\ Cost' = 1 /\ issued' = issued
    BY <1>6 DEF SignIn, Costly, Cost, traffic, backendTokens
  <2>2. issued + Cardinality(InFlight) < MaxIssued
    BY <1>2, <1>3, <1>6 DEF SignIn, Room
  <2> QED
    BY <1>2, <1>3, <2>1, <2>2 DEF Budget
<1>7. CASE SignInServed
  <2>1. Costly' = Costly /\ Cost = 1
    BY <1>7 DEF SignInServed, Costly, Cost, traffic
  <2>2. \/ issued' = issued + 1 /\ Cost' = 0
        \/ issued' = issued /\ Cost' \in {0, 1}
    BY <1>7 DEF SignInServed, Cost
  <2> QED
    BY <1>2, <1>3, <2>1, <2>2 DEF Budget
<1>8. ASSUME NEW r \in Requests, Goes(r), ~RotateRefreshToken(r)
      PROVE  Budget'
  <2>1. issued' = issued /\ Cost' <= Cost
    BY <1>3, <1>8 DEF Goes, Serves, Finish, Denied, ReadRefreshToken, FailRefresh, Refreshed,
                      RefreshRefused, RefreshLost, Cost, account, backendTokens
  <2>2. Costly' \subseteq Costly
    <3>1. CASE Serves(r) \/ Finish(r)
      BY <3>1 DEF Serves, Finish, Costly
    <3>2. CASE Denied(r)
      BY <3>2 DEF Denied, Costly, NoRefresh
    <3>3. CASE ReadRefreshToken(r)
      BY <3>3 DEF ReadRefreshToken, Costly
    <3>7. CASE FailRefresh(r)
      BY <3>7 DEF FailRefresh, Costly
    <3>4. CASE Refreshed(r)
      BY <3>4 DEF Refreshed, Settled, Costly, NoRefresh
    <3>5. CASE RefreshRefused(r)
      BY <3>5 DEF RefreshRefused, Settled, Costly, NoRefresh
    <3>6. CASE RefreshLost(r)
      BY <3>6 DEF RefreshLost, Settled, Costly, NoRefresh
    <3> QED
      BY <1>8, <3>1, <3>2, <3>3, <3>4, <3>5, <3>6, <3>7 DEF Goes
  <2> QED
    BY <1>3, <2>1, <2>2, Cheaper
<1>9. CASE \/ Reload \/ MeAnswered \/ EnterCode \/ SignedIn \/ SignInLost
           \/ SignOut \/ SignedOut \/ Lapse \/ EndSession \/ UNCHANGED sessionVars
  <2>1. issued' = issued /\ Costly' = Costly /\ Cost' <= Cost
    BY <1>3, <1>9 DEF Reload, MeAnswered, EnterCode, SignedIn, SignInLost, SignOut, SignedOut, Lapse,
                      EndSession, Cost, Costly, sessionVars, account, traffic, backendTokens
  <2> QED
    BY <1>3, <2>1, Cheaper
<1> QED
  BY <1>4, <1>5, <1>6, <1>7, <1>8, <1>9 DEF SessionNext, Goes

\* Type correctness: what is issued stays within Pairs thanks to the budget.
LEMMA TypeStep ==
  ASSUME SessionInv, [SessionNext]_sessionVars
  PROVE  SessionTypeOK'
<1> USE SessionsAssumption DEF SessionInv, SessionTypeOK, Pairs, NoRefresh
<1>1. issued' \in Pairs
  <2>1. Costly' \subseteq Requests
    BY DEF Costly
  <2>2. Cardinality(Costly') \in Nat /\ Cost' \in {0, 1}
    BY <2>1, Cards DEF Cost
  <2>3. issued' \in {issued, issued + 1}
    BY DEF SessionNext, Goes, Send, Serves, Finish, Denied, ReadRefreshToken, RotateRefreshToken, FailRefresh,
           Refreshed, RefreshRefused, RefreshLost, Reload, MeAnswered, SignIn, EnterCode, SignInServed, SignedIn, SignInLost,
           SignOut, SignedOut, Lapse, EndSession, sessionVars, backendTokens
  <2> QED
    BY <2>2, <2>3, BudgetStep DEF Budget
<1>2. ASSUME NEW r \in Requests, Send(r) \/ Serves(r) \/ Finish(r)
      PROVE  SessionTypeOK'
  BY <1>2, ZenonT(40) DEF Send, Serves, Finish, browser, backendTokens, account
<1>3. ASSUME NEW r \in Requests, Denied(r)
      PROVE  SessionTypeOK'
  <2>1. refresh' \in [Requests -> [phase : {"none", "sent", "read", "done", "refused", "failed"},
                                   carries : Pairs, brings : Pairs]]
    BY <1>3 DEF Denied
  <2>2. shared' \subseteq Requests /\ crossed' \in BOOLEAN
    BY <1>3 DEF Denied
  <2> QED
    BY <1>3, <2>1, <2>2 DEF Denied, browser, backendTokens, account
<1>4. ASSUME NEW r \in Requests, ReadRefreshToken(r) \/ FailRefresh(r)
      PROVE  SessionTypeOK'
  BY <1>4 DEF ReadRefreshToken, FailRefresh, browser, backendTokens, account
<1>5. ASSUME NEW r \in Requests, RotateRefreshToken(r)
      PROVE  SessionTypeOK'
  <2>1. live' \subseteq 1 .. issued'
    BY <1>5 DEF RotateRefreshToken
  <2>2. refresh' \in [Requests -> [phase : {"none", "sent", "read", "done", "refused", "failed"},
                                   carries : Pairs, brings : Pairs]]
    BY <1>1, <1>5 DEF RotateRefreshToken
  <2> QED
    BY <1>1, <1>5, <2>1, <2>2 DEF RotateRefreshToken, browser, account
<1>6. ASSUME NEW r \in Requests, NEW next \in {"again", "idle"}, Settled(r, next)
      PROVE  /\ phase' \in [Requests -> {"idle", "sent", "good", "denied", "waiting", "again"}]
             /\ refresh' \in [Requests -> [phase : {"none", "sent", "read", "done", "refused", "failed"},
                                            carries : Pairs, brings : Pairs]]
             /\ shared' \subseteq Requests
  BY <1>6 DEF Settled
<1>7. ASSUME NEW r \in Requests, Refreshed(r) \/ RefreshLost(r)
      PROVE  SessionTypeOK'
  <2>1. token' \in Pairs /\ cookie' \in Pairs
    BY <1>7 DEF Refreshed, RefreshLost, browser
  <2> QED
    BY <1>6, <1>7, <2>1 DEF Refreshed, RefreshLost, backendTokens, account
<1>8. ASSUME NEW r \in Requests, RefreshRefused(r)
      PROVE  SessionTypeOK'
  <2>1. CASE app = "admin"
    <3>1. /\ phase' \in [Requests -> {"idle"}] /\ refresh' \in [Requests -> {NoRefresh}]
          /\ shared' = {} /\ loading' = 0 /\ signing' = "no" /\ granted' = 0 /\ token' = 0
      BY <1>8, <2>1 DEF RefreshRefused
    <3>2. user' \in BOOLEAN /\ leaving' \in BOOLEAN
      BY <1>8, <2>1, Zenon DEF RefreshRefused
    <3> QED
      BY <1>8, <3>1, <3>2 DEF RefreshRefused, backendTokens
  <2>2. CASE app # "admin"
    BY <1>6, <1>8, <2>2 DEF RefreshRefused, backendTokens, account
  <2> QED
    BY <2>1, <2>2
<1>9. CASE Reload \/ MeAnswered \/ SignIn \/ EnterCode
  <2>1. user' \in BOOLEAN
    BY <1>9, Zenon DEF Reload, MeAnswered, SignIn, EnterCode
  <2>2. token' \in Pairs /\ loading' \in Pairs /\ signing' \in {"no", "password", "code", "typed", "granted"}
    BY <1>9 DEF Reload, MeAnswered, SignIn, EnterCode, browser
  <2>3. UNCHANGED <<app, cookie, backendTokens, traffic, granted, leaving, crossed, out>>
    BY <1>9 DEF Reload, MeAnswered, SignIn, EnterCode, browser
  <2> QED
    BY <2>1, <2>2, <2>3 DEF backendTokens, traffic
<1>10. CASE SignedIn \/ SignInLost \/ SignOut \/ SignedOut
  <2>1. user' \in BOOLEAN /\ leaving' \in BOOLEAN
    BY <1>10, Zenon DEF SignedIn, SignInLost, SignOut, SignedOut
  <2>2. crossed' \in BOOLEAN
    BY <1>10 DEF SignedIn, SignInLost, SignOut, SignedOut
  <2>3. /\ token' \in Pairs /\ cookie' \in Pairs /\ out' \in {"in", "clean", "unclean"}
        /\ granted' \in Pairs /\ signing' \in {"no", "password", "code", "typed", "granted"}
    BY <1>10 DEF SignedIn, SignInLost, SignOut, SignedOut, browser
  <2>4. UNCHANGED <<app, backendTokens, traffic, loading>>
    BY <1>10 DEF SignedIn, SignInLost, SignOut, SignedOut
  <2> QED
    BY <2>1, <2>2, <2>3, <2>4 DEF backendTokens, traffic
<1>11. CASE SignInServed
  <2>1. live' \subseteq 1 .. issued' /\ granted' \in Pairs
    <3>1. CASE issued' = issued + 1 /\ live' = live \cup {issued + 1} /\ granted' = issued + 1
      BY <1>1, <3>1
    <3> QED
      BY <1>11, <3>1 DEF SignInServed
  <2>2. signing' \in {"no", "password", "code", "typed", "granted"}
    BY <1>11 DEF SignInServed
  <2> QED
    BY <1>1, <1>11, <2>1, <2>2 DEF SignInServed, browser, traffic
<1>12. CASE Lapse \/ EndSession \/ UNCHANGED sessionVars
  BY <1>12 DEF Lapse, EndSession, sessionVars, browser, backendTokens, traffic, account
<1> QED
  BY <1>2, <1>3, <1>4, <1>5, <1>7, <1>8, <1>9, <1>10, <1>11, <1>12 DEF SessionNext, Goes

\* Who waits, and for whose refresh.
LEMMA RefreshStep ==
  ASSUME SessionInv, [SessionNext]_sessionVars
  PROVE  RefreshersWait' /\ SharedIsRefreshing' /\ WaitersHaveRefresh' /\ OneRefresh'
<1> DEFINE Parts == RefreshersWait /\ SharedIsRefreshing /\ WaitersHaveRefresh /\ OneRefresh
<1> USE DEF SessionInv, SessionTypeOK, RefreshersWait, SharedIsRefreshing, WaitersHaveRefresh, OneRefresh,
            Refreshing, NoRefresh
<1>1. ASSUME NEW r \in Requests, Send(r) \/ Serves(r) \/ Finish(r)
      PROVE  Parts'
  BY <1>1 DEF Send, Serves, Finish
<1>2. ASSUME NEW r \in Requests, Denied(r)
      PROVE  Parts'
  <2>1. CASE Joins
    BY <1>2, <2>1 DEF Denied, Joins
  <2>2. CASE ~Joins
    <3>1. app = "admin" => Refreshing = {}
      BY <2>2 DEF Joins
    <3>2. /\ phase' = [phase EXCEPT ![r] = "waiting"]
          /\ refresh' = [refresh EXCEPT ![r] = [phase |-> "sent", carries |-> cookie, brings |-> 0]]
          /\ shared' = IF app = "admin" THEN {r} ELSE shared
          /\ crossed' = (crossed \/ (app = "storefront" /\ Refreshing # {})) /\ app' = app
      BY <1>2, <2>2 DEF Denied
    <3>3. Refreshing' = Refreshing \cup {r}
      BY <3>2
    <3> QED
      BY <3>1, <3>2, <3>3
  <2> QED
    BY <2>1, <2>2
<1>3. ASSUME NEW r \in Requests, ReadRefreshToken(r) \/ RotateRefreshToken(r) \/ FailRefresh(r)
      PROVE  Parts'
  BY <1>3 DEF ReadRefreshToken, RotateRefreshToken, FailRefresh
<1>4. ASSUME NEW r \in Requests, Refreshed(r) \/ RefreshLost(r)
      PROVE  Parts'
  <2>1. refresh[r] # NoRefresh /\ (\E next \in {"again", "idle"} : Settled(r, next)) /\ UNCHANGED <<app, crossed>>
    BY <1>4 DEF Refreshed, RefreshLost
  <2>2. CASE app = "admin"
    BY <2>1, <2>2 DEF Settled, Waiting
  <2>3. CASE app = "storefront"
    BY <2>1, <2>3 DEF Settled, Waiting
  <2> QED
    BY <2>2, <2>3
<1>5. ASSUME NEW r \in Requests, RefreshRefused(r)
      PROVE  Parts'
  <2>1. CASE app = "admin"
    BY <1>5, <2>1 DEF RefreshRefused
  <2>2. CASE app = "storefront"
    BY <1>5, <2>2 DEF RefreshRefused, Settled, Waiting
  <2> QED
    BY <2>1, <2>2
<1>6. CASE \/ Reload \/ MeAnswered \/ SignIn \/ EnterCode \/ SignInServed \/ SignedIn \/ SignInLost
           \/ SignOut \/ SignedOut \/ Lapse \/ EndSession \/ UNCHANGED sessionVars
  BY <1>6 DEF Reload, MeAnswered, SignIn, EnterCode, SignInServed, SignedIn, SignInLost, SignOut, SignedOut,
              Lapse, EndSession, sessionVars, traffic
<1> QED
  BY <1>1, <1>2, <1>3, <1>4, <1>5, <1>6 DEF SessionNext, Goes

\* Which tokens are about.
LEMMA TokenStep ==
  ASSUME SessionInv, [SessionNext]_sessionVars
  PROVE  Circulating' /\ CarriesCookie'
<1> DEFINE Parts == Circulating /\ CarriesCookie
<1> USE SessionsAssumption
        DEF SessionInv, SessionTypeOK, Pairs, RefreshersWait, OneRefresh, Circulating, CarriesCookie, Refreshing,
            NoRefresh
<1>1. ASSUME NEW r \in Requests, Send(r) \/ Serves(r) \/ Finish(r)
      PROVE  Parts'
  BY <1>1 DEF Send, Serves, Finish, browser, backendTokens, account
<1>2. ASSUME NEW r \in Requests, Denied(r)
      PROVE  Parts'
  <2>1. CASE Joins
    BY <1>2, <2>1 DEF Denied, Joins, browser, backendTokens, account
  <2>2. CASE ~Joins
    <3>1. /\ refresh' = [refresh EXCEPT ![r] = [phase |-> "sent", carries |-> cookie, brings |-> 0]]
          /\ crossed' = (crossed \/ (app = "storefront" /\ Refreshing # {}))
          /\ UNCHANGED <<cookie, issued, live, granted, signing>>
      BY <1>2, <2>2 DEF Denied, browser, backendTokens, account
    <3> QED
      BY <3>1
  <2> QED
    BY <2>1, <2>2
<1>3. ASSUME NEW r \in Requests, ReadRefreshToken(r) \/ FailRefresh(r)
      PROVE  Parts'
  BY <1>3 DEF ReadRefreshToken, FailRefresh, browser, backendTokens, account
<1>4. ASSUME NEW r \in Requests, RotateRefreshToken(r)
      PROVE  Parts'
  BY <1>4 DEF RotateRefreshToken, browser, account
<1>5. ASSUME NEW r \in Requests, Refreshed(r) \/ RefreshLost(r)
      PROVE  Parts'
  <2>1. /\ refresh[r] # NoRefresh /\ refresh' = [refresh EXCEPT ![r] = NoRefresh]
        /\ cookie' \in {cookie, refresh[r].brings}
        /\ UNCHANGED <<app, live, issued, granted, signing, crossed>>
    BY <1>5 DEF Refreshed, RefreshLost, Settled, browser, backendTokens, account
  <2>2. ~crossed => \A q \in Requests : refresh'[q] = NoRefresh
    BY <2>1
  <2> QED
    BY <2>1, <2>2
<1>6. ASSUME NEW r \in Requests, RefreshRefused(r)
      PROVE  Parts'
  <2>1. /\ \A q \in Requests : refresh'[q] \in {refresh[q], NoRefresh}
        /\ granted' \in {granted, 0} /\ (signing' = "granted" => signing = "granted" /\ granted' = granted)
        /\ UNCHANGED <<cookie, live, issued, crossed>>
    BY <1>6 DEF RefreshRefused, Settled, backendTokens, account
  <2> QED
    BY <2>1
<1>7. CASE SignedIn
  <2>1. /\ cookie' = granted /\ granted' = 0 /\ signing' = "no"
        /\ UNCHANGED <<issued, live, refresh>>
    BY <1>7 DEF SignedIn, backendTokens, traffic
  <2>2. ~crossed' => Refreshing = {}
    BY <1>7 DEF SignedIn
  <2> QED
    BY <2>1, <2>2
<1>8. CASE SignInServed
  <2>1. /\ issued' \in {issued, issued + 1} /\ live' \subseteq live \cup {issued + 1}
        /\ granted' \in {granted, issued'} /\ (signing' = "granted" => granted' = issued + 1)
        /\ UNCHANGED <<cookie, refresh, crossed>>
    BY <1>8 DEF SignInServed, browser, traffic
  <2> QED
    BY <2>1
<1>9. CASE Reload \/ MeAnswered \/ SignIn \/ EnterCode \/ SignInLost \/ SignOut
  BY <1>9 DEF Reload, MeAnswered, SignIn, EnterCode, SignInLost, SignOut, browser, backendTokens, traffic
<1>10. CASE SignedOut \/ Lapse \/ EndSession \/ UNCHANGED sessionVars
  BY <1>10 DEF SignedOut, Lapse, EndSession, sessionVars, browser, backendTokens, traffic, account
<1> QED
  BY <1>1, <1>2, <1>3, <1>4, <1>5, <1>6, <1>7, <1>8, <1>9, <1>10 DEF SessionNext, Goes

\* A clean sign-out lasts until the next sign-in: a refresh that starts after it carries
\* nothing, and is refused.
LEMMA CleanStep ==
  ASSUME SessionInv, [SessionNext]_sessionVars
  PROVE  NothingLeft'
<1> USE DEF SessionInv, SessionTypeOK, Pairs, NothingLeft, Refreshing, NoRefresh
<1>1. ASSUME NEW r \in Requests, Send(r) \/ Serves(r) \/ Finish(r)
      PROVE  NothingLeft'
  BY <1>1 DEF Send, Serves, Finish, browser
<1>2. ASSUME NEW r \in Requests, Denied(r)
      PROVE  NothingLeft'
  <2>1. /\ refresh' \in {refresh, [refresh EXCEPT ![r] = [phase |-> "sent", carries |-> cookie, brings |-> 0]]}
        /\ UNCHANGED <<token, cookie, out>>
    BY <1>2 DEF Denied, browser
  <2> QED
    BY <2>1
<1>3. ASSUME NEW r \in Requests, ReadRefreshToken(r) \/ FailRefresh(r)
      PROVE  NothingLeft'
  BY <1>3 DEF ReadRefreshToken, FailRefresh, browser
<1>4. ASSUME NEW r \in Requests, RotateRefreshToken(r) \/ Refreshed(r)
      PROVE  NothingLeft'
  BY <1>4 DEF RotateRefreshToken, Refreshed
<1>5. ASSUME NEW r \in Requests, RefreshRefused(r) \/ RefreshLost(r)
      PROVE  NothingLeft'
  <2>1. /\ \A q \in Requests : refresh'[q] \in {refresh[q], NoRefresh}
        /\ token' \in {token, 0} /\ UNCHANGED <<cookie, out>>
    BY <1>5 DEF RefreshRefused, RefreshLost, Settled, browser
  <2> QED
    BY <2>1
<1>6. CASE SignedOut
  BY <1>6 DEF SignedOut, DeletesCookie, traffic
<1>7. CASE SignedIn
  BY <1>7 DEF SignedIn
<1>8. CASE Reload \/ MeAnswered \/ SignIn \/ EnterCode \/ SignInServed \/ SignInLost \/ SignOut
  BY <1>8 DEF Reload, MeAnswered, SignIn, EnterCode, SignInServed, SignInLost, SignOut, browser, traffic
<1>9. CASE Lapse \/ EndSession \/ UNCHANGED sessionVars
  BY <1>9 DEF Lapse, EndSession, sessionVars, browser, traffic
<1> QED
  BY <1>1, <1>2, <1>3, <1>4, <1>5, <1>6, <1>7, <1>8, <1>9 DEF SessionNext, Goes
-----------------------------------------------------------------------------
\* Nobody is signed in when the document is loaded for the first time.
LEMMA SessionStart == SessionInit => SessionInv
<1> SUFFICES ASSUME SessionInit PROVE SessionInv
  OBVIOUS
<1> USE SessionsAssumption DEF SessionInit, NoRefresh
<1>1. SessionTypeOK
  <2>1. user \in BOOLEAN /\ leaving \in BOOLEAN /\ crossed \in BOOLEAN
    OBVIOUS
  <2>2. refresh \in [Requests -> [phase : {"none", "sent", "read", "done", "refused", "failed"},
                                 carries : 0 .. MaxIssued, brings : 0 .. MaxIssued]]
    OBVIOUS
  <2> QED
    BY <2>1, <2>2 DEF SessionTypeOK, Pairs
<1>2. Budget
  <2>1. Costly = {} /\ Cost = 0
    BY DEF Costly, Cost
  <2> QED
    BY <2>1, FS_EmptySet DEF Budget
<1>3. Refreshing = {}
  BY DEF Refreshing
<1> QED
  BY <1>1, <1>2, <1>3 DEF SessionInv, RefreshersWait, SharedIsRefreshing, WaitersHaveRefresh, OneRefresh,
                          Circulating, CarriesCookie, NothingLeft

\* The inductive invariant of the sessions: at most one refresh is under way in the admin
\* panel, whoever waits has one to wait for, and what it carries is the browser's token.
THEOREM SessionInvariance == SessionSpec => []SessionInv
<1>1. SessionInv /\ [SessionNext]_sessionVars => SessionInv'
  BY BudgetStep, TypeStep, RefreshStep, TokenStep, CleanStep DEF SessionInv
<1> QED
  BY <1>1, SessionStart, PTL DEF SessionSpec

\* Type correctness, with never more pairs issued than there are numbers for.
THEOREM SessionTypeCorrect == SessionSpec => []SessionTypeOK
BY SessionInvariance, PTL DEF SessionInv

\* The safety half of WaitersReleased: a request never waits for a refresh that is over.
THEOREM NobodyWaitsInVain == SessionSpec => []WaitersHaveRefresh
BY SessionInvariance, PTL DEF SessionInv

\* Whoever signed out stays so: no late answer, retry or refresh brings a token back.
THEOREM SignOutIsFinal == SessionSpec => []SignedOutStays
<1>1. SessionInv => SignedOutStays
  BY DEF SessionInv, NothingLeft, SignedOutStays
<1> QED
  BY <1>1, SessionInvariance, PTL

\* However many requests are denied together, and in whatever order their answers come:
\* unless refreshes crossed, the page gives its token up by itself only after a refusal that
\* means that the session is over, or after an error of the backend that is no refusal.
THEOREM OwnRequestsKeepTheSession == SessionSpec => RacesKeepTheSession
<1> DEFINE Keeps == token # 0 /\ token' = 0 /\ ~SignsOut /\ ~FindsOut
                      => cookie \notin live \/ crossed \/ BackendFailed
<1>1. SessionInv /\ [SessionNext]_sessionVars => [Keeps]_sessionVars
  <2> SUFFICES ASSUME SessionInv, SessionNext, token # 0, token' = 0, ~SignsOut, ~FindsOut, ~crossed,
                      ~BackendFailed
               PROVE  cookie \notin live
    BY Zenon
  <2> USE DEF SessionInv, SessionTypeOK, Pairs, Circulating, CarriesCookie, Refreshing, NoRefresh
  <2>1. ASSUME NEW r \in Requests, RefreshRefused(r)
        PROVE  cookie \notin live
    BY <2>1 DEF RefreshRefused, BackendFailed
  <2>2. ASSUME NEW r \in Requests, Goes(r), ~RefreshRefused(r)
        PROVE  token' # 0
    BY <2>2 DEF Goes, Serves, Finish, Denied, ReadRefreshToken, RotateRefreshToken, FailRefresh, Refreshed,
                RefreshLost, browser
  <2>3. ASSUME NEW r \in Requests, Send(r)
        PROVE  token' # 0
    BY <2>3 DEF Send, browser
  <2>4. CASE MeAnswered \/ SignedOut
    BY <2>4 DEF MeAnswered, SignedOut, SignsOut, FindsOut
  <2>5. CASE Reload \/ SignIn \/ EnterCode \/ SignInServed \/ SignedIn \/ SignInLost \/ SignOut \/ Lapse \/ EndSession
    BY <2>5 DEF Reload, SignIn, EnterCode, SignInServed, SignedIn, SignInLost, SignOut, Lapse, EndSession, browser
  <2> QED
    BY <2>1, <2>2, <2>3, <2>4, <2>5 DEF SessionNext
<1>2. SessionSpec => [][Keeps]_sessionVars
  BY <1>1, SessionInvariance, PTL DEF SessionSpec
<1> QED
  BY <1>2 DEF RacesKeepTheSession
-----------------------------------------------------------------------------
\* A desk in a tab goes on as if it were alone, and so does the session.
LEMMA PartsGoOnAlone == PagesSpec => Spec /\ SessionSpec
<1>1. PagesInit => Init /\ SessionInit
  BY DEF PagesInit
<1>2. [PagesNext]_pagesVars => [Next]_vars /\ [SessionNext]_sessionVars
  BY DEF PagesNext, AtDesk, InSession, pagesVars
<1> QED
  BY <1>1, <1>2, PTL DEF PagesSpec, Spec, SessionSpec

\* Every variable of a tab has a value of its kind, however the steps of the page and of its
\* session interleave.
THEOREM PagesTypes == PagesSpec => []PagesTypeOK
BY PartsGoOnAlone, DeskTypes, SessionTypeCorrect, PTL DEF PagesTypeOK
==============================================================================
