------------------------------- MODULE CartProofs -------------------------------
(***************************************************************************)
(* Proofs about CartStore, for any variants, guest sessions and calls: the *)
(* cart that the page shows is the backend's, and what a guest chose stays *)
(* within reach.  Every action that touches a call renews it, has it looked *)
(* up or has it served: the sessions and carts are followed through these  *)
(* three, what the page shows through each action.  The second half is     *)
(* about CheckoutPage: what is shown is charged, and a cart is ordered once. *)
(***************************************************************************)
EXTENDS CartStore, CheckoutPage, TLAPS

\* The calls, with their fields.
CallRecords == [step : {"idle", "sent", "looked", "good", "bad"}, op : {"fetch", "add", "set", "order", "merge"},
                variant : Variants \cup {Nobody}, quantity : Nat, owner : Owners \cup {Nobody},
                session : Sessions \cup {Nobody}, mints : BOOLEAN, found : Nat,
                sees : [Variants -> Nat], guest : [Variants -> Nat], merges : BOOLEAN]
CallTyped == call \in [Calls -> CallRecords]

\* Only sessions that the backend has made up are in use, and the others have no cart.
Made(s) == s \in known \cup {Nobody}
KnownSessions ==
  /\ Made(cookie)
  /\ \A c \in Underway : Made(call[c].session) /\ (call[c].owner = Customer \/ Made(call[c].owner))
  /\ \A s \in Sessions \ known : carts[s] = Empty /\ rows[s] = 0

\* A call has no owner until it was looked up, unless it was sent with one; one that made
\* up a session saw an empty cart; one that orders saw one that is not.
CallShape ==
  \A c \in Calls :
    /\ call[c].step = "idle" => ~call[c].mints
    /\ call[c].step = "sent" => ~call[c].mints
    /\ call[c].step \notin {"idle", "sent"} => call[c].owner # Nobody
    /\ call[c].op = "merge" \/ call[c].merges => call[c].owner = Customer
    /\ call[c].mints => call[c].owner \in known /\ call[c].sees = Empty
    /\ call[c].op = "order" /\ call[c].step = "good" => call[c].sees # Empty

\* Nobody but the call it was made up for has a session whose answer is on its way.
OwnSessions ==
  \A c \in Underway : call[c].mints =>
     /\ call[c].owner # cookie
     /\ \A d \in Underway \ {c} : call[d].owner # call[c].owner /\ call[d].session # call[c].owner

\* A guest's first call: its session is not made up yet, or not known to the browser.
\* Unless two ran together, there is one, there is no cookie meanwhile, and every other
\* call is about the cart that the cookie is for.
First(c) == c \in Underway /\ (call[c].owner = Nobody \/ call[c].mints)
OneFirst == \A c, d \in Calls : First(c) /\ First(d) => c = d
FirstNoCookie == \A c \in Calls : First(c) => cookie = Nobody
Reachable == \A c \in Underway : call[c].owner \in Sessions => call[c].owner = cookie \/ call[c].mints
EmptyUntilGood == \A c \in Underway : call[c].mints /\ call[c].step # "good" => carts[call[c].owner] = Empty

\* A call that found no row of its owner: there is still none, and no other such call.
Finder(c) == call[c].step = "looked" /\ call[c].found = 0
FoundNone == \A c \in Calls : Finder(c) => rows[call[c].owner] = 0
OneFinder == \A c, d \in Calls : Finder(c) /\ Finder(d) /\ call[c].owner = call[d].owner => c = d

GuestInv == GuestCartKept /\ OneFirst /\ FirstNoCookie /\ Reachable /\ EmptyUntilGood /\ FoundNone /\ OneFinder
SessionInv == KnownSessions /\ CallShape /\ OwnSessions /\ (split \/ GuestInv)

\* Of two fetches one has read first.
ReadersOrdered ==
  /\ \A d \in Calls : earlier[d] \subseteq Readers
  /\ \A c, d \in Readers : ~(c \in earlier[d] /\ d \in earlier[c])

\* While what is shown is right, a signed-in customer's calls are the customer's.
SignedInCalls == ~disturbed /\ signedIn /\ ~lapsed => \A c \in Underway : call[c].owner = Customer

\* The page will ask for the cart, or the newest answer on its way is right, or will be
\* recognised as another's, or what is shown is right and nothing that was read before
\* counts.
Asks(c) == \/ call[c].op # "fetch" /\ call[c].step = "good"
           \/ call[c].op = "fetch" /\ call[c].step = "sent"
Newest(c) == c \in Readers \ overtaken /\ \A d \in Readers \ {c} : d \in earlier[c]
UpToDate(c) == call[c].sees = carts[call[c].owner] \/ (~call[c].mints /\ call[c].owner # Owner)
ShowsNow == Readers \subseteq overtaken /\ (shown = Unknown \/ (Owner # Nobody /\ shown = carts[Owner]))
CartFollows == disturbed \/ (\E c \in Calls : Asks(c)) \/ (\E c \in Calls : Newest(c) /\ UpToDate(c)) \/ ShowsNow

CartInv == CartTypeOK /\ CallTyped /\ SessionInv /\ ReadersOrdered /\ SignedInCalls /\ CartFollows
-----------------------------------------------------------------------------
\* What a step makes of one call: it ends, or it is followed by a fresh one.
Fresh(c) ==
  /\ call'[c].step = "sent" /\ call'[c].mints = FALSE /\ call'[c].session = cookie'
  /\ call'[c].owner \in {Customer, cookie'}
  /\ call'[c].op = "merge" \/ call'[c].merges => call'[c].owner = Customer
Over(c) == call'[c].step = "idle" /\ call'[c].mints = FALSE /\ call'[c].op = "fetch" /\ call'[c].merges = FALSE
Renews(c) ==
  /\ \A d \in Calls \ {c} : call'[d] = call[d]
  /\ UNCHANGED backendCarts
  /\ Fresh(c) \/ Over(c)
  /\ cookie' = cookie \/ (call[c].mints /\ call[c].step = "good" /\ cookie' = call[c].owner)
  /\ split => split'
  /\ call[c].mints => split' \/ cookie' = call[c].owner \/ call[c].step # "good"
  /\ split' \/ Over(c) \/ call'[c].owner # Nobody \/ (\A d \in Calls \ {c} : ~First(d))

\* A renewal keeps the sessions and carts in order.
LEMMA RenewsSessions ==
  ASSUME CartAssumption, CartTypeOK, CallTyped, CallTyped', SessionInv, NEW c \in Calls, Renews(c)
  PROVE  SessionInv'
<1> USE DEF Customer, Nobody
<1>a. Customer \notin known /\ Nobody \notin known /\ known \subseteq Sessions
  BY DEF CartAssumption, CartTypeOK
<1>b. \A d \in Calls \ {c} : call'[d] = call[d]
  BY DEF Renews
<1>c. UNCHANGED <<known, carts, rows>>
  BY DEF Renews, backendCarts
<1>d. Fresh(c) \/ Over(c)
  BY DEF Renews
<1>e. \A d \in Calls \ {c} : d \in Underway' <=> d \in Underway
  BY <1>b DEF Underway
<1>f. cookie' = cookie \/ (c \in Underway /\ call[c].mints /\ call[c].step = "good" /\ cookie' = call[c].owner)
  BY DEF Renews, Underway
<1>1. KnownSessions'
  <2>1. Made(cookie)'
    BY <1>f, <1>c DEF SessionInv, KnownSessions, CallShape, Made
  <2>2. ASSUME NEW d \in Underway'
        PROVE  Made(call[d].session)' /\ (call[d].owner = Customer \/ Made(call[d].owner))'
    <3>1. CASE d = c
      BY <1>d, <2>1, <2>2, <3>1 DEF Fresh, Over, Underway, Made
    <3>2. CASE d # c
      BY <1>b, <1>c, <1>e, <2>2, <3>2 DEF Underway, Made, SessionInv, KnownSessions
    <3> QED
      BY <3>1, <3>2
  <2> QED
    BY <1>c, <2>1, <2>2 DEF KnownSessions, SessionInv
<1>2. CallShape'
  <2>1. ASSUME NEW d \in Calls, d # c
        PROVE  /\ (call[d].step = "idle" => ~call[d].mints)'
               /\ (call[d].step = "sent" => ~call[d].mints)'
               /\ (call[d].step \notin {"idle", "sent"} => call[d].owner # Nobody)'
               /\ (call[d].op = "merge" \/ call[d].merges => call[d].owner = Customer)'
               /\ (call[d].mints => call[d].owner \in known /\ call[d].sees = Empty)'
               /\ (call[d].op = "order" /\ call[d].step = "good" => call[d].sees # Empty)'
    BY <1>b, <1>c, <2>1 DEF SessionInv, CallShape, Empty
  <2> QED
    BY <1>d, <2>1 DEF Fresh, Over, CallShape
<1>3. OwnSessions'
  BY <1>a, <1>b, <1>d, <1>e, <1>f DEF Underway, SessionInv, OwnSessions, KnownSessions, CallShape, Made, Fresh, Over
<1>4. ASSUME ~split' PROVE GuestInv'
  <2>1. /\ ~split /\ GuestCartKept /\ OneFirst /\ FirstNoCookie /\ Reachable /\ EmptyUntilGood /\ FoundNone /\ OneFinder
    BY <1>4 DEF Renews, SessionInv, GuestInv
  <2>2. \A d \in Calls \ {c} : First(d)' <=> First(d)
    BY <1>b, <1>e DEF First
  <2>3. First(c)' => \A d \in Calls \ {c} : ~First(d)
    BY <1>4, <1>d DEF Renews, First, Fresh, Over, Underway
  <2>4. OneFirst'
    BY <2>1, <2>2, <2>3 DEF OneFirst
  <2>5. cookie' # cookie => First(c) /\ cookie = Nobody /\ cookie' # Nobody
    BY <1>a, <1>f, <2>1 DEF First, FirstNoCookie, SessionInv, CallShape
  <2>6. FirstNoCookie'
    <3>1. First(c)' => cookie' = Nobody
      BY <1>d DEF Fresh, Over, First, Underway
    <3> QED
      BY <2>1, <2>2, <2>5, <3>1 DEF FirstNoCookie, OneFirst
  <2>7. Reachable'
    BY <1>a, <1>b, <1>d, <1>e, <2>1, <2>5 DEF Reachable, Fresh, Over, Underway, CartAssumption
  <2>8. EmptyUntilGood'
    <3>1. ~call'[c].mints
      BY <1>d DEF Fresh, Over
    <3>2. ASSUME NEW d \in Underway', call'[d].mints, call'[d].step # "good"
          PROVE  carts'[call'[d].owner] = Empty
      <4>1. d \in Underway /\ call'[d] = call[d]
        BY <1>b, <1>e, <3>1, <3>2 DEF Underway
      <4> QED
        BY <1>c, <2>1, <3>2, <4>1 DEF EmptyUntilGood
    <3> QED
      BY <3>2 DEF EmptyUntilGood, Empty
  <2>9. FoundNone' /\ OneFinder'
    BY <1>b, <1>c, <1>d, <2>1 DEF FoundNone, OneFinder, Finder, Fresh, Over
  <2>10. GuestCartKept'
    <3>1. ASSUME NEW s \in Sessions, carts'[s] # Empty', cookie' # s
          PROVE  \E d \in Underway' : (call[d].mints /\ call[d].owner = s)'
      <4>1. cookie # s
        BY <2>5, <3>1 DEF CartAssumption
      <4>2. PICK d \in Underway : call[d].mints /\ call[d].owner = s
        BY <1>c, <2>1, <3>1, <4>1 DEF GuestCartKept, Empty
      <4>3. d # c
        <5>1. CASE call[c].step # "good"
          BY <1>c, <2>1, <3>1, <4>2, <5>1 DEF EmptyUntilGood, Empty
        <5>2. CASE call[c].step = "good"
          BY <1>4, <3>1, <4>2, <5>2 DEF Renews
        <5> QED
          BY <5>1, <5>2
      <4>4. d \in Underway' /\ call'[d] = call[d]
        BY <1>b, <1>e, <4>2, <4>3 DEF Underway
      <4> QED
        BY <4>2, <4>4
    <3> QED
      BY <1>c, <2>1, <3>1 DEF GuestCartKept
  <2> QED
    BY <2>4, <2>6, <2>7, <2>8, <2>9, <2>10 DEF GuestInv
<1> QED
  BY <1>1, <1>2, <1>3, <1>4 DEF SessionInv
-----------------------------------------------------------------------------
\* What looking makes of a call: it has an owner, one that is new if it had none.
Looks(c, o) ==
  /\ \A d \in Calls \ {c} : call'[d] = call[d]
  /\ call[c].step = "sent" /\ call'[c].step \in {"looked", "bad"}
  /\ call'[c].step = "looked" => ~(rows[o] > 1)
  /\ call'[c].op = call[c].op /\ call'[c].merges = call[c].merges /\ call'[c].session = call[c].session
  /\ call'[c].owner = o /\ call'[c].found = rows[o] /\ call'[c].sees = carts[o]
  /\ \/ call[c].owner # Nobody /\ o = call[c].owner /\ call'[c].mints = FALSE /\ known' = known
     \/ call[c].owner = Nobody /\ o \in Sessions \ known /\ call'[c].mints = TRUE /\ known' = known \cup {o}
  /\ UNCHANGED <<cookie, carts, rows>>
  /\ split => split'
  /\ rows[o] = 0 => split' \/ Unmade(o) = {}

\* The look-up of a call does what Looks says, and keeps the calls typed.
LEMMA LookFields ==
  ASSUME CartTypeOK, CallTyped, NEW c \in Calls, Look(c)
  PROVE  CallTyped' /\ \E o \in Owners : Looks(c, o)
<1> DEFINE m == call[c].owner = Nobody
           o == IF m THEN CHOOSE s \in Sessions : s \notin known ELSE call[c].owner
           t == call[c].session
           looksFor == {o} \cup (IF call[c].op = "merge" THEN {t} \ {Nobody} ELSE {})
           step == IF \E x \in looksFor : rows[x] > 1 THEN "bad" ELSE "looked"
           guest == IF t \in looksFor THEN carts[t] ELSE Empty
           q == [call[c] EXCEPT !.step = step, !.owner = o, !.mints = m, !.found = rows[o], !.sees = carts[o],
                                !.guest = guest]
<1>1. /\ call[c].step = "sent"
      /\ call' = [call EXCEPT ![c] = q]
      /\ m => Sessions \ known # {}
      /\ known' = (IF m THEN known \cup {o} ELSE known)
      /\ split' = (split \/ (m /\ Together(c)) \/ (rows[o] = 0 /\ Unmade(o) # {}))
      /\ UNCHANGED <<cookie, carts, rows>>
  BY DEF Look, credentials
<1>2. call[c] \in CallRecords /\ call[c].owner \in Owners \cup {Nobody} /\ t \in Sessions \cup {Nobody}
  BY DEF CallTyped, CallRecords
<1>3. m => o \in Sessions \ known
  BY <1>1
<1>4. o \in Owners
  BY <1>2, <1>3 DEF Owners
<1>5. step \in {"looked", "bad"} /\ (step = "looked" => ~(rows[o] > 1))
  OBVIOUS
<1>6. rows[o] \in Nat /\ carts[o] \in [Variants -> Nat] /\ guest \in [Variants -> Nat]
  <2>1. looksFor \subseteq Owners
    BY <1>2, <1>4 DEF Owners
  <2>2. Empty \in [Variants -> Nat]
    BY DEF Empty
  <2> QED
    BY <1>4, <2>1, <2>2 DEF CartTypeOK
<1>7. m \in BOOLEAN /\ (m => m = TRUE /\ call[c].owner = Nobody) /\ (~m => m = FALSE /\ o = call[c].owner /\ call[c].owner # Nobody)
  OBVIOUS
<1>8. (split => split') /\ (rows[o] = 0 => split' \/ Unmade(o) = {})
  BY <1>1, Zenon
<1> HIDE DEF o, m, t, looksFor, step, guest
<1> DEFINE r == call[c]
           n == rows[o]
           saw == carts[o]
<1>r. r \in CallRecords /\ m \in BOOLEAN /\ step \in {"looked", "bad"} /\ n \in Nat
      /\ saw \in [Variants -> Nat] /\ guest \in [Variants -> Nat]
  BY <1>2, <1>5, <1>6, <1>7
<1>q. q = [r EXCEPT !.step = step, !.owner = o, !.mints = m, !.found = n, !.sees = saw, !.guest = guest]
  OBVIOUS
<1> HIDE DEF q, r, n, saw
<1>8a. /\ q.op = r.op /\ q.merges = r.merges /\ q.session = r.session
       /\ q.step = step /\ q.owner = o /\ q.mints = m /\ q.found = n /\ q.sees = saw
  <2>1. DOMAIN r = {"step", "op", "variant", "quantity", "owner", "session", "mints", "found", "sees", "guest", "merges"}
    BY <1>r DEF CallRecords
  <2> QED
    BY <1>q, <2>1, Zenon
<1>8b. q \in CallRecords
  <2> DEFINE r1 == [r EXCEPT !.step = step, !.owner = o]
             r2 == [r1 EXCEPT !.mints = m]
             r3 == [r2 EXCEPT !.found = n, !.sees = saw, !.guest = guest]
  <2>1. r1 \in CallRecords
    BY <1>4, <1>r DEF CallRecords
  <2>2. q = r3
    BY <1>q
  <2> HIDE DEF r1
  <2>3. r2 \in CallRecords
    <3>1. CASE m = TRUE
      <4>1. r2 = [r1 EXCEPT !.mints = TRUE]
        BY <3>1
      <4> QED
        BY <2>1, <4>1 DEF CallRecords
    <3>2. CASE m = FALSE
      <4>1. r2 = [r1 EXCEPT !.mints = FALSE]
        BY <3>2
      <4> QED
        BY <2>1, <4>1 DEF CallRecords
    <3> QED
      BY <1>r, <3>1, <3>2
  <2> HIDE DEF r2
  <2>4. r3 \in CallRecords
    BY <1>r, <2>3 DEF CallRecords
  <2> QED
    BY <2>2, <2>4
<1>9. /\ q \in CallRecords
      /\ q.op = call[c].op /\ q.merges = call[c].merges /\ q.session = call[c].session
      /\ q.step = step /\ q.owner = o /\ q.mints = m /\ q.found = rows[o] /\ q.sees = carts[o]
  BY <1>8a, <1>8b DEF r, n, saw
<1> HIDE DEF r, n, saw
<1>10. CallTyped' /\ call'[c] = q /\ \A d \in Calls \ {c} : call'[d] = call[d]
  BY <1>1, <1>9 DEF CallTyped, CallRecords
<1>11. \/ call[c].owner # Nobody /\ o = call[c].owner /\ call'[c].mints = FALSE /\ known' = known
       \/ call[c].owner = Nobody /\ o \in Sessions \ known /\ call'[c].mints = TRUE /\ known' = known \cup {o}
  <2>1. CASE m
    BY <1>1, <1>3, <1>7, <1>9, <1>10, <2>1
  <2>2. CASE ~m
    BY <1>1, <1>7, <1>9, <1>10, <2>2
  <2> QED
    BY <2>1, <2>2
<1>12. Looks(c, o)
  BY <1>1, <1>5, <1>8, <1>9, <1>10, <1>11 DEF Looks
<1> QED
  BY <1>4, <1>10, <1>12

\* A look-up keeps the sessions and carts in order: a first call is first before and after
\* it, and gets a session that nobody else has.
LEMMA LookSessions ==
  ASSUME CartAssumption, CartTypeOK, CallTyped, SessionInv, NEW c \in Calls, NEW o \in Owners, Looks(c, o)
  PROVE  SessionInv'
<1> USE DEF Customer, Nobody
<1>a. Customer \notin known /\ Nobody \notin known /\ known \subseteq Sessions
  BY DEF CartAssumption, CartTypeOK
<1>b. \A d \in Calls \ {c} : call'[d] = call[d]
  BY DEF Looks
<1>c. UNCHANGED <<cookie, carts, rows>> /\ (split => split')
  BY DEF Looks
<1>d. Underway' = Underway /\ c \in Underway /\ ~call[c].mints
  BY <1>b DEF Looks, Underway, SessionInv, CallShape
<1>e. /\ call'[c].step \in {"looked", "bad"} /\ (call'[c].step = "looked" => ~(rows[o] > 1))
      /\ call'[c].op = call[c].op /\ call'[c].merges = call[c].merges /\ call'[c].session = call[c].session
      /\ call'[c].owner = o /\ call'[c].found = rows[o] /\ call'[c].sees = carts[o]
  BY DEF Looks
<1>f. \/ call[c].owner # Nobody /\ o = call[c].owner /\ call'[c].mints = FALSE /\ known' = known
      \/ call[c].owner = Nobody /\ o \in Sessions \ known /\ call'[c].mints = TRUE /\ known' = known \cup {o}
  BY DEF Looks
<1>g. KnownSessions /\ CallShape /\ OwnSessions
  BY DEF SessionInv
<1>h. o # Nobody /\ (o \notin known => call[c].owner = Nobody \/ o = Customer)
      /\ (call'[c].mints <=> call[c].owner = Nobody)
  BY <1>a, <1>d, <1>f, <1>g DEF KnownSessions, Made, CartAssumption
<1>1. KnownSessions'
  <2>0. known \subseteq known' /\ o \in known' \cup {Customer}
    BY <1>d, <1>f, <1>g DEF KnownSessions, Made
  <2>1. ASSUME NEW d \in Underway PROVE Made(call[d].session)' /\ (call[d].owner = Customer \/ Made(call[d].owner))'
    <3>1. Made(call[d].session) /\ (call[d].owner = Customer \/ Made(call[d].owner))
      BY <1>g DEF KnownSessions
    <3>2. call'[d].session = call[d].session /\ (call'[d].owner = call[d].owner \/ call'[d].owner = o)
      BY <1>b, <1>e DEF Underway
    <3> QED
      BY <2>0, <3>1, <3>2 DEF Made
  <2>2. Made(cookie)' /\ \A s \in Sessions \ known' : carts'[s] = Empty' /\ rows'[s] = 0
    BY <1>c, <1>f, <1>g DEF KnownSessions, Made, Empty
  <2> QED
    BY <1>d, <2>1, <2>2 DEF KnownSessions
<1>2. CallShape'
  <2>1. ASSUME NEW d \in Calls, d # c
        PROVE  /\ (call[d].step = "idle" => ~call[d].mints)'
               /\ (call[d].step = "sent" => ~call[d].mints)'
               /\ (call[d].step \notin {"idle", "sent"} => call[d].owner # Nobody)'
               /\ (call[d].op = "merge" \/ call[d].merges => call[d].owner = Customer)'
               /\ (call[d].mints => call[d].owner \in known /\ call[d].sees = Empty)'
               /\ (call[d].op = "order" /\ call[d].step = "good" => call[d].sees # Empty)'
    BY <1>b, <1>f, <1>g, <2>1 DEF CallShape, Empty
  <2>2. /\ call'[c].step \notin {"idle", "sent", "good"} /\ call'[c].owner # Nobody
        /\ call'[c].op = "merge" \/ call'[c].merges => call'[c].owner = Customer
    BY <1>e, <1>f, <1>g, <1>h DEF CallShape
  <2>3. call'[c].mints => call'[c].owner \in known' /\ call'[c].sees = Empty'
    BY <1>e, <1>f, <1>g DEF KnownSessions, Empty
  <2> QED
    BY <2>1, <2>2, <2>3 DEF CallShape
<1>3. OwnSessions'
  <2>1. ASSUME NEW d \in Underway, call'[d].mints
        PROVE  /\ call'[d].owner # cookie'
               /\ \A e \in Underway \ {d} : call'[e].owner # call'[d].owner /\ call'[e].session # call'[d].owner
    <3>1. CASE d = c
      BY <1>a, <1>b, <1>c, <1>d, <1>e, <1>f, <1>g, <2>1, <3>1 DEF KnownSessions, Made, CartAssumption, Underway
    <3>2. CASE d # c
      <4>1. call'[d] = call[d] /\ call[d].mints /\ call[d].owner \in known
        BY <1>b, <1>g, <2>1, <3>2 DEF Underway, CallShape
      <4>2. call[d].owner # cookie /\ \A e \in Underway \ {d} : call[e].owner # call[d].owner /\ call[e].session # call[d].owner
        BY <1>g, <4>1 DEF OwnSessions
      <4>3. call'[c].owner # call[d].owner /\ call'[c].session # call[d].owner
        BY <1>d, <1>e, <1>f, <3>2, <4>1, <4>2
      <4> QED
        BY <1>b, <1>c, <4>1, <4>2, <4>3 DEF Underway
    <3> QED
      BY <3>1, <3>2
  <2> QED
    BY <1>d, <2>1 DEF OwnSessions
<1>4. ASSUME ~split' PROVE GuestInv'
  <2>1. /\ GuestCartKept /\ OneFirst /\ FirstNoCookie /\ Reachable /\ EmptyUntilGood /\ FoundNone /\ OneFinder /\ ~split
    BY <1>4, <1>c DEF SessionInv, GuestInv
  <2>2. \A d \in Calls : First(d)' <=> First(d)
    BY <1>b, <1>d, <1>e, <1>h DEF First
  <2>3. OneFirst' /\ FirstNoCookie'
    BY <1>c, <2>1, <2>2 DEF OneFirst, FirstNoCookie
  <2>4. Reachable'
    BY <1>a, <1>b, <1>c, <1>d, <1>e, <1>f, <2>1 DEF Reachable, Underway
  <2>5. EmptyUntilGood'
    <3>1. ASSUME NEW d \in Underway, call'[d].mints, call'[d].step # "good"
          PROVE  carts'[call'[d].owner] = Empty
      <4>1. CASE d = c
        BY <1>c, <1>e, <1>f, <1>g, <3>1, <4>1 DEF KnownSessions
      <4>2. CASE d # c
        BY <1>b, <1>c, <2>1, <3>1, <4>2 DEF EmptyUntilGood, Underway
      <4> QED
        BY <4>1, <4>2
    <3> QED
      BY <1>d, <3>1 DEF EmptyUntilGood, Empty
  <2>6. FoundNone'
    BY <1>b, <1>c, <1>e, <2>1 DEF FoundNone, Finder
  <2>7. OneFinder'
    <3>1. rows[o] = 0 => Unmade(o) = {}
      BY <1>4 DEF Looks
    <3> QED
      BY <1>b, <1>d, <1>e, <2>1, <3>1 DEF OneFinder, Finder, Unmade, Underway
  <2>8. GuestCartKept'
    <3>1. ASSUME NEW d \in Underway, call[d].mints PROVE d # c /\ call'[d] = call[d]
      BY <1>b, <1>d, <3>1 DEF Underway
    <3> QED
      BY <1>c, <1>d, <2>1, <3>1 DEF GuestCartKept, Empty
  <2> QED
    BY <2>3, <2>4, <2>5, <2>6, <2>7, <2>8 DEF GuestInv
<1> QED
  BY <1>1, <1>2, <1>3, <1>4 DEF SessionInv
-----------------------------------------------------------------------------
\* What an answer does: it may write its owner's cart, empty that of a guest, or write the
\* customer's.
Serves(c) ==
  /\ \A d \in Calls \ {c} : call'[d] = call[d]
  /\ call[c].step = "looked" /\ call'[c].step \in {"good", "bad"}
  /\ call'[c].op = call[c].op /\ call'[c].merges = call[c].merges /\ call'[c].session = call[c].session
  /\ call'[c].owner = call[c].owner /\ call'[c].mints = call[c].mints /\ call'[c].sees = call[c].sees
  /\ UNCHANGED <<cookie, known, split>>
  /\ call'[c].step = "bad" => UNCHANGED <<carts, rows>>
  /\ call[c].op = "order" /\ call'[c].step = "good" => call[c].sees # Empty
  /\ \A x \in Sessions \ {call[c].owner} : carts'[x] \in {carts[x], Empty}
  /\ \A x \in Owners \ {call[c].owner} : rows'[x] \in {rows[x], 0}
  /\ rows'[call[c].owner] = rows[call[c].owner] \/ (call[c].found = 0 /\ rows'[call[c].owner] = rows[call[c].owner] + 1)

\* An answer with a step changes nothing else of its call.
LEMMA StepFields ==
  ASSUME CallTyped, NEW c \in Calls, NEW step \in {"good", "bad"}, call' = [call EXCEPT ![c].step = step]
  PROVE  /\ \A d \in Calls \ {c} : call'[d] = call[d]
         /\ call'[c].step = step
         /\ call'[c].op = call[c].op /\ call'[c].merges = call[c].merges /\ call'[c].session = call[c].session
         /\ call'[c].owner = call[c].owner /\ call'[c].mints = call[c].mints /\ call'[c].sees = call[c].sees
  BY DEF CallTyped, CallRecords

\* Serving a call does what Serves says (get_cart, add_item, update_item, clear_cart) ...
LEMMA ServeFields ==
  ASSUME CartAssumption, CartTypeOK, CallTyped, NEW c \in Calls, Serve(c)
  PROVE  Serves(c)
<1> DEFINE op == call[c].op
           target == IF c \in given THEN Customer ELSE call[c].owner
           legal == c \notin gone /\ Legal(op, call[c].variant, call[c].quantity, call[c].sees, carts[target])
           w(now) == Written(op, call[c].variant, call[c].quantity, call[c].sees, now)
<1>1. /\ call[c].step = "looked" /\ UNCHANGED <<cookie, known, split>>
      /\ \/ /\ legal
            /\ carts' = [carts EXCEPT ![target] = w(@)]
            /\ rows' = [rows EXCEPT ![call[c].owner] = IF call[c].found = 0 THEN @ + 1 ELSE @]
            /\ call' = [call EXCEPT ![c].step = "good"]
         \/ call' = [call EXCEPT ![c].step = "bad"] /\ UNCHANGED <<carts, rows>>
  BY DEF Serve, history
<1>2. legal => (op = "order" => call[c].sees # Empty)
  BY DEF Legal
<1>3. target \in {Customer, call[c].owner} /\ Customer \notin Sessions
  BY DEF CartAssumption, Customer
<1> HIDE DEF legal, w, target
<1>4. CASE call' = [call EXCEPT ![c].step = "bad"] /\ UNCHANGED <<carts, rows>>
  BY <1>1, <1>4, StepFields DEF Serves
<1>5. CASE /\ legal
           /\ carts' = [carts EXCEPT ![target] = w(@)]
           /\ rows' = [rows EXCEPT ![call[c].owner] = IF call[c].found = 0 THEN @ + 1 ELSE @]
           /\ call' = [call EXCEPT ![c].step = "good"]
  <2>1. \A x \in Sessions \ {call[c].owner} : carts'[x] = carts[x]
    BY <1>3, <1>5 DEF CartTypeOK, Owners
  <2>2. /\ \A x \in Owners \ {call[c].owner} : rows'[x] = rows[x]
        /\ rows'[call[c].owner] = rows[call[c].owner] \/ (call[c].found = 0 /\ rows'[call[c].owner] = rows[call[c].owner] + 1)
    BY <1>5 DEF CartTypeOK
  <2>3. /\ \A d \in Calls \ {c} : call'[d] = call[d]
        /\ call'[c].step = "good"
        /\ call'[c].op = call[c].op /\ call'[c].merges = call[c].merges /\ call'[c].session = call[c].session
        /\ call'[c].owner = call[c].owner /\ call'[c].mints = call[c].mints /\ call'[c].sees = call[c].sees
    BY <1>5, StepFields
  <2> QED
    BY <1>1, <1>2, <1>5, <2>1, <2>2, <2>3 DEF Serves
<1> QED
  BY <1>1, <1>4, <1>5

\* The customer's cart, the guest's and their rows after a merge.
MergeWrites(c, s, sum) ==
  \/ UNCHANGED carts /\ rows' = [rows EXCEPT ![Customer] = IF call[c].found = 0 THEN @ + 1 ELSE @]
  \/ /\ s \in Sessions /\ call[c].found = 0
     /\ carts' = [carts EXCEPT ![Customer] = carts[s], ![s] = Empty]
     /\ rows' = [rows EXCEPT ![Customer] = @ + 1, ![s] = 0]
  \/ /\ s \in Sessions
     /\ carts' = [carts EXCEPT ![Customer] = sum, ![s] = Empty]
     /\ rows' = [rows EXCEPT ![s] = 0]

\* A merge is refused, or writes one of these (merge_guest_cart).
LEMMA MergeCases ==
  ASSUME CartAssumption, CartTypeOK, CallTyped, NEW c \in Calls, merge_guest_cart(c)
  PROVE  /\ call[c].step = "looked" /\ call[c].op = "merge"
         /\ UNCHANGED <<credentials, cookie, known, shown, isLoading, busy, made, history>>
         /\ gone' \subseteq Calls /\ given' \subseteq Calls
         /\ \/ call' = [call EXCEPT ![c].step = "bad"] /\ UNCHANGED <<carts, rows>>
            \/ /\ call' = [call EXCEPT ![c].step = "good"]
               /\ \E sum \in [Variants -> Nat] : MergeWrites(c, call[c].session, sum)
<1> DEFINE s == call[c].session
           now == carts[Customer]
           lines == {v \in Variants : s # Nobody /\ call[c].guest[v] > 0}
           merged == [v \in Variants |-> IF v \in lines THEN call[c].sees[v] + call[c].guest[v] ELSE now[v]]
<1>1. /\ call[c].step = "looked" /\ call[c].op = "merge"
      /\ UNCHANGED <<credentials, cookie, known, shown, isLoading, busy, made, history>>
  BY DEF merge_guest_cart
<1>2. gone' \subseteq Calls /\ given' \subseteq Calls
  BY DEF merge_guest_cart, Writers, Underway, CartTypeOK
<1>3. s \in Sessions \cup {Nobody} /\ call[c].guest \in [Variants -> Nat] /\ call[c].sees \in [Variants -> Nat]
  BY DEF CallTyped, CallRecords
<1>4. now \in [Variants -> Nat]
  BY DEF CartTypeOK, Owners
<1>5. merged \in [Variants -> Nat]
  <2>1. \A v \in Variants : call[c].sees[v] + call[c].guest[v] \in Nat /\ now[v] \in Nat
    BY <1>3, <1>4
  <2> HIDE DEF now, lines
  <2> QED
    BY <2>1
<1>6. lines # {} => s \in Sessions
  BY <1>3
<1>7. \/ call' = [call EXCEPT ![c].step = "bad"] /\ UNCHANGED <<carts, rows>>
      \/ /\ call' = [call EXCEPT ![c].step = "good"]
         /\ \/ UNCHANGED carts /\ rows' = [rows EXCEPT ![Customer] = IF call[c].found = 0 THEN @ + 1 ELSE @]
            \/ /\ lines # {} /\ call[c].found = 0
               /\ carts' = [carts EXCEPT ![Customer] = carts[s], ![s] = Empty]
               /\ rows' = [rows EXCEPT ![Customer] = @ + 1, ![s] = 0]
            \/ /\ lines # {}
               /\ carts' = [carts EXCEPT ![Customer] = merged, ![s] = Empty]
               /\ rows' = [rows EXCEPT ![s] = 0]
  BY DEF merge_guest_cart
<1> HIDE DEF merged, lines, now
<1> QED
  BY <1>1, <1>2, <1>5, <1>6, <1>7 DEF MergeWrites

\* ... and so does the merge (merge_guest_cart).
LEMMA MergeFields ==
  ASSUME CartAssumption, CartTypeOK, CallTyped, CallShape, NEW c \in Calls, merge_guest_cart(c)
  PROVE  Serves(c)
<1> DEFINE s == call[c].session
<1>1. /\ call[c].step = "looked" /\ call[c].op = "merge" /\ UNCHANGED <<cookie, known, split>>
      /\ \/ call' = [call EXCEPT ![c].step = "bad"] /\ UNCHANGED <<carts, rows>>
         \/ /\ call' = [call EXCEPT ![c].step = "good"]
            /\ \E sum \in [Variants -> Nat] : MergeWrites(c, s, sum)
  BY MergeCases DEF history
<1>2. call[c].owner = Customer /\ Customer \in Owners /\ Sessions \subseteq Owners /\ Customer \notin Sessions
  BY <1>1 DEF CallShape, CartAssumption, Owners, Customer
<1>3. CASE call' = [call EXCEPT ![c].step = "bad"] /\ UNCHANGED <<carts, rows>>
  BY <1>1, <1>3, StepFields DEF Serves
<1>4. ASSUME call' = [call EXCEPT ![c].step = "good"], NEW sum \in [Variants -> Nat], MergeWrites(c, s, sum)
      PROVE  Serves(c)
  <2>1. /\ \A d \in Calls \ {c} : call'[d] = call[d]
        /\ call'[c].step = "good"
        /\ call'[c].op = call[c].op /\ call'[c].merges = call[c].merges /\ call'[c].session = call[c].session
        /\ call'[c].owner = call[c].owner /\ call'[c].mints = call[c].mints /\ call'[c].sees = call[c].sees
    BY <1>4, StepFields
  <2> HIDE DEF s
  <2>2. \A x \in Sessions : carts'[x] \in {carts[x], Empty}
    BY <1>2, <1>4 DEF MergeWrites, CartTypeOK
  <2>3. \A x \in Owners \ {Customer} : rows'[x] \in {rows[x], 0}
    BY <1>2, <1>4 DEF MergeWrites, CartTypeOK
  <2>4. rows'[Customer] = rows[Customer] \/ (call[c].found = 0 /\ rows'[Customer] = rows[Customer] + 1)
    BY <1>2, <1>4 DEF MergeWrites, CartTypeOK
  <2> QED
    BY <1>1, <1>2, <2>1, <2>2, <2>3, <2>4 DEF Serves
<1> QED
  BY <1>1, <1>3, <1>4

\* An answer keeps the sessions and carts in order: what it writes is the cart of the cookie,
\* or of the session that comes with it.
LEMMA ServeSessions ==
  ASSUME CartAssumption, CartTypeOK, CallTyped, SessionInv, NEW c \in Calls, Serves(c)
  PROVE  SessionInv'
<1>a. Customer \notin known /\ Nobody \notin known /\ known \subseteq Sessions /\ Customer # Nobody
  BY DEF CartAssumption, CartTypeOK, Customer, Nobody
<1>b. \A d \in Calls \ {c} : call'[d] = call[d]
  BY DEF Serves
<1>c. /\ call[c].step = "looked" /\ call'[c].step \in {"good", "bad"}
      /\ call'[c].op = call[c].op /\ call'[c].merges = call[c].merges /\ call'[c].session = call[c].session
      /\ call'[c].owner = call[c].owner /\ call'[c].mints = call[c].mints /\ call'[c].sees = call[c].sees
  BY DEF Serves
<1>d. Underway' = Underway /\ c \in Underway
  BY <1>b, <1>c DEF Underway
<1>e. UNCHANGED <<cookie, known, split>>
  BY DEF Serves
<1>f. /\ \A x \in Sessions \ {call[c].owner} : carts'[x] \in {carts[x], Empty}
      /\ \A x \in Owners \ {call[c].owner} : rows'[x] \in {rows[x], 0}
      /\ rows'[call[c].owner] = rows[call[c].owner] \/ (call[c].found = 0 /\ rows'[call[c].owner] = rows[call[c].owner] + 1)
  BY DEF Serves
<1>g. KnownSessions /\ CallShape /\ OwnSessions
  BY DEF SessionInv
<1>h. call[c].owner \in known \cup {Customer} /\ Sessions \subseteq Owners
  BY <1>c, <1>d, <1>g DEF KnownSessions, CallShape, Made, Owners
<1>1. KnownSessions'
  <2>1. \A x \in Sessions \ known : carts'[x] = Empty /\ rows'[x] = 0
    BY <1>a, <1>f, <1>g, <1>h DEF KnownSessions, CartAssumption, Customer
  <2>2. \A d \in Underway : call'[d].session = call[d].session /\ call'[d].owner = call[d].owner
    BY <1>b, <1>c DEF Underway
  <2> QED
    BY <1>d, <1>e, <1>g, <2>1, <2>2 DEF KnownSessions, Made, Empty
<1>2. CallShape'
  <2>1. ASSUME NEW d \in Calls, d # c
        PROVE  /\ (call[d].step = "idle" => ~call[d].mints)'
               /\ (call[d].step = "sent" => ~call[d].mints)'
               /\ (call[d].step \notin {"idle", "sent"} => call[d].owner # Nobody)'
               /\ (call[d].op = "merge" \/ call[d].merges => call[d].owner = Customer)'
               /\ (call[d].mints => call[d].owner \in known /\ call[d].sees = Empty)'
               /\ (call[d].op = "order" /\ call[d].step = "good" => call[d].sees # Empty)'
    BY <1>b, <1>e, <1>g, <2>1 DEF CallShape, Empty
  <2>2. /\ call'[c].step \notin {"idle", "sent"} /\ call'[c].owner # Nobody
        /\ call'[c].op = "merge" \/ call'[c].merges => call'[c].owner = Customer
    BY <1>a, <1>c, <1>g, <1>h DEF CallShape
  <2>3. call'[c].mints => call'[c].owner \in known' /\ call'[c].sees = Empty'
    BY <1>c, <1>e, <1>g DEF CallShape, Empty
  <2>4. call'[c].op = "order" /\ call'[c].step = "good" => call'[c].sees # Empty'
    BY <1>c DEF Serves, Empty
  <2> QED
    BY <2>1, <2>2, <2>3, <2>4 DEF CallShape
<1>3. OwnSessions'
  <2>1. \A d \in Underway : /\ call'[d].session = call[d].session /\ call'[d].owner = call[d].owner
                             /\ call'[d].mints = call[d].mints
    BY <1>b, <1>c DEF Underway
  <2> QED
    BY <1>d, <1>e, <1>g, <2>1 DEF OwnSessions
<1>4. ASSUME ~split' PROVE GuestInv'
  <2>1. /\ GuestCartKept /\ OneFirst /\ FirstNoCookie /\ Reachable /\ EmptyUntilGood /\ FoundNone /\ OneFinder /\ ~split
    BY <1>4, <1>e DEF SessionInv, GuestInv
  <2>2. \A d \in Underway : call'[d].owner = call[d].owner /\ call'[d].mints = call[d].mints
    BY <1>b, <1>c DEF Underway
  <2>3. OneFirst' /\ FirstNoCookie'
    BY <1>d, <1>e, <2>1, <2>2 DEF OneFirst, FirstNoCookie, First
  <2>4. Reachable'
    BY <1>d, <1>e, <2>1, <2>2 DEF Reachable
  <2>5. EmptyUntilGood'
    <3>1. ASSUME NEW d \in Underway, call'[d].mints, call'[d].step # "good"
          PROVE  carts'[call'[d].owner] = Empty
      <4>1. CASE d = c
        BY <1>c, <2>1, <2>2, <3>1, <4>1 DEF EmptyUntilGood, Serves
      <4>2. CASE d # c
        <5>1. call'[d] = call[d] /\ d \in Calls
          BY <1>b, <4>2 DEF Underway
        <5>2. call[d].owner \in Sessions /\ call[d].owner # call[c].owner
          BY <1>d, <1>g, <1>a, <3>1, <4>2, <5>1 DEF OwnSessions, CallShape
        <5> QED
          BY <1>f, <2>1, <3>1, <5>1, <5>2 DEF EmptyUntilGood
      <4> QED
        BY <4>1, <4>2
    <3> QED
      BY <1>d, <3>1 DEF EmptyUntilGood, Empty
  <2>6. \A d \in Calls : Finder(d)' => d # c /\ Finder(d) /\ call'[d] = call[d]
    BY <1>b, <1>c DEF Finder
  <2>7. FoundNone'
    <3>1. ASSUME NEW d \in Calls, Finder(d)' PROVE rows'[call'[d].owner] = 0
      <4>1. d # c /\ Finder(d) /\ call'[d] = call[d] /\ rows[call[d].owner] = 0
        BY <2>1, <2>6, <3>1 DEF FoundNone
      <4>2. call[d].owner \in Owners
        BY <1>g, <4>1 DEF CallShape, CallTyped, CallRecords, Finder
      <4>3. call[d].owner = call[c].owner => call[c].found # 0
        BY <1>c, <2>1, <4>1 DEF OneFinder, Finder
      <4> QED
        BY <1>f, <4>1, <4>2, <4>3
    <3> QED
      BY <3>1 DEF FoundNone
  <2>8. OneFinder'
    BY <2>1, <2>6 DEF OneFinder
  <2>9. GuestCartKept'
    <3>1. \A x \in Owners : rows'[x] <= 1
      BY <1>c, <1>f, <2>1 DEF GuestCartKept, FoundNone, Finder, CartTypeOK
    <3>2. ASSUME NEW x \in Sessions, carts'[x] # Empty, cookie # x
          PROVE  \E d \in Underway : call[d].mints /\ call[d].owner = x
      <4>1. CASE x = call[c].owner
        BY <1>d, <2>1, <3>2, <4>1 DEF Reachable
      <4>2. CASE x # call[c].owner
        BY <1>f, <1>h, <2>1, <3>2, <4>2 DEF GuestCartKept
      <4> QED
        BY <4>1, <4>2
    <3> QED
      BY <1>d, <1>e, <2>2, <3>1, <3>2 DEF GuestCartKept, Empty
  <2> QED
    BY <2>3, <2>4, <2>5, <2>7, <2>8, <2>9 DEF GuestInv
<1> QED
  BY <1>1, <1>2, <1>3, <1>4 DEF SessionInv
-----------------------------------------------------------------------------
\* A call that is not under way is a call.
LEMMA NoCallTyped == NoCall \in CallRecords
  BY DEF NoCall, CallRecords, Empty, Nobody

\* Changing one call into a call keeps the calls typed, and so does its next step.
LEMMA OneCall ==
  ASSUME CallTyped, NEW c \in Calls, NEW r \in CallRecords, call' = [call EXCEPT ![c] = r]
  PROVE  CallTyped'
  BY DEF CallTyped, CallRecords

\* So does changing its step.
LEMMA StepTyped ==
  ASSUME CallTyped, NEW c \in Calls, NEW step \in {"good", "bad"}, call' = [call EXCEPT ![c].step = step]
  PROVE  CallTyped'
<1> DEFINE r == [call[c] EXCEPT !.step = step]
<1>1. r \in CallRecords
  BY DEF CallTyped, CallRecords
<1>2. call' = [call EXCEPT ![c] = r]
  OBVIOUS
<1> QED
  BY <1>1, <1>2, OneCall

\* The actions that start a call or end one, or follow it with the next.
LEMMA BeginRenews ==
  ASSUME CartTypeOK, CallTyped, SessionInv, NEW c \in Calls, NEW op \in {"fetch", "add", "set", "order"},
         NEW v \in Variants \cup {Nobody}, NEW q \in Nat, Begin(c, op, v, q)
  PROVE  CallTyped' /\ Renews(c) /\ call'[c].op = op /\ call[c].step = "idle" /\ call'[c].owner = Owner
<1> DEFINE r == [NoCall EXCEPT !.variant = v, !.quantity = q, !.step = "sent", !.op = op, !.session = cookie, !.owner = Owner]
<1>1. call' = [call EXCEPT ![c] = r] /\ call[c].step = "idle" /\ UNCHANGED <<cookie, backendCarts>>
      /\ split' = (split \/ (Owner = Nobody /\ Together(c)))
  BY DEF Begin, Sent, NoCall
<1>2. Owner \in Owners \cup {Nobody} /\ Owner \in {Customer, cookie} /\ cookie \in Sessions \cup {Nobody}
  BY DEF Owner, Owners, CartTypeOK
<1>3. r \in CallRecords
  BY NoCallTyped, <1>2 DEF CallRecords
<1>4. r.step = "sent" /\ r.mints = FALSE /\ r.session = cookie /\ r.owner = Owner /\ r.op = op /\ r.merges = FALSE
  BY DEF NoCall
<1> HIDE DEF r
<1>5. CallTyped'
  BY <1>1, <1>3 DEF CallTyped, CallRecords
<1>6. call'[c] = r /\ \A d \in Calls \ {c} : call'[d] = call[d]
  BY <1>1 DEF CallTyped, CallRecords
<1>7. ~call[c].mints
  BY <1>1 DEF SessionInv, CallShape
<1>8. split => split'
  BY <1>1, Zenon
<1>9. split' \/ Owner # Nobody \/ ~Together(c)
  BY <1>1, Zenon
<1>10. split' \/ call'[c].owner # Nobody \/ (\A d \in Calls \ {c} : ~First(d))
  BY <1>4, <1>6, <1>9 DEF Together, First
<1> QED
  BY <1>1, <1>2, <1>4, <1>5, <1>6, <1>7, <1>8, <1>10 DEF Renews, Fresh

\* A sign-in sends the fetch that the merge follows.
LEMMA SignInRenews ==
  ASSUME CartTypeOK, CallTyped, SessionInv, NEW c \in Calls, SignIn(c)
  PROVE  CallTyped' /\ Renews(c)
<1> DEFINE r == [NoCall EXCEPT !.step = "sent", !.owner = Customer, !.session = cookie, !.merges = TRUE]
<1>1. call' = [call EXCEPT ![c] = r] /\ call[c].step = "idle" /\ UNCHANGED <<cookie, backendCarts, split>>
  BY DEF SignIn
<1>2. r \in CallRecords
  BY NoCallTyped DEF CallRecords, Owners, CartTypeOK
<1>3. r.step = "sent" /\ r.mints = FALSE /\ r.session = cookie /\ r.owner = Customer
  BY DEF NoCall
<1> HIDE DEF r
<1>4. CallTyped' /\ call'[c] = r /\ \A d \in Calls \ {c} : call'[d] = call[d]
  BY <1>1, <1>2 DEF CallTyped, CallRecords
<1>5. ~call[c].mints
  BY <1>1 DEF SessionInv, CallShape
<1> QED
  BY <1>1, <1>3, <1>4, <1>5 DEF Renews, Fresh, Customer, Nobody

\* The cookie that comes with the answer to a call.
LEMMA CookieTyped ==
  ASSUME CartTypeOK, CallTyped, SessionInv, NEW c \in Calls
  PROVE  /\ Cookie(c) \in Sessions \cup {Nobody}
         /\ Cookie(c) = cookie \/ (call[c].mints /\ call[c].step = "good" /\ Cookie(c) = call[c].owner)
         /\ call[c].mints /\ call[c].step = "good" => Cookie(c) = call[c].owner
  BY DEF Cookie, CartTypeOK, SessionInv, CallShape

\* A change is followed by a fetch.
LEMMA ChangedRenews ==
  ASSUME CartTypeOK, CallTyped, SessionInv, NEW c \in Calls, Changed(c)
  PROVE  CallTyped' /\ Renews(c) /\ call'[c].op = "fetch" /\ call'[c].step = "sent" /\ call'[c].owner = OwnerWith(cookie')
<1> DEFINE r == [NoCall EXCEPT !.step = "sent", !.variant = call[c].variant, !.session = Cookie(c),
                               !.owner = OwnerWith(Cookie(c))]
<1>1. call' = [call EXCEPT ![c] = r] /\ call[c].step = "good" /\ UNCHANGED backendCarts /\ cookie' = Cookie(c)
      /\ split' = (split \/ (OwnerWith(cookie') = Nobody /\ Together(c)))
  BY DEF Changed, Refetch
<1>2. OwnerWith(Cookie(c)) \in {Customer, Cookie(c)}
  BY DEF OwnerWith
<1>3. r \in CallRecords
  BY NoCallTyped, CookieTyped, <1>2, ZenonT(40) DEF CallRecords, Owners, CallTyped
<1>4. r.step = "sent" /\ r.mints = FALSE /\ r.session = Cookie(c) /\ r.owner = OwnerWith(Cookie(c))
      /\ r.op = "fetch" /\ r.merges = FALSE
  BY DEF NoCall
<1> HIDE DEF r
<1>5. CallTyped' /\ call'[c] = r /\ \A d \in Calls \ {c} : call'[d] = call[d]
  BY <1>1, <1>3 DEF CallTyped, CallRecords
<1>6. split => split'
  BY <1>1, Zenon
<1>7. split' \/ OwnerWith(cookie') # Nobody \/ ~Together(c)
  BY <1>1, Zenon
<1>8. split' \/ call'[c].owner # Nobody \/ (\A d \in Calls \ {c} : ~First(d))
  BY <1>1, <1>4, <1>5, <1>7 DEF Together, First
<1> QED
  BY <1>1, <1>2, <1>4, <1>5, <1>6, <1>8, CookieTyped DEF Renews, Fresh

\* A call that ends, with or without the cookie it brought, is renewed.
LEMMA EndRenews ==
  ASSUME CallTyped, NEW c \in Calls, call' = [call EXCEPT ![c] = NoCall], UNCHANGED backendCarts, split => split',
         cookie' = cookie \/ (call[c].mints /\ call[c].step = "good" /\ cookie' = call[c].owner),
         call[c].mints => split' \/ cookie' = call[c].owner \/ call[c].step # "good"
  PROVE  CallTyped' /\ Renews(c) /\ Over(c)
<1>1. CallTyped' /\ call'[c] = NoCall /\ \A d \in Calls \ {c} : call'[d] = call[d]
  BY NoCallTyped DEF CallTyped, CallRecords
<1>2. NoCall.step = "idle" /\ NoCall.mints = FALSE /\ NoCall.op = "fetch" /\ NoCall.merges = FALSE
  BY DEF NoCall
<1>3. Over(c)
  BY <1>1, <1>2 DEF Over
<1> QED
  BY <1>1, <1>3 DEF Renews

\* So is a fetch that ends, or is followed by the merge.
LEMMA FetchedRenews ==
  ASSUME CartAssumption, CartTypeOK, CallTyped, SessionInv, NEW c \in Calls, Fetched(c), UNCHANGED backendCarts, split => split',
         \/ cookie' = Cookie(c)
         \/ cookie' = cookie /\ (call[c].mints => split')
  PROVE  CallTyped' /\ Renews(c) /\ (Over(c) \/ call'[c].op = "merge")
<1>1. CASE ~call[c].merges
  <2>1. call' = [call EXCEPT ![c] = NoCall]
    BY <1>1 DEF Fetched, Ended
  <2> QED
    BY <2>1, EndRenews, CookieTyped
<1>2. CASE call[c].merges
  <2> DEFINE r == Sent(NoCall, "merge", Cookie(c))
  <2>1. call' = [call EXCEPT ![c] = r]
    BY <1>2 DEF Fetched
  <2>2. ~call[c].mints /\ cookie' = Cookie(c) /\ cookie' = cookie
    <3>1. ~call[c].mints
      BY <1>2 DEF SessionInv, CallShape, CartTypeOK, Customer, CartAssumption
    <3> QED
      BY <3>1 DEF Cookie
  <2>3. r \in CallRecords /\ r.step = "sent" /\ r.mints = FALSE /\ r.session = Cookie(c) /\ r.owner = Customer
        /\ r.op = "merge"
    BY CookieTyped, NoCallTyped DEF Sent, CallRecords, Owners, NoCall
  <2> HIDE DEF r
  <2>4. CallTyped' /\ call'[c] = r /\ \A d \in Calls \ {c} : call'[d] = call[d]
    BY <2>1, <2>3 DEF CallTyped, CallRecords
  <2> QED
    BY <2>2, <2>3, <2>4 DEF Renews, Fresh, Customer, Nobody
<1> QED
  BY <1>1, <1>2

\* The calls that have read a cart for the page, after each kind of step.
LEMMA RenewsReaders ==
  ASSUME CallTyped, NEW c \in Calls, Renews(c)
  PROVE  Readers' = Readers \ {c}
<1>1. \A d \in Calls \ {c} : call'[d] = call[d]
  BY DEF Renews
<1>2. call'[c].step \in {"sent", "idle"}
  BY DEF Renews, Fresh, Over
<1> QED
  BY <1>1, <1>2 DEF Readers

\* A fetch that is looked up becomes the newest reader.
LEMMA LooksReaders ==
  ASSUME CallTyped, NEW c \in Calls, NEW o, Looks(c, o)
  PROVE  c \notin Readers /\ Readers' = IF call[c].op = "fetch" THEN Readers \cup {c} ELSE Readers
  BY DEF Looks, Readers

\* An answer leaves the readers as they are.
LEMMA ServesReaders ==
  ASSUME CallTyped, NEW c \in Calls, Serves(c)
  PROVE  Readers' = Readers
  BY DEF Serves, Readers
-----------------------------------------------------------------------------
\* What is shown, or will be, stays right while nothing that it is about changes.
LEMMA FollowsStays ==
  ASSUME CallTyped, CallTyped', CartFollows, UNCHANGED <<credentials, cookie, carts, shown, earlier, overtaken>>,
         disturbed => disturbed', Readers' = Readers,
         \A d \in Readers : /\ call'[d].sees = call[d].sees /\ call'[d].owner = call[d].owner
                            /\ call'[d].mints = call[d].mints,
         \A d \in Calls : Asks(d) => disturbed' \/ Asks(d)'
  PROVE  CartFollows'
<1>1. Owner' = Owner
  BY DEF Owner, credentials
<1>2. CASE disturbed
  BY <1>2 DEF CartFollows
<1>3. ASSUME NEW d \in Calls, Asks(d) PROVE CartFollows'
  BY <1>3 DEF CartFollows
<1>4. ASSUME NEW d \in Calls, Newest(d), UpToDate(d) PROVE CartFollows'
  <2>1. d \in Readers
    BY <1>4 DEF Newest
  <2>2. Newest(d)'
    BY <1>4 DEF Newest
  <2>3. UpToDate(d)'
    BY <1>1, <1>4, <2>1 DEF UpToDate
  <2> QED
    BY <2>2, <2>3 DEF CartFollows
<1>5. CASE ShowsNow
  BY <1>1, <1>5 DEF CartFollows, ShowsNow, Unknown
<1> QED
  BY <1>2, <1>3, <1>4, <1>5 DEF CartFollows

\* While a page's fetches keep their order, dropping one of them does.
LEMMA OrderStays ==
  ASSUME ReadersOrdered, NEW c \in Calls, Readers' = Readers \ {c}, earlier \in [Calls -> SUBSET Calls],
         earlier' = [d \in Calls |-> IF d = c THEN {} ELSE earlier[d] \ {c}]
  PROVE  ReadersOrdered' /\ earlier' \in [Calls -> SUBSET Calls]
<1>1. Readers \subseteq Calls
  BY DEF Readers
<1> QED
  BY <1>1 DEF ReadersOrdered

\* A call that begins changes nothing that is shown or on its way.
LEMMA BeginKeeps ==
  ASSUME CartAssumption, CartInv, NEW c \in Calls, NEW op \in {"fetch", "add", "set", "order"},
         NEW v \in Variants \cup {Nobody}, NEW q \in Nat, Begin(c, op, v, q),
         isLoading' \in BOOLEAN, busy' \subseteq Variants
  PROVE  CartInv'
<1> USE DEF CartInv
<1>1. CallTyped' /\ Renews(c) /\ call'[c].op = op /\ call[c].step = "idle" /\ call'[c].owner = Owner
  BY BeginRenews
<1>2. SessionInv'
  BY <1>1, RenewsSessions
<1>3. Readers' = Readers /\ c \notin Readers
  BY <1>1, RenewsReaders DEF Readers
<1>4. /\ UNCHANGED <<credentials, cookie, carts, shown, earlier, overtaken, disturbed>> /\ UNCHANGED <<known, rows, gone, given>>
      /\ made' = made + 1 /\ made < MaxCalls
  BY DEF Begin, backendCarts
<1>5. \A d \in Calls \ {c} : call'[d] = call[d]
  BY <1>1 DEF Renews
<1>6. split' \in BOOLEAN
  BY DEF Begin, CartTypeOK
<1>7. CartTypeOK'
  BY <1>1, <1>3, <1>4, <1>6 DEF CartTypeOK, CallTyped, CallRecords, credentials, Unknown, CartAssumption
<1>8. ReadersOrdered'
  BY <1>3, <1>4 DEF ReadersOrdered
<1>9. SignedInCalls'
  BY <1>1, <1>4, <1>5 DEF SignedInCalls, Underway, Owner, credentials
<1>10. CartFollows'
  <2>1. \A d \in Readers : call'[d] = call[d]
    BY <1>3, <1>5 DEF Readers
  <2>2. \A d \in Calls : Asks(d) => Asks(d)'
    BY <1>1, <1>5 DEF Asks
  <2> QED
    BY <1>1, <1>3, <1>4, <2>1, <2>2, FollowsStays
<1> QED
  BY <1>1, <1>2, <1>7, <1>8, <1>9, <1>10

\* A sign-in disturbs what is shown.
LEMMA SignInKeeps ==
  ASSUME CartAssumption, CartInv, NEW c \in Calls, SignIn(c)
  PROVE  CartInv'
<1> USE DEF CartInv
<1>1. CallTyped' /\ Renews(c) /\ call[c].step = "idle"
  BY SignInRenews DEF SignIn
<1>2. SessionInv'
  BY <1>1, RenewsSessions
<1>3. Readers' = Readers
  BY <1>1, RenewsReaders DEF Readers
<1>4. disturbed' = TRUE /\ made' = made + 1 /\ made < MaxCalls /\ signedIn' = TRUE /\ lapsed' = FALSE /\ isLoading' = TRUE
      /\ UNCHANGED <<cookie, backendCarts, shown, busy, earlier, overtaken, split>>
  BY DEF SignIn
<1>5. CartTypeOK'
  <2>1. \A d \in Calls : call'[d].step \in {"idle", "sent", "looked", "good", "bad"} /\ call'[d].owner \in Owners \cup {Nobody}
    BY <1>1 DEF CallTyped, CallRecords
  <2>2. made' \in 0 .. MaxCalls
    BY <1>4 DEF CartTypeOK, CartAssumption
  <2> QED
    BY <1>3, <1>4, <2>1, <2>2 DEF CartTypeOK, backendCarts, Unknown
<1>6. ReadersOrdered' /\ SignedInCalls' /\ CartFollows'
  BY <1>3, <1>4 DEF ReadersOrdered, SignedInCalls, CartFollows
<1> QED
  BY <1>1, <1>2, <1>5, <1>6

\* A look-up keeps the invariant: a fetch becomes the newest reader, of the cart as it is.
LEMMA LookKeeps ==
  ASSUME CartAssumption, CartInv, NEW c \in Calls, Look(c)
  PROVE  CartInv'
<1> USE DEF CartInv
<1>1. CallTyped' /\ \E o \in Owners : Looks(c, o)
  BY LookFields
<1>2. PICK o \in Owners : Looks(c, o)
  BY <1>1
<1>3. SessionInv'
  BY <1>2, LookSessions
<1>4. c \notin Readers /\ Readers' = IF call[c].op = "fetch" THEN Readers \cup {c} ELSE Readers
  BY <1>2, LooksReaders
<1>5. /\ earlier' = IF call[c].op = "fetch" THEN [earlier EXCEPT ![c] = Readers] ELSE earlier
      /\ disturbed' = (disturbed /\ ~(call[c].op = "fetch" /\ Underway = {c} /\ call[c].owner = Owner))
      /\ split' \in BOOLEAN
      /\ UNCHANGED <<signedIn, lapsed, cookie, carts, rows, gone, given, shown, isLoading, busy, made, overtaken>>
  BY DEF Look, credentials, CartTypeOK
<1>6. known' \subseteq Sessions
  BY <1>2 DEF Looks, CartTypeOK
<1>7. \A d \in Calls \ {c} : call'[d] = call[d]
  BY <1>2 DEF Looks
<1>8. CartTypeOK'
  <2>1. \A d \in Calls : call'[d].step \in {"idle", "sent", "looked", "good", "bad"} /\ call'[d].owner \in Owners \cup {Nobody}
    BY <1>1 DEF CallTyped, CallRecords
  <2>2. earlier' \in [Calls -> SUBSET Calls] /\ overtaken' \subseteq Readers'
    BY <1>4, <1>5 DEF CartTypeOK, Readers
  <2>3. disturbed' \in BOOLEAN
    BY <1>5, Zenon
  <2> QED
    BY <1>5, <1>6, <2>1, <2>2, <2>3 DEF CartTypeOK, Unknown
<1>9. ReadersOrdered'
  <2>1. \A d \in Readers : c \notin earlier[d]
    BY <1>4 DEF ReadersOrdered, Readers
  <2> QED
    BY <1>4, <1>5, <2>1 DEF ReadersOrdered, CartTypeOK, Readers
<1>10. ASSUME ~disturbed' PROVE (call[c].op = "fetch" /\ Underway = {c} /\ call[c].owner = Owner) \/ ~disturbed
  BY <1>5, <1>10, Zenon
<1>11. SignedInCalls'
  <2>1. SUFFICES ASSUME ~disturbed', signedIn, ~lapsed, NEW d \in Underway' PROVE call'[d].owner = Customer
    BY <1>5 DEF SignedInCalls
  <2>2. d \in Underway /\ c \in Underway
    BY <1>2, <1>7, <2>1 DEF Looks, Underway
  <2>3. call[d].owner = Customer /\ call[c].owner = Customer
    BY <1>10, <2>1, <2>2 DEF SignedInCalls, Owner
  <2> QED
    BY <1>2, <1>7, <2>2, <2>3 DEF Looks, Underway, Customer, Nobody
<1>12. CartFollows'
  <2>1. CASE call[c].op = "fetch"
    <3>1. c \in Readers' \ overtaken'
      BY <1>4, <1>5, <2>1 DEF CartTypeOK
    <3>2. \A d \in Readers' \ {c} : d \in earlier'[c]
      BY <1>4, <1>5, <2>1 DEF CartTypeOK
    <3>3. call'[c].sees = carts'[call'[c].owner]
      BY <1>2, <1>5 DEF Looks
    <3> QED
      BY <3>1, <3>2, <3>3 DEF CartFollows, Newest, UpToDate
  <2>2. CASE call[c].op # "fetch"
    <3>1. Readers' = Readers /\ UNCHANGED <<earlier, credentials>> /\ (disturbed => disturbed')
      BY <1>4, <1>5, <2>2 DEF credentials
    <3>2. \A d \in Readers : call'[d] = call[d]
      BY <1>4, <1>7 DEF Readers
    <3>3. \A d \in Calls : Asks(d) => Asks(d)'
      BY <1>2, <1>7, <2>2 DEF Asks, Looks
    <3> QED
      BY <1>1, <1>5, <3>1, <3>2, <3>3, FollowsStays
  <2> QED
    BY <2>1, <2>2
<1> QED
  BY <1>1, <1>3, <1>8, <1>9, <1>11, <1>12

\* An answer that is on its way, and so is not installed yet.
LEMMA AnswerKeeps ==
  ASSUME CartAssumption, CartInv, NEW c \in Calls, Serves(c), CallTyped', carts' \in [Owners -> [Variants -> Nat]],
         rows' \in [Owners -> Nat], call[c].op = "fetch" => UNCHANGED carts, gone' \subseteq Calls, given' \subseteq Calls,
         UNCHANGED <<credentials, cookie, known, shown, isLoading, busy, made, history>>
  PROVE  CartInv'
<1> USE DEF CartInv
<1>1. SessionInv'
  BY ServeSessions
<1>2. Readers' = Readers
  BY ServesReaders
<1>3. CartTypeOK'
  <2>1. \A d \in Calls : call'[d].step \in {"idle", "sent", "looked", "good", "bad"} /\ call'[d].owner \in Owners \cup {Nobody}
    BY DEF CallTyped, CallRecords
  <2> QED
    BY <1>2, <2>1 DEF CartTypeOK, Unknown, credentials, history
<1>4. ReadersOrdered'
  BY <1>2 DEF ReadersOrdered, history
<1>5. \A d \in Calls : call'[d].owner = call[d].owner /\ call'[d].sees = call[d].sees /\ call'[d].mints = call[d].mints
  BY DEF Serves
<1>6. SignedInCalls'
  BY <1>5 DEF SignedInCalls, history, credentials, Underway, Serves
<1>7. CartFollows'
  <2>1. CASE UNCHANGED carts
    <3>1. \A d \in Calls : Asks(d) => Asks(d)'
      BY DEF Asks, Serves
    <3>2. UNCHANGED <<earlier, overtaken>> /\ (disturbed => disturbed') /\ Readers \subseteq Calls
      BY DEF history, Readers
    <3> QED
      BY <1>2, <1>5, <2>1, <3>1, <3>2, FollowsStays
  <2>2. CASE ~(UNCHANGED carts)
    <3>1. call'[c].step = "good" /\ call'[c].op # "fetch"
      BY <2>2 DEF Serves
    <3> QED
      BY <3>1 DEF CartFollows, Asks
  <2> QED
    BY <2>1, <2>2
<1> QED
  BY <1>1, <1>3, <1>4, <1>6, <1>7

\* Serving a call keeps the invariant: a call that wrote is one that will ask.
LEMMA ServeKeeps ==
  ASSUME CartAssumption, CartInv, NEW c \in Calls, Serve(c)
  PROVE  CartInv'
<1> USE DEF CartInv
<1> DEFINE op == call[c].op
           owner == call[c].owner
           target == IF c \in given THEN Customer ELSE owner
           w == Written(op, call[c].variant, call[c].quantity, call[c].sees, carts[target])
<1>1. Serves(c)
  BY ServeFields
<1>2. UNCHANGED <<credentials, cookie, known, shown, isLoading, busy, made, history>>
      /\ gone' \subseteq Calls /\ given' \subseteq Calls
  BY DEF Serve, CartTypeOK
<1>3. /\ \/ /\ carts' = [carts EXCEPT ![target] = w]
            /\ rows' = [rows EXCEPT ![owner] = IF call[c].found = 0 THEN @ + 1 ELSE @]
            /\ call' = [call EXCEPT ![c].step = "good"]
         \/ call' = [call EXCEPT ![c].step = "bad"] /\ UNCHANGED <<carts, rows>>
  BY DEF Serve
<1>4. target \in Owners => w \in [Variants -> Nat]
  <2>1. SUFFICES ASSUME target \in Owners PROVE w \in [Variants -> Nat]
    OBVIOUS
  <2>2. carts[target] \in [Variants -> Nat] /\ call[c].sees \in [Variants -> Nat] /\ call[c].quantity \in Nat
    BY <2>1 DEF CartTypeOK, CallTyped, CallRecords
  <2> HIDE DEF target, owner, op
  <2> DEFINE now == carts[target]
             sees == call[c].sees
             v == call[c].variant
             q == call[c].quantity
  <2> HIDE DEF now, sees, v, q
  <2>3. /\ [now EXCEPT ![v] = sees[v] + q] \in [Variants -> Nat] /\ [now EXCEPT ![v] = q] \in [Variants -> Nat]
        /\ Empty \in [Variants -> Nat]
    <3>1. now \in [Variants -> Nat] /\ sees \in [Variants -> Nat] /\ q \in Nat
      BY <2>2 DEF now, sees, q
    <3>2. \A n : (v \in Variants => n \in Nat) => [now EXCEPT ![v] = n] \in [Variants -> Nat]
      BY <3>1
    <3>3. v \in Variants => sees[v] + q \in Nat
      BY <3>1
    <3> QED
      BY <3>1, <3>2, <3>3 DEF Empty
  <2>4. w \in {[now EXCEPT ![v] = sees[v] + q], [now EXCEPT ![v] = q], Empty, now}
    BY DEF Written, now, sees, v, q
  <2> QED
    BY <2>2, <2>3, <2>4 DEF now
<1>5. op = "fetch" => w = carts[target]
  BY DEF Written
<1> HIDE DEF w
<1>6. carts' \in [Owners -> [Variants -> Nat]] /\ rows' \in [Owners -> Nat]
  <2>1. carts \in [Owners -> [Variants -> Nat]] /\ rows \in [Owners -> Nat]
    BY DEF CartTypeOK
  <2> HIDE DEF target, owner
  <2>2. carts' \in [Owners -> [Variants -> Nat]]
    BY <1>3, <1>4, <2>1
  <2>3. rows' \in [Owners -> Nat]
    BY <1>3, <2>1
  <2> QED
    BY <2>2, <2>3
<1>7. op = "fetch" => UNCHANGED carts
  BY <1>3, <1>5 DEF CartTypeOK
<1>8. CallTyped'
  BY <1>3, StepTyped
<1> QED
  BY <1>1, <1>2, <1>6, <1>7, <1>8, AnswerKeeps

\* So does the merge.
LEMMA MergeKeeps ==
  ASSUME CartAssumption, CartInv, NEW c \in Calls, merge_guest_cart(c)
  PROVE  CartInv'
<1> USE DEF CartInv
<1> DEFINE s == call[c].session
<1>1. Serves(c)
  BY MergeFields DEF SessionInv
<1>2. /\ UNCHANGED <<credentials, cookie, known, shown, isLoading, busy, made, history>> /\ call[c].op = "merge"
      /\ gone' \subseteq Calls /\ given' \subseteq Calls
      /\ \/ call' = [call EXCEPT ![c].step = "bad"] /\ UNCHANGED <<carts, rows>>
         \/ /\ call' = [call EXCEPT ![c].step = "good"]
            /\ \E sum \in [Variants -> Nat] : MergeWrites(c, s, sum)
  BY MergeCases
<1>3. CallTyped'
  BY <1>2, StepTyped
<1> HIDE DEF s
<1>4. carts' \in [Owners -> [Variants -> Nat]] /\ rows' \in [Owners -> Nat]
  <2>1. carts \in [Owners -> [Variants -> Nat]] /\ rows \in [Owners -> Nat] /\ Empty \in [Variants -> Nat]
    BY DEF CartTypeOK, Empty
  <2>2. ASSUME NEW sum \in [Variants -> Nat], MergeWrites(c, s, sum)
        PROVE  carts' \in [Owners -> [Variants -> Nat]] /\ rows' \in [Owners -> Nat]
    BY <2>1, <2>2 DEF MergeWrites, Owners
  <2> QED
    BY <1>2, <2>1, <2>2
<1> QED
  BY <1>1, <1>2, <1>3, <1>4, AnswerKeeps

\* A change keeps the invariant, because the page asks again.
LEMMA ChangedKeeps ==
  ASSUME CartAssumption, CartInv, NEW c \in Calls, Changed(c)
  PROVE  CartInv'
<1> USE DEF CartInv
<1>1. CallTyped' /\ Renews(c) /\ call'[c].op = "fetch" /\ call'[c].step = "sent" /\ call'[c].owner = OwnerWith(cookie')
  BY ChangedRenews
<1>2. SessionInv'
  BY <1>1, RenewsSessions
<1>3. Readers' = Readers
  BY <1>1, RenewsReaders DEF Readers, Changed
<1>4. /\ UNCHANGED <<signedIn, lapsed, known, carts, rows, gone, given, shown, busy, made, earlier, overtaken, disturbed>>
      /\ isLoading' = TRUE /\ cookie' = Cookie(c) /\ split' \in BOOLEAN
  BY DEF Changed, credentials, backendCarts, CartTypeOK
<1>5. CartTypeOK'
  <2>1. \A d \in Calls : call'[d].step \in {"idle", "sent", "looked", "good", "bad"} /\ call'[d].owner \in Owners \cup {Nobody}
    BY <1>1 DEF CallTyped, CallRecords
  <2>2. cookie' \in Sessions \cup {Nobody}
    BY <1>4, CookieTyped
  <2> QED
    BY <1>3, <1>4, <2>1, <2>2 DEF CartTypeOK, Unknown
<1>6. ReadersOrdered'
  BY <1>3, <1>4 DEF ReadersOrdered
<1>7. SignedInCalls'
  BY <1>1, <1>4 DEF SignedInCalls, Renews, Underway, OwnerWith, Changed
<1>8. CartFollows'
  BY <1>1 DEF CartFollows, Asks
<1> QED
  BY <1>1, <1>2, <1>5, <1>6, <1>7, <1>8

\* The types of the variables that a renewal may change.
LEMMA RenewedTypes ==
  ASSUME CartTypeOK, CallTyped', UNCHANGED <<credentials, backendCarts, made>>,
         cookie' \in Sessions \cup {Nobody}, shown' = Unknown \/ shown' \in [Variants -> Nat],
         isLoading' \in BOOLEAN, busy' \subseteq Variants, earlier' \in [Calls -> SUBSET Calls],
         overtaken' \subseteq Readers', disturbed' \in BOOLEAN, split' \in BOOLEAN
  PROVE  CartTypeOK'
<1>1. \A d \in Calls : call'[d].step \in {"idle", "sent", "looked", "good", "bad"} /\ call'[d].owner \in Owners \cup {Nobody}
  BY DEF CallTyped, CallRecords
<1> QED
  BY <1>1 DEF CartTypeOK, credentials, backendCarts, Unknown

\* A refusal keeps the invariant, because it changed nothing.
LEMMA RefusedKeeps ==
  ASSUME CartAssumption, CartInv, NEW c \in Calls, Refused(c)
  PROVE  CartInv'
<1> USE DEF CartInv
<1>1. /\ call' = [call EXCEPT ![c] = NoCall] /\ busy' \subseteq Variants /\ UNCHANGED <<credentials, backendCarts, made>>
      /\ UNCHANGED <<cookie, shown, isLoading, earlier, overtaken, disturbed, split>>
      /\ call[c].step = "bad" /\ call[c].op # "fetch"
  BY DEF Refused, Ended, history, CartTypeOK
<1>2. CallTyped' /\ Renews(c) /\ Over(c)
  BY <1>1, EndRenews
<1>3. SessionInv' /\ Readers' = Readers
  BY <1>1, <1>2, RenewsSessions, RenewsReaders DEF Readers
<1>4. CartTypeOK'
  BY <1>1, <1>2, <1>3, RenewedTypes DEF CartTypeOK
<1>5. ReadersOrdered'
  BY <1>1, <1>3 DEF ReadersOrdered
<1>6. SignedInCalls'
  BY <1>1, <1>2 DEF SignedInCalls, Renews, Over, Underway, credentials
<1>7. CartFollows'
  <2>1. \A d \in Calls : Asks(d) => Asks(d)'
    BY <1>1, <1>2 DEF Asks, Renews
  <2>2. \A d \in Readers : call'[d] = call[d]
    BY <1>1, <1>2 DEF Readers, Renews
  <2>3. UNCHANGED carts
    BY <1>1 DEF backendCarts
  <2> QED
    BY <1>1, <1>2, <1>3, <2>1, <2>2, <2>3, FollowsStays
<1> QED
  BY <1>2, <1>3, <1>4, <1>5, <1>6, <1>7

\* An order keeps the invariant, because the page shows no cart and overtakes the readers.
LEMMA OrderedKeeps ==
  ASSUME CartAssumption, CartInv, NEW c \in Calls, Ordered(c)
  PROVE  CartInv'
<1> USE DEF CartInv
<1>1. /\ call' = [call EXCEPT ![c] = NoCall] /\ busy' \subseteq Variants /\ UNCHANGED <<credentials, backendCarts, made>>
      /\ UNCHANGED <<cookie, isLoading, earlier, disturbed, split>> /\ shown' = Unknown /\ overtaken' = Readers
      /\ call[c].step = "good" /\ call[c].op = "order"
  BY DEF Ordered, Ended, CartTypeOK
<1>2. ~call[c].mints
  BY <1>1 DEF SessionInv, CallShape
<1>3. CallTyped' /\ Renews(c) /\ Over(c)
  BY <1>1, <1>2, EndRenews
<1>4. SessionInv' /\ Readers' = Readers
  BY <1>1, <1>3, RenewsSessions, RenewsReaders DEF Readers
<1>5. CartTypeOK'
  BY <1>1, <1>3, <1>4, RenewedTypes DEF CartTypeOK
<1>6. ReadersOrdered'
  BY <1>1, <1>4 DEF ReadersOrdered
<1>7. SignedInCalls'
  BY <1>1, <1>3 DEF SignedInCalls, Renews, Over, Underway, credentials
<1>8. CartFollows'
  BY <1>1, <1>4 DEF CartFollows, ShowsNow, Unknown
<1> QED
  BY <1>3, <1>4, <1>5, <1>6, <1>7, <1>8

\* An answer that is lost keeps the invariant: one that had changed something disturbs.
LEMMA LostKeeps ==
  ASSUME CartAssumption, CartInv, NEW c \in Calls, Lost(c)
  PROVE  CartInv'
<1> USE DEF CartInv
<1>1. /\ call' = [call EXCEPT ![c] = NoCall] /\ busy' \subseteq Variants /\ UNCHANGED <<credentials, backendCarts, made>>
      /\ UNCHANGED <<cookie, shown, isLoading, earlier, overtaken>>
      /\ disturbed' = (disturbed \/ call[c].step = "good") /\ split' = (split \/ call[c].mints)
      /\ call[c].step \in {"sent", "good"} /\ call[c].op # "fetch"
  BY DEF Lost, Ended, CartTypeOK
<1>2. (split => split') /\ (call[c].mints => split') /\ (disturbed => disturbed') /\ disturbed' \in BOOLEAN /\ split' \in BOOLEAN
  <2>1. call[c].mints \in BOOLEAN
    BY DEF CallTyped, CallRecords
  <2> QED
    BY <1>1, <2>1, Zenon DEF CartTypeOK
<1>3. CallTyped' /\ Renews(c) /\ Over(c)
  BY <1>1, <1>2, EndRenews
<1>4. SessionInv' /\ Readers' = Readers
  BY <1>1, <1>3, RenewsSessions, RenewsReaders DEF Readers
<1>5. CartTypeOK'
  BY <1>1, <1>2, <1>3, <1>4, RenewedTypes DEF CartTypeOK
<1>6. ReadersOrdered'
  BY <1>1, <1>4 DEF ReadersOrdered
<1>7. SignedInCalls'
  BY <1>1, <1>2, <1>3 DEF SignedInCalls, Renews, Over, Underway, credentials
<1>8. CartFollows'
  <2>1. disturbed' \/ call[c].step = "sent"
    BY <1>1
  <2>2. \A d \in Calls : Asks(d) => disturbed' \/ Asks(d)'
    BY <1>1, <1>3, <2>1 DEF Asks, Renews
  <2>3. \A d \in Readers : call'[d] = call[d]
    BY <1>1, <1>3 DEF Readers, Renews
  <2>4. UNCHANGED carts
    BY <1>1 DEF backendCarts
  <2> QED
    BY <1>1, <1>2, <1>3, <1>4, <2>2, <2>3, <2>4, FollowsStays
<1> QED
  BY <1>3, <1>4, <1>5, <1>6, <1>7, <1>8

\* Steps without a call keep the invariant; after a sign-out the page shows no cart, and
\* what is on its way is the customer's.
LEMMA QuietKeeps ==
  ASSUME CartAssumption, CartInv, Leave \/ SignOut \/ TokenLapses \/ UNCHANGED cartVars
  PROVE  CartInv'
<1> USE DEF CartInv
<1>1. UNCHANGED <<cookie, known, carts, rows, gone, given, call, earlier, overtaken, split, isLoading, made>>
  BY DEF Leave, SignOut, TokenLapses, cartVars, history, backendCarts
<1>2. CallTyped' /\ Readers' = Readers /\ Underway' = Underway
  BY <1>1 DEF CallTyped, CallRecords, Readers, Underway, Owners
<1>3. SessionInv'
  <2>1. KnownSessions' /\ CallShape' /\ OwnSessions'
    BY <1>1, <1>2 DEF SessionInv, KnownSessions, CallShape, OwnSessions, Made, Empty
  <2>2. ~split' => GuestInv'
    BY <1>1, <1>2 DEF SessionInv, GuestInv, GuestCartKept, OneFirst, First, FirstNoCookie, Reachable, EmptyUntilGood,
                      FoundNone, OneFinder, Finder, Empty
  <2> QED
    BY <2>1, <2>2 DEF SessionInv
<1>4. CartTypeOK'
  <2>1. signedIn' \in BOOLEAN /\ lapsed' \in BOOLEAN /\ disturbed' \in BOOLEAN /\ busy' \subseteq Variants
        /\ (shown' = Unknown \/ shown' \in [Variants -> Nat])
    BY DEF Leave, SignOut, TokenLapses, cartVars, credentials, history, CartTypeOK
  <2> QED
    BY <1>1, <1>2, <2>1 DEF CartTypeOK, Unknown
<1>5. ReadersOrdered'
  BY <1>1, <1>2 DEF ReadersOrdered
<1>6. CASE Leave \/ UNCHANGED cartVars
  <2>1. UNCHANGED <<credentials, shown, disturbed>>
    BY <1>6 DEF Leave, cartVars, history
  <2>2. SignedInCalls'
    BY <1>1, <1>2, <2>1 DEF SignedInCalls, credentials
  <2>3. \A d \in Calls : Asks(d) => Asks(d)'
    BY <1>1 DEF Asks
  <2>4. CartFollows'
    BY <1>1, <1>2, <2>1, <2>3, FollowsStays
  <2> QED
    BY <1>2, <1>3, <1>4, <1>5, <2>2, <2>4
<1>7. CASE TokenLapses
  <2>1. disturbed' = TRUE
    BY <1>7 DEF TokenLapses
  <2> QED
    BY <1>2, <1>3, <1>4, <1>5, <2>1 DEF SignedInCalls, CartFollows
<1>8. CASE SignOut
  <2>1. signedIn /\ signedIn' = FALSE /\ shown' = Unknown /\ UNCHANGED disturbed
    BY <1>8 DEF SignOut, history
  <2>2. SignedInCalls'
    BY <2>1 DEF SignedInCalls
  <2>3. ASSUME NEW d \in Calls, Newest(d), UpToDate(d), ~disturbed PROVE Newest(d)' /\ UpToDate(d)'
    <3>1. Newest(d)' /\ d \in Underway
      BY <1>1, <1>2, <2>3 DEF Newest, Readers, Underway
    <3>2. Owner' = cookie
      BY <1>1, <2>1 DEF Owner
    <3>3. CASE call[d].sees = carts[call[d].owner]
      BY <1>1, <3>1, <3>3 DEF UpToDate
    <3>4. CASE ~call[d].mints /\ call[d].owner # Owner
      <4>1. call[d].owner # cookie
        <5>1. CASE lapsed
          BY <3>4, <5>1 DEF Owner
        <5>2. CASE ~lapsed
          BY <2>1, <2>3, <3>1, <5>2 DEF SignedInCalls, CartTypeOK, CartAssumption, Customer, Nobody
        <5> QED
          BY <5>1, <5>2
      <4> QED
        BY <1>1, <3>1, <3>2, <3>4, <4>1 DEF UpToDate
    <3> QED
      BY <2>3, <3>3, <3>4 DEF UpToDate
  <2>4. CartFollows'
    <3>1. ShowsNow => ShowsNow'
      BY <1>1, <1>2, <2>1 DEF ShowsNow, Unknown
    <3>2. \A d \in Calls : Asks(d) => Asks(d)'
      BY <1>1 DEF Asks
    <3> QED
      BY <2>1, <2>3, <3>1, <3>2 DEF CartFollows
  <2> QED
    BY <1>2, <1>3, <1>4, <1>5, <2>2, <2>4
<1> QED
  BY <1>6, <1>7, <1>8

\* What the end of a fetch does besides.
LEMMA FetchedFields ==
  ASSUME CartTypeOK, ReadersOrdered, NEW c \in Calls, Fetched(c), Readers' = Readers \ {c},
         overtaken' = (overtaken \cup Before(c)) \ {c}
  PROVE  /\ busy' \subseteq Variants /\ isLoading' = FALSE
         /\ ReadersOrdered' /\ earlier' \in [Calls -> SUBSET Calls] /\ overtaken' \subseteq Readers'
         /\ \A d \in Calls \ {c} : earlier'[d] = earlier[d] \ {c}
<1>1. /\ isLoading' = FALSE /\ busy' \subseteq Variants
      /\ earlier' = [d \in Calls |-> IF d = c THEN {} ELSE earlier[d] \ {c}]
  BY DEF Fetched, Ended, CartTypeOK
<1>2. ReadersOrdered' /\ earlier' \in [Calls -> SUBSET Calls]
  BY <1>1, OrderStays DEF CartTypeOK
<1>3. overtaken' \subseteq Readers'
  BY DEF Before, ReadersOrdered, CartTypeOK
<1> QED
  BY <1>1, <1>2, <1>3

\* Another fetch that is the newest stays so when this one is over.
LEMMA NewestStays ==
  ASSUME CartTypeOK, ReadersOrdered, NEW c \in Readers, NEW d \in Readers \ {c}, Newest(d),
         Readers' = Readers \ {c}, overtaken' = (overtaken \cup Before(c)) \ {c},
         \A e \in Calls \ {c} : earlier'[e] = earlier[e] \ {c}
  PROVE  Newest(d)'
<1>1. d \notin Before(c)
  BY DEF Newest, ReadersOrdered, Before
<1> QED
  BY <1>1 DEF Newest, Readers

\* A fetch that fails keeps the invariant: the page shows no cart.
LEMMA FetchFailsKeeps ==
  ASSUME CartAssumption, CartInv, NEW c \in Calls, FetchFails(c)
  PROVE  CartInv'
<1> USE DEF CartInv
<1>1. /\ call[c].op = "fetch" /\ call[c].step # "idle" /\ Fetched(c)
      /\ UNCHANGED <<credentials, cookie, backendCarts, made, disturbed>> /\ shown' = Unknown
      /\ overtaken' = (overtaken \cup Before(c)) \ {c} /\ split' = (split \/ call[c].mints)
  BY DEF FetchFails
<1>2. (split => split') /\ (call[c].mints => split') /\ split' \in BOOLEAN
  <2>1. call[c].mints \in BOOLEAN
    BY DEF CallTyped, CallRecords
  <2> QED
    BY <1>1, <2>1, Zenon DEF CartTypeOK
<1>3. CallTyped' /\ Renews(c) /\ (Over(c) \/ call'[c].op = "merge")
  BY <1>1, <1>2, FetchedRenews
<1>4. SessionInv' /\ Readers' = Readers \ {c}
  BY <1>3, RenewsSessions, RenewsReaders
<1>5. /\ busy' \subseteq Variants /\ isLoading' = FALSE
      /\ ReadersOrdered' /\ earlier' \in [Calls -> SUBSET Calls] /\ overtaken' \subseteq Readers'
      /\ \A d \in Calls \ {c} : earlier'[d] = earlier[d] \ {c}
  BY <1>1, <1>4, FetchedFields
<1>6. CartTypeOK'
  BY <1>1, <1>2, <1>3, <1>5, RenewedTypes DEF CartTypeOK
<1>7. SignedInCalls'
  <2>1. ASSUME ~disturbed', signedIn', ~lapsed' PROVE \A d \in Underway' : call'[d].owner = Customer
    <3>1. call'[c].step # "idle" => call'[c].owner = Customer
      BY <1>3 DEF Renews, Fresh, Over
    <3>2. ~disturbed /\ signedIn /\ ~lapsed
      BY <1>1, <2>1 DEF credentials
    <3> QED
      BY <1>3, <3>1, <3>2 DEF SignedInCalls, Renews, Underway
  <2> QED
    BY <2>1 DEF SignedInCalls
<1>8. \A d \in Calls \ {c} : call'[d] = call[d]
  BY <1>3 DEF Renews
<1>9. Owner' = Owner /\ UNCHANGED carts
  BY <1>1 DEF Owner, credentials, backendCarts
<1>10. CartFollows'
  <2>1. Readers' \subseteq overtaken' => ShowsNow'
    BY <1>1 DEF ShowsNow, Unknown
  <2>2. CASE c \notin Readers
    BY <1>1, <1>4, <2>1, <2>2 DEF CartFollows, Before
  <2>3. CASE c \in Readers
    <3>1. ASSUME NEW d \in Calls, Asks(d) PROVE Asks(d)'
      BY <1>8, <2>3, <3>1 DEF Asks, Readers
    <3>2. ASSUME NEW d \in Calls, Newest(d), UpToDate(d) PROVE CartFollows'
      <4>1. CASE d = c
        BY <1>1, <1>4, <2>1, <2>3, <3>2, <4>1 DEF Newest, Before, CartFollows
      <4>2. CASE d # c
        <5>1. d \in Readers \ {c}
          BY <3>2, <4>2 DEF Newest
        <5>2. Newest(d)'
          BY <1>1, <1>4, <1>5, <2>3, <3>2, <5>1, NewestStays
        <5>3. UpToDate(d)'
          BY <1>8, <1>9, <3>2, <4>2 DEF UpToDate
        <5> QED
          BY <5>2, <5>3 DEF CartFollows
      <4> QED
        BY <4>1, <4>2
    <3>3. ASSUME ShowsNow PROVE ShowsNow'
      BY <1>1, <1>4, <2>1, <3>3 DEF ShowsNow
    <3> QED
      BY <1>1, <3>1, <3>2, <3>3 DEF CartFollows
  <2> QED
    BY <2>2, <2>3
<1> QED
  BY <1>3, <1>4, <1>5, <1>6, <1>7, <1>10

\* An answer that is shown keeps the invariant: the newest is the cart as it is, and after
\* an older one the newest is still on its way.
LEMMA InstallKeeps ==
  ASSUME CartAssumption, CartInv, NEW c \in Calls, Install(c)
  PROVE  CartInv'
<1> USE DEF CartInv
<1>1. /\ call[c].op = "fetch" /\ call[c].step = "good" /\ Fetched(c)
      /\ UNCHANGED <<credentials, backendCarts, made, split>> /\ shown' = call[c].sees /\ cookie' = Cookie(c)
      /\ overtaken' = (overtaken \cup Before(c)) \ {c}
      /\ disturbed' = (disturbed \/ c \in overtaken \/ call[c].owner # OwnerWith(cookie'))
  BY DEF Install
<1>2. disturbed' \in BOOLEAN /\ (~disturbed' => ~disturbed /\ c \notin overtaken /\ call[c].owner = OwnerWith(cookie'))
  BY <1>1, Zenon DEF CartTypeOK
<1>3. CallTyped' /\ Renews(c) /\ (Over(c) \/ call'[c].op = "merge")
  BY <1>1, FetchedRenews
<1>4. SessionInv' /\ Readers' = Readers \ {c} /\ c \in Readers
  BY <1>1, <1>3, RenewsSessions, RenewsReaders DEF Readers
<1>5. /\ busy' \subseteq Variants /\ isLoading' = FALSE
      /\ ReadersOrdered' /\ earlier' \in [Calls -> SUBSET Calls] /\ overtaken' \subseteq Readers'
      /\ \A d \in Calls \ {c} : earlier'[d] = earlier[d] \ {c}
  BY <1>1, <1>4, FetchedFields
<1>6. CartTypeOK'
  <2>1. call[c].sees \in [Variants -> Nat] /\ cookie' \in Sessions \cup {Nobody}
    BY <1>1, CookieTyped DEF CallTyped, CallRecords
  <2> QED
    BY <1>1, <1>2, <1>3, <1>5, <2>1, RenewedTypes DEF CartTypeOK, Unknown
<1>7. SignedInCalls'
  <2>1. ASSUME ~disturbed', signedIn', ~lapsed' PROVE \A d \in Underway' : call'[d].owner = Customer
    <3>1. call'[c].step # "idle" => call'[c].owner = Customer
      BY <1>3 DEF Renews, Fresh, Over, SessionInv, CallShape
    <3>2. ~disturbed /\ signedIn /\ ~lapsed
      BY <1>1, <1>2, <2>1 DEF credentials
    <3> QED
      BY <1>3, <3>1, <3>2 DEF SignedInCalls, Renews, Underway
  <2> QED
    BY <2>1 DEF SignedInCalls
<1>8. \A d \in Calls \ {c} : call'[d] = call[d]
  BY <1>3 DEF Renews
<1>9. Owner' = OwnerWith(cookie') /\ UNCHANGED carts
  BY <1>1 DEF Owner, OwnerWith, credentials, backendCarts
<1>10. CartFollows'
  <2>1. SUFFICES ASSUME ~disturbed' PROVE CartFollows'
    BY DEF CartFollows
  <2>2. ~disturbed /\ c \notin overtaken /\ call[c].owner = Owner'
    BY <1>2, <1>9, <2>1
  <2>3. ASSUME NEW d \in Calls, Asks(d) PROVE CartFollows'
    BY <1>1, <1>8, <2>3 DEF Asks, CartFollows
  <2>4. ASSUME NEW d \in Calls, Newest(d), UpToDate(d) PROVE CartFollows'
    <3>1. CASE d = c
      <4>1. Readers' \subseteq overtaken'
        BY <1>1, <1>4, <2>4, <3>1 DEF Newest, Before
      <4>2. call[c].owner # Nobody
        BY <1>1 DEF SessionInv, CallShape
      <4>3. call[c].sees = carts[call[c].owner]
        <5>1. ~call[c].mints => cookie' = cookie
          BY <1>1 DEF Cookie
        <5>2. cookie' = cookie => Owner' = Owner
          BY <1>1 DEF Owner, credentials
        <5> QED
          BY <2>2, <2>4, <3>1, <5>1, <5>2 DEF UpToDate
      <4> QED
        BY <1>1, <1>9, <2>2, <4>1, <4>2, <4>3 DEF CartFollows, ShowsNow
    <3>2. CASE d # c
      <4>1. d \in Readers \ {c}
        BY <2>4, <3>2 DEF Newest
      <4>2. Newest(d)'
        BY <1>1, <1>4, <1>5, <2>4, <4>1, NewestStays
      <4>3. UpToDate(d)'
        <5>1. call'[d] = call[d] /\ c \in Underway /\ d \in Underway
          BY <1>1, <1>8, <4>1 DEF Underway, Readers
        <5>2. CASE call[d].sees = carts[call[d].owner]
          BY <1>9, <5>1, <5>2 DEF UpToDate
        <5>3. CASE ~call[d].mints /\ call[d].owner # Owner
          <6>1. CASE cookie' = cookie
            <7>1. Owner' = Owner
              BY <1>1, <6>1 DEF Owner, credentials
            <7> QED
              BY <5>1, <5>3, <7>1 DEF UpToDate
          <6>2. CASE cookie' # cookie
            <7>1. call[c].mints /\ cookie' = call[c].owner
              BY <1>1, <6>2, CookieTyped
            <7>2. call[d].owner # call[c].owner
              BY <4>1, <5>1, <7>1 DEF SessionInv, OwnSessions
            <7> QED
              BY <2>2, <5>1, <5>3, <7>2 DEF UpToDate
          <6> QED
            BY <6>1, <6>2
        <5> QED
          BY <2>4, <5>2, <5>3 DEF UpToDate
      <4> QED
        BY <4>2, <4>3 DEF CartFollows
    <3> QED
      BY <3>1, <3>2
  <2>5. ~ShowsNow
    BY <1>4, <2>2 DEF ShowsNow
  <2> QED
    BY <2>2, <2>3, <2>4, <2>5 DEF CartFollows
<1> QED
  BY <1>3, <1>4, <1>5, <1>6, <1>7, <1>10
-----------------------------------------------------------------------------
\* The invariant holds when the page is opened.
LEMMA CartStart == CartAssumption /\ CartInit => CartInv
<1> SUFFICES ASSUME CartAssumption, CartInit PROVE CartInv
  OBVIOUS
<1> USE DEF CartInit
<1>1. CallTyped
  BY NoCallTyped DEF CallTyped, CallRecords
<1>2. \A c \in Calls : call[c].step = "idle" /\ call[c].op = "fetch" /\ call[c].mints = FALSE /\ call[c].merges = FALSE
  BY DEF NoCall
<1>3. Underway = {} /\ Readers = {}
  BY <1>2 DEF Underway, Readers
<1>4. CartTypeOK
  <2>1. Empty \in [Variants -> Nat] /\ 0 \in 0 .. MaxCalls
    BY DEF Empty, CartAssumption
  <2>2. \A c \in Calls : call[c].step \in {"idle", "sent", "looked", "good", "bad"} /\ call[c].owner \in Owners \cup {Nobody}
    BY <1>1 DEF CallTyped, CallRecords
  <2>3. carts \in [Owners -> [Variants -> Nat]] /\ rows \in [Owners -> Nat]
    BY <2>1
  <2>4. earlier \in [Calls -> SUBSET Calls]
    OBVIOUS
  <2> QED
    BY <1>3, <2>1, <2>2, <2>3, <2>4 DEF CartTypeOK
<1>5. SessionInv
  <2>1. KnownSessions /\ OwnSessions
    BY <1>3 DEF KnownSessions, OwnSessions, Made, Owners
  <2>2. CallShape
    BY <1>2 DEF CallShape
  <2>3. GuestInv
    BY <1>2, <1>3 DEF GuestInv, GuestCartKept, OneFirst, First, FirstNoCookie, Reachable, EmptyUntilGood, FoundNone,
                      OneFinder, Finder, Owners
  <2> QED
    BY <2>1, <2>2, <2>3 DEF SessionInv
<1>6. ReadersOrdered /\ SignedInCalls
  BY <1>3 DEF ReadersOrdered, SignedInCalls
<1>7. CartFollows
  BY <1>3 DEF CartFollows, ShowsNow
<1> QED
  BY <1>1, <1>4, <1>5, <1>6, <1>7 DEF CartInv

\* Every step keeps the invariant.
LEMMA CartStep ==
  ASSUME CartAssumption, CartInv, [CartNext]_cartVars
  PROVE  CartInv'
<1>1. ASSUME NEW c \in Calls, fetch(c) \/ order(c) PROVE CartInv'
  <2>1. PICK op \in {"fetch", "order"} : Begin(c, op, Nobody, 0)
    BY <1>1 DEF fetch, order
  <2>2. isLoading' \in BOOLEAN /\ busy' \subseteq Variants
    BY <1>1 DEF fetch, order, CartInv, CartTypeOK
  <2> QED
    BY <2>1, <2>2, BeginKeeps
<1>2. ASSUME NEW c \in Calls, NEW v \in Variants, ProductCard(c, v) PROVE CartInv'
  <2>1. Begin(c, "add", v, 1) /\ isLoading' \in BOOLEAN /\ busy' \subseteq Variants
    BY <1>2 DEF ProductCard, addProduct, CartInv, CartTypeOK
  <2> QED
    BY <2>1, BeginKeeps
<1>3. ASSUME NEW c \in Calls, NEW v \in Variants, NEW q \in 0 .. Stock[v], addItem(c, v, q) \/ updateItem(c, v, q)
      PROVE  CartInv'
  <2>1. Stock[v] \in Nat
    BY DEF CartAssumption
  <2>2. q \in Nat
    BY <2>1
  <2>3. PICK op \in {"add", "set"} : Begin(c, op, v, q)
    BY <1>3 DEF addItem, updateItem
  <2>4. isLoading' \in BOOLEAN /\ busy' \subseteq Variants
    BY <1>3 DEF addItem, updateItem, CartInv, CartTypeOK
  <2> QED
    BY <2>2, <2>3, <2>4, BeginKeeps
<1>4. \A v \in Variants : 1 .. Stock[v] \subseteq 0 .. Stock[v]
  BY DEF CartAssumption
<1> QED
  BY <1>1, <1>2, <1>3, <1>4, SignInKeeps, LookKeeps, ServeKeeps, MergeKeeps, ChangedKeeps, RefusedKeeps,
     OrderedKeeps, InstallKeeps, FetchFailsKeeps, LostKeeps, QuietKeeps DEF CartNext
-----------------------------------------------------------------------------
(***************************************************************************)
(* The checkout page, for every set of countries, codes and points, and    *)
(* any number of edits, questions in flight and orders.                    *)
(***************************************************************************)
CheckoutSpec == CheckoutInit /\ [][CheckoutNext]_checkoutVars

Job == [phase : {"sent", "read", "refused", "made", "confirming"}, cart : Nat]
Order == [cart : Nat, job : Nat]
LogsTyped == jobs \in Seq(Job) /\ orders \in Seq(Order)

\* The values that a quote should be about.
Current(q) == Basis(q, form, discount)

\* Of each quote: the timer, or else the last question, is about the current values.
QuotesFollow ==
  \A q \in Quotes : form.country # NoCountry => (IF timer[q] = NoQuote THEN asked[q] ELSE timer[q]) = Current(q)

\* The page waits for the one order that is being made, and a cart that is about to be
\* ordered was not ordered before.
PageWaits == \A j \in DOMAIN jobs : jobs[j].phase \in {"sent", "read"} => j = waiting
CartsUsedUp ==
  /\ \A i \in DOMAIN orders : orders[i].cart \in 1 .. contents /\ orders[i].cart # cart
  /\ \A j \in DOMAIN jobs : jobs[j].phase = "read" =>
       jobs[j].cart \in 1 .. contents /\ \A i \in DOMAIN orders : orders[i].cart # jobs[j].cart
OneByOne == ~lostEarly => PageWaits /\ CartsUsedUp

CheckoutInv ==
  /\ CheckoutTypeOK /\ LogsTyped
  /\ QuotesFollow
  /\ OneByOne /\ OrderedOnce
-----------------------------------------------------------------------------
\* An answer removes its question.
LEMMA Answering ==
  ASSUME NEW s \in Seq(Form), NEW i \in DOMAIN s
  PROVE  RemoveAt(s, i) \in Seq(Form) /\ Len(RemoveAt(s, i)) = Len(s) - 1
<1> DEFINE before == SubSeq(s, 1, i - 1)
           after == SubSeq(s, i + 1, Len(s))
<1>1. Len(s) \in Nat /\ i \in 1 .. Len(s)
  OBVIOUS
<1>2. before \in Seq(Form) /\ Len(before) = i - 1
  BY <1>1
<1>3. after \in Seq(Form) /\ Len(after) = Len(s) - i
  BY <1>1
<1>4. RemoveAt(s, i) = before \o after
  BY DEF RemoveAt
<1> HIDE DEF before, after
<1>5. before \o after \in Seq(Form) /\ Len(before \o after) = Len(s) - 1
  BY <1>1, <1>2, <1>3
<1> QED
  BY <1>4, <1>5

LEMMA BasisTyped ==
  ASSUME NEW f \in Form, NEW d \in Codes \cup {NoCode}, NEW q \in Quotes
  PROVE  Basis(q, f, d) \in Form
BY DEF Form, Basis, appliedCoupon, Quotes

LEMMA NothingTyped == NoQuote \in Form
BY CheckoutAssumption DEF NoQuote, Form

LEMMA NowTyped ==
  ASSUME CheckoutTypeOK, NEW f \in Form, NEW d \in Codes \cup {NoCode}, Now(f, d)
  PROVE  /\ form' \in Form /\ discount' \in Codes \cup {NoCode}
         /\ timer' \in [Quotes -> Form] /\ quote' \in [Quotes -> Form]
<1>1. form' = f /\ discount' = d
  BY DEF Now
<1>2. timer' \in [Quotes -> Form]
  BY BasisTyped, NothingTyped DEF Now, CheckoutTypeOK
<1>3. quote' \in [Quotes -> Form]
  BY NothingTyped DEF Now, CheckoutTypeOK
<1> QED
  BY <1>1, <1>2, <1>3

\* What is typed is what the page shows next.
LEMMA Typed ==
  ASSUME CheckoutTypeOK, \/ \E c \in Countries \cup {NoCountry} : TypeCountry(c)
                         \/ \E p \in Points : TypePoints(p)
                         \/ \E c \in Codes \cup {NoCode} : TypeCode(c)
  PROVE  \E f \in Form : \E d \in Codes \cup {NoCode} : Edit(f, d)
<1> USE DEF CheckoutTypeOK
<1>1. ASSUME NEW c \in Countries \cup {NoCountry}, TypeCountry(c)
      PROVE  [form EXCEPT !.country = c] \in Form /\ Edit([form EXCEPT !.country = c], discount)
  BY <1>1 DEF TypeCountry, Form
<1>2. ASSUME NEW p \in Points, TypePoints(p)
      PROVE  [form EXCEPT !.points = p] \in Form /\ Edit([form EXCEPT !.points = p], discount)
  BY <1>2 DEF TypePoints, Form
<1>3. ASSUME NEW c \in Codes \cup {NoCode}, TypeCode(c)
      PROVE  [form EXCEPT !.code = c] \in Form /\ Edit([form EXCEPT !.code = c], NoCode)
  BY <1>3 DEF TypeCode, Form
<1> QED
  BY <1>1, <1>2, <1>3

\* Type correctness.
LEMMA TypeStep ==
  ASSUME CheckoutInv, [CheckoutNext]_checkoutVars
  PROVE  CheckoutTypeOK' /\ LogsTyped'
<1> DEFINE Parts == CheckoutTypeOK /\ LogsTyped
<1> USE CheckoutAssumption DEF CheckoutInv, CheckoutTypeOK, LogsTyped
<1>1. ASSUME NEW f \in Form, NEW d \in Codes \cup {NoCode}, Edit(f, d)
      PROVE  Parts'
  <2>1. edits' \in 0 .. MaxEdits
    BY <1>1 DEF Edit
  <2>2. Now(f, d) /\ UNCHANGED <<open, applying, flights, asked, jobs, waiting, server, lostEarly>>
    BY <1>1 DEF Edit
  <2> QED
    BY <1>1, <2>1, <2>2, NowTyped DEF server
<1>2. CASE applyCoupon
  <2>1. applying' \in Codes \cup {NoCode} /\ edits' \in 0 .. MaxEdits
    BY <1>2 DEF applyCoupon, Form
  <2>2. UNCHANGED <<open, form, discount, timer, flights, quote, asked, jobs, waiting, server, lostEarly>>
    BY <1>2 DEF applyCoupon
  <2> QED
    BY <2>1, <2>2 DEF server
<1>3. CASE CouponAnswered
  <2>1. PICK d \in Codes \cup {NoCode} : Now(form, d)
    BY <1>3 DEF CouponAnswered
  <2>2. applying' = NoCode /\ UNCHANGED <<open, flights, edits, asked, jobs, waiting, server, lostEarly>>
    BY <1>3 DEF CouponAnswered
  <2> QED
    BY <2>1, <2>2, NowTyped DEF server
<1>4. ASSUME NEW q \in Quotes, Ask(q)
      PROVE  Parts'
  <2>1. /\ flights' \in [Quotes -> Seq(Form)]
        /\ \A p \in Quotes : Len(flights'[p]) <= MaxFlights
    BY <1>4 DEF Ask
  <2>2. timer' \in [Quotes -> Form] /\ asked' \in [Quotes -> Form]
    BY <1>4, NothingTyped DEF Ask
  <2> QED
    BY <1>4, <2>1, <2>2 DEF Ask, server
<1>5. ASSUME NEW q \in Quotes, NEW i \in DOMAIN flights[q], QuoteAnswered(q, i)
      PROVE  Parts'
  <2>1. flights[q] \in Seq(Form) /\ flights[q][i] \in Form /\ i \in 1 .. Len(flights[q]) /\ Len(flights[q]) \in Nat
    OBVIOUS
  <2>2. RemoveAt(flights[q], i) \in Seq(Form) /\ Len(RemoveAt(flights[q], i)) = Len(flights[q]) - 1
    BY <2>1, Answering
  <2>3. /\ flights' \in [Quotes -> Seq(Form)]
        /\ \A p \in Quotes : Len(flights'[p]) <= MaxFlights
    BY <1>5, <2>1, <2>2 DEF QuoteAnswered
  <2>4. quote' \in [Quotes -> Form]
    BY <1>5, <2>1, NothingTyped DEF QuoteAnswered
  <2> QED
    BY <1>5, <2>3, <2>4 DEF QuoteAnswered, server
<1>6. CASE handleSubmit
  <2>1. [phase |-> "sent", cart |-> 0] \in Job
    BY DEF Job
  <2>2. jobs' \in Seq(Job) /\ Len(jobs') = Len(jobs) + 1 /\ Len(jobs') <= MaxPresses /\ waiting' = Len(jobs')
    BY <1>6, <2>1 DEF handleSubmit
  <2>3. UNCHANGED <<page, server, lostEarly>>
    BY <1>6 DEF handleSubmit
  <2> QED
    BY <2>2, <2>3 DEF page, server
<1>7. ASSUME NEW j \in DOMAIN jobs, ReadCart(j)
      PROVE  Parts'
  <2>1. [phase |-> "read", cart |-> cart] \in Job /\ [phase |-> "refused", cart |-> 0] \in Job
    BY DEF Job
  <2>2. PICK job \in Job : jobs' = [jobs EXCEPT ![j] = job]
    BY <1>7, <2>1 DEF ReadCart
  <2>3. jobs' \in Seq(Job) /\ Len(jobs') = Len(jobs)
    BY <2>2
  <2>4. UNCHANGED <<page, waiting, server, lostEarly>>
    BY <1>7 DEF ReadCart
  <2> QED
    BY <2>3, <2>4 DEF page, server
<1>8. ASSUME NEW j \in DOMAIN jobs, CommitOrder(j)
      PROVE  Parts'
  <2>1. jobs[j] \in Job /\ j \in Nat
    OBVIOUS
  <2>2. [phase |-> "made", cart |-> 0] \in Job /\ [cart |-> jobs[j].cart, job |-> j] \in Order
    BY <2>1 DEF Job, Order
  <2>3. jobs' = [jobs EXCEPT ![j] = [phase |-> "made", cart |-> 0]] /\ orders' = Append(orders, [cart |-> jobs[j].cart, job |-> j])
    BY <1>8 DEF CommitOrder
  <2>4. jobs' \in Seq(Job) /\ Len(jobs') = Len(jobs) /\ orders' \in Seq(Order)
    BY <2>2, <2>3
  <2>5. cart' \in 0 .. contents /\ UNCHANGED <<page, waiting, contents, lostEarly>>
    BY <1>8 DEF CommitOrder
  <2> QED
    BY <2>4, <2>5 DEF page
<1>9. ASSUME Left, jobs' \in Seq(Job), Len(jobs') = Len(jobs), waiting' = 0, UNCHANGED <<server, lostEarly>>
      PROVE  Parts'
  <2>1. /\ flights' = [q \in Quotes |-> << >>] /\ asked' = [q \in Quotes |-> NoQuote]
        /\ timer' = [q \in Quotes |-> NoQuote] /\ quote' = [q \in Quotes |-> NoQuote]
    BY <1>9 DEF Left
  <2>2. /\ timer' \in [Quotes -> Form] /\ quote' \in [Quotes -> Form] /\ asked' \in [Quotes -> Form]
        /\ flights' \in [Quotes -> Seq(Form)]
        /\ \A q \in Quotes : Len(flights'[q]) <= MaxFlights
    BY <2>1, NothingTyped
  <2>3. open' = FALSE /\ form' = NoQuote /\ discount' = NoCode /\ applying' = NoCode /\ edits' = edits
    BY <1>9 DEF Left
  <2>4. waiting' \in 0 .. Len(jobs') /\ Len(jobs') <= MaxPresses
    BY <1>9
  <2>5. cart' = cart /\ contents' = contents /\ orders' = orders /\ lostEarly' = lostEarly
    BY <1>9 DEF server
  <2> QED
    BY <1>9, <2>2, <2>3, <2>4, <2>5, NothingTyped
<1>10. ASSUME NEW card \in BOOLEAN, OrderAnswered(card)
       PROVE  Parts'
  <2>1. CASE jobs[waiting].phase = "refused"
    BY <1>10, <2>1 DEF OrderAnswered, page, server
  <2>2. CASE jobs[waiting].phase = "made" /\ card
    <3>1. [phase |-> "confirming", cart |-> 0] \in Job
      BY DEF Job
    <3>2. /\ jobs' = [jobs EXCEPT ![waiting] = [phase |-> "confirming", cart |-> 0]] /\ waiting # 0
          /\ UNCHANGED <<page, waiting, server, lostEarly>>
      BY <1>10, <2>2 DEF OrderAnswered
    <3>3. jobs' \in Seq(Job) /\ Len(jobs') = Len(jobs)
      BY <3>1, <3>2
    <3> QED
      BY <3>2, <3>3 DEF page, server
  <2>3. CASE jobs[waiting].phase = "made" /\ ~card
    <3>1. waiting' = 0 /\ Left /\ UNCHANGED jobs /\ waiting # 0 /\ UNCHANGED <<server, lostEarly>>
      BY <1>10, <2>3 DEF OrderAnswered
    <3>2. jobs' \in Seq(Job) /\ Len(jobs') = Len(jobs)
      BY <3>1
    <3> QED
      BY <1>9, <3>1, <3>2
  <2> QED
    BY <1>10, <2>1, <2>2, <2>3 DEF OrderAnswered
<1>11. ASSUME NEW declined \in BOOLEAN, CardAnswered(declined)
       PROVE  Parts'
  <2>1. /\ waiting # 0 /\ waiting' = 0 /\ UNCHANGED <<server, lostEarly>>
        /\ jobs' = [jobs EXCEPT ![waiting] = [phase |-> "made", cart |-> 0]]
    BY <1>11 DEF CardAnswered
  <2>2. [phase |-> "made", cart |-> 0] \in Job
    BY DEF Job
  <2>3. jobs' \in Seq(Job) /\ Len(jobs') = Len(jobs)
    BY <2>1, <2>2
  <2>4. CASE declined
    <3>1. UNCHANGED page
      BY <1>11, <2>4 DEF CardAnswered
    <3> QED
      BY <2>1, <2>3, <3>1 DEF page, server
  <2>5. CASE ~declined
    <3>1. Left
      BY <1>11, <2>5 DEF CardAnswered
    <3> QED
      BY <1>9, <2>1, <2>3, <3>1
  <2> QED
    BY <2>4, <2>5
<1>12. CASE OrderLost
  BY <1>12 DEF OrderLost, page, server
<1>13. CASE ChangeElsewhere
  BY <1>13 DEF ChangeElsewhere, page
<1>14. CASE UNCHANGED checkoutVars
  BY <1>14 DEF checkoutVars, page, server
<1> QED
  BY <1>1, <1>2, <1>3, <1>4, <1>5, <1>6, <1>7, <1>8, <1>10, <1>11, <1>12, <1>13, <1>14, Typed DEF CheckoutNext

\* What follows the form, after a step that changes it.
LEMMA Moved ==
  ASSUME CheckoutTypeOK, QuotesFollow, NEW f \in Form, NEW d \in Codes \cup {NoCode}, Now(f, d), UNCHANGED asked
  PROVE  QuotesFollow'
<1> SUFFICES ASSUME NEW q \in Quotes, form'.country # NoCountry
             PROVE  ((IF timer[q] = NoQuote THEN asked[q] ELSE timer[q]) = Current(q))'
  BY DEF QuotesFollow
<1>1. form' = f /\ discount' = d /\ Current(q)' = Basis(q, f, d)
  BY DEF Now, Current
<1>2. CASE Basis(q, f, d) # Basis(q, form, discount)
  <2>1. timer'[q] = Basis(q, f, d)
    BY <1>1, <1>2 DEF Now
  <2>2. Basis(q, f, d) # NoQuote
    BY <1>1 DEF Basis, NoQuote
  <2> QED
    BY <1>1, <2>1, <2>2
<1>3. CASE Basis(q, f, d) = Basis(q, form, discount)
  <2>1. timer'[q] = timer[q] /\ asked' = asked
    BY <1>3 DEF Now
  <2>2. form.country # NoCountry /\ Current(q)' = Current(q)
    BY <1>1, <1>3 DEF Basis, Current
  <2> QED
    BY <2>1, <2>2 DEF QuotesFollow
<1> QED
  BY <1>2, <1>3

\* Of each quote, the timer or the last question follows the form.
LEMMA QuotesStep ==
  ASSUME CheckoutInv, [CheckoutNext]_checkoutVars
  PROVE  QuotesFollow'
<1> USE DEF CheckoutInv
<1>1. ASSUME NEW f \in Form, NEW d \in Codes \cup {NoCode}, Now(f, d), UNCHANGED asked
      PROVE  QuotesFollow'
  BY <1>1, Moved
<1>2. ASSUME UNCHANGED <<form, discount, timer, asked>>
      PROVE  QuotesFollow'
  BY <1>2 DEF QuotesFollow, Current
<1>3. CASE CouponAnswered
  BY <1>1, <1>3 DEF CouponAnswered, CheckoutTypeOK
<1>4. ASSUME NEW r \in Quotes, Ask(r)
      PROVE  QuotesFollow'
  <2>1. form' = form /\ discount' = discount /\ timer[r] # NoQuote
    BY <1>4 DEF Ask
  <2>2. /\ timer'[r] = NoQuote /\ asked'[r] = timer[r]
        /\ \A q \in Quotes \ {r} : timer'[q] = timer[q] /\ asked'[q] = asked[q]
    BY <1>4 DEF Ask, CheckoutTypeOK
  <2>3. ASSUME NEW q \in Quotes
        PROVE  Current(q)' = Current(q)
    BY <2>1 DEF Current
  <2> QED
    BY <2>1, <2>2, <2>3 DEF QuotesFollow
<1>5. CASE Left
  BY <1>5 DEF Left, QuotesFollow, NoQuote
<1>6. ASSUME \E card, declined \in BOOLEAN : OrderAnswered(card) \/ CardAnswered(declined)
      PROVE  Left \/ UNCHANGED page
  BY <1>6 DEF OrderAnswered, CardAnswered
<1>7. UNCHANGED page => QuotesFollow'
  BY <1>2 DEF page
<1>8. ASSUME \/ applyCoupon \/ handleSubmit \/ OrderLost \/ ChangeElsewhere \/ UNCHANGED checkoutVars
             \/ \E j \in DOMAIN jobs : ReadCart(j) \/ CommitOrder(j)
             \/ \E q \in Quotes : \E i \in DOMAIN flights[q] : QuoteAnswered(q, i)
      PROVE  QuotesFollow'
  BY <1>2, <1>7, <1>8 DEF applyCoupon, handleSubmit, OrderLost, ReadCart, CommitOrder, ChangeElsewhere, QuoteAnswered,
     checkoutVars
<1>9. ASSUME NEW f \in Form, NEW d \in Codes \cup {NoCode}, Edit(f, d)
      PROVE  QuotesFollow'
  BY <1>1, <1>9 DEF Edit
<1> QED
  BY <1>3, <1>4, <1>5, <1>6, <1>7, <1>8, <1>9, Typed DEF CheckoutNext
-----------------------------------------------------------------------------
\* An order that the page has the answer of is not being made.
LEMMA NothingInMaking ==
  ASSUME CheckoutInv, ~lostEarly,
         waiting = 0 \/ (waiting \in DOMAIN jobs /\ jobs[waiting].phase \notin {"sent", "read"})
  PROVE  \A j \in DOMAIN jobs : jobs[j].phase \notin {"sent", "read"}
BY DEF CheckoutInv, OneByOne, PageWaits, LogsTyped

\* One order is made at a time, and of a cart that was not ordered.
LEMMA OnceStep ==
  ASSUME CheckoutInv, [CheckoutNext]_checkoutVars
  PROVE  OneByOne' /\ OrderedOnce'
<1> DEFINE Parts == OneByOne /\ OrderedOnce
<1> USE DEF CheckoutInv
<1>1. ASSUME UNCHANGED <<jobs, waiting, cart, contents, orders, lostEarly>>
      PROVE  Parts'
  BY <1>1 DEF OneByOne, OrderedOnce, PageWaits, CartsUsedUp
<1>2. CASE lostEarly'
  BY <1>2 DEF OneByOne, OrderedOnce
<1>3. CASE handleSubmit /\ ~lostEarly
  <2>1. /\ waiting = 0 /\ jobs' = Append(jobs, [phase |-> "sent", cart |-> 0]) /\ waiting' = Len(jobs) + 1
        /\ UNCHANGED <<server, lostEarly>>
    BY <1>3 DEF handleSubmit
  <2>2. \A j \in DOMAIN jobs : jobs[j].phase \notin {"sent", "read"}
    BY <1>3, <2>1, NothingInMaking
  <2>3. \A j \in DOMAIN jobs' : (j \in DOMAIN jobs /\ jobs'[j] = jobs[j])
                               \/ (j = waiting' /\ jobs'[j] = [phase |-> "sent", cart |-> 0])
    BY <2>1 DEF LogsTyped
  <2>4. PageWaits'
    BY <2>2, <2>3 DEF PageWaits
  <2>5. \A j \in DOMAIN jobs' : jobs'[j].phase # "read"
    BY <2>2, <2>3
  <2>6. UNCHANGED <<cart, contents, orders, lostEarly>>
    BY <2>1 DEF server
  <2>7. CartsUsedUp' /\ OrderedOnce'
    BY <1>3, <2>5, <2>6 DEF CartsUsedUp, OneByOne, OrderedOnce
  <2> QED
    BY <2>4, <2>7 DEF OneByOne
<1>4. ASSUME NEW j \in DOMAIN jobs, ReadCart(j), ~lostEarly
      PROVE  Parts'
  <2>1. jobs[j].phase = "sent" /\ UNCHANGED <<waiting, server, lostEarly>>
    BY <1>4 DEF ReadCart
  <2>2. UNCHANGED <<waiting, cart, contents, orders, lostEarly>>
    BY <2>1 DEF server
  <2>3. j = waiting
    BY <1>4, <2>1 DEF OneByOne, PageWaits
  <2>4. CASE cart # 0 /\ jobs' = [jobs EXCEPT ![j] = [phase |-> "read", cart |-> cart]]
    <3>1. DOMAIN jobs' = DOMAIN jobs /\ jobs'[j].cart = cart /\ \A k \in DOMAIN jobs \ {j} : jobs'[k] = jobs[k]
      BY <2>4
    <3>2. PageWaits'
      BY <1>4, <2>2, <2>3, <3>1 DEF OneByOne, PageWaits
    <3>3. cart \in 1 .. contents
      BY <2>4 DEF CheckoutTypeOK
    <3>4. CartsUsedUp'
      BY <1>4, <2>2, <3>1, <3>3 DEF OneByOne, CartsUsedUp
    <3> QED
      BY <2>2, <3>2, <3>4 DEF OneByOne, OrderedOnce
  <2>5. CASE jobs' = [jobs EXCEPT ![j] = [phase |-> "refused", cart |-> 0]]
    <3>1. DOMAIN jobs' = DOMAIN jobs /\ jobs'[j].phase = "refused" /\ \A k \in DOMAIN jobs \ {j} : jobs'[k] = jobs[k]
      BY <2>5
    <3>2. PageWaits' /\ CartsUsedUp'
      BY <1>4, <2>2, <3>1 DEF OneByOne, PageWaits, CartsUsedUp
    <3> QED
      BY <2>2, <3>2 DEF OneByOne, OrderedOnce
  <2> QED
    BY <1>4, <2>4, <2>5 DEF ReadCart
<1>5. ASSUME NEW j \in DOMAIN jobs, CommitOrder(j), ~lostEarly
      PROVE  Parts'
  <2> DEFINE sold == jobs[j].cart
  <2>1. /\ jobs[j].phase = "read" /\ UNCHANGED <<waiting, contents, lostEarly>>
        /\ orders' = Append(orders, [cart |-> sold, job |-> j])
        /\ cart' = IF cart = sold THEN 0 ELSE cart
        /\ jobs' = [jobs EXCEPT ![j] = [phase |-> "made", cart |-> 0]]
    BY <1>5 DEF CommitOrder
  <2>2. j = waiting /\ sold \in 1 .. contents /\ \A i \in DOMAIN orders : orders[i].cart # sold
    BY <1>5, <2>1 DEF OneByOne, PageWaits, CartsUsedUp
  <2> HIDE DEF sold
  <2>3. DOMAIN jobs' = DOMAIN jobs /\ jobs'[j].phase = "made" /\ \A k \in DOMAIN jobs \ {j} : jobs'[k] = jobs[k]
    BY <2>1
  <2>4. \A k \in DOMAIN jobs' : jobs'[k].phase \notin {"sent", "read"}
    BY <1>5, <2>2, <2>3 DEF OneByOne, PageWaits
  <2>5. orders \in Seq(Order) /\ DOMAIN orders' = DOMAIN orders \cup {Len(orders) + 1}
        /\ Len(orders) \in Nat /\ DOMAIN orders = 1 .. Len(orders)
        /\ orders'[Len(orders) + 1].cart = sold /\ \A i \in DOMAIN orders : orders'[i] = orders[i]
    BY <2>1 DEF LogsTyped
  <2>6. \A i \in DOMAIN orders' : orders'[i].cart \in 1 .. contents /\ orders'[i].cart # cart'
    <3>1. \A i \in DOMAIN orders : orders[i].cart \in 1 .. contents /\ orders[i].cart # cart
      BY <1>5 DEF OneByOne, CartsUsedUp
    <3> QED
      BY <2>1, <2>2, <2>5, <3>1 DEF CheckoutTypeOK
  <2>7. OneByOne'
    BY <2>1, <2>4, <2>6 DEF OneByOne, PageWaits, CartsUsedUp
  <2>8. OrderedOnce'
    BY <1>5, <2>2, <2>5 DEF OrderedOnce
  <2> QED
    BY <2>7, <2>8
<1>6. ASSUME waiting # 0, jobs[waiting].phase \in {"made", "refused", "confirming"}, ~lostEarly,
             NEW phase, phase \in {"made", "confirming"},
             UNCHANGED jobs \/ jobs' = [jobs EXCEPT ![waiting] = [phase |-> phase, cart |-> 0]],
             UNCHANGED <<server, lostEarly>>
      PROVE  Parts'
  <2>1. waiting \in DOMAIN jobs
    BY <1>6 DEF CheckoutTypeOK, LogsTyped
  <2>2. \A k \in DOMAIN jobs : jobs[k].phase \notin {"sent", "read"}
    BY <1>6, <2>1, NothingInMaking
  <2>3. DOMAIN jobs' = DOMAIN jobs /\ \A k \in DOMAIN jobs : jobs'[k] = jobs[k] \/ jobs'[k].phase = phase
    BY <1>6, <2>1
  <2>4. \A k \in DOMAIN jobs' : jobs'[k].phase \notin {"sent", "read"}
    BY <1>6, <2>2, <2>3
  <2>5. UNCHANGED <<cart, contents, orders, lostEarly>>
    BY <1>6 DEF server
  <2> QED
    BY <1>6, <2>4, <2>5 DEF OneByOne, PageWaits, CartsUsedUp, OrderedOnce
<1>7. ASSUME NEW card \in BOOLEAN, OrderAnswered(card), ~lostEarly
      PROVE  Parts'
  <2>1. /\ waiting # 0 /\ jobs[waiting].phase \in {"made", "refused"} /\ UNCHANGED <<server, lostEarly>>
        /\ UNCHANGED jobs \/ jobs' = [jobs EXCEPT ![waiting] = [phase |-> "confirming", cart |-> 0]]
    BY <1>7 DEF OrderAnswered
  <2> QED
    BY <1>6, <1>7, <2>1
<1>8. ASSUME NEW declined \in BOOLEAN, CardAnswered(declined), ~lostEarly
      PROVE  Parts'
  <2>1. /\ waiting # 0 /\ jobs[waiting].phase = "confirming" /\ UNCHANGED <<server, lostEarly>>
        /\ jobs' = [jobs EXCEPT ![waiting] = [phase |-> "made", cart |-> 0]]
    BY <1>8 DEF CardAnswered
  <2> QED
    BY <1>6, <1>8, <2>1
<1>9. CASE OrderLost /\ ~lostEarly /\ ~lostEarly'
  <2>1. /\ waiting # 0 /\ jobs[waiting].phase = "made" /\ UNCHANGED <<jobs, server, lostEarly>>
    BY <1>9 DEF OrderLost, CheckoutTypeOK
  <2> QED
    BY <1>6, <1>9, <2>1
<1>10. CASE ChangeElsewhere /\ ~lostEarly
  <2>1. contents' = contents + 1 /\ cart' = contents + 1 /\ UNCHANGED <<jobs, waiting, orders, lostEarly>>
    BY <1>10 DEF ChangeElsewhere
  <2>2. PageWaits /\ CartsUsedUp
    BY <1>10 DEF OneByOne
  <2>3. PageWaits'
    BY <2>1, <2>2 DEF PageWaits
  <2>4. CartsUsedUp'
    BY <2>1, <2>2 DEF CartsUsedUp, CheckoutTypeOK
  <2> QED
    BY <2>1, <2>3, <2>4 DEF OneByOne, OrderedOnce
<1>11. ASSUME \/ \E f \in Form : \E d \in Codes \cup {NoCode} : Edit(f, d)
              \/ applyCoupon \/ CouponAnswered \/ UNCHANGED checkoutVars
              \/ \E q \in Quotes : Ask(q) \/ \E i \in DOMAIN flights[q] : QuoteAnswered(q, i)
       PROVE  UNCHANGED <<jobs, waiting, cart, contents, orders, lostEarly>>
  <2>1. UNCHANGED <<jobs, waiting, server, lostEarly>>
    BY <1>11 DEF Edit, applyCoupon, CouponAnswered, Ask, QuoteAnswered, checkoutVars
  <2> QED
    BY <2>1 DEF server
<1>12. lostEarly \in BOOLEAN /\ CheckoutTypeOK
  BY DEF CheckoutTypeOK
<1>13. CASE lostEarly
  <2>1. lostEarly'
    BY <1>11, <1>12, <1>13, Typed DEF CheckoutNext, handleSubmit, OrderLost, ReadCart, CommitOrder, OrderAnswered,
       CardAnswered, ChangeElsewhere
  <2> QED
    BY <1>2, <2>1
<1> QED
  BY <1>1, <1>2, <1>3, <1>4, <1>5, <1>7, <1>8, <1>9, <1>10, <1>11, <1>12, <1>13, Typed DEF CheckoutNext
-----------------------------------------------------------------------------
LEMMA CheckoutStart ==
  ASSUME CheckoutInit
  PROVE  CheckoutInv
<1> USE CheckoutAssumption DEF CheckoutInit
<1>1. form \in Form /\ discount = NoCode
  BY DEF Form
<1>2. quote \in [Quotes -> Form] /\ timer \in [Quotes -> Form]
  BY <1>1, BasisTyped, NothingTyped
<1>3. flights \in [Quotes -> Seq(Form)] /\ \A q \in Quotes : Len(flights[q]) = 0
  OBVIOUS
<1>4. CheckoutTypeOK
  <2>1. /\ \A q \in Quotes : Len(flights[q]) <= MaxFlights
        /\ waiting \in 0 .. Len(jobs) /\ Len(jobs) <= MaxPresses
        /\ cart \in 0 .. contents /\ contents \in 1 .. MaxCarts /\ edits \in 0 .. MaxEdits
    BY <1>3
  <2>2. open \in BOOLEAN /\ lostEarly \in BOOLEAN
    OBVIOUS
  <2>3. discount \in Codes \cup {NoCode} /\ applying \in Codes \cup {NoCode}
    OBVIOUS
  <2> QED
    BY <1>1, <1>2, <1>3, <2>1, <2>2, <2>3 DEF CheckoutTypeOK
<1>5. LogsTyped /\ DOMAIN jobs = {} /\ DOMAIN orders = {}
  BY DEF LogsTyped
<1>6. QuotesFollow
  BY <1>1 DEF QuotesFollow, Current
<1>7. OneByOne /\ OrderedOnce
  BY <1>5 DEF OneByOne, OrderedOnce, PageWaits, CartsUsedUp
<1> QED
  BY <1>4, <1>5, <1>6, <1>7 DEF CheckoutInv

\* The invariant of the page and of the orders that it sends (checkout/page.tsx and the
\* checkout service): type correctness, where the quotes are, and how carts are used up.
THEOREM CheckoutInvariance == CheckoutSpec => []CheckoutInv
<1>1. CheckoutInv /\ [CheckoutNext]_checkoutVars => CheckoutInv'
  BY TypeStep, QuotesStep, OnceStep DEF CheckoutInv
<1> QED
  BY <1>1, CheckoutStart, PTL DEF CheckoutSpec

\* The page never leaves its states: the fields, the discount, the timers, the questions
\* in flight and the sums stay what the page can be in (checkout/page.tsx).
THEOREM CheckoutTypeCorrect == CheckoutSpec => []CheckoutTypeOK
<1>1. CheckoutInv => CheckoutTypeOK
  BY DEF CheckoutInv
<1> QED
  BY <1>1, CheckoutInvariance, PTL

\* What each quote asks next, or else asked last, is about the form and the discount as they
\* are now, however the form is edited, the coupon applied and whatever is answered or lost
\* (the two effects of checkout/page.tsx that wait and then ask).
THEOREM QuestionsFollowTheForm == CheckoutSpec => []QuotesFollowForm
<1>1. ASSUME CheckoutInv
      PROVE  QuotesFollowForm
  <2> SUFFICES ASSUME form.country # NoCountry, NEW q \in Quotes
               PROVE  LET question == IF timer[q] = NoQuote THEN asked[q] ELSE timer[q] IN
                      /\ question.country = form.country /\ question.points = form.points
                      /\ IF discount = NoCode THEN question.code = NoCode ELSE question.code \in {discount, form.code}
    BY DEF QuotesFollowForm
  <2>1. (IF timer[q] = NoQuote THEN asked[q] ELSE timer[q]) = Basis(q, form, discount)
    BY <1>1 DEF CheckoutInv, QuotesFollow, Current
  <2> QED
    BY <2>1 DEF Basis, appliedCoupon
<1> QED
  BY <1>1, CheckoutInvariance, PTL

\* What was in the cart is ordered once, however often the button is pressed, unless an
\* answer was lost while the order was being made (handleSubmit and place_order).
THEOREM CartsAreOrderedOnce == CheckoutSpec => []OrderedOnce
<1>1. CheckoutInv => OrderedOnce
  BY DEF CheckoutInv
<1> QED
  BY <1>1, CheckoutInvariance, PTL
===============================================================================
