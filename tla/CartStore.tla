------------------------------- MODULE CartStore -------------------------------
(***************************************************************************)
(* The storefront's cart (store/cart.ts): a copy, in one tab, of a cart    *)
(* that the backend keeps (plugins/cart).  The backend decides from the    *)
(* credentials of each request whose cart it is: the customer's, if the    *)
(* access token is good, and otherwise that of a guest session, which it   *)
(* makes up for a request that brings no session cookie.                   *)
(***************************************************************************)
EXTENDS Naturals, FiniteSets

CONSTANTS Variants, Stock,  \* what there is to buy, and how much of it
          Sessions,         \* guest sessions
          Calls,            \* calls of the store that may be under way together
          MaxCalls          \* how many calls are made at most

ASSUME CartAssumption ==
  /\ Stock \in [Variants -> Nat]
  /\ MaxCalls \in Nat
  /\ "customer" \notin Sessions /\ "nobody" \notin Sessions

Customer == "customer"
Nobody == "nobody"
Owners == {Customer} \cup Sessions

VARIABLES
  signedIn,   \* the browser holds an access token
  lapsed,     \* it has expired
  cookie,     \* the guest session the browser holds, or Nobody
  known,      \* the guest sessions the backend has made up
  carts, rows,\* the backend's cart of each owner, and how many rows it has for it
  gone, given,\* requests whose cart a merge has deleted, or given to the customer, since they found it
  shown,      \* the store's cart, or Unknown
  isLoading,
  call,       \* each call of the store
  busy,       \* the lines or cards of the page that wait for a call
  made,       \* how many calls were made
  earlier,    \* history: for a fetch that has read a cart, those under way that read before it
  overtaken,  \* history: fetches that have read a cart and that a later one has overtaken
  disturbed,  \* history: what is shown may be another cart, or an older one
  split       \* history: two requests without a cookie, or with no cart, ran together

backendCarts == <<known, carts, rows, gone, given>>
credentials == <<signedIn, lapsed>>
history == <<earlier, overtaken, disturbed, split>>
cartVars == <<credentials, cookie, backendCarts, shown, isLoading, call, busy, made,
              history>>

Empty == [v \in Variants |-> 0]
Unknown == << >>    \* null
NoCall == [step |-> "idle", op |-> "fetch", variant |-> Nobody, quantity |-> 0, owner |-> Nobody,
           session |-> Nobody, mints |-> FALSE, found |-> 0, sees |-> Empty, guest |-> Empty, merges |-> FALSE]

Owner == IF signedIn /\ ~lapsed THEN Customer ELSE cookie
Underway == {c \in Calls : call[c].step # "idle"}
Readers == {c \in Calls : call[c].op = "fetch" /\ call[c].step \in {"looked", "good", "bad"}}

\* A request takes the credentials there are; a 401 that the merge gets is followed by a
\* refresh, and not seen.
Sent(as, op, session) ==
  [as EXCEPT !.step = "sent", !.op = op, !.session = session,
             !.owner = IF op = "merge" THEN Customer ELSE Owner]
Together(c) == \E d \in Underway \ {c} : call[d].owner = Nobody \/ call[d].mints
----------------------------------------------------------------------------
Begin(c, op, variant, quantity) ==
  /\ call[c].step = "idle" /\ made < MaxCalls
  /\ made' = made + 1
  /\ call' = [call EXCEPT ![c] = Sent([NoCall EXCEPT !.variant = variant, !.quantity = quantity], op, cookie)]
  /\ split' = (split \/ (Owner = Nobody /\ Together(c)))
  /\ UNCHANGED <<credentials, cookie, backendCarts, shown, earlier, overtaken, disturbed>>

\* Every page asks when it is loaded, and so do the cart and checkout pages.
fetch(c) == Begin(c, "fetch", Nobody, 0) /\ isLoading' = TRUE /\ UNCHANGED busy

\* The button of the product page does not wait for its call.
addItem(c, v, quantity) ==
  Begin(c, "add", v, quantity) /\ UNCHANGED <<isLoading, busy>>

\* A product card adds one, and waits for its own call.
addProduct(c, v) == Begin(c, "add", v, 1) /\ UNCHANGED isLoading
ProductCard(c, v) == v \notin busy /\ addProduct(c, v) /\ busy' = busy \cup {v}

\* The cart page shows no lines while it loads; a line waits for its own call.
updateItem(c, v, quantity) ==
  /\ ~isLoading /\ shown # Unknown /\ v \notin busy
  /\ shown[v] > 0
  /\ \/ quantity = shown[v] - 1
     \/ quantity = shown[v] + 1 /\ shown[v] < Stock[v]
     \/ quantity = 0
  /\ Begin(c, "set", v, quantity)
  /\ busy' = busy \cup {v}
  /\ UNCHANGED isLoading

order(c) ==
  /\ shown \notin {Unknown, Empty}
  /\ Begin(c, "order", Nobody, 0)
  /\ UNCHANGED <<isLoading, busy>>

\* Another page: nothing on it waits.
Leave == busy # {} /\ busy' = {}
         /\ UNCHANGED <<credentials, cookie, backendCarts, shown, isLoading, call, made, history>>
----------------------------------------------------------------------------
\* Requests that have found no cart of the owner and will make one.
Unmade(owner) == {c \in Underway : call[c].step = "looked" /\ call[c].owner = owner /\ call[c].found = 0}

\* The backend looks for the owner's cart, and a merge for the guest's too; a second row of
\* it would be an error for ever.
Look(c) ==
  LET mints == call[c].owner = Nobody
      owner == IF mints THEN CHOOSE s \in Sessions : s \notin known ELSE call[c].owner
      s == call[c].session
      looksFor == {owner} \cup (IF call[c].op = "merge" THEN {s} \ {Nobody} ELSE {})
  IN  /\ call[c].step = "sent"
      /\ mints => Sessions \ known # {}
      /\ known' = IF mints THEN known \cup {owner} ELSE known
      /\ call' = [call EXCEPT ![c] = [@ EXCEPT !.step = IF \E o \in looksFor : rows[o] > 1 THEN "bad" ELSE "looked",
                   !.owner = owner, !.mints = mints, !.found = rows[owner], !.sees = carts[owner],
                   !.guest = IF s \in looksFor THEN carts[s] ELSE Empty]]
      /\ earlier' = IF call[c].op = "fetch" THEN [earlier EXCEPT ![c] = Readers] ELSE earlier
      /\ split' = (split \/ (mints /\ Together(c)) \/ (rows[owner] = 0 /\ Unmade(owner) # {}))
      /\ disturbed' = (disturbed /\ ~(call[c].op = "fetch" /\ Underway = {c} /\ call[c].owner = Owner))
      /\ UNCHANGED <<credentials, cookie, carts, rows, gone, given, shown, isLoading, busy, made, overtaken>>

\* What it writes is made from what it saw.  A line that is gone, or there already, and an
\* amount that exceeds the stock are errors.
Legal(op, v, quantity, sees, now) ==
  CASE op = "add" -> sees[v] + quantity <= Stock[v] /\ (sees[v] = 0) = (now[v] = 0)
    [] op = "set" -> sees[v] > 0 /\ now[v] > 0 /\ quantity <= Stock[v]
    [] op = "order" -> sees # Empty
    [] OTHER -> TRUE
Written(op, v, quantity, sees, now) ==
  CASE op = "add" -> [now EXCEPT ![v] = sees[v] + quantity]
    [] op = "set" -> [now EXCEPT ![v] = quantity]
    [] op = "order" -> Empty
    [] OTHER -> now

\* A cart that was deleted cannot be written; one that was given away is the customer's.
Serve(c) ==
  LET op == call[c].op  v == call[c].variant  q == call[c].quantity
      cart == IF c \in given THEN Customer ELSE call[c].owner
  IN
  /\ call[c].step = "looked" /\ op # "merge"
  /\ IF c \notin gone /\ Legal(op, v, q, call[c].sees, carts[cart])
     THEN /\ carts' = [carts EXCEPT ![cart] = Written(op, v, q, call[c].sees, @)]
          /\ rows' = [rows EXCEPT ![call[c].owner] = IF call[c].found = 0 THEN @ + 1 ELSE @]
          /\ call' = [call EXCEPT ![c].step = "good"]
     ELSE call' = [call EXCEPT ![c].step = "bad"] /\ UNCHANGED <<carts, rows>>
  /\ gone' = gone \ {c} /\ given' = given \ {c}
  /\ UNCHANGED <<credentials, cookie, known, shown, isLoading, busy, made, history>>

\* Requests that have found the guest's cart and will write a line of it.
Writers(s) == {c \in Underway : /\ call[c].step = "looked" /\ call[c].owner = s /\ call[c].found > 0
                               /\ call[c].op \in {"add", "set"}}

\* The guest's lines, as they were found, are added to the customer's, as those were found,
\* whatever the stock; then the guest's cart is deleted with every line that it has by now.
\* A customer without a cart gets the guest's.  The guest's cookie stays.
merge_guest_cart(c) ==
  LET s == call[c].session
      now == carts[Customer]
      lines == {v \in Variants : s # Nobody /\ call[c].guest[v] > 0}
      fits == \A v \in lines : (call[c].sees[v] = 0) = (now[v] = 0)
      merged == [v \in Variants |-> IF v \in lines THEN call[c].sees[v] + call[c].guest[v] ELSE now[v]]
  IN
  /\ call[c].step = "looked" /\ call[c].op = "merge"
  /\ \/ /\ lines = {}
        /\ rows' = [rows EXCEPT ![Customer] = IF call[c].found = 0 THEN @ + 1 ELSE @]
        /\ call' = [call EXCEPT ![c].step = "good"] /\ UNCHANGED <<carts, gone, given>>
     \/ /\ lines # {} /\ call[c].found = 0
        /\ carts' = [carts EXCEPT ![Customer] = carts[s], ![s] = Empty]
        /\ rows' = [rows EXCEPT ![Customer] = @ + 1, ![s] = 0]
        /\ given' = given \cup Writers(s)
        /\ call' = [call EXCEPT ![c].step = "good"] /\ UNCHANGED gone
     \/ /\ lines # {} /\ call[c].found > 0 /\ fits
        /\ carts' = [carts EXCEPT ![Customer] = merged, ![s] = Empty]
        /\ rows' = [rows EXCEPT ![s] = 0]
        /\ gone' = gone \cup Writers(s)
        /\ call' = [call EXCEPT ![c].step = "good"] /\ UNCHANGED given
     \/ /\ lines # {} /\ call[c].found > 0 /\ ~fits
        /\ call' = [call EXCEPT ![c].step = "bad"] /\ UNCHANGED <<carts, rows, gone, given>>
  /\ UNCHANGED <<credentials, cookie, known, shown, isLoading, busy, made, history>>
----------------------------------------------------------------------------
\* Faults: the session of a new guest is not kept; a change is not followed by a fetch.
CookieFault(c) == cookie
RefetchFault(c) == call' = [call EXCEPT ![c] = NoCall]
\* A session that was made up for a request comes with its answer, refusals excepted.
Cookie(c) == IF call[c].mints /\ call[c].step = "good" THEN call[c].owner ELSE cookie
Ended(c) == call' = [call EXCEPT ![c] = NoCall] /\ busy' = busy \ {call[c].variant}
OwnerWith(session) == IF signedIn /\ ~lapsed THEN Customer ELSE session
Refetch(c) ==
  call' = [call EXCEPT ![c] = [NoCall EXCEPT !.step = "sent", !.variant = call[c].variant,
                                             !.session = Cookie(c), !.owner = OwnerWith(Cookie(c))]]
\* Fetches that have read before this one did, which may be all of them.
Before(c) == IF c \in Readers THEN earlier[c] ELSE Readers

\* After a change, the page asks for the cart before its call returns.
Changed(c) ==
  /\ call[c].step = "good" /\ call[c].op \in {"add", "set", "merge"}
  /\ cookie' = Cookie(c)
  /\ Refetch(c) /\ isLoading' = TRUE
  /\ split' = (split \/ (OwnerWith(cookie') = Nobody /\ Together(c)))
  /\ UNCHANGED <<credentials, backendCarts, shown, busy, made, earlier, overtaken, disturbed>>

\* A refusal changes nothing on the page, which does not ask again.
Refused(c) ==
  /\ call[c].step = "bad" /\ call[c].op # "fetch"
  /\ Ended(c)
  /\ UNCHANGED <<credentials, cookie, backendCarts, shown, isLoading, made, history>>

Ordered(c) ==
  /\ call[c].step = "good" /\ call[c].op = "order"
  /\ shown' = Unknown
  /\ Ended(c)
  /\ overtaken' = Readers
  /\ UNCHANGED <<credentials, cookie, backendCarts, isLoading, made, earlier, disturbed, split>>

\* The end of a call, except that the fetch of a sign-in is followed by the merge.
Fetched(c) ==
  /\ IF call[c].merges THEN call' = [call EXCEPT ![c] = Sent(NoCall, "merge", Cookie(c))] /\ UNCHANGED busy
     ELSE Ended(c)
  /\ isLoading' = FALSE
  /\ earlier' = [d \in Calls |-> IF d = c THEN {} ELSE earlier[d] \ {c}]

Install(c) ==
  /\ call[c].step = "good" /\ call[c].op = "fetch"
  /\ cookie' = Cookie(c)
  /\ shown' = call[c].sees
  /\ Fetched(c)
  /\ overtaken' = (overtaken \cup Before(c)) \ {c}
  /\ disturbed' = (disturbed \/ c \in overtaken \/ call[c].owner # OwnerWith(cookie'))
  /\ UNCHANGED <<credentials, backendCarts, made, split>>

\* An error, or no answer; then the page shows no cart.
FetchFails(c) ==
  /\ call[c].op = "fetch" /\ call[c].step # "idle"
  /\ shown' = Unknown
  /\ Fetched(c)
  /\ overtaken' = (overtaken \cup Before(c)) \ {c}
  /\ split' = (split \/ call[c].mints)
  /\ UNCHANGED <<credentials, cookie, backendCarts, made, disturbed>>

\* No answer to a change or an order, which may have been carried out.
Lost(c) ==
  /\ call[c].op # "fetch" /\ call[c].step \in {"sent", "good"}
  /\ Ended(c)
  /\ disturbed' = (disturbed \/ call[c].step = "good")
  /\ split' = (split \/ call[c].mints)
  /\ UNCHANGED <<credentials, cookie, backendCarts, shown, isLoading, made, earlier, overtaken>>
----------------------------------------------------------------------------
\* login, verifyTwoFactor and register end with mergeCartAfterAuth.  Left out: a sign-in
\* while the merge of the one before is under way.
SignIn(c) ==
  /\ ~signedIn /\ call[c].step = "idle" /\ made < MaxCalls
  /\ \A d \in Calls : ~call[d].merges /\ call[d].op # "merge"
  /\ signedIn' = TRUE /\ lapsed' = FALSE
  /\ made' = made + 1
  /\ call' = [call EXCEPT ![c] = [NoCall EXCEPT !.step = "sent", !.owner = Customer,
                                                !.session = cookie, !.merges = TRUE]]
  /\ isLoading' = TRUE
  /\ disturbed' = TRUE
  /\ UNCHANGED <<cookie, backendCarts, shown, busy, earlier, overtaken, split>>

SignOut ==
  /\ signedIn
  /\ signedIn' = FALSE /\ lapsed' = FALSE
  /\ shown' = Unknown
  /\ UNCHANGED <<cookie, backendCarts, isLoading, call, busy, made, history>>

\* The access token expires, which the cart's endpoints do not report, until a request
\* of another kind has it refreshed.
TokenLapses ==
  /\ signedIn
  /\ lapsed' = ~lapsed
  /\ disturbed' = TRUE
  /\ UNCHANGED <<signedIn, cookie, backendCarts, shown, isLoading, call, busy, made, earlier, overtaken, split>>

CartInit ==
  /\ signedIn = FALSE /\ lapsed = FALSE /\ cookie = Nobody
  /\ known = {} /\ gone = {} /\ given = {}
  /\ carts = [o \in Owners |-> Empty] /\ rows = [o \in Owners |-> 0]
  /\ shown = Unknown /\ isLoading = FALSE
  /\ call = [c \in Calls |-> NoCall] /\ busy = {} /\ made = 0
  /\ earlier = [c \in Calls |-> {}] /\ overtaken = {} /\ disturbed = FALSE /\ split = FALSE

CartNext ==
  \/ \E c \in Calls :
       \/ fetch(c) \/ order(c) \/ SignIn(c)
       \/ \E v \in Variants :
            \/ ProductCard(c, v)
            \/ \E q \in 1 .. Stock[v] : addItem(c, v, q)
            \/ \E q \in 0 .. Stock[v] : updateItem(c, v, q)
       \/ Look(c) \/ Serve(c) \/ merge_guest_cart(c)
       \/ Changed(c) \/ Refused(c) \/ Ordered(c) \/ Install(c) \/ FetchFails(c) \/ Lost(c)
  \/ Leave \/ SignOut \/ TokenLapses
----------------------------------------------------------------------------
CartTypeOK ==
  /\ signedIn \in BOOLEAN /\ lapsed \in BOOLEAN /\ cookie \in Sessions \cup {Nobody}
  /\ known \subseteq Sessions /\ gone \subseteq Calls /\ given \subseteq Calls
  /\ carts \in [Owners -> [Variants -> Nat]] /\ rows \in [Owners -> Nat]
  /\ shown = Unknown \/ shown \in [Variants -> Nat]
  /\ isLoading \in BOOLEAN /\ busy \subseteq Variants /\ made \in 0 .. MaxCalls
  /\ \A c \in Calls : call[c].step \in {"idle", "sent", "looked", "good", "bad"}
                      /\ call[c].owner \in Owners \cup {Nobody}
  /\ earlier \in [Calls -> SUBSET Calls] /\ overtaken \subseteq Readers
  /\ disturbed \in BOOLEAN /\ split \in BOOLEAN

\* When no call is under way, the page shows the cart that the backend would answer with,
\* or none: whichever calls ran together, were refused or failed.  Not so after an answer
\* of the backend was lost or overtaken by a later one, an order's included, and after the
\* browser changed from one cart to another with no call made since.
CartShownIsCart ==
  Underway = {} /\ ~disturbed => shown \in {Unknown} \cup (IF Owner = Nobody THEN {} ELSE {carts[Owner]})

\* What a guest put into a cart stays in a cart that the browser can still reach, and in
\* one that can be read, unless two first requests ran together or the answer to one was
\* lost: each of them gets a cart of its own.
GuestCartKept ==
  \/ split
  \/ /\ \A o \in Owners : rows[o] <= 1
     /\ \A s \in Sessions : carts[s] # Empty => cookie = s \/ \E c \in Underway : call[c].mints /\ call[c].owner = s
==============================================================================
