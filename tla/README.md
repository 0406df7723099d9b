# A TLA+ model of CommerceForce

CommerceForce is a plugin-based shop platform: a FastAPI/SQLAlchemy backend
(`src/backend/app`), a storefront (`src/frontend-starter`) and an admin panel
(`src/frontend-admin`), both Next.js. All authoritative state is in one database; the
backend has no queue and one periodic job. Two kinds of things can go wrong: in the
backend, what several HTTP requests, Stripe's webhook and a failed step do to rows that
must agree with each other; in the browser, what requests that overlap, cross, fail or get
lost do to what a page displays, enables and sends. This directory models both, checks
them with TLC on small instances, and proves the central safety properties with TLAPS for
every size.

## How a request is modelled (backend)

`core/database.py` (`get_db`) gives every request one session and one transaction: commit
when the handler returns, rollback on any exception. Three facts decide the atomicity of
the model. Orders is modelled on the default SQLite deployment (`core/config.py`,
`docker-compose.yml`), Appointments on SQLite and on PostgreSQL:

1. SELECTs before the first write run outside any lock. `with_for_update()` is a no-op on
   SQLite (`scheduling/service.py` says so itself). A row loaded there can be stale when it
   is used.
2. The first flush takes SQLite's single write lock, which is held until commit
   (`PRAGMA busy_timeout` makes others wait). From there on the handler is alone, and rows it
   selects then are current, except for objects it still holds (the `order`).
3. The ORM's UPDATE carries only the columns whose value changed on the loaded object.

So a request is two steps. `Begin...` loads the row and makes the checks that precede the
first flush; `Commit...` is everything from the first flush to the commit, using the
loaded copy where the code does. Anything may commit in between. `Rollback` may take the
place of the second step: a failed check there, a lost connection, a crash.
`CrashAfterRefund` is the one case where a rolled back request has an effect outside.

Booking has a third step, because `with_for_update` stands between the load and the first
write of the appointment: `Begin...`, `CheckSlot` (lock the provider row, look for
overlaps), `Commit...`. The constant `RowLocks` chooses the database. TRUE is PostgreSQL:
the second request for a provider cannot check before the first one ended. FALSE is SQLite:
nothing is locked, except that a booking which had to insert a `Client` row (every guest's,
a customer's first) flushed it before `CheckSlot` and so holds the write lock over the check.

## How a page is modelled (browser)

A page's state is what its React state, its store or its query cache holds. A handler is
split where the code awaits: the press sends a request; the backend serves it; the answer
arrives and the rest of the handler runs. Requests are served and answers arrive in any
order, and any of them may be lost, before or after it was served. State that a handler
closed over when it was pressed is kept with the request, so that it is old when it is
used. Buttons are enabled exactly as the JSX says (`disabled`, conditional rendering).
Variables called history in a comment do not exist in the program: they remember what a
property needs.

Pages that only list, edit and send follow few patterns, so that they are described rather
than programmed: `DeskWords.tla` is the vocabulary (lists, panels, calls, buttons),
`Desks.tla` the machine that runs a description, with one row standing for the data, and
the five modules `AdminSales` to `AccountPages` describe 84 pages, sections and forms. What
a handler sends, where it takes it from, which lists it invalidates, which panels it
closes, which messages it sets and clears, and which mutation disables which button, is all in
the description, read off the page. Pages with a life of their own (cart, checkout, booking,
appointments, page builder, sessions) have modules of their own.

## Components

| Component | State | Operations | Hard part | Model |
|---|---|---|---|---|
| orders | `orders`, `order_items` | create, update_status, fulfil, mark_paid, cancel | races with the webhook, reversal of effects | Orders |
| checkout | none of its own | checkout, `handle_stripe_webhook` | effects deferred to the payment, replayed and late events, swallowed failures | Orders (pricing abstracted) |
| coupons | `coupons.used_count`, `coupon_usages` | validate, record, reverse | counter beside a table; limits validated long before use | Orders (one coupon) |
| loyalty | balances, transactions | redeem, earn, reverse, adjust | clamped reversal, points spent between check and use | Orders (adjust not) |
| credit | limit and used_credit | check_and_deduct, restore, admin edits | two checkouts on one line, clamped restore | Orders (edits not) |
| products/variants | stock per product and per variant, roll-up | deduct, restore, edit, generate, import | overselling; roll-up kept by hand | Orders (stock cells) |
| core database | the transaction | commit, rollback | see above | Orders, Appointments |
| scheduling | providers, appointments, clients, availability | book, reschedule, status, cancel, open slots | double booking, stale status changes | Appointments, OpenSlots, Scheduling |
| auth, session handling | refresh tokens, the browser's tokens | sign-in, refresh, retry, sign-out | single-use tokens, shared refresh, late answers | Sessions |
| cart | carts of customers and guests, the store's copy | fetch, add, set, remove, merge, order | whose cart a request is about; crossing loads | CartStore |
| checkout page | form, coupon, two debounced quotes | type, apply, order, pay | the sum on display against the sum charged; second submits | CheckoutPage, CheckoutSum |
| booking and appointments pages | choices, lists, panels | choose, book, move, cancel | lists that arrive for an older choice | LoadedList, BookPage, AppointmentsPage |
| page builder | sections, `landing-page.config.json` | edit, drag, save, reload | edits during a save, hand edits of the file | PageBuilder |
| admin panel, account pages, forms | query cache, panels, messages | 84 desks | overlapping mutations, stale lists, editors and messages, disabled buttons | Desks and its descriptions |
| rfq, abandoned cart, inventory | own rows | see Not modelled | accept twice, reminders resent, lock order | not modelled |
| shipping, tax, discount rules | rate tables | pure pricing | band boundaries | abstracted into the total |
| categories, reviews, wishlist, addresses, newsletter, contact, promotions, announcements, branding, landing page, journal, ai chat, media, plugin registry | own rows or none | CRUD, I/O | little interaction | their pages only |

Interactions: `checkout` calls `create_order`, `validate_coupon`, `validate_redemption`,
`check_and_deduct` and `_apply_paid_order_effects`; the webhook and `mark_paid` call the
same effects later; both cancel paths call `_apply_cancellation_effects`, which calls
products, Stripe, credit, loyalty and coupons. The checkout page asks shipping, tax and
coupons for quotes, and `checkout` prices the order anew; an order empties the cart, whose
owner the backend decides from each request's credentials, which `Sessions` keeps. The
booking page asks `compute_open_slots` and calls `create_appointment`. RFQ acceptance calls
`deduct_stock`, `create_order` and `check_and_deduct`. The reminder job reads carts in its
own session.

What makes each correct: stock, credit, points and coupon uses are held by exactly the
paid, not cancelled orders; nothing is overdrawn; a payment is recorded and never lost;
a refund only follows a capture and a cancelled charge is never silently kept; two open
appointments of a provider never overlap and a closed one is never reopened; a customer
has one client record; a tab's own requests do not end a session that the backend still
takes, unless a refresh is answered by an error, and it stays ended after a
sign-out; the cart and the page on display are those that the backend has and keeps, the
sum on display is the one charged, a cart is ordered once, and a time that is booked was
offered for what is chosen; a list shows one's own changes, the last click wins, a form
is submitted once, and what was disabled is enabled again.

## Modules

* `Orders.tla`, the core. Variables are the columns that matter (`status`, `payment`,
  the immutable `info`), Stripe's side (`intent`, `refunded`), the ledgers (`stock`,
  `usedCredit`, `balance`, `pointsTx`, `usages`, `usedCount`), the two kinds of log line a
  person must act on (`reconcile`, `manualRefund`) and `req`, what each request in flight
  has loaded. Definitions carry the names of the code's functions.
* `OrdersLedger.tla`, the conservation laws: sums over the orders.
* `Reservation.tla`, the abstract promise about stock: an order takes its basket at most
  once and returns it at most once. `OrdersReservation.tla` is the refinement mapping.
* `MCOrders.tla`, instances for TLC.
* `OrdersProofs.tla`, the proofs for any interleaving; `SequentialProofs.tla`, those for one
  request at a time.
* `Appointments.tla`: `status` and `slot` are the columns of the appointments, `clients` the
  number of `Client` rows per customer, `req` what each request has loaded and whether it
  passed the overlap check.
* `Calendar.tla`, the abstract promise: a diary of open appointments whose times are
  disjoint, in which one is booked, moved or closed at a time and nothing that was closed
  returns. The refinement mapping is at the end of `Appointments.tla`.
* `MCAppointments.tla`, `AppointmentsProofs.tla`: instances and proofs.
* `OpenSlots.tla`: `availability` and `exceptions` are the two tables of one provider, in the
  order of their rows, `live` its appointments, `duration` the type's length;
  `compute_open_slots` and what it is built from are operators on them. It meets
  Appointments at two points: `live` are the rows that `has_overlap` looks at, and
  `conflict` is its interval test. `OpenSlotsProofs.tla`.
* `Scheduling.tla` puts the two side by side; a behaviour is about one of them, because
  offering only reads and booking decides again by itself. `MCScheduling.tla`.

* `Sessions.tla`, one tab of either application and the backend's refresh tokens: `token` and
  `cookie` are what the browser keeps, `live` the tokens the backend accepts, `phase` where
  each request is in `request` of `lib/api.ts`, `shared` the admin panel's `refreshPromise`.
  The answer to a refresh is a new pair, a refusal, an error (`FailRefresh`: the code
  cannot tell it from a refusal, and drops the token) or none.
  `SessionsProofs.tla`.
* `DeskWords.tla`, `Desks.tla` and the descriptions `AdminSales`, `AdminCatalogue`,
  `AdminScheduling`, `AdminSettings`, `AccountPages`. The
  rules that the descriptions keep to are in `Desks.tla`, above the machine;
  `DesksProofs.tla`.
* `Pages.tla` puts a desk and its session together in a tab. `MCDesks.tla` runs every desk,
  and the session, each with the other at rest, and lists the pages whose code is an
  exception to a property.
* `CartStore.tla`: `store/cart.ts` against `plugins/cart`. `shown` is the store's copy,
  `carts` the backend's, `call` every call of the store under way; `earlier` and `overtaken`
  remember in which order fetches read it. A request finds its rows in one step (`Look`) and
  writes in another (`Serve`, `merge_guest_cart`) what it makes of the rows it found. So a
  line that a guest adds after the merge of a sign-in has read the guest's cart is deleted
  with that cart, a writer that found the cart before (`gone`) then fails, and one whose cart
  became the customer's (`given`) writes into that. `CartProofs.tla`.
* `CheckoutPage.tla`: `app/checkout/page.tsx` against `plugins/checkout`. `timer`, `flights`
  and `quote` are the debounce, the questions asked and the sum on display, of each of the
  two quotes. Its proofs are the second half of `CartProofs.tla`. `CheckoutSum.tla` adds
  whether an automatic discount is configured, and computes the sum on display and the sum
  charged; `MCCheckoutSum.tla`.
* `LoadedList.tla`, a list that is asked for again without cancelling the older question:
  `about` is what the answer on display was asked about, `late` (history) that something else
  had been asked for by the time it came. `BookPage.tla` and `AppointmentsPage.tla` are built on it.
* `PageBuilder.tla`: the page of the browser and the server action of `app/dev/page-builder`.
* `Storefront.tla` puts these five pages side by side, each in a tab of its own;
  `MCStorefront.tla`, `StorefrontProofs.tla`.

Abstractions of Orders: an order is a basket (quantity per stock cell), a total, whether it carries
the coupon, and the points it redeems. Prices, tax, shipping and discounts only enter as
`total`. A stock cell is a product or an option-linked variant, whichever number gates the
purchase (`effective_stock_for`). There is one coupon, active. Every customer has a loyalty
and a credit account. A reversal replays the recorded redeem/earn pair in the order it was
written, so it is the closed form in `reverse_order_points`.

Abstractions of Appointments: times are integers, on one scale. Providers, types and what
each provider offers are constants: they are checked when a booking starts and never again,
and their editing is not modelled. `Now` is fixed; it only decides which starts a customer
may ask for. Confirmation mails and cancellation reasons are left out.

Abstractions of OpenSlots: a date is an integer, a time of day a number of ticks, so that
times with seconds lose them in `_time_to_min` as in the code. `sorted(set(slots))` is a set.
The answer is computed in one step, although its three SELECTs may see different commits:
it is only a proposal, and `create_appointment` decides again. The 404 for inactive
providers and types and the limit of 31 days are left out. Durations are positive, which
the admin page enforces and the schema does not: with 0 the slot loop would not end.

Abstractions of the desks: one row, whose fields are grouped into at most five columns of two
values by how the handlers treat them; a list shows the row or not. Another person's
change, a deleted row, a refocused window and another page of the list are events.
What is in an upload, the local order of blocks, formatting and wording are left out.

Abstractions of the storefront: a sum of money is what it is computed from (country, code,
points), so that two sums are equal when they are computed from the same. The automatic
discount rules, of which the page knows nothing, have no part in what it asks, and only
`CheckoutSum` has them. Of a cart, a sign-in while the merge of the one before is under way is
left out. A time slot is known by what its list was asked about. A section has a kind, and is complete or not. Address
fields, notes and names that are typed are left out.

The definitions called
`...Fault...` are seeded bugs, one per property, used to confirm that the property notices.

## Runs

| Run | Instance | What it shows |
|---|---|---|
| `orders_sequential` | 1 request slot, 2 orders, all payment methods, 2 stock cells with 2 and 1 units, coupon with one use | With requests served one at a time, in every order, the ledgers add up, limits hold for orders paid at checkout, nobody is charged silently, the reservation promise is implemented, and a captured payment is eventually recorded. About 50 thousand states. |
| `orders_concurrent` | 2 slots, 2 orders: card, credit, bank transfer | What every interleaving preserves. There are points for one of two orders that redeem some, and stock and credit for one of two. About 2.6 million states, with symmetry over orders and slots. |
| `orders_replay` | 2 slots; 2 units of each cell and points for everything | Counterexample: two deliveries of one event, both under way before either writes, apply the effects twice. |
| `orders_revive` | 1 slot | Counterexample: a late webhook revives a cancelled order. |
| `orders_coupon` | 1 slot | Counterexample: two deferred orders redeem one coupon twice for one customer. |
| `scheduling` | PostgreSQL; 2 slots, 3 appointments of one provider, lengths 1 and 2, starts 1 and 2; admins and guests. Or: 2 dates on different weekdays, days of 6 minutes of 2 ticks, one weekly window, 2 exceptions, 2 appointments, durations 1 and 2 | No double booking, whatever the interleaving, and the calendar is implemented. The offered slots are exactly the free steps of the free runs, and each would pass the overlap check. About 950 thousand states. |
| `appointments_unlocked` | SQLite; 2 slots, 2 appointments, 2 providers, a customer too | What SQLite preserves: different starts, guests on free slots, closed stays closed. About 3.3 million states. |
| `appointments_overlap` | SQLite, 1 provider | Counterexample: two bookings with different starts overlap. |
| `appointments_client` | SQLite, 1 customer | Counterexample: two `Client` rows for one customer. |
| `desks` | each of the 84 desks alone, 2 presses, 1 event; the session of either application with 2 requests and 3 pairs of tokens | Whatever the order of requests and answers, the last click wins, lists show one's own changes, editors open fresh, messages are not stale, nothing is submitted twice and controls come back, but for the exceptions listed in `MCDesks.tla`; a tab's own requests keep its session (but for refreshes that cross or are answered by an error), a sign-out is final, and nobody waits for ever. About 550 thousand states. |
| `storefront` | page builder: 2 sections, 3 ids; cart: 2 guest sessions and a customer, 2 calls at once, 3 in all; checkout: 3 edits, 2 questions in flight, 2 presses; booking: 2 services, 2 days, 2 loads of a list at once, 7 choices; appointments: 2, with 2 details at once and 4 actions | "Saved" means saved, the cart shown is the cart, a guest's cart is not lost, the quotes ask about the form as it is, a cart is ordered once, what is chosen from a list that came in time was offered for the choice on display. About 1.8 million states, with symmetry over the calls of the cart. |
| `checkout_sum` | the checkout page of `storefront`, with or without an automatic discount | Counterexample: the discount that the backend adds is not in the sum on display. |

Bounds of Orders. Two orders are enough for competition for the last unit, for a shared coupon,
credit line and points balance; two slots are enough for every pairwise race the code
allows, since a request holds one order. `RowIds` bounds the usage rows one order can get
by repeated effects. `LedgerBound` stops admitting requests on an order while a cell or
balance exceeds it: racing cancellations can return stock without limit (see below), and
without the bound the state space is infinite. In the sequential run it is never reached.
Deadlock is not an error: order ids are finite and a shop whose orders are all cancelled
has nothing left to do.

Bounds of Appointments. A conflict needs two appointments and two requests; the third
appointment lets a closed one stand beside two that compete for its time. Starts 1 and 2
with lengths 1 and 2 give every relation of two intervals that the code tells apart: equal,
same start, same end, overlapping, adjacent, and (provider 2) unrelated. `Now = 2` leaves
one start that only admins may ask for. Nothing is capped by a guard. Deadlock is checked:
with all ids booked and closed an admin's booking can still be begun and rolled back.

Bounds of OpenSlots. Five times of day, two of them in one minute, give blocks that cover,
split, trim, touch and miss a window and one that has no minute of its own; two exceptions
give every pair of them, with extra windows and whole-day blocks. One appointment is shorter than
a slot, one longer and runs over midnight. `MaxWindows` and `MaxExceptions` only keep the tables finite; the proof
has no such limit on what it says of the answer.

Bounds of the desks. Two presses give every pair of handlers of a page in either order of
serving and of answers, with one event before, between or after. A third press adds no pair
of requests, but it can be what makes a pair possible: a field that saves when it is left, and only
if it differs from the list, needs a first change before it can be changed back. The proofs
have no bound, and their attempt is what found those places (see `KnownRaces` below). Two requests of a session are enough for one to join, cross or follow the
other's refresh; three pairs of tokens are a sign-in and two rotations.

Bounds of the storefront. Each page needs two overlapping loads, calls, questions or presses
for a race, and the room to begin again after it: 7 choices lead through the four steps of a
booking, back, and through again with another choice; 4 actions open two panels and change
the day in one of them; the third cart call comes after two that crossed, or is a sign-in
between them; the third edit follows a country and a code. A question that would be the third of its kind is
not asked. One provider and one variant suffice because nothing compares two of them. The
proofs have none of these bounds.

Deadlock is not checked in `desks` and `storefront`: a person who has used up presses,
choices or edits, or has left the page, is done.

Fairness of the orders (`FairSpec`, used for their liveness property only): every request in flight ends
(the server commits or rolls back), and Stripe redelivers an unacknowledged event until it
is answered with 200, so delivery, and acknowledgement of a delivered event, are strongly
fair. Nothing else is assumed fair.

Fairness of the pages (`MCSpec`): the browser, the network and the backend go on, weakly,
`Progress` at a desk and `Goes(r)` for each request of a session. `fetch` resolves or
rejects, and a handler's continuation runs; an answer that never comes is the
step in which it is lost. People need not press anything.

## Findings

1. The webhook's guard does not make it idempotent: `checkout/service.py:497` checks a row
   read without a lock, so that two deliveries under way together both take the order's
   stock, points and coupon (`orders_replay`).
2. The webhook moves an order out of `cancelled`, which `_ALLOWED_TRANSITIONS` calls
   terminal (`orders_revive`).
3. "One redemption per customer" is not enforced for deferred payments
   (`orders_coupon`).
4. On SQLite the overlap check does not prevent double bookings: the unique index that
   backs it only rejects equal starts (`appointments_overlap`). `models.py:158` knows that
   the check can be passed twice; it takes the index to cover it, which it does for the
   same start only. With row locks the property holds, and is proved.
5. A customer's first two bookings, sent together, create two `Client` rows, after which
   `scalar_one_or_none` fails for that customer for ever (`appointments_client`).
6. The comment at `checkout/page.tsx:220` says that the displayed total matches what is
   charged. An automatic discount rule, which the backend applies to an order without a code,
   is in what is charged only (`checkout_sum`), with every quote answered and nothing crossing.

Noticed while modelling and left without a property: two concurrent cancellations of a
paid order restore its stock and credit twice; a cancellation that loaded the order unpaid
while the webhook commits leaves it paid, cancelled and not refunded; a status update
decided on a stale row can overwrite `cancelled`; `fulfil_order` moves a delivered order
back to shipped; cancelling an order whose effects were only partly applied restores the
whole basket. These are why the conservation laws are stated for one request at a time.

In Appointments: a status change decided on a stale row can turn a cancelled appointment into
a completed or missed one, beside a newer appointment booked at that time, and this with
row locks too, since `change_status` takes none; a stale reschedule moves an appointment
that was closed meanwhile. This is why `NoDoubleBooking` speaks of open (requested or
confirmed) appointments. `create_appointment` never consults the availability windows: a
time outside them can be booked. Booking always starts in `confirmed`, so `requested` is
never reached and its transitions are dead code.

Each exception in a property of the pages is a place where the code is not like that; the
runs pass because the exceptions are named. At the desks (`MCDesks.tla`):

* `KnownRaces`: two unlocked controls send one column, and whichever is served last wins. The
  switch of the enquiries, the buttons of an order, the selects of an image, the
  default address next to its form; all rows of the users share one mutation, which is
  pending for its latest call only; the editor of a delivery or tax zone can be opened again while it saves.
  The fields of a product's variants (SKU, price, weight, stock, the active switch) save when
  they are left and wait for nothing, and an appointment can be moved again while it is
  being moved: both need three presses to go wrong, one more than the run has.
* `KnownUnset`: `x || undefined` leaves an emptied field out of the request, so that notes
  of credit accounts, categories, products, clients, providers and types cannot be emptied.
* `KnownStale`: approving a review does not refresh the list of pending ones.
* `KnownLingering`: no success takes the error message away (coupons, images, variants,
  addresses, account deletion).
* `KnownOld`: the zones' editors and the client's demographics keep older values.
* `KnownTwice`: the forms of the zones and of the account deletion do not wait.

Elsewhere, as history variables: `crossed` (Sessions: on the storefront every 401 refreshes
on its own, so that two refreshes of one cookie cross and the loser signs the user out),
and `BackendFailed` (both applications drop a session that is alive when a refresh is answered by an
error that is no refusal: 429, 500, 502),
`disturbed` and `split` (CartStore: an answer overtaken by a later one stays on display; two
first requests without a cookie make two carts, and two of one customer two rows that no
later lookup can read),
`lostEarly` (CheckoutPage: a retry after a lost answer orders the cart again), `late` and, of a choice
made from such a list, `blind` (BookPage, AppointmentsPage: a list that arrives for an older choice
is shown for the newer one, and a time chosen from it is booked), `editedSince` (PageBuilder: the
answer to a save brings "Saved" back after an edit made meanwhile), `retyped` (raw JSON may
override a `localId`).

Noticed in the pages while modelling, without a property:

* Sessions: `/api/auth/me` is never retried after a refresh, so that a page loaded after 15
  minutes starts signed out; the refresh cookie's path is `/api/auth/refresh`, so that
  sign-out sends none and revokes nothing; the storefront keeps showing the user after a
  refused refresh. `out = "clean"` excludes a sign-out during a refresh.
* Cart: with an expired access token the cart and the checkout silently use the guest's;
  a merge does not look at the stock, and deletes what a guest's request added to the
  guest's cart since it was read; the product page's button is enabled during its call.
* Checkout: a declined card leaves the backend's cart empty, so that a retry fails; a code
  that is typed and not applied is sent, and charged, but not shown; a coupon's answer is taken to be
  about the code that is typed by then; the answer to an older question replaces that to
  a newer one on display; a failed tax quote shows as 0.
* Booking: the message "slot just taken" is set together with step `slot`, but shown in the
  step `details` only; a refused booking asks for the times of what was chosen at the press,
  and leads to them even if the provider was unchosen meanwhile; a retry after a
  lost answer reports one's own booking as just taken; a first answer ends the waiting for all.
* Appointments: the details of whichever appointment arrive last fill the open panel; a move
  closes whichever panel is open.
* Page builder: errors are kept by position, and point to other sections after a removal or
  a move; a hand edit between the read and the rename is lost; a save that fails
  replaces the page by the error page, with its edits.
* Admin panel: the branding form is overwritten when new data arrive while it is edited; a
  failed move of an image is not rolled back; the account settings show success and a
  mismatch together; saving a product sends its stock again, over what was sold meanwhile.

## Proofs

`OrdersProofs.tla` proves, from `OrdersAssumption` alone (types of the constants, guests
redeem no points) and for any sets of requests, orders, customers, cells and any initial
stock:

* `TypeCorrect`, `NeverOverdrawn`, `CouponCounterExact`, `NothingWithoutPayment`,
  `RefundsWereCaptured`: the safety properties of `orders_concurrent`;
* `PaymentIsPermanent`: its action property;
* `CapturesAwaitTheirRecord`, the safety half of `CapturedPaymentRecorded`: what Stripe
  captured stays captured, and its card order stays there for the event to find.

They rest on the inductive invariant `IInv` (`Invariance`). None of the properties is
inductive alone. `LoadedRows` says what a request in flight may rely on however stale its
row is: the order exists, and if it was loaded as paid it still is, because payment is
never taken back. `AbsentOrders` says that an unused id carries no payment and no intent,
so creating an order cannot inherit one. `PaidCardsCaptured` links our row to Stripe's
side, which makes a refund of a paid card order safe. `CouponCount` adds that the usage
table is finite, without which a cardinality says nothing. The effects of a batch are
summarised by `EffectsSound` and proved once for the full effects, the interrupted
effects and the cancellation; each action then has a lemma with one step per conjunct.

`AppointmentsProofs.tla` proves, from `AppointmentsAssumption` (types of the constants,
positive durations), for any number of requests, appointments, providers and types:

* on either database, `BookingTypeCorrect`, `StartsDiffer`, `GuestsAreSerialised` and
  `ClosedIsFinal`;
* with `RowLocks`, `LockedBookingsNeverOverlap` and `LockedBookingIsACalendar`, the whole
  refinement of `Calendar`.

The inductive invariant `IInv` (`BookingInvariance`) says why a checked slot stays free.
`CheckedSlots`: the slot of a request that passed the check under a lock overlaps no open
appointment. It survives other requests' commits because of `OneHolder`: two requests past
the check under row locks are for different providers, and on SQLite nobody else may write
while a request with a new client is past the check. `LoadedRows`: the row of a reschedule
exists and keeps its provider, so the
locked provider is the one whose time is taken. `NeverRequested`: no row is `requested`, so
a stale change to `confirmed` cannot exist and every status change closes its appointment.

`OpenSlotsProofs.tla` proves, from `OpenSlotsAssumption` (types of the constants, positive
durations, times within the day), for any days, tables, appointments and lengths:

* `OffersAreExact` and `OffersAreBookable`: what `scheduling` checks of the offers;
* on the way, `SubtractRemovesTheBlock` (a block removes its minutes and no others),
  `BlockByBlock` (the loop invariant: what is left after some blocks are the free runs
  beside them), `WindowsAreFreeRuns` (so the order of the rows does not matter) and
  `LoadedAppointmentsSuffice` (restricting the query to the dates asked for loses nothing).

The loop is a recursive function. The prover cannot use the library's induction theorems,
so `LoopResult` goes another way: the free runs solve the loop's equation (`OneTurn`), and
a smallest turn at which two solutions differ is impossible, by `WFMin` on the naturals.

`SequentialProofs.tla` proves what orders guarantee when requests do not overlap, from
`OrdersAssumption` and `OneAtATime` (there is one request slot; any number of orders,
customers and cells): `CardsAreRefunded`, `CouponsAreHeld`, `CouponLimitsAreKept` and
`OrdersKeepThePromise`, the refinement of `Reservation`. The invariant `SeqInv`
(`SequentialInvariance`) adds to `IInv` that the row a request loaded is the row as it is
and that what it checked still holds: exactly what is false as soon as two requests overlap,
as the three counterexamples show. `Step` sums up the actions in six effects on the orders,
so that each property is proved for six cases rather than for every handler.

From the same assumptions and `OrdersAreFinite` the module proves that the accounts add up:
`StockIsConserved`, `CreditIsConserved` and `PointsAreNeverLost`.
A sum over the orders is a fold in an order that nobody knows. Since induction over data is
out of reach, `SumsExist` builds the partial sums size by size and `AnyLast` shows, by a
smallest counterexample (`Smallest`), that any element may be added last. From there
`SumChanges` says that a step about one order changes a sum by what that order changes. For
the points `PointsOnce` is needed: a live order's points are booked exactly once, unless a
person was told.

`SessionsProofs.tla` proves, from `SessionsAssumption` (finitely many requests), for any
number of requests and of pairs: `SessionTypeCorrect`, `SignOutIsFinal`,
`OwnRequestsKeepTheSession` and `NobodyWaitsInVain`, the safety half of `WaitersReleased`.
`OwnRequestsKeepTheSession` is about the races of one page. It does not say that a session ends
only when it is over: an answer to a refresh that is an error but no refusal ends it too.
`CarriesCookie` is the heart of `SessionInv`: a refresh that crossed nothing carries the
browser's own token, so that its refusal means that the session is over. It rests on `OneRefresh` and
`SharedIsRefreshing`. `NothingLeft` says that after a clean sign-out no refresh
under way can bring a token. `Budget` shows that `MaxIssued` never cuts a refresh short.

`PartsGoOnAlone` shows that a tab's page and session, in any interleaving, each go on as they
would alone. What is proved of either therefore holds of the tab, `PagesTypes` among it, and the run
loses nothing by looking at each with the other at rest.

`StorefrontProofs.tla` proves, from the assumptions of the pages (there is a first day;
`null` is no service and no provider), for any blocks, plugins, services, providers,
days, appointments and loads: `SavedIsWritten`, `PluginsAreCovered` and
`TimelyOffersWereForTheChoice`.
`SaveFollows` ties what was sent to what is on display, and what was written to what was
sent. `TimelyOffersFit` is about what the two pages do when a choice changes: what they take back
and what they ask for. They do nothing about an answer that comes late, so a choice
made from such a list is exempt; the theorem holds of the others, whatever else crosses.
`ListsFit` says that a list on display is about what was asked for last, or late, and
`AskedLast` that what was asked for last is about the choice, because every
change of the choice asks again. It need not be while nobody is chosen, since then no time can be.

`StorefrontTypes` states `StorefrontTypeOK`, the type invariant of the five pages together.
Its hard part is that the local ids tell the builder's sections apart (`BuilderTypes`): a new
section takes a number that none has had, and removing, swapping and dragging only rearrange.
Nothing can be proved of the library's recursive `SelectSeq`, so the filter of `removeBlock`
is defined by ranks (`Nth`: the k-th position that is kept), and `WithoutKeeps` is its lemma.
`SavingTyped` types what is on its way to the file; `PageLists` follows the list of
appointments and the phase of a move. The attempt showed that `MaxAsks` must be at least 1, since the booking page loads
its services at the start; `BookAssumption` says so.

`CartProofs.tla` and `StorefrontProofs.tla` prove, from `CartAssumption` (stocks are numbers;
no guest session is named like the customer or nobody), for any variants, sessions and calls:
`CartShownIsTheCart` and `GuestCartsAreKept`, from the invariant `CartInvariance`. `CartFollows`
says of the cart on display: the page is about to ask again, or the newest answer under way is
the cart as it is (or will be seen to be another's), or what is shown is right and nothing
read before is waiting to be shown. It is why a change asks before its call returns, and why a
sign-out needs no fetch. `GuestInv` says that of a guest's calls at most one is a first one, that
there is no cookie while it is under way, and that every other call is about the cookie's
cart, so that nothing is written where the browser cannot reach it; `FoundNone` and `OneFinder`
keep a cart from getting a second row.

The second half of `CartProofs.tla` proves, from `CheckoutAssumption` (an empty field is no value; points
are numbers, among them 0), for any countries, codes, points, edits, questions and orders:
`CheckoutTypeCorrect`, `QuestionsFollowTheForm` and `CartsAreOrderedOnce`. `QuestionsFollowTheForm`
is about what the page asks, whatever is typed, applied, answered or lost in between: no change of
the form is forgotten, and none is asked about with another one's values. Which answer is on
display when answers cross, and what the backend charges, it leaves open (`checkout_sum`). `OneByOne` says that
only the order that the page waits for can still be made, and that a cart about to be ordered was not.

`DesksProofs.tla` proves, for any number of presses and events, any lists, panels and calls
in flight, and for every desk whose description keeps to the rules stated in `Desks.tla`:
`DeskTypes`, `FormsSubmittedOnce`, `MessagesAreCurrent`, `EditorsOpenFresh`,
`LastClickHolds`, `OwnWritesAreShown` and `NothingPendsInVain`. The rules are about one description, or
two calls of it, and know nothing of interleavings: a form waits for its mutation
(`FormsWait`), two calls that send one column wait for each other, or send the same constant,
or are decisions that exclude each other (`ColumnsKeptApart`), a success or the press takes
the message away (`MessagesTaken`), a change reloads its lists (`ListsReloaded`) or patches
the page's own copy (`CopyKept`). They are
the ASSUMEs of the module, and TLC evaluates them for each of the 84 desks in the run
`desks`; the tables of exceptions are those of the run. So the theorems hold for the
pages as they are, and a page that is changed later is covered as long as its description
passes the rules.

* `DeskInv` is the type invariant with the shape of what is in flight; `ReadsCounted` says that
  every load was paid for by a press or an event, so that there is always a free number.
* `LocksInv`: the lock of every call in flight is taken, and no two calls in flight keep each
  other apart. It gives `SubmittedOnce`, and pairs of calls to the next.
* `ValuesInv`: each column that somebody asked for is as asked, or a call that carries that
  value is still unserved, or one that the backend will refuse (`Doomed`), whose failure takes the
  wish back. Two decisions of one request in flight together are the hard case: the one served
  first dooms the other.
* `MessagesInv`: each message on display is excused by a failed call whose next success, or
  departure, takes it away, and that is not in flight again if it takes nothing.
* `ShownInv`: while no call that may change a fact is in flight, a list that cannot be older
  shows what was asked for, or every answer it waits for will. It needs `ValuesInv`, because an answer
  is the row at the time it is read. It is the half of `OwnWritesAreShown` for the 72 desks that
  reload their lists.
* `CopyInv` is the other half, for the desks that patch their own copy of a list (`Patching`:
  images, variants and their fields, two-factor, addresses, profile, account deletion,
  wishlist). No reload puts a wrong patch right there, so the copy must follow what was
  asked for call by call: what is asked for is on display, or an answer that will patch it is under
  way (`ColumnsShown`, `RowShown`). A patch only reaches a row that the copy shows, hence
  `RowSeen`: whatever is about the row (an open editor, a call) started where the copy showed
  it, unless a load is still to come (then the list is one that may be older). A row that is
  deleted under a change in flight takes the change's wish with it: `NothingAskedOfGone`. The
  answer that brings a new row replaces the copy, so it must overtake no change of that row:
  `MadeAlone`, from the page's waiting for its first load, or for every other call. Of the
  twelve desks eleven keep to `CopyKept`; the twelfth (stock) only changes a column that
  the tables of exceptions name (`OnlyExceptions`). That a desk is one or the other is `CopyAssumption`.
* `PendingIsAwaited` is inductive: a button waits for a call in flight, the safety half of
  `ControlsComeBack`.

Only model-checked: liveness under fairness (`CapturedPaymentRecorded`, `ControlsComeBack`,
`WaitersReleased`), which is out of the prover's reach. Of each the safety half is proved.

## Not modelled

* `rfq`: a quote's life is one column, decided under `with_for_update`; on SQLite, where that
  is a no-op, two acceptances in flight together both find it `quoted` and make two orders,
  which is the hazard of `orders_replay` again. The order itself is one that is paid by
  credit, as in Orders, without coupon and points.
* Variants: the roll-up of their stock, generation and import. A stock cell of Orders is the
  number that gates the purchase; who keeps the other one equal is not modelled.
* The reminder job: one loop that commits once at its end; a failure repeats its mails.
* Warehouses are not connected to the orders. Opposite transfers lock rows in opposite
  orders on PostgreSQL; only bookings are modelled with row locks.
* `auth` beyond refresh tokens: login codes, lock-out, reset and deletion are outcomes of a
  page's calls. Several tabs over one local storage are not modelled.
* Admin edits of coupons, credit limits, loyalty rules, providers and types while requests
  that read them are in flight.
* Shipping, tax, discount rules: pure functions. Rows of one table each (reviews,
  addresses, wishlist, newsletter, contact, promotions, announcements, branding, landing
  page, categories, journal): one request at a time touches one row, and what a page makes
  of that is at its desk. Media, mail and the language model are I/O.
* `generated-types.ts` is generated; presentation-only components keep no state.
