----------------------------- MODULE AccountPages -----------------------------
(***************************************************************************)
(* Pages of the storefront (frontend-starter) on which a person looks      *)
(* after an account or fills in a form, as desks (DeskWords).  They load   *)
(* their lists once ("kept") and patch their own copies with the answers.  *)
(***************************************************************************)
EXTENDS DeskWords, TLC

\* A page's own copy, patched after the backend has the change.
OwnCopy == [Call EXCEPT !.patches = "after", !.loaded = TRUE]

\* Addresses (active: the default one).  One form serves new and old rows; Cancel takes
\* its message away, opening it does not; the buttons in the list wait for nothing.
AddressSubmit ==
  [OwnCopy EXCEPT !.starts = {"error"}, !.closes = {"new", "edit"}, !.reports = {"error"}, !.via = "saving"]
AddressDelete == [OwnCopy EXCEPT !.does = "delete", !.reports = {"error"}]
AddressDefault ==
  [OwnCopy EXCEPT !.sends = [active |-> "on"], !.needs = {"active"}, !.reports = {"error"}]
AddressForm ==
  [new |-> [Form EXCEPT !.shuts = {"edit"}, !.cancels = {"error"}],
   edit |-> [Editor EXCEPT !.shuts = {"new"}, !.cancels = {"error"}]]
AddressButtons ==
  [create |-> Button("new", {"saving"}), update |-> Button("edit", {"saving"}),
   delete |-> Button("list", {}), setDefault |-> Button("list", {})]
Addresses ==
  Desk([addresses |-> "kept"], "addresses", FALSE, AddressForm, AddressButtons,
       [create |-> [AddressSubmit EXCEPT !.does = "create"],
        update |-> [AddressSubmit EXCEPT !.sends = [text |-> "typed", active |-> "typed"]],
        delete |-> AddressDelete, setDefault |-> AddressDefault])
----------------------------------------------------------------------------
\* Settings: the profile is a form filled from the signed-in user, whom the auth store
\* keeps and the answer replaces.
ProfileSubmit ==
  [OwnCopy EXCEPT !.sends = [text |-> "typed"], !.starts = {"error"}, !.reports = {"error"}]
ProfileForm == [profile |-> Standing("once")]
Profile ==
  Desk([user |-> "kept"], "user", FALSE, ProfileForm, [submit |-> Button("profile", {"submit"})],
       [submit |-> ProfileSubmit])

\* The other forms of the page: the password, and a download of everything.
AccountPassword == [Submitted EXCEPT !.validates = TRUE]
AccountPasswordForm == FormPage(AccountPassword)
ExportData == Submitted
ExportSection == FormPage(ExportData)

\* A request to be deleted: offered until there is one; its dialog waits for nothing and
\* is closed by the answer, whatever it is.
ConfirmDelete ==
  [OwnCopy EXCEPT !.does = "create", !.absent = TRUE, !.starts = {"error"}, !.closes = {"confirm"},
                !.reports = {"error"}, !.drops = {"confirm"}]
DeletionSection == [confirm |-> Form]
AccountDeletion ==
  Desk([request |-> "kept"], "request", FALSE, DeletionSection, [request |-> Button("confirm", {})],
       [request |-> ConfirmDelete])

\* The second factor (active): Cancel keeps the message; asking for the password to turn
\* it off takes it away.
FactorCall ==
  [OwnCopy EXCEPT !.starts = {"error"}, !.reports = {"error"}, !.via = "busy"]
StartFactor ==
  [FactorCall EXCEPT !.does = "other", !.patches = "no", !.needs = {"active"}, !.opens = {"code"}]
ConfirmFactor == [FactorCall EXCEPT !.sends = [active |-> "on"], !.closes = {"code"}]
DisableFactor ==
  [FactorCall EXCEPT !.sends = [active |-> "off"], !.wants = {"active"}, !.closes = {"password"}]
FactorForms ==
  [code |-> [Panel EXCEPT !.fills = "call"], password |-> [Form EXCEPT !.cleans = {"error"}]]
FactorButtons ==
  [start |-> Button("list", {"busy"}), confirm |-> Button("code", {"busy"}),
   disable |-> Button("password", {"busy"})]
TwoFactorCard ==
  Desk([user |-> "kept"], "user", FALSE, FactorForms, FactorButtons,
       [start |-> StartFactor, confirm |-> ConfirmFactor, disable |-> DisableFactor])
----------------------------------------------------------------------------
\* The wishlist: a row is taken out of the copy once the backend has deleted it; moving it
\* to the cart deletes it once the cart has it, and nothing shows a failure.
RemoveWish == [OwnCopy EXCEPT !.does = "delete"]
WishlistButtons == [remove |-> Button("list", {}), moveToCart |-> Button("list", {})]
Wishlist ==
  Desk([items |-> "kept"], "items", FALSE, NoPanels, WishlistButtons,
       [remove |-> RemoveWish, moveToCart |-> RemoveWish])

\* The heart on a product: an add or a remove, by what it shows; it may be pressed before
\* the ids are loaded, and their late answer then repaints it.
ToggleWish == [Call EXCEPT !.patches = "after", !.via = "toggle"]
HeartButton == [add |-> Button("list", {"toggle"}), remove |-> Button("list", {"toggle"})]
WishlistButton ==
  Desk([ids |-> "kept"], "ids", FALSE, NoPanels, HeartButton,
       [add |-> [ToggleWish EXCEPT !.does = "create", !.absent = TRUE],
        remove |-> [ToggleWish EXCEPT !.does = "delete"]])

\* My appointments: a cancellation (active) asks for a reason and loads the list again;
\* its dialog is closed by Keep it at any time.
CancelMine ==
  [Decided("appointments", [active |-> "on"])
     EXCEPT !.starts = {"cancel"}, !.closes = {"confirm"}, !.clears = {"cancel"},
            !.reports = {"cancel"}]
CancelDialog == [confirm |-> [Dialog EXCEPT !.cleans = {"cancel"}, !.cancels = {"cancel"}]]
MyAppointments ==
  Desk([appointments |-> "kept"], "appointments", FALSE, CancelDialog,
       [cancel |-> Button("confirm", {"cancel"})], [cancel |-> CancelMine])
----------------------------------------------------------------------------
\* Pages that only show what they load.
Shows(list) == Desk([l \in {list} |-> "kept"], list, FALSE, NoPanels, NoButtons, NoCalls)
AccountOverview ==
  Desk([orders |-> "kept", loyalty |-> "kept"], "orders", FALSE, NoPanels, NoButtons, NoCalls)
MyOrders == Shows("orders")
MyOrder == Shows("order")
VerifyEmail == Shows("verification")
LoyaltyWidget == Shows("account")
FeaturedProducts == Shows("products")
OrderSuccess == Shows("branding")

\* Forms: an account, a trade account, an order to look up, messages to the shop, a
\* review.  A success puts a note in the place of most of them.
RegisterForm == FormPage([Submitted EXCEPT !.leaves = TRUE])
TradeForm == FormPage([Submitted EXCEPT !.closes = {"form"}])
TrackOrderForm == FormPage(Submitted)
ContactForm == FormPage([Submitted EXCEPT !.closes = {"form"}])
BespokeForm == FormPage([Submitted EXCEPT !.closes = {"form"}])
EnquiryForm == FormPage([Submitted EXCEPT !.closes = {"form"}])
NewsletterSection == FormPage([Submitted EXCEPT !.closes = {"form"}, !.validates = TRUE])
NewsletterForm == FormPage([Submitted EXCEPT !.closes = {"form"}])
ForgottenForm == FormPage([Call EXCEPT !.does = "other", !.closes = {"form"}, !.drops = {"form"}])
NewPasswordForm == FormPage([Submitted EXCEPT !.closes = {"form"}, !.validates = TRUE])

\* A review is written in a form that opens and closes; its message stays when the form
\* is cancelled, and shows when it opens again.
ReviewSubmit ==
  [Call EXCEPT !.does = "other", !.starts = {"error"}, !.closes = {"form"}, !.reports = {"error"}]
ProductReviews ==
  Desk(NoCalls, "none", FALSE, [form |-> Form], [submit |-> Button("form", {"submit"})],
       [submit |-> ReviewSubmit])
=============================================================================
