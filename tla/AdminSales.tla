------------------------------ MODULE AdminSales ------------------------------
(***************************************************************************)
(* Pages of the admin panel (frontend-admin/app/(dashboard)) about selling *)
(* and marketing, as desks (DeskWords).  ...Calls are a page's mutations   *)
(* and handlers, ...Form a form and what surrounds it, ...Table the rows   *)
(* and their buttons; the desk itself stands for the page's queries.       *)
(***************************************************************************)
EXTENDS DeskWords, TLC

CouponsCalls ==
  [create |-> [Created("coupons", "form") EXCEPT !.clears = {}],
   deactivate |-> [Changed("coupons") EXCEPT !.sends = [active |-> "off"]],
   toggleHomepage |-> Toggle("coupons", "flag"),
   deleteCoupon |-> [Deleted("coupons") EXCEPT !.closes = {"confirm"}]]

CouponsForm == [form |-> Form]
CouponsDialog == [confirm |-> Dialog]
CouponsTable ==
  [create |-> Button("form", {"create"}), deactivate |-> Button("list", {}),
   toggleHomepage |-> Button("list", {"toggleHomepage"}),
   deleteCoupon |-> Button("confirm", {"deleteCoupon"})]

Coupons == Page("coupons", FALSE, CouponsForm @@ CouponsDialog, CouponsTable, CouponsCalls)
----------------------------------------------------------------------------
\* Announcements, promotions and discount rules: a form whose Cancel takes the message
\* away, a switch, and a deletion (that asks with confirm(), or not at all).
CancelledForm == [Form EXCEPT !.cancels = {"error"}]

AnnouncementsCalls ==
  [create |-> Created("announcements", "form"),
   toggleActive |-> Toggle("announcements", "active"),
   remove |-> Deleted("announcements")]

AnnouncementsForm == [form |-> CancelledForm]
AnnouncementsTable ==
  [create |-> Button("form", {"create"}), toggleActive |-> Button("list", {"toggleActive"}),
   remove |-> Button("list", {"remove"})]

Announcements ==
  Page("announcements", FALSE, AnnouncementsForm, AnnouncementsTable, AnnouncementsCalls)

PromotionsCalls ==
  [create |-> Created("promotions", "form"),
   toggle |-> Toggle("promotions", "active"),
   remove |-> Deleted("promotions")]

PromotionsForm == [form |-> CancelledForm]
PromotionsTable ==
  [create |-> Button("form", {"create"}), toggle |-> Button("list", {"toggle"}),
   remove |-> Button("list", {"remove"})]

Promotions == Page("promotions", FALSE, PromotionsForm, PromotionsTable, PromotionsCalls)

DiscountRulesCalls ==
  [create |-> Created("rules", "form"),
   toggleActive |-> Toggle("rules", "active"),
   remove |-> Deleted("rules")]

DiscountRulesForm == [form |-> CancelledForm]
DiscountRulesTable ==
  [create |-> Button("form", {"create"}), toggleActive |-> Button("list", {"toggleActive"}),
   remove |-> Button("list", {"remove"})]

DiscountRules == Page("rules", FALSE, DiscountRulesForm, DiscountRulesTable, DiscountRulesCalls)
----------------------------------------------------------------------------
\* Credit accounts: the limit and the switch are always sent, empty notes are not.
CreditCalls ==
  [create |-> [Created("accounts", "form") EXCEPT !.clears = {"createError"},
                                                  !.reports = {"createError"}],
   update |-> [Edited("accounts", "edit", [text |-> "typed", note |-> "filled"])
                 EXCEPT !.clears = {"editError"}, !.reports = {"editError"}],
   deleteAccount |-> [Deleted("accounts") EXCEPT !.closes = {"confirm"}]]

CreditForm == [form |-> [Form EXCEPT !.cleans = {"createError"}, !.cancels = {"createError"}]]
CreditEditor ==
  [edit |-> [Editor EXCEPT !.cleans = {"editError"}, !.cancels = {"editError"}, !.held = TRUE]]
CreditDialog == [confirm |-> Dialog]
CreditTable ==
  [create |-> Button("form", {"create"}), update |-> Button("edit", {"update"}),
   deleteAccount |-> Button("confirm", {"deleteAccount"})]

Credit ==
  Page("accounts", FALSE, CreditForm @@ CreditEditor @@ CreditDialog, CreditTable, CreditCalls)

\* Deletion requests: approving anonymises the account, rejecting needs a note.
DeletionRequestsCalls ==
  [approve |-> Decided("requests", [active |-> "on", flag |-> "off"]),
   reject |-> [Decided("requests", [active |-> "on", flag |-> "on"]) EXCEPT !.closes = {"notes"}]]

DeletionRequestsTable ==
  [approve |-> Button("list", {"approve"}), reject |-> Button("notes", {"reject"})]

DeletionRequests ==
  Page("requests", TRUE, [notes |-> Dialog], DeletionRequestsTable, DeletionRequestsCalls)
----------------------------------------------------------------------------
\* Orders: the list, and one order, whose status may become any other status.
Exported == [Call EXCEPT !.does = "other"]
OrdersPage ==
  Page("orders", TRUE, NoPanels, [export |-> Button("list", {})], [export |-> Exported])

OrderCalls ==
  [updateStatus |-> [Changed("order") EXCEPT !.sends = [active |-> "flipped"], !.closes = {"confirm"}],
   cancel |-> [Changed("order") EXCEPT !.sends = [active |-> "on"], !.closes = {"confirm"},
                                       !.via = "updateStatus"],
   fulfil |-> [Changed("order") EXCEPT !.sends = [active |-> "off"],
                                       !.starts = {"fulfil"}, !.reports = {"fulfil"}],
   markPaid |-> [Changed("order") EXCEPT !.sends = [flag |-> "on"], !.needs = {"flag"},
                                         !.starts = {"paid"}, !.reports = {"paid"}]]

OrderButtons ==
  [updateStatus |-> Button("list", {"updateStatus"}), cancel |-> Button("confirm", {"updateStatus"}),
   fulfil |-> Button("tracking", {"fulfil"}), markPaid |-> Button("list", {"markPaid"})]

OrderPage ==
  Page("order", FALSE, [confirm |-> Dialog, tracking |-> Form], OrderButtons, OrderCalls)
----------------------------------------------------------------------------
\* Requests for quotes: active once rejected, text under review, flag quoted.
RfqsCalls ==
  [review |-> [Changed("rfqs") EXCEPT !.sends = [text |-> "on"], !.needs = {"text", "active"},
                                      !.checked = TRUE],
   reject |-> Decided("rfqs", [active |-> "on"])]

RfqsTable == [review |-> Button("list", {"review"}), reject |-> Button("list", {"reject"})]
Rfqs == Page("rfqs", TRUE, NoPanels, RfqsTable, RfqsCalls)

RfqCalls ==
  [review |-> [Changed("rfq") EXCEPT !.sends = [text |-> "on"], !.needs = {"text", "active"},
                                     !.checked = TRUE],
   reject |-> [Decided("rfqs", [active |-> "on"]) EXCEPT !.leaves = TRUE],
   quote |-> [Changed("rfq") EXCEPT !.sends = [flag |-> "on", number |-> "typed"],
                                    !.needs = {"flag", "active"}, !.checked = TRUE,
                                    !.starts = {"error"}, !.reports = {"error"}]]

RfqButtons ==
  [review |-> Button("list", {"review"}), reject |-> Button("list", {"reject"}),
   quote |-> Button("quote", {"quote"})]

Rfq == Page("rfq", FALSE, [quote |-> Standing("once")], RfqButtons, RfqCalls)
----------------------------------------------------------------------------
\* Loyalty settings: blank fields beside the values in force; flag is the programme being
\* paused, which is sent with every save, as it stands in the form.
LoyaltyCalls == [update |-> [Changed("config") EXCEPT !.sends = [flag |-> "typed", note |-> "filled"]]]
LoyaltyForm == [settings |-> Form]
Loyalty == Page("config", FALSE, LoyaltyForm, [update |-> Button("settings", {"update"})], LoyaltyCalls)

Newsletter ==
  Desk([subscribers |-> "cached", stats |-> "cached"], "subscribers", TRUE, NoPanels, NoButtons, NoCalls)

\* Enquiries: the backend turns "read" around.
EnquiryCalls == [toggleRead |-> [Changed("enquiries") EXCEPT !.sends = [active |-> "reversed"]]]
EnquiryRow == [toggleRead |-> Button("list", {})]
Enquiries == Page("enquiries", TRUE, NoPanels, EnquiryRow, EnquiryCalls)

\* Reviews: approving reloads the list but not the count of pending reviews.
ReviewsCalls ==
  [approve |-> [Changed("reviews") EXCEPT !.sends = [active |-> "on"], !.needs = {"active"}],
   delete |-> [Deleted("reviews") EXCEPT !.refetches = {"reviews", "pending"}]]

ReviewsTable == [approve |-> Button("list", {"approve"}), delete |-> Button("list", {"delete"})]

AdminReviews ==
  Desk([reviews |-> "cached", pending |-> "cached"], "reviews", TRUE, NoPanels, ReviewsTable,
       ReviewsCalls)

\* Users: one mutation for everything, and a role selector that does not wait for it.
Patch(sends) == [Changed("users") EXCEPT !.sends = sends, !.via = "patch"]
UsersCalls ==
  [approve |-> [Patch([text |-> "on"]) EXCEPT !.needs = {"text"}],
   reject |-> [Patch([text |-> "off"]) EXCEPT !.needs = {"text"}],
   setRole |-> Patch([flag |-> "flipped"]),
   setActive |-> Patch([active |-> "flipped"])]

TradeApplications == [approve |-> Button("list", {"patch"}), reject |-> Button("list", {"patch"})]
UserTable == [setRole |-> Button("list", {}), setActive |-> Button("list", {"patch"})]
Users == Page("users", TRUE, NoPanels, TradeApplications @@ UserTable, UsersCalls)
==============================================================================
