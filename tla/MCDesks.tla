------------------------------- MODULE MCDesks -------------------------------
(***************************************************************************)
(* Every page of the two applications that is a desk, one at a time, and   *)
(* beside them, as an area of its own, the session that any page is in.    *)
(***************************************************************************)
EXTENDS Pages, AdminSales, AdminCatalogue, AdminScheduling, AdminSettings, AccountPages, TLC
Table ==
  [coupons |-> Coupons, announcements |-> Announcements, promotions |-> Promotions,
   rules |-> DiscountRules, credit |-> Credit, deletions |-> DeletionRequests,
   orders |-> OrdersPage, order |-> OrderPage, rfqs |-> Rfqs, rfq |-> Rfq,
   loyalty |-> Loyalty, newsletter |-> Newsletter, enquiries |-> Enquiries,
   reviews |-> AdminReviews, users |-> Users, categories |-> Categories,
   products |-> Products, productNew |-> ProductNew, product |-> ProductDetails,
   images |-> ProductImages, options |-> ProductOptions, variants |-> VariantRows,
   adjusted |-> AdjustedVariants, priced |-> PricedVariants, stocks |-> VariantStocks,
   media |-> Media, bulk |-> BulkVariants, stock |-> Stock, warehouses |-> Warehouses,
   overview |-> StockOverview, transfers |-> Transfers, agenda |-> Agenda,
   appointments |-> Appointments, newAppointment |-> NewAppointment,
   clientSearch |-> ClientSearch, hours |-> Hours, exceptions |-> Exceptions,
   clients |-> Clients, client |-> Client, clientAppointments |-> ClientAppointments,
   journal |-> Journal, entry |-> JournalEntry, providers |-> Providers,
   types |-> AppointmentTypes, branding |-> Branding, landing |-> LandingPage,
   shippingZones |-> ShippingZones, taxZones |-> TaxZones, bands |-> DeliveryBandsCard,
   weight |-> DefaultWeightCard, twoFactor |-> TwoFactorSection,
   password |-> PasswordForm, forgot |-> ForgotForm, reset |-> ResetForm,
   dashboard |-> Dashboard, sidebar |-> Sidebar, addresses |-> Addresses,
   profile |-> Profile, newPassword |-> AccountPasswordForm, export |-> ExportSection,
   deletion |-> AccountDeletion, factor |-> TwoFactorCard, wishlist |-> Wishlist,
   heart |-> WishlistButton, myAppointments |-> MyAppointments,
   overviewPage |-> AccountOverview, myOrders |-> MyOrders, myOrder |-> MyOrder,
   verify |-> VerifyEmail, widget |-> LoyaltyWidget, featured |-> FeaturedProducts,
   success |-> OrderSuccess, upload |-> ImageUpload,
   register |-> RegisterForm, trade |-> TradeForm, track |-> TrackOrderForm,
   contact |-> ContactForm, bespoke |-> BespokeForm, enquiry |-> EnquiryForm,
   newsletterBlock |-> NewsletterSection, newsletterForm |-> NewsletterForm,
   forgotten |-> ForgottenForm, newReset |-> NewPasswordForm,
   review |-> ProductReviews]
Describe(d) == [Table[d] EXCEPT !.name = d]
Names == DOMAIN Table

\* Where the code is not like that.  Columns that two unlocked controls of one page send:
\* a row of enquiries whose switch waits only for itself, the buttons of an order, one
\* mutation for all rows of the users, two selects of an image, zones whose editor can be
\* opened again while it saves, a default address next to its form, fields that save when they are
\* left, and the button that moves an appointment.
KnownRaces ==
  [enquiries |-> {"active"}, order |-> {"active"}, users |-> {"text", "active", "flag"},
   images |-> {"active"}, shippingZones |-> {"text"}, taxZones |-> {"text"}, addresses |-> {"active"},
   variants |-> {"text", "active"}, adjusted |-> {"text", "note"}, priced |-> {"text", "note"},
   stocks |-> {"number"}, appointments |-> {"number"}]
\* Optional fields that cannot be emptied (`x || undefined`).
KnownUnset ==
  [credit |-> {"note"}, categories |-> {"note"}, product |-> {"note"}, client |-> {"note"},
   providers |-> {"note"}, types |-> {"note"}]
\* The list of pending reviews is not asked for again by the mutations of the other list.
KnownStale == [reviews |-> {"pending"}]
\* Pages whose message no success takes away.
KnownLingering ==
  [coupons |-> {"error"}, images |-> {"error"}, variants |-> {"error"}, adjusted |-> {"error"},
   priced |-> {"error"}, stocks |-> {"error"}, addresses |-> {"error"}, deletion |-> {"error"}]
\* Editors filled when the row first appeared, or by an effect that ran before.
KnownOld == [client |-> {"demographics"}, shippingZones |-> {"edit"}, taxZones |-> {"edit"}]
\* Forms whose button does not wait for the answer.
KnownTwice == {"shippingZones", "taxZones", "deletion"}
----------------------------------------------------------------------------
VARIABLE area

\* The two parts share nothing, so that the run looks at each of them with the other at rest.
MCAtDesk(A) == area = "desk" /\ AtDesk(A) /\ UNCHANGED area
MCInSession(A) == area = "session" /\ InSession(A) /\ UNCHANGED area
everything == <<area, pagesVars>>

MCInit == area \in {"desk", "session"} /\ PagesInit
          /\ (area = "session" => desk.name = "coupons" /\ row["here"] = 0)
          /\ (area = "desk" => app = "admin")
MCNext == MCAtDesk(Next) \/ MCInSession(SessionNext)
MCSpec == /\ MCInit /\ [][MCNext]_everything
          /\ WF_everything(MCAtDesk(Progress))
          /\ \A r \in Requests : WF_everything(MCInSession(Goes(r)))
==============================================================================
