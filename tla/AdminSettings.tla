---------------------------- MODULE AdminSettings ----------------------------
(***************************************************************************)
(* Pages of the admin panel about the shop itself, as desks (DeskWords):   *)
(* branding, the contents of pages, delivery, tax, and the administrator's *)
(* own account.                                                            *)
(***************************************************************************)
EXTENDS DeskWords, TLC

\* Branding: one form over five tabs, filled again whenever new data comes; its message
\* goes away after four seconds, whatever happens.  The tabs hold texts, pictures and
\* colours (text) and checkboxes (active); every save sends all of them, emptied ones too.
Texts == [text |-> "typed"]
Checkboxes == [active |-> "typed"]
GeneralTab == Texts @@ Checkboxes
HeaderStyle == Texts @@ Checkboxes
ThemeColours == Texts
HomepageTab == Texts @@ Checkboxes
ShopTab == Texts @@ Checkboxes
AnalyticsTab == Texts
BrandingSave ==
  [Changed("branding")
     EXCEPT !.sends = GeneralTab @@ HeaderStyle @@ ThemeColours @@ HomepageTab @@ ShopTab @@ AnalyticsTab]
Upload ==
  [Call EXCEPT !.does = "other", !.fills = {"text"}, !.starts = {"upload"}, !.reports = {"upload"}]
BrandingUpload == Upload
DocumentUpload == Upload
BrandingForm == [branding |-> Standing("sync")]
BrandingSubmit == [save |-> Button("branding", {"save"})]
UploadButtons ==
  [image |-> Button("branding", {"image"}), document |-> Button("branding", {"document"})]
Branding ==
  Page("branding", FALSE, BrandingForm, BrandingSubmit @@ UploadButtons,
       [save |-> BrandingSave, image |-> BrandingUpload, document |-> DocumentUpload])

\* The contents of a section of a page: its fields are filled once.
LandingSave ==
  [Changed("sections") EXCEPT !.sends = [text |-> "typed", active |-> "typed"],
                              !.clears = {"error"}, !.reports = {"error"}]
LandingForm == [section |-> Standing("once")]
LandingButtons == [save |-> Button("section", {"save"})]
LandingPage == Page("sections", FALSE, LandingForm, LandingButtons, [save |-> LandingSave])
\* Forms have a control of their own that uploads an image, for a field of theirs.
ImageUpload == FormPage(Submitted)
----------------------------------------------------------------------------
\* Zones for delivery and for tax: a row's editor is filled when the row first appears and
\* is never filled again; saving closes it at once, and nothing waits for the answer.
Zones(key) ==
  [create |-> [Changed(key) EXCEPT !.does = "create", !.closes = {"new"}],
   update |-> [Changed(key) EXCEPT !.sends = [text |-> "typed"], !.shuts = {"edit"}],
   remove |-> Deleted(key)]
ZoneEditor == [edit |-> [Panel EXCEPT !.fills = "once"], new |-> Form]
ZoneButtons ==
  [create |-> Button("new", {}), update |-> Button("edit", {}), remove |-> Button("list", {})]

ShippingZoneRow == ZoneEditor
ShippingZonesCalls == Zones("shipping-zones")
ShippingZonesTable == ZoneButtons
ShippingZones ==
  Page("shipping-zones", FALSE, ShippingZoneRow, ShippingZonesTable, ShippingZonesCalls)

TaxZoneRow == ZoneEditor
TaxZonesCalls == Zones("tax-zones")
TaxZonesTable == ZoneButtons
TaxZones == Page("tax-zones", FALSE, TaxZoneRow, TaxZonesTable, TaxZonesCalls)

\* The delivery bands are saved together, and so is the default weight.
BandsSave ==
  [Changed("bands") EXCEPT !.sends = [text |-> "typed"], !.clears = {"error"}, !.reports = {"error"}]
BandsForm == [bands |-> Standing("sync")]
DeliveryBandsCard ==
  Page("bands", FALSE, BandsForm, [save |-> Button("bands", {"save"})], [save |-> BandsSave])

WeightSave ==
  [Changed("weight") EXCEPT !.sends = [text |-> "typed"], !.clears = {"error"}, !.reports = {"error"}]
WeightForm == [weight |-> Standing("sync")]
DefaultWeightCard ==
  Page("weight", FALSE, WeightForm, [save |-> Button("weight", {"save"})], [save |-> WeightSave])
----------------------------------------------------------------------------
\* The administrator's second factor (active): the user is kept by the auth store, which
\* takes the answer; Cancel leaves the message standing.
TwoFactorCall ==
  [Call EXCEPT !.starts = {"error"}, !.patches = "after", !.reports = {"error"}, !.via = "busy"]
StartEnable ==
  [TwoFactorCall EXCEPT !.does = "other", !.patches = "no", !.needs = {"active"}, !.opens = {"code"}]
ConfirmEnable == [TwoFactorCall EXCEPT !.sends = [active |-> "on"], !.closes = {"code"}]
ConfirmDisable ==
  [TwoFactorCall EXCEPT !.sends = [active |-> "off"], !.wants = {"active"}, !.closes = {"password"}]
TwoFactorForms ==
  [code |-> [Panel EXCEPT !.fills = "call"], password |-> [Form EXCEPT !.cleans = {"error"}]]
TwoFactorButtons ==
  [startEnable |-> Button("list", {"busy"}), confirmEnable |-> Button("code", {"busy"}),
   confirmDisable |-> Button("password", {"busy"})]
TwoFactorSection ==
  Desk([user |-> "kept"], "user", FALSE, TwoFactorForms, TwoFactorButtons,
       [startEnable |-> StartEnable, confirmEnable |-> ConfirmEnable,
        confirmDisable |-> ConfirmDisable])

\* Forms that show no list: the new password, and the two steps of a forgotten one, the
\* first of which is over after a failure too.
PasswordCall == Submitted
PasswordForm == FormPage([PasswordCall EXCEPT !.validates = TRUE])
ForgotCall == [Call EXCEPT !.does = "other", !.closes = {"form"}, !.drops = {"form"}]
ForgotForm == FormPage(ForgotCall)
ResetCall == [Submitted EXCEPT !.closes = {"form"}]
ResetForm == FormPage([ResetCall EXCEPT !.validates = TRUE])
----------------------------------------------------------------------------
\* Pages that only show lists.
Dashboard ==
  Desk([orders |-> "cached", products |-> "cached"], "orders", FALSE, NoPanels, NoButtons, NoCalls)
Sidebar == Page("menu", FALSE, NoPanels, NoButtons, NoCalls)
==============================================================================
