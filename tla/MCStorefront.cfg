SPECIFICATION Spec
CONSTANTS
  builderBlock = builderBlock
  jsonBlock = jsonBlock
  plugin = plugin
  otherPlugin = otherPlugin
  variant = variant
  guest1 = guest1
  guest2 = guest2
  call1 = call1
  call2 = call2
  day1 = day1
  day2 = day2
  Blocks = {builderBlock, jsonBlock}
  Unreadable = {jsonBlock}
  Plugins = {plugin, otherPlugin}
  RequiredPlugin <- TheRequired
  MaxSections = 2
  MaxIds = 3
  Variants = {variant}
  Stock <- TheStock
  Sessions = {guest1, guest2}
  Calls = {call1, call2}
  MaxCalls = 3
  Countries = {GB}
  NoCountry = nowhere
  Codes = {code}
  NoCode = noCode
  Points = {0, 1}
  MaxEdits = 3
  MaxFlights = 2
  MaxPresses = 2
  MaxCarts = 2
  Services = {service1, service2}
  Providers = {provider1}
  Days = {day1, day2}
  MaxAsks = 2
  MaxChoices = 7
  Appts = {appt1, appt2}
  MoveDays = {day1, day2}
  MaxPanels = 2
  MaxMoves = 4
SYMMETRY Tabs
INVARIANTS StorefrontTypeOK SavedMeansSaved CartShownIsCart GuestCartKept QuotesFollowForm OrderedOnce TimelyOffersFit
CHECK_DEADLOCK FALSE
