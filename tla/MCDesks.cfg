SPECIFICATION MCSpec
CONSTANTS
  Description <- Describe
  DeskNames <- Names
  Racing <- KnownRaces
  Unset <- KnownUnset
  Unrefreshed <- KnownStale
  Lingering <- KnownLingering
  Stale <- KnownOld
  Resubmitted <- KnownTwice
  MaxPresses = 2
  MaxEvents = 1
  Requests = {request1, request2}
  MaxIssued = 3
INVARIANTS PagesTypeOK LastClickWins OwnWritesShown NoStaleMessage SubmittedOnce SignedOutStays
PROPERTIES OpensFresh ControlsComeBack RacesKeepTheSession WaitersReleased
CHECK_DEADLOCK FALSE
