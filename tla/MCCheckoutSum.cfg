SPECIFICATION SumSpec
CONSTANTS
  Countries = {GB}
  NoCountry = nowhere
  Codes = {code}
  NoCode = noCode
  Points = {0, 1}
  MaxEdits = 3
  MaxFlights = 2
  MaxPresses = 2
  MaxCarts = 2
INVARIANTS ChargedAsShown
CHECK_DEADLOCK FALSE
