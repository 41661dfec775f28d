\* Two customers, one after the other or at once, or one and a press of Fetch; one frame is
\* lost. One trouble at most.
CONSTANTS
  N = 1
  Id = {0, 1, 2, 3}
  Request <- MCRequest
  Interval <- UnitInterval
  Customer = {1, 2}
  Visit = {3}
  MaxLost = 1
SPECIFICATION SaleSpec
ACTION_CONSTRAINTS
  OneTrouble
  SparePage

  
PROPERTIES
  DrinkGranted
