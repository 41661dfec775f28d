\* Two columns: which motor runs, and which column is chosen.
CONSTANTS
  N = 2
  Id = {2}
  Request <- ColumnRequest
  Interval <- UnitInterval
SPECIFICATION Spec
INVARIANTS
  MotorUnderControl
  SwitchPlan
PROPERTIES
  StockHonest
  ImplementsVender
