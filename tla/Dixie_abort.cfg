\* An acknowledged abort overtaken by the timer that starts homing.
CONSTANTS
  N = 1
  Id = {2}
  Request <- MoveRequest
  Interval <- UnitInterval
SPECIFICATION Spec
PROPERTIES
  AckedAbortHonoured
