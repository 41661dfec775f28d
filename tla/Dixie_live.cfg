\* The loop keeps going and time passes: what must end does.
CONSTANTS
  N = 1
  Id = {2}
  Request <- MoveRequest
  Interval <- UnitInterval
SPECIFICATION FairSpec
PROPERTIES
  EveryMotorStops
  TransientStatesEnd
