\* An error announced though no motor ran.
CONSTANTS
  N = 1
  Id = {2}
  Request <- MoveRequest
  Interval <- UnitInterval
SPECIFICATION Spec
PROPERTIES
  ErrorMeansAttempt
