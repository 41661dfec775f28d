\* The firmware against every order of datagrams, switches, ticks and resets.
CONSTANTS
  N = 1
  Id = {2}
  Request <- AnyRequest
  Interval <- ShortInterval
SPECIFICATION Spec
INVARIANTS
  TypeOK
  SwitchFollows
  WaitingMeansSilence
PROPERTIES
  ConfirmedOnce
  UndoneByTimerOnly
