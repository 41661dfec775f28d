\* The clock has sixteen values, and every wrap of it happens; the text is of two columns with every
\* reading of their switches, the word of bits of the machine's nine.
CONSTANTS
  Word = 16
  Interval = {1, 4}
  Delay = 2
  Dog = 4
  Boot = 4
  N = 2
  LastColumn = 9
  Readings <- SomeReadings
  Outside = {0, 9, 10}
SPECIFICATION FirmwareSpec
INVARIANTS
  WrongOnlyAtWrap
  TextErrsOneWay
PROPERTIES
  ImplementsCountdown
  ForcedWhenHeld
  LoopNeverHangs
  HeldForcesAgain
  ImplementsNarco
