\* A timer near the wrap of the clock is early.
CONSTANTS
  Word = 16
  Interval = {1, 4}
SPECIFICATION Spec
INVARIANTS
  NeverEarly
