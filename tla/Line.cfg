\* Room for one buffer more than there ever are at once; the 63 bytes the receive buffer of the UART
\* holds; a frame of 32 bytes that never was covers 4 requests and, if it lacks a byte, the
\* beginning of a fifth.
CONSTANTS
  Buffer = {b1, b2, b3, b4}
  NoBuffer = NoBuffer
  Frame = {f1, f2}
  Capacity = 63
  Reach = 4
  MaxFaults = 1
  Base = 4
  Frames <- SomeFrames
  MaxDamaged = 2
SPECIFICATION LineSpec
INVARIANTS
  CountsAreHandles
  HandlerSeesReceived
  HandledAsSent
  Recovers
  AnswersInOrder
  DamageIsNoticed
CHECK_DEADLOCK FALSE
