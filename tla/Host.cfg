\* Two cards are swiped and a key is missed; the log's buffer holds a few lines of the length of
\* 1 to 4 bytes.
CONSTANTS
  Cards <- SomeCards
  MaxSwiped = 2
  MaxWaiting = 4
  MaxMissed = 1
  BufferSize = 8
  MaxLines = 3
  Requests <- SomeRequests
SPECIFICATION HostSpec
INVARIANTS
  ReadAsSwiped
  NoStranger
  WholeOrNothing
PROPERTIES
  LogAsWritten
CHECK_DEADLOCK FALSE
