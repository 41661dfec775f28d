\* powerOn() of the first column, of the one whose relay is on the other port, and of none;
\* one read or write of a relays' expander fails, and two transfers to the display.
\* A register read by mistake holds nothing, or some pins of both ports.
\* Line 6 is the third row, next to the first one in the display's memory; the fourth row
\* ends where that memory does.
CONSTANTS
  PoweredOn = {1, 9, 10}
  MaxFaults = 1
  Misread <- SomePins
  Bytes <- SomeBytes
  MaxFailed = 2
  Texts <- SomeTexts
  TextLines = {3, 6}
SPECIFICATION DevicesSpec
INVARIANTS
  OneMotor
  WiredAsListed
  Synchronised
  OneSlip
  ShowsText
PROPERTIES
  StartsAsAsked
  CleanCallObeyed
