------------------------------ MODULE Backpack ------------------------------
(***************************************************************************)
(* The firmware's side of the display's interface: LiquidCrystal's begin   *)
(* and send (src/arduino/libraries/LiquidCrystal/LiquidCrystal.cpp) over   *)
(* the MCP23008 expander (Adafruit_MCP23008.cpp), one bus transfer at a    *)
(* time, and the 4-bit interface of an HD44780 at its other end.           *)
(***************************************************************************)
EXTENDS Integers

CONSTANTS Bytes,                \* what is sent once begin() is through: <<rs, high, low>>
          MaxFailed             \* transfers that fail between two calls of begin(), none of
                                \* them before begin() has synchronised the display

RS == 1                         \* _rs_pin
Enable == 2                     \* _enable_pin
DataPins == 3 .. 6              \* _data_pins, really d4 to d7
Backlight == 7
Pins == 1 .. 7                  \* the eighth is connected to nothing

\* A nibble is the set of the data pins that are high for it.
Nibble == SUBSET DataPins
Two == {4}
Three == {3, 4}

\* Of a byte's three parts the first is what is high of the register select line. Once begin()
\* is through the mode is not set any more: addresses are above it, clear and home below.
ASSUME BackpackAssumption == /\ Bytes \subseteq (SUBSET {RS}) \X Nibble \X Nibble
                             /\ \A byte \in Bytes : byte[1] = {} => byte[2] # Three
                             /\ MaxFailed \in Nat

LOW == 0
HIGH == 1

VARIABLES inputs,               \* IODIR: the pins that are inputs
          latches,              \* OLAT: the output latches that are 1
          enable,               \* the level of the display's E line
          width,                \* the display takes 8 bits at a time, or 4
          half,                 \* the first nibble of a byte, while the display waits for the other
          last,                 \* the byte the display executed last, once begin() has synchronised it
          routine, place,       \* "begin" or "send", and which of its operations is under way
          stage,                \* how many transfers of that are done
          out,                  \* the pins it reads and then writes
          wanted,               \* the byte sent last
          slip,                 \* nibbles the display took less those sent
          strayed,              \* it has been in 8-bit mode since begin() synchronised it
          failed,               \* transfers that failed since begin() was called
          intact                \* no transfer has since the last call

display == <<enable, width, half, last, slip, strayed>>
library == <<routine, place, stage, out, wanted, failed, intact>>
backpackVars == <<inputs, latches, display, library>>
-----------------------------------------------------------------------------
(* What the library does, as read-modify-write operations on one register: *)
(* which pins one writes, and those of them that get high.                 *)

Operation(name, pins, on) == [op |-> name, pins |-> pins, on |-> on]
Output(p) == Operation("output", {p}, {})
Clear(p) == Operation("set", {p}, {})
Write4Bits(nibble) == Operation("nibble", DataPins \cup {Enable}, nibble)

Send(byte, i) == IF i = 1 THEN Operation("set", {RS}, byte[1]) ELSE Write4Bits(byte[i])

FunctionSet == <<{}, {4}, {6}>>                 \* 4 bits, 2 lines
DisplayOn == <<{}, {}, {5, 6}>>
ClearDisplay == <<{}, {}, {3}>>
EntryMode == <<{}, {}, {4, 5}>>                 \* left to right, no shift

\* Mutant: the display is taken to be in 8-bit mode, as after power-up.
SyncFromPowerUp(i) == Write4Bits(IF i = 1 THEN Three ELSE Two)

Sync(i) == Write4Bits(IF i < 4 THEN Three ELSE Two)

Configure(i) == Send(<<FunctionSet, DisplayOn, ClearDisplay, EntryMode>>[1 + (i - 1) \div 3], 1 + ((i - 1) % 3))

LCDBegin(i) == IF i = 1             THEN Operation("defaults", Pins, {})
               ELSE IF i = 2        THEN Output(Backlight)
               ELSE IF i = 3        THEN Clear(Backlight)
               ELSE IF i \in 4 .. 7 THEN Output(i - 1)
               ELSE IF i = 8        THEN Output(RS)
               ELSE IF i = 9        THEN Output(Enable)
               ELSE IF i = 10       THEN Clear(RS)
               ELSE IF i = 11       THEN Clear(Enable)
               ELSE IF i \in 12 .. 15 THEN Sync(i - 11)
               ELSE Configure(i - 15)

Length == IF routine = "begin" THEN 27 ELSE 3

Busy == place <= Length

Now == IF routine = "begin" THEN LCDBegin(place) ELSE Send(wanted, place)

BackpackInit == /\ inputs = Pins /\ latches = {}
                /\ enable \in {LOW, HIGH}
                /\ width = 8 /\ half = {} /\ last = <<>>
                /\ routine = "begin" /\ place = 1 /\ stage = 0 /\ out = {} /\ wanted = EntryMode
                /\ slip = 0 /\ strayed = FALSE /\ failed = 0 /\ intact = TRUE
-----------------------------------------------------------------------------
(* The display takes a nibble when E falls. At power-up, or told so, it    *)
(* takes each for the high one of a byte; which other commands they make   *)
(* does not matter here.                                                   *)

\* The bytes of begin() are on their way, or it is through.
Settled == routine = "send" \/ place > 15

Latch(rs, nibble) ==
  /\ \/ /\ width = 8
        /\ width' = IF rs = {} /\ nibble = Two THEN 4 ELSE 8
        /\ UNCHANGED <<half, last>>
     \/ /\ width = 4 /\ half = {}
        /\ half' = {nibble}
        /\ UNCHANGED <<width, last>>
     \/ /\ width = 4
        /\ \E high \in half :
             /\ last' = IF Settled THEN <<rs, high, nibble>> ELSE <<>>
             /\ width' = IF rs = {} /\ high = Three THEN 8 ELSE 4
        /\ half' = {}
  /\ slip' = IF Settled THEN slip + 1 ELSE 0
  /\ strayed' = (strayed \/ (Settled /\ width' = 8))

\* What of some lines of the display can be found high while a register is written: a pin that
\* is an input drives a line to nothing, one that changes is found at either level.
Found(lines) == LET floating == inputs \cup inputs'
                IN  {f \in SUBSET lines : /\ f \subseteq latches \cup latches' \cup floating
                                          /\ lines \cap ((latches \cap latches') \ floating) \subseteq f}

\* E follows its pin; while that is an input it may rise and fall.
Lines == /\ enable' \in IF Enable \in inputs' THEN {LOW, HIGH} ELSE {IF Enable \in latches' THEN HIGH ELSE LOW}
         /\ IF enable = HIGH /\ enable' = LOW
            THEN \E rs \in Found({RS}), nibble \in Found(DataPins) : Latch(rs, nibble)
            ELSE UNCHANGED <<width, half, last, slip, strayed>>

Drift == /\ Enable \in inputs
         /\ UNCHANGED <<inputs, latches>>
         /\ Lines
         /\ UNCHANGED library
-----------------------------------------------------------------------------
(* The transfers. A read that fails gives 0xFF, a write that fails changes *)
(* nothing, and nobody looks.                                              *)

Fails == Settled /\ failed < MaxFailed /\ failed' = failed + 1 /\ intact' = FALSE

Works == UNCHANGED <<failed, intact>>

\* A pin that is an input reads as anything.
Readable == IF Now.op = "output" THEN {inputs} ELSE {g \cup (latches \ inputs) : g \in SUBSET inputs}

ReadPort == /\ Busy /\ Now.op # "defaults" /\ stage = 0
            /\ \/ Works /\ out' \in Readable
               \/ Fails /\ out' = Pins
            /\ stage' = 1
            /\ slip' = IF Now.op = "nibble" /\ Settled THEN slip - 1 ELSE slip
            /\ UNCHANGED <<inputs, latches, enable, width, half, last, strayed, routine, place, wanted>>

\* The transfer that is to set the registers so does, or fails.
WritePort(in, olat) == \/ Works /\ inputs' = in /\ latches' = olat /\ Lines
                       \/ Fails /\ UNCHANGED <<inputs, latches>> /\ UNCHANGED display

Done == place' = place + 1 /\ stage' = 0 /\ out' = {} /\ UNCHANGED <<routine, wanted>>

\* MCP23008 begin: all pins inputs, all else 0, in one transfer.
Defaults == /\ Busy /\ Now.op = "defaults"
            /\ WritePort(Pins, {})
            /\ Done

Changed == (out \ Now.pins) \cup Now.on

PinMode == /\ Busy /\ Now.op = "output" /\ stage = 1
           /\ WritePort(Changed, latches)
           /\ Done

DigitalWrite == /\ Busy /\ Now.op = "set" /\ stage = 1
                /\ WritePort(inputs, Changed)
                /\ Done

\* Mutant: E is left high.
PulseUp(pins, i) == IF i = 1 THEN pins ELSE pins \cup {Enable}

\* The nibble with E low, high and low again.
Pulse(pins, i) == IF i = 2 THEN pins \cup {Enable} ELSE pins

WriteNibble == /\ Busy /\ Now.op = "nibble" /\ stage > 0
               /\ WritePort(inputs, Pulse(Changed, stage))
               /\ IF stage < 3 THEN out' = Changed /\ stage' = stage + 1 /\ UNCHANGED <<routine, place, wanted>>
                               ELSE Done

\* A command or a character, from the firmware's main program.
SendByte == /\ ~Busy
            /\ wanted' \in Bytes
            /\ routine' = "send" /\ place' = 1 /\ intact' = TRUE
            /\ UNCHANGED <<inputs, latches, stage, out, failed>> /\ UNCHANGED display

\* LCD::reset; after a reset of the processor, which can come at any time, from setup().
\* Neither the expander nor the display has been reset.
CallBegin == /\ routine' = "begin" /\ place' = 1 /\ stage' = 0 /\ out' = {} /\ wanted' = EntryMode
             /\ slip' = 0 /\ strayed' = FALSE /\ failed' = 0 /\ intact' = TRUE /\ last' = <<>>
             /\ UNCHANGED <<inputs, latches, enable, width, half>>

BackpackNext == Drift \/ ReadPort \/ Defaults \/ PinMode \/ DigitalWrite \/ WriteNibble \/ SendByte \/ CallBegin

BackpackSpec == BackpackInit /\ [][BackpackNext]_backpackVars
-----------------------------------------------------------------------------
\* Between two bytes.
AtByte == Settled /\ stage = 0 /\ (~Busy \/ Now.op = "set")

\* Wherever the processor was reset, between the nibbles of a byte or with E high, and
\* whatever E did while no pin drove it, begin() brings the display to its first nibble
\* of a byte (LiquidCrystal.cpp:180-197).
Synchronised == failed = 0 /\ AtByte => width = 4 /\ half = {}

\* From then on it executes the bytes that are sent, as commands or as characters. A
\* transfer that fails after begin() makes the display miss one nibble or take one
\* nobody sent, and no more, however many bytes follow. If the nibbles then match again,
\* and none of them, taken out of step, has led the display back to 8 bits, the next
\* byte is what was sent, its register select line too (LiquidCrystal.cpp:387-437).
OneSlip == ~Busy => /\ slip \in -failed .. failed
                    /\ intact /\ slip = 0 /\ ~strayed => last = wanted
=============================================================================
