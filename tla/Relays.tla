------------------------------ MODULE Relays --------------------------------
(***************************************************************************)
(* The nine relays and eighteen switches behind two port expanders: what   *)
(* Narco's begin(), powerOff() and powerOn() (src/arduino/narco.cpp) do to *)
(* the expanders' registers, one bus transfer at a time (src/arduino/      *)
(* libraries/AdafruitMCP23017). A register keeps its value when the        *)
(* processor is reset; a pin drives its relay when it is an output whose   *)
(* latch is high. Transfers may fail, and nobody looks whether they did:   *)
(* a read is a transfer of the register's number and one of its value.     *)
(***************************************************************************)
EXTENDS Integers

CONSTANTS PoweredOn,            \* what powerOn() is called with
          MaxFaults,            \* reads and writes of a register that may fail
          Misread               \* what a register read instead of another may hold

\* Dixie calls it one past the last column, and with no column never.
ASSUME RelaysAssumption == /\ PoweredOn \subseteq 1 .. 10 /\ MaxFaults \in Nat
                           /\ Misread \subseteq SUBSET (0 .. 15)

Chip == {0, 1}                  \* m_mcp0 at 0x20, m_mcp1 at 0x21
Pin == 0 .. 15
Column == 1 .. 9
Register == {"iodir", "gppu", "olat"}

VARIABLES regs,                 \* the pins that are one in each register of each chip
          call, pc,             \* what runs, and its next transfer
          got,                  \* the port that was read, to be written back changed
          faults,               \* reads and writes that have failed
          clean, begun,         \* none has, in this call; in the last begin()
          atReset               \* relays whose latch was high when begin() was called

relaysVars == <<regs, call, pc, got, faults, clean, begun, atReset>>

\* A port is read and written as a whole.
Port(p) == IF p < 8 THEN 0 .. 7 ELSE 8 .. 15

Unread == {-1}

\* Mutant: the last column's relay follows the others.
MotorPinInLine(c) == c + 7

MotorPin(c) == IF c = 9 THEN 2 ELSE c + 7

\* Mutant: numbered like the relays.
HomePinAsMotor(c) == c + 7

HomePin(c) == c + 6             \* of chip 1, as isHome reads it

\* As update() reads them.
SoldOutPin(c) == IF c <= 2 THEN <<0, c - 1>> ELSE <<1, c - 3>>

MotorPins == {MotorPin(c) : c \in Column}

Driven(chip) == Pin \ regs[chip]["iodir"]

Latched == {c \in Column : MotorPin(c) \in regs[0]["olat"]}
Closed  == {c \in Latched : MotorPin(c) \in Driven(0)}
-----------------------------------------------------------------------------
(* The calls, as the transfers they are made of.                           *)

\* A pin of a register becomes one ("set") or zero ("clear"), or its whole port becomes one
\* without being read ("fill").
Change(how, chip, reg, pin) == [how |-> how, chip |-> chip, reg |-> reg, pin |-> pin]

\* powerOff() clears the pins in the order of their columns.
\* Mutant: the relay on the other port is left as it is.
PowerOffPortB(i) == Change("clear", 0, "olat", IF i = 9 THEN 15 ELSE MotorPin(i))

PowerOff(i) == Change("clear", 0, "olat", MotorPin(i))

\* Mutant: one pin too high.
PowerOnNextPin(c, i) == IF i \in Column THEN PowerOff(i) ELSE Change("set", 0, "olat", MotorPin(c) + 1)

PowerOn(c, i) == IF i \in Column THEN PowerOff(i) ELSE Change("set", 0, "olat", MotorPin(c))

\* A pin's direction is followed by its pull-up.
Direction(i) == IF i % 2 = 1 THEN "iodir" ELSE "gppu"

\* All pins become inputs, a port at a time; then each pin of both chips, with a pull-up; then
\* the motors' pins become outputs, without one, and have no power.
Begin(i) == IF i \in 1 .. 4        THEN Change("fill", (i - 1) \div 2, "iodir", IF i % 2 = 1 THEN 0 ELSE 8)
            ELSE IF i \in 5 .. 68  THEN Change("set", ((i - 5) \div 2) % 2, Direction(i), (i - 5) \div 4)
            ELSE IF i \in 69 .. 86 THEN Change("clear", 0, Direction(i), MotorPin((i - 67) \div 2))
            ELSE PowerOff(i - 86)

None  == [name |-> "none", column |-> 0]
On(c) == [name |-> "on", column |-> c]
Off   == [name |-> "off", column |-> 0]
Start == [name |-> "begin", column |-> 0]

\* Mutant: the latches are left for the first powerOn to clear.
SizeAsLeft(c) == CASE c.name = "begin" -> 86
                   [] c.name = "off"   -> 9
                   [] c.name = "on"    -> IF c.column \in Column THEN 10 ELSE 9
                   [] OTHER            -> 0

Size(c) == CASE c.name = "begin" -> 95
             [] c.name = "off"   -> 9
             [] c.name = "on"    -> IF c.column \in Column THEN 10 ELSE 9
             [] OTHER            -> 0

\* The i-th of a call's transfers.
Transfer(c, i) == IF c.name = "begin" THEN Begin(i) ELSE IF c.name = "off" THEN PowerOff(i) ELSE PowerOn(c.column, i)
-----------------------------------------------------------------------------
\* Power has just come: all pins are inputs.
Init == /\ regs = [chip \in Chip |-> [reg \in Register |-> IF reg = "iodir" THEN Pin ELSE {}]]
        /\ call = Start /\ pc = 1 /\ got = Unread
        /\ faults = 0 /\ clean = TRUE /\ begun = TRUE /\ atReset = {}

Fault == /\ faults < MaxFaults
         /\ faults' = faults + 1
         /\ clean' = FALSE

NoFault == UNCHANGED <<faults, clean>>

\* Wire.read() answers -1, all ones, when nothing was received. When the register's number
\* did not arrive, the value is that of the one the expander's pointer was left at.
Read(t) == /\ t.how # "fill" /\ got = Unread
           /\ \/ got' = regs[t.chip][t.reg] \cap Port(t.pin) /\ NoFault
              \/ got' = Port(t.pin) /\ Fault
              \/ Fault /\ \E other \in Misread : got' = other \cap Port(t.pin)
           /\ UNCHANGED <<regs, call, pc, begun, atReset>>

\* What the register holds when its port has been written.
Written(t) == (regs[t.chip][t.reg] \ Port(t.pin))
                \cup CASE t.how = "fill"  -> Port(t.pin)
                       [] t.how = "set"   -> got \cup {t.pin}
                       [] t.how = "clear" -> got \ {t.pin}

Write(t) == /\ t.how = "fill" \/ got # Unread
            /\ \/ regs' = [regs EXCEPT ![t.chip] = [@ EXCEPT ![t.reg] = Written(t)]] /\ NoFault
               \/ UNCHANGED regs /\ Fault
            /\ pc' = pc + 1 /\ got' = Unread
            /\ UNCHANGED <<call, begun, atReset>>

Step == pc <= Size(call) /\ LET t == Transfer(call, pc) IN Read(t) \/ Write(t)

Return == /\ call # None /\ pc > Size(call)
          /\ call' = None
          /\ begun' = IF call = Start THEN clean ELSE begun
          /\ UNCHANGED <<regs, pc, got, faults, clean, atReset>>

Call == /\ call = None
        /\ call' \in {Off} \cup {On(c) : c \in PoweredOn}
        /\ pc' = 1 /\ clean' = TRUE
        /\ UNCHANGED <<regs, got, faults, begun, atReset>>

\* The processor starts again, in the middle of a transfer or not.
Reset == /\ call' = Start /\ pc' = 1 /\ got' = Unread /\ clean' = TRUE
         /\ atReset' = Latched
         /\ UNCHANGED <<regs, faults, begun>>

Next == Step \/ Return \/ Call \/ Reset

Spec == Init /\ [][Next]_relaysVars

-----------------------------------------------------------------------------
\* As long as no transfer has failed, at most one motor has power at any moment, between
\* the transfers of a call too (narco.cpp:147-162), and wherever the processor was reset.
OneMotor == faults = 0 => \A c, d \in Closed : c = d

\* As long as no transfer has failed, a motor gets power from a powerOn of its own column
\* only, or for a moment in begin(), which makes its pin an output again before it
\* clears the latch that a reset has left (narco.cpp:50-57, 75).
StartsAsAsked ==
  [][faults' = 0 => \A c \in Closed' \ Closed :
                      call = On(c) \/ (call = Start /\ c \in atReset)]_relaysVars

Narco9(on) == INSTANCE Narco WITH N <- 9, full <- {}, jammed <- {}, cursor <- {}, motor <- on

\* A failed transfer may close every relay of a port, or leave a motor running. The
\* next call whose transfers all succeed makes good for it: whatever the
\* latches were, the relays are then those that Narco's PowerOff and PowerOn
\* leave, less those whose pin a failed begin() has made no output.
CleanCallObeyed ==
  [][call # None /\ call' = None /\ clean =>
       LET wanted == IF call.name = "on" THEN Narco9(Closed)!PowerOn(Closed, call.column)
                     ELSE Narco9(Closed)!PowerOff(Closed)
       IN  Closed' \subseteq wanted /\ (begun' => Closed' = wanted)]_relaysVars

\* The pins of the two expanders from 0 on, port A then port B: the
\* connection table of narco.cpp:16-27.
Table == << << <<"SOS", 1>>, <<"SOS", 2>>, <<"MTR", 9>>, <<"BTN", 1>>,
               <<"BTN", 2>>, <<"BTN", 3>>, <<"BTN", 4>>, <<"BTN", 5>>,
               <<"MTR", 1>>, <<"MTR", 2>>, <<"MTR", 3>>, <<"MTR", 4>>,
               <<"MTR", 5>>, <<"MTR", 6>>, <<"MTR", 7>>, <<"MTR", 8>> >>,
            << <<"SOS", 3>>, <<"SOS", 4>>, <<"SOS", 5>>, <<"SOS", 6>>,
               <<"SOS", 7>>, <<"SOS", 8>>, <<"SOS", 9>>, <<"MTC", 1>>,
               <<"MTC", 2>>, <<"MTC", 3>>, <<"MTC", 4>>, <<"MTC", 5>>,
               <<"MTC", 6>>, <<"MTC", 7>>, <<"MTC", 8>>, <<"MTC", 9>> >> >>

Motors == {p \in Pin : Table[1][p + 1][1] = "MTR"}

\* begin() has made every pin an input without a failure, or nothing has failed at all.
Trusted == faults = 0 \/ IF call.name = "begin" THEN clean /\ pc > 4 ELSE begun

\* A read that fails in begin() may make outputs of the switches' pins, and only another
\* begin() makes them inputs again. But after a begin() without a failure,
\* and in it from its fifth write on, nothing but a motor is driven, whatever failed before
\* and whatever fails in later calls; and every pin is then what the table
\* says: motors are outputs, switches inputs with a pull-up, read for the column
\* they belong to.
WiredAsListed ==
  /\ Trusted => Driven(0) \subseteq Motors /\ Driven(1) = {}
  /\ begun /\ call.name # "begin" =>
       \A c \in Column :
         /\ MotorPin(c) \in Driven(0) \ regs[0]["gppu"]
         /\ Table[1][MotorPin(c) + 1] = <<"MTR", c>>
         /\ Table[2][HomePin(c) + 1] = <<"MTC", c>>
         /\ Table[SoldOutPin(c)[1] + 1][SoldOutPin(c)[2] + 1] = <<"SOS", c>>
         /\ HomePin(c) \in regs[1]["iodir"] \cap regs[1]["gppu"]
         /\ LET chip == regs[SoldOutPin(c)[1]] IN SoldOutPin(c)[2] \in chip["iodir"] \cap chip["gppu"]
=============================================================================
