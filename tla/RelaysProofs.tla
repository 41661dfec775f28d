---------------------------- MODULE RelaysProofs ----------------------------
(***************************************************************************)
(* Theorems about Relays, for any number of failed transfers: which motor  *)
(* may have power, what is driven, and what a call leaves behind. They all *)
(* follow one call through its transfers: when none of it has failed, each *)
(* bit it has written is as it was last written.                           *)
(***************************************************************************)
EXTENDS Relays, TLAPS

Calls == {None, Off, Start} \cup {On(c) : c \in PoweredOn}

-----------------------------------------------------------------------------
(* What the transfers are.                                                 *)

LEMMA MotorPinIsPin ==
  /\ \A c \in Column : MotorPin(c) \in {2} \cup 8 .. 15
  /\ \A c, d \in Column : MotorPin(c) = MotorPin(d) => c = d
BY DEF MotorPin, Column

\* What the proofs need of a transfer t, the i-th of the call c.
Sound(c, i, t) ==
  /\ t.how \in {"fill", "set", "clear"} /\ t.chip \in Chip /\ t.reg \in Register /\ t.pin \in Pin
  /\ t.how = "fill" <=> c = Start /\ i \in 1 .. 4
  /\ t.how = "fill" => t.reg = "iodir"
  /\ t.reg = "olat" => t.chip = 0 /\ t.pin \in MotorPins
  /\ t.reg # "olat" => c = Start
  /\ t.reg = "iodir" /\ t.how = "clear" => t.chip = 0 /\ t.pin \in MotorPins
  /\ t.reg = "olat" /\ t.how = "set" => i = 10 /\ \E d \in Column : c = On(d) /\ t.pin = MotorPin(d)

LEMMA BeginIsSound ==
  ASSUME NEW i \in 1 .. 95
  PROVE  Sound(Start, i, Begin(i))
<1>1. CASE i \in 1 .. 4
  <2> DEFINE pin == IF i % 2 = 1 THEN 0 ELSE 8
  <2>1. Begin(i) = Change("fill", (i - 1) \div 2, "iodir", pin)
    BY <1>1 DEF Begin
  <2>2. (i - 1) \div 2 \in Chip /\ pin \in {0, 8} /\ pin \in Pin
    BY <1>1 DEF Chip, Pin
  <2> QED
    BY <1>1, <2>1, <2>2 DEF Change, Sound, Register
<1>2. CASE i \in 5 .. 68
  <2>1. Begin(i) = Change("set", ((i - 5) \div 2) % 2, Direction(i), (i - 5) \div 4)
    BY <1>2 DEF Begin
  <2>2. ((i - 5) \div 2) % 2 \in Chip /\ (i - 5) \div 4 \in Pin
    BY <1>2 DEF Chip, Pin
  <2> QED
    BY <1>2, <2>1, <2>2 DEF Change, Sound, Register, Direction
<1>3. CASE i \in 69 .. 86
  <2>1. Begin(i) = Change("clear", 0, Direction(i), MotorPin((i - 67) \div 2))
    BY <1>3 DEF Begin
  <2>2. (i - 67) \div 2 \in Column
    BY <1>3 DEF Column
  <2>3. MotorPin((i - 67) \div 2) \in MotorPins \cap Pin
    BY <2>2, MotorPinIsPin DEF MotorPins, Pin
  <2> QED
    BY <1>3, <2>1, <2>3 DEF Change, Sound, Register, Direction, Chip
<1>4. CASE i \in 87 .. 95
  <2>1. Begin(i) = Change("clear", 0, "olat", MotorPin(i - 86))
    BY <1>4 DEF Begin, PowerOff
  <2>2. i - 86 \in Column
    BY <1>4 DEF Column
  <2>3. MotorPin(i - 86) \in MotorPins \cap Pin
    BY <2>2, MotorPinIsPin DEF MotorPins, Pin
  <2> QED
    BY <1>4, <2>1, <2>3 DEF Change, Sound, Register, Chip
<1> QED
  BY <1>1, <1>2, <1>3, <1>4

LEMMA SizeOfCall ==
  /\ Size(None) = 0 /\ Size(Start) = 95 /\ Size(Off) = 9
  /\ \A c : Size(On(c)) = IF c \in Column THEN 10 ELSE 9
  /\ \A i : Transfer(Start, i) = Begin(i) /\ Transfer(Off, i) = PowerOff(i)
  /\ \A c, i : Transfer(On(c), i) = PowerOn(c, i)
  /\ None # Start /\ None # Off /\ Start # Off
  /\ \A c : On(c) \notin {None, Start, Off}
  /\ \A c, d : On(c) = On(d) => c = d
BY DEF Size, Transfer, None, Start, Off, On

LEMMA TransferIsSound ==
  ASSUME NEW c \in Calls, NEW i \in 1 .. Size(c)
  PROVE  Sound(c, i, Transfer(c, i))
<1>1. CASE c = Start
  <2>1. i \in 1 .. 95
    BY <1>1, SizeOfCall
  <2>2. Sound(Start, i, Begin(i))
    BY <2>1, BeginIsSound
  <2>3. Transfer(c, i) = Begin(i)
    BY <1>1, SizeOfCall
  <2> QED
    BY <1>1, <2>2, <2>3
<1>2. ASSUME c # Start, i \in Column, Transfer(c, i) = PowerOff(i)
      PROVE  Sound(c, i, Transfer(c, i))
  <2>1. Transfer(c, i) = Change("clear", 0, "olat", MotorPin(i))
    BY <1>2 DEF PowerOff
  <2>2. MotorPin(i) \in MotorPins \cap Pin
    BY <1>2, MotorPinIsPin DEF MotorPins, Pin
  <2> DEFINE t == Transfer(c, i)
  <2>3. t.how = "clear" /\ t.chip = 0 /\ t.reg = "olat" /\ t.pin = MotorPin(i)
    BY <2>1 DEF Change
  <2> HIDE DEF t
  <2>4. Sound(c, i, t)
    BY <1>2, <2>2, <2>3 DEF Sound, Register, Chip
  <2> QED
    BY <2>4 DEF t
<1>3. CASE c = Off
  BY <1>2, <1>3, SizeOfCall DEF Column
<1>4. ASSUME NEW d \in PoweredOn, c = On(d)
      PROVE  Sound(c, i, Transfer(c, i))
  <2>1. CASE i \in Column
    BY <1>2, <1>4, <2>1, SizeOfCall DEF PowerOn
  <2>2. CASE i \notin Column
    <3>1. i = 10 /\ d \in Column
      <4>1. Size(c) = IF d \in Column THEN 10 ELSE 9
        BY <1>4, SizeOfCall
      <4> QED
        BY <2>2, <4>1 DEF Column
    <3>2. Transfer(c, i) = Change("set", 0, "olat", MotorPin(d))
      BY <1>4, <2>2, SizeOfCall DEF PowerOn
    <3> QED
      BY <1>4, <3>1, <3>2, MotorPinIsPin, SizeOfCall DEF Sound, Change, Register, Chip, Pin, MotorPins
  <2> QED
    BY <2>1, <2>2
<1> QED
  BY <1>1, <1>3, <1>4, SizeOfCall DEF Calls
-----------------------------------------------------------------------------
(***************************************************************************)
(* The inductive invariant.                                                *)
(***************************************************************************)
RelaysTypeOK ==
  /\ regs \in [Chip -> [Register -> SUBSET Pin]]
  /\ call \in Calls
  /\ pc \in Nat \ {0} /\ (call # None => pc <= Size(call) + 1)
  /\ got = Unread \/ got \in SUBSET Pin
  /\ faults \in Nat /\ clean \in BOOLEAN /\ begun \in BOOLEAN
  /\ atReset \subseteq Column

\* What a transfer changes, before it changes it.
Held(t) == regs[t.chip][t.reg]

\* What was read, in a call without a failure, is the port.
GotOK == got # Unread => LET t == Transfer(call, pc)
                         IN  /\ pc <= Size(call)
                             /\ t.how # "fill"
                             /\ got \subseteq Port(t.pin)
                             /\ clean => got = Held(t) \cap Port(t.pin)

FaultsShow == faults = 0 => clean

SameBit(t, u) == t.chip = u.chip /\ t.reg = u.reg /\ t.pin = u.pin

\* No transfer of the call so far has written the bit of its i-th again.
Last(i) == \A j \in i + 1 .. pc - 1 : ~SameBit(Transfer(call, i), Transfer(call, j))

\* While no transfer of the call has failed, each bit it has written is as it was last written.
Obeyed == clean => \A i \in 1 .. pc - 1 :
                     LET t == Transfer(call, i)
                     IN  i <= Size(call) /\ t.how # "fill" /\ Last(i) => (t.pin \in Held(t) <=> t.how = "set")

\* The ports that a begin() without a failure has made inputs so far.
Filled == clean /\ call = Start /\ pc <= 5 =>
            \A j \in 1 .. pc - 1 : LET t == Transfer(call, j) IN Port(t.pin) \subseteq Held(t)

\* The directions are as begin() makes them: Trusted, of the call itself.
Directed == faults = 0 \/ (call # Start /\ begun) \/ (call = Start /\ clean /\ pc > 4)

\* Nothing but a motor is driven.
MotorsOnly == Directed => Driven(0) \subseteq MotorPins /\ Driven(1) = {}

\* In begin() no latch gets high.
LatchesKept == faults = 0 /\ call = Start => Latched \subseteq atReset

OneLatch == faults = 0 => \A c, d \in Latched : c = d

Wired(c) == /\ MotorPin(c) \in Driven(0) \ regs[0]["gppu"]
            /\ HomePin(c) \in regs[1]["iodir"] \cap regs[1]["gppu"]
            /\ LET chip == regs[SoldOutPin(c)[1]] IN SoldOutPin(c)[2] \in chip["iodir"] \cap chip["gppu"]

StaysWired == begun /\ call # Start => \A c \in Column : Wired(c)

RelaysInv == /\ RelaysTypeOK /\ GotOK /\ FaultsShow /\ Obeyed
             /\ Filled /\ MotorsOnly /\ LatchesKept /\ OneLatch /\ StaysWired
-----------------------------------------------------------------------------
(* A step of the bus.                                                      *)

LEMMA PinInPort == \A p \in Pin : p \in Port(p) /\ Port(p) \subseteq Pin
BY DEF Port, Pin

LEMMA UnreadIsNoPort == Unread \notin SUBSET Pin
BY DEF Unread, Pin

\* What a write makes of the register.
LEMMA WrittenBits ==
  ASSUME RelaysTypeOK, GotOK, pc <= Size(call), NEW t, t = Transfer(call, pc), Sound(call, pc, t),
         t.how = "fill" \/ got # Unread
  PROVE  /\ Written(t) \subseteq Pin
         /\ t.how = "fill" => Held(t) \subseteq Written(t) /\ Port(t.pin) \subseteq Written(t)
         /\ t.how = "set" /\ clean => Written(t) = Held(t) \cup {t.pin}
         /\ t.how = "clear" /\ clean => Written(t) = Held(t) \ {t.pin}
<1>1. t.pin \in Port(t.pin) /\ Port(t.pin) \subseteq Pin /\ t.pin \in Pin
  BY PinInPort DEF Sound
<1>2. Held(t) \subseteq Pin
  BY DEF RelaysTypeOK, Held, Sound
<1>3. CASE t.how = "fill"
  <2>1. Written(t) = (Held(t) \ Port(t.pin)) \cup Port(t.pin)
    BY <1>3 DEF Written, Held
  <2> QED
    BY <1>1, <1>2, <1>3, <2>1
<1>4. ASSUME t.how # "fill"
      PROVE  got \subseteq Port(t.pin) /\ (clean => got = Held(t) \cap Port(t.pin))
  BY <1>4 DEF GotOK
<1>5. CASE t.how = "set"
  <2>1. Written(t) = (Held(t) \ Port(t.pin)) \cup (got \cup {t.pin})
    BY <1>5 DEF Written, Held
  <2> QED
    BY <1>1, <1>2, <1>4, <1>5, <2>1
<1>6. CASE t.how = "clear"
  <2>1. Written(t) = (Held(t) \ Port(t.pin)) \cup (got \ {t.pin})
    BY <1>6 DEF Written, Held
  <2> QED
    BY <1>1, <1>2, <1>4, <1>6, <2>1
<1> QED
  BY <1>3, <1>5, <1>6 DEF Sound

\* The registers after a write that succeeds.
Stored(t) == regs' = [regs EXCEPT ![t.chip] = [@ EXCEPT ![t.reg] = Written(t)]]

LEMMA StoredRegister ==
  ASSUME RelaysTypeOK, NEW t, t.chip \in Chip, t.reg \in Register, Written(t) \subseteq Pin, Stored(t)
  PROVE  /\ regs' \in [Chip -> [Register -> SUBSET Pin]]
         /\ \A chip \in Chip, reg \in Register :
              regs'[chip][reg] = IF chip = t.chip /\ reg = t.reg THEN Written(t) ELSE regs[chip][reg]
BY DEF RelaysTypeOK, Stored

\* One transfer of a call.
LEMMA StepCases ==
  ASSUME RelaysTypeOK, Step
  PROVE  /\ call # None /\ pc \in 1 .. Size(call) /\ Size(call) \in Nat
         /\ Sound(call, pc, Transfer(call, pc))
         /\ Read(Transfer(call, pc)) \/ Write(Transfer(call, pc))
<1>1. call # None /\ pc <= Size(call) /\ Size(call) \in Nat
  <2>1. Size(call) \in Nat
    BY SizeOfCall DEF RelaysTypeOK, Calls
  <2> QED
    BY <2>1, SizeOfCall DEF Step, RelaysTypeOK
<1>2. pc \in 1 .. Size(call)
  BY <1>1 DEF RelaysTypeOK
<1> QED
  BY <1>1, <1>2, TransferIsSound DEF Step, RelaysTypeOK

\* A bit written by an earlier transfer that is not written again stays as it was.
LEMMA ObeyedAfterWrite ==
  ASSUME RelaysTypeOK, GotOK, Obeyed, pc <= Size(call), call # None,
         NEW t, t = Transfer(call, pc), Write(t), Stored(t), clean'
  PROVE  Obeyed'
<1>1. /\ UNCHANGED call /\ pc' = pc + 1 /\ pc \in Nat \ {0} /\ Size(call) \in Nat
      /\ Sound(call, pc, t) /\ pc \in 1 .. Size(call)
  <2>1. pc \in Nat \ {0} /\ call \in Calls
    BY DEF RelaysTypeOK
  <2>2. Size(call) \in Nat
    BY <2>1, SizeOfCall DEF Calls
  <2>3. pc \in 1 .. Size(call)
    BY <2>1, <2>2
  <2> QED
    BY <2>1, <2>2, <2>3, TransferIsSound DEF Write
<1>2. clean
  BY DEF Write, NoFault, Fault
<1>3. /\ Written(t) \subseteq Pin
      /\ t.how = "fill" => Held(t) \subseteq Written(t)
      /\ t.how = "set" => Written(t) = Held(t) \cup {t.pin}
      /\ t.how = "clear" => Written(t) = Held(t) \ {t.pin}
  BY <1>1, <1>2, WrittenBits DEF Write
<1>4. \A chip \in Chip, reg \in Register :
        regs'[chip][reg] = IF chip = t.chip /\ reg = t.reg THEN Written(t) ELSE regs[chip][reg]
  BY <1>1, <1>3, StoredRegister DEF Sound
<1> SUFFICES ASSUME NEW i \in 1 .. pc, i <= Size(call), Transfer(call, i).how # "fill", Last(i)'
             PROVE  Transfer(call, i).pin \in Held(Transfer(call, i))' <=> Transfer(call, i).how = "set"
  BY <1>1 DEF Obeyed
<1> DEFINE u == Transfer(call, i)
<1>5. Sound(call, i, u)
  BY <1>1, TransferIsSound DEF RelaysTypeOK
<1>6. Held(u)' = regs'[u.chip][u.reg]
  BY <1>1 DEF Held
<1>7. CASE i = pc
  <2>1. Held(u)' = Written(t) /\ u = t
    BY <1>4, <1>6, <1>5, <1>7 DEF Sound
  <2> QED
    BY <2>1, <1>3, <1>1 DEF Sound
<1>8. CASE i # pc
  <2>1. i \in 1 .. pc - 1 /\ pc \in i + 1 .. pc' - 1
    BY <1>1, <1>8
  <2>2. Last(i) /\ ~SameBit(u, t)
    BY <2>1, <1>1 DEF Last
  <2>3. u.pin \in Held(u) <=> u.how = "set"
    BY <2>1, <2>2, <1>2 DEF Obeyed
  <2>4. t.how # "fill"
    BY <1>1, <1>5, <2>1 DEF Sound
  <2>5. u.pin \in Held(u)' <=> u.pin \in Held(u)
    <3>1. CASE u.chip = t.chip /\ u.reg = t.reg
      <4>1. Held(u)' = Written(t) /\ Held(u) = Held(t) /\ u.pin # t.pin
        BY <3>1, <1>4, <1>5, <1>6, <2>2 DEF Sound, Held, SameBit
      <4> QED
        BY <4>1, <1>1, <1>3, <2>4 DEF Sound
    <3>2. CASE ~(u.chip = t.chip /\ u.reg = t.reg)
      BY <3>2, <1>4, <1>5, <1>6 DEF Sound, Held
    <3> QED
      BY <3>1, <3>2
  <2> QED
    BY <2>3, <2>5
<1> QED
  BY <1>7, <1>8
-----------------------------------------------------------------------------
(* What a call without a failure leaves behind.                            *)

\* The transfers of a call before those of its powerOff().
Before(c) == IF c = Start THEN 86 ELSE 0

\* From its powerOff() on a call clears every latch, and sets its own column's last.
LEMMA PowerOffTransfers ==
  ASSUME NEW c \in Calls \ {None}, NEW i \in 1 .. Size(c), i > Before(c)
  PROVE  /\ i - Before(c) \in Column => Transfer(c, i) = Change("clear", 0, "olat", MotorPin(i - Before(c)))
         /\ i - Before(c) \notin Column => /\ i = 10
                                           /\ \E d \in Column : c = On(d) /\ Transfer(c, i) = Change("set", 0, "olat", MotorPin(d))
<1>1. CASE c = Start
  <2>1. i \in 87 .. 95 /\ i - 86 \in Column /\ Before(c) = 86
    BY <1>1, SizeOfCall DEF Before, Column
  <2>2. Transfer(c, i) = PowerOff(i - 86)
    BY <1>1, <2>1, SizeOfCall DEF Begin
  <2> QED
    BY <2>1, <2>2 DEF PowerOff
<1>2. CASE c = Off
  <2>1. i \in Column /\ i - Before(c) = i /\ Transfer(c, i) = PowerOff(i)
    BY <1>2, SizeOfCall DEF Before, Column
  <2> QED
    BY <2>1 DEF PowerOff
<1>3. ASSUME NEW d \in PoweredOn, c = On(d)
      PROVE  /\ i - Before(c) \in Column => Transfer(c, i) = Change("clear", 0, "olat", MotorPin(i - Before(c)))
             /\ i - Before(c) \notin Column => i = 10 /\ d \in Column /\ Transfer(c, i) = Change("set", 0, "olat", MotorPin(d))
  <2>1. Size(c) = (IF d \in Column THEN 10 ELSE 9) /\ Transfer(c, i) = PowerOn(d, i) /\ Before(c) = 0
    BY <1>3, SizeOfCall DEF Before
  <2>2. i - Before(c) = i
    BY <2>1
  <2>3. i \notin Column => i = 10 /\ d \in Column
    BY <2>1 DEF Column
  <2> QED
    BY <2>1, <2>2, <2>3 DEF PowerOn, PowerOff
<1> QED
  BY <1>1, <1>2, <1>3 DEF Calls

\* After powerOff() no latch is high, after powerOn() the one that was asked for.
LEMMA LatchedAfter ==
  ASSUME RelaysTypeOK, Obeyed, clean, call # None, pc >= Before(call) + 10, NEW c \in Column
  PROVE  c \in Latched <=> call = On(c) /\ pc = 11
<1>1. /\ call \in Calls \ {None} /\ pc \in Nat \ {0} /\ Size(call) \in Nat /\ pc <= Size(call) + 1
      /\ Before(call) \in Nat
  BY SizeOfCall DEF RelaysTypeOK, Calls, Before
<1>2. c \in Latched <=> MotorPin(c) \in regs[0]["olat"]
  BY DEF Latched
<1>3. CASE call = On(c) /\ pc = 11
  <2>1. Before(call) = 0 /\ 10 \in 1 .. Size(call)
    BY <1>3, SizeOfCall DEF Before
  <2>2. Transfer(call, 10) = Change("set", 0, "olat", MotorPin(c))
    BY <1>3, SizeOfCall DEF PowerOn, Column
  <2>3. Last(10)
    BY <1>3 DEF Last
  <2>4. MotorPin(c) \in regs[0]["olat"]
    BY <1>3, <2>1, <2>2, <2>3 DEF Obeyed, Change, Held
  <2> QED
    BY <1>2, <1>3, <2>4
<1>4. CASE ~(call = On(c) /\ pc = 11)
  <2> DEFINE i == Before(call) + c
  <2>1. i \in 1 .. pc - 1 /\ i \in 1 .. Size(call) /\ i - Before(call) = c /\ i > Before(call)
    BY <1>1 DEF Column
  <2>2. Transfer(call, i) = Change("clear", 0, "olat", MotorPin(c))
    BY <1>1, <2>1, PowerOffTransfers
  <2>3. Last(i)
    <3> SUFFICES ASSUME NEW j \in i + 1 .. pc - 1
                 PROVE  ~SameBit(Transfer(call, i), Transfer(call, j))
      BY DEF Last
    <3>1. j \in 1 .. Size(call) /\ j > Before(call) /\ j - Before(call) # c
      BY <1>1, <2>1
    <3>2. CASE j - Before(call) \in Column
      <4>1. Transfer(call, j) = Change("clear", 0, "olat", MotorPin(j - Before(call)))
        BY <1>1, <3>1, <3>2, PowerOffTransfers
      <4>2. MotorPin(j - Before(call)) # MotorPin(c)
        BY <3>1, <3>2, MotorPinIsPin
      <4> QED
        BY <2>2, <4>1, <4>2 DEF SameBit, Change
    <3>3. CASE j - Before(call) \notin Column
      <4>1. PICK d \in Column : j = 10 /\ call = On(d) /\ Transfer(call, j) = Change("set", 0, "olat", MotorPin(d))
        BY <1>1, <3>1, <3>3, PowerOffTransfers
      <4>2. pc = 11
        BY <1>1, <4>1, SizeOfCall
      <4>3. MotorPin(d) # MotorPin(c)
        BY <1>4, <4>1, <4>2, MotorPinIsPin
      <4> QED
        BY <2>2, <4>1, <4>3 DEF SameBit, Change
    <3> QED
      BY <3>2, <3>3
  <2>4. MotorPin(c) \notin regs[0]["olat"]
    BY <2>1, <2>2, <2>3 DEF Obeyed, Change, Held
  <2> QED
    BY <1>2, <1>4, <2>4
<1> QED
  BY <1>3, <1>4

\* begin() has made the motors' pins outputs without a pull-up.
LEMMA MotorsAfterBegin ==
  ASSUME Obeyed, clean, call = Start, pc = 96, NEW c \in Column
  PROVE  MotorPin(c) \notin regs[0]["iodir"] /\ MotorPin(c) \notin regs[0]["gppu"]
<1>1. ASSUME NEW i \in {67 + 2 * c, 68 + 2 * c}
      PROVE  MotorPin(c) \notin regs[0][Direction(i)]
  <2>1. i \in 69 .. 86 /\ (i - 67) \div 2 = c
    BY <1>1 DEF Column
  <2>2. Transfer(call, i) = Change("clear", 0, Direction(i), MotorPin(c))
    BY <2>1, SizeOfCall DEF Begin
  <2>3. Last(i)
    <3> SUFFICES ASSUME NEW j \in i + 1 .. 95
                 PROVE  ~SameBit(Transfer(call, i), Transfer(call, j))
      BY DEF Last
    <3>1. CASE j \in 69 .. 86
      <4>1. Transfer(call, j) = Change("clear", 0, Direction(j), MotorPin((j - 67) \div 2))
        BY <3>1, SizeOfCall DEF Begin
      <4>2. (j - 67) \div 2 \in Column /\ ((j - 67) \div 2 = c => Direction(j) # Direction(i))
        BY <2>1, <3>1, <1>1 DEF Column, Direction
      <4>3. (j - 67) \div 2 # c => MotorPin((j - 67) \div 2) # MotorPin(c)
        BY <4>2, MotorPinIsPin
      <4> QED
        BY <2>2, <4>1, <4>2, <4>3 DEF SameBit, Change
    <3>2. CASE j \in 87 .. 95
      <4>1. Transfer(call, j) = PowerOff(j - 86)
        BY <3>2, SizeOfCall DEF Begin
      <4> QED
        BY <2>2, <4>1 DEF SameBit, Change, PowerOff, Direction
    <3> QED
      BY <2>1, <3>1, <3>2
  <2>4. i \in 1 .. pc - 1 /\ i <= Size(call)
    BY <2>1, SizeOfCall
  <2>5. Transfer(call, i).how = "clear" /\ Transfer(call, i).pin = MotorPin(c)
    BY <2>2 DEF Change
  <2>6. Held(Transfer(call, i)) = regs[0][Direction(i)]
    BY <2>2 DEF Held, Change
  <2>7. "clear" # "fill" /\ "clear" # "set"
    OBVIOUS
  <2> QED
    BY <2>3, <2>4, <2>5, <2>6, <2>7 DEF Obeyed
<1>2. Direction(67 + 2 * c) = "iodir" /\ Direction(68 + 2 * c) = "gppu"
  BY DEF Direction, Column
<1> QED
  BY <1>1, <1>2

LEMMA BeginsInput ==
  ASSUME NEW i \in 5 .. 68
  PROVE  LET t == Transfer(Start, i)
         IN  t.how = "set" /\ t.chip = ((i - 5) \div 2) % 2 /\ t.reg = Direction(i) /\ t.pin = (i - 5) \div 4
<1>1. Begin(i) = Change("set", ((i - 5) \div 2) % 2, Direction(i), (i - 5) \div 4)
  BY DEF Begin
<1>2. Transfer(Start, i) = Begin(i)
  BY SizeOfCall
<1> QED
  BY <1>1, <1>2 DEF Change

\* And every other pin an input with one.
LEMMA InputsAfterBegin ==
  ASSUME Obeyed, clean, call = Start, pc = 96, NEW chip \in Chip, NEW pin \in Pin,
         chip = 0 => pin \notin MotorPins
  PROVE  pin \in regs[chip]["iodir"] \cap regs[chip]["gppu"]
<1>1. ASSUME NEW i \in {5 + 4 * pin + 2 * chip, 6 + 4 * pin + 2 * chip}
      PROVE  pin \in regs[chip][Direction(i)]
  <2>1. i \in 5 .. 68 /\ (i - 5) \div 4 = pin /\ ((i - 5) \div 2) % 2 = chip
    BY <1>1 DEF Pin, Chip
  <2> DEFINE t == Transfer(call, i)
  <2>2. t.how = "set" /\ t.chip = chip /\ t.reg = Direction(i) /\ t.pin = pin
    BY <2>1, BeginsInput
  <2>3. Last(i)
    <3> SUFFICES ASSUME NEW j \in i + 1 .. 95
                 PROVE  ~SameBit(Transfer(call, i), Transfer(call, j))
      BY DEF Last
    <3>1. CASE j \in 5 .. 68
      <4> DEFINE u == Transfer(call, j)
      <4>1. u.chip = ((j - 5) \div 2) % 2 /\ u.reg = Direction(j) /\ u.pin = (j - 5) \div 4
        BY <3>1, BeginsInput
      <4>2. (j - 5) \div 4 = pin /\ ((j - 5) \div 2) % 2 = chip => j % 2 # i % 2
        BY <2>1, <3>1
      <4>3. (j - 5) \div 4 = pin /\ ((j - 5) \div 2) % 2 = chip => Direction(j) # Direction(i)
        BY <4>2, <2>1, <3>1 DEF Direction
      <4> QED
        BY <2>2, <4>1, <4>3 DEF SameBit
    <3>2. CASE j \in 69 .. 86
      <4>1. Transfer(call, j) = Change("clear", 0, Direction(j), MotorPin((j - 67) \div 2))
        BY <3>2, SizeOfCall DEF Begin
      <4>2. (j - 67) \div 2 \in Column
        BY <3>2 DEF Column
      <4>3. MotorPin((j - 67) \div 2) \in MotorPins
        BY <4>2 DEF MotorPins
      <4> QED
        BY <2>2, <4>1, <4>3 DEF SameBit, Change
    <3>3. CASE j \in 87 .. 95
      <4>1. Transfer(call, j) = PowerOff(j - 86)
        BY <3>3, SizeOfCall DEF Begin
      <4> QED
        BY <2>2, <4>1 DEF SameBit, Change, PowerOff, Direction
    <3> QED
      BY <2>1, <3>1, <3>2, <3>3
  <2>4. i \in 1 .. pc - 1 /\ i <= Size(call)
    BY <2>1, SizeOfCall
  <2>5. t.pin \in Held(t)
    BY <2>2, <2>3, <2>4 DEF Obeyed
  <2> QED
    BY <2>2, <2>5 DEF Held
<1>2. Direction(5 + 4 * pin + 2 * chip) = "iodir" /\ Direction(6 + 4 * pin + 2 * chip) = "gppu"
  BY DEF Direction, Pin, Chip
<1> QED
  BY <1>1, <1>2

LEMMA WiredAfterBegin ==
  ASSUME Obeyed, clean, call = Start, pc = 96, NEW c \in Column
  PROVE  Wired(c)
<1>1. MotorPin(c) \in Driven(0) \ regs[0]["gppu"]
  BY MotorsAfterBegin, MotorPinIsPin DEF Driven, Pin
<1>2. HomePin(c) \in Pin
  BY DEF HomePin, Pin, Column
<1>3. SoldOutPin(c)[1] \in Chip /\ SoldOutPin(c)[2] \in Pin /\ (SoldOutPin(c)[1] = 0 => SoldOutPin(c)[2] \in {0, 1})
  BY DEF SoldOutPin, Chip, Pin, Column
<1>4. 0 \notin MotorPins /\ 1 \notin MotorPins
  BY MotorPinIsPin DEF MotorPins
<1>5. HomePin(c) \in regs[1]["iodir"] \cap regs[1]["gppu"]
  BY <1>2, InputsAfterBegin DEF Chip
<1>6. SoldOutPin(c)[2] \in regs[SoldOutPin(c)[1]]["iodir"] \cap regs[SoldOutPin(c)[1]]["gppu"]
  BY <1>3, <1>4, InputsAfterBegin
<1> QED
  BY <1>1, <1>5, <1>6 DEF Wired
\* Its first four transfers make inputs of the four ports.
LEMMA BeginsFill ==
  ASSUME NEW j \in 1 .. 4
  PROVE  LET t == Transfer(Start, j)
         IN  t.how = "fill" /\ t.chip = (j - 1) \div 2 /\ t.reg = "iodir" /\ t.pin = (IF j % 2 = 1 THEN 0 ELSE 8)
<1>1. Begin(j) = Change("fill", (j - 1) \div 2, "iodir", IF j % 2 = 1 THEN 0 ELSE 8)
  BY DEF Begin
<1>2. Transfer(Start, j) = Begin(j)
  BY SizeOfCall
<1> QED
  BY <1>1, <1>2 DEF Change

LEMMA AllInputs ==
  ASSUME NEW r, \A j \in 1 .. 4 : Port(IF j % 2 = 1 THEN 0 ELSE 8) \subseteq r[(j - 1) \div 2]["iodir"]
  PROVE  Pin \subseteq r[0]["iodir"] /\ Pin \subseteq r[1]["iodir"]
<1>1. /\ 1 % 2 = 1 /\ (1 - 1) \div 2 = 0
      /\ 2 % 2 # 1 /\ (2 - 1) \div 2 = 0
      /\ 3 % 2 = 1 /\ (3 - 1) \div 2 = 1
      /\ 4 % 2 # 1 /\ (4 - 1) \div 2 = 1
  OBVIOUS
<1>2. 1 \in 1 .. 4 /\ 2 \in 1 .. 4 /\ 3 \in 1 .. 4 /\ 4 \in 1 .. 4
  OBVIOUS
<1>3. /\ Port(0) \subseteq r[0]["iodir"] /\ Port(8) \subseteq r[0]["iodir"]
      /\ Port(0) \subseteq r[1]["iodir"] /\ Port(8) \subseteq r[1]["iodir"]
  BY <1>1, <1>2
<1>4. Pin \subseteq Port(0) \cup Port(8)
  BY DEF Pin, Port
<1> QED
  BY <1>3, <1>4
-----------------------------------------------------------------------------
(* The invariant is kept.                                                  *)

\* A transfer that may have failed.
LEMMA FaultCases ==
  ASSUME RelaysTypeOK, FaultsShow, NoFault \/ Fault
  PROVE  /\ faults' \in Nat /\ clean' \in BOOLEAN
         /\ clean' => clean /\ NoFault
         /\ faults' = 0 => faults = 0 /\ clean' /\ NoFault
<1>1. CASE NoFault
  <2>1. faults' = faults
    BY <1>1 DEF NoFault
  <2>2. clean' = clean
    BY <1>1 DEF NoFault
  <2> QED
    BY <1>1, <2>1, <2>2 DEF RelaysTypeOK, FaultsShow
<1>2. CASE Fault
  <2>1. faults' \in Nat /\ faults' # 0
    BY <1>2 DEF Fault, RelaysTypeOK
  <2>2. clean' = FALSE
    BY <1>2 DEF Fault
  <2> QED
    BY <2>1, <2>2
<1> QED
  BY <1>1, <1>2

LEMMA ReadKeeps ==
  ASSUME RelaysInv, pc \in 1 .. Size(call), NEW t, t = Transfer(call, pc), Sound(call, pc, t), Read(t)
  PROVE  RelaysInv'
<1>1. /\ UNCHANGED <<regs, call, pc, begun, atReset>>
      /\ t.how # "fill"
      /\ got' \subseteq Port(t.pin)
      /\ clean' => clean /\ got' = Held(t) \cap Port(t.pin)
      /\ faults' = 0 => faults = 0 /\ clean'
      /\ faults' \in Nat /\ clean' \in BOOLEAN
  <2>1. Held(t) \cap Port(t.pin) \subseteq Port(t.pin)
    OBVIOUS
  <2>2. /\ faults' \in Nat /\ clean' \in BOOLEAN
        /\ clean' => clean /\ NoFault
        /\ faults' = 0 => faults = 0 /\ clean' /\ NoFault
    BY FaultCases DEF Read, RelaysInv
  <2>3. /\ UNCHANGED <<regs, call, pc, begun, atReset>> /\ t.how # "fill"
        /\ got' = Held(t) \cap Port(t.pin) \/ (got' \subseteq Port(t.pin) /\ Fault)
    BY DEF Read, Held
  <2>4. ~(NoFault /\ Fault)
    BY DEF NoFault, Fault, RelaysInv, RelaysTypeOK
  <2>5. clean' => got' = Held(t) \cap Port(t.pin)
    BY <2>2, <2>3, <2>4
  <2> QED
    BY <2>1, <2>2, <2>3, <2>5
<1>2. RelaysTypeOK'
  <2>1. got' \in SUBSET Pin
    BY <1>1, PinInPort DEF Sound
  <2> QED
    BY <1>1, <2>1 DEF RelaysInv, RelaysTypeOK
<1>3. GotOK'
  BY <1>1 DEF GotOK, Held
<1>4. FaultsShow'
  BY <1>1 DEF FaultsShow
<1>5. Obeyed'
  BY <1>1 DEF RelaysInv, Obeyed, Last, Held
<1>6. StaysWired'
  BY <1>1 DEF RelaysInv, StaysWired, Wired, Driven
<1>7. LatchesKept' /\ OneLatch'
  BY <1>1 DEF RelaysInv, LatchesKept, OneLatch, Latched
<1>8. Filled'
  BY <1>1 DEF RelaysInv, Filled, Held
<1>9. MotorsOnly'
  BY <1>1 DEF RelaysInv, MotorsOnly, Directed, Driven
<1> QED
  BY <1>2, <1>3, <1>4, <1>5, <1>6, <1>7, <1>8, <1>9 DEF RelaysInv

\* What every write does to the processor's side.
LEMMA WriteMoves ==
  ASSUME RelaysTypeOK, FaultsShow, pc \in 1 .. Size(call), NEW t, Write(t)
  PROVE  /\ UNCHANGED <<call, begun, atReset>> /\ got' = Unread
         /\ pc' = pc + 1 /\ pc' \in Nat \ {0} /\ pc' <= Size(call) + 1
         /\ clean' => clean
         /\ faults' = 0 => faults = 0 /\ clean'
         /\ faults' \in Nat /\ clean' \in BOOLEAN
<1>1. Size(call) \in Nat /\ pc \in Nat
  BY SizeOfCall DEF RelaysTypeOK, Calls
<1>2. NoFault \/ Fault
  BY DEF Write
<1>3. /\ faults' \in Nat /\ clean' \in BOOLEAN
      /\ clean' => clean
      /\ faults' = 0 => faults = 0 /\ clean'
  BY <1>2, FaultCases
<1> QED
  BY <1>1, <1>3 DEF Write

\* A write that fails changes no register, and the call is no longer clean.
LEMMA LostWriteKeeps ==
  ASSUME RelaysInv, pc \in 1 .. Size(call), NEW t, Write(t), UNCHANGED regs, Fault
  PROVE  RelaysInv'
<1>1. /\ UNCHANGED <<call, begun, atReset>> /\ got' = Unread
      /\ pc' = pc + 1 /\ pc' \in Nat \ {0} /\ pc' <= Size(call) + 1
      /\ faults' \in Nat /\ clean' \in BOOLEAN
  BY WriteMoves DEF RelaysInv
<1>2. faults' # 0 /\ ~clean'
  BY <1>1 DEF Fault, RelaysInv, RelaysTypeOK
<1>3. RelaysTypeOK'
  BY <1>1 DEF RelaysInv, RelaysTypeOK
<1>4. GotOK' /\ FaultsShow' /\ Obeyed' /\ LatchesKept' /\ OneLatch'
  BY <1>1, <1>2 DEF GotOK, FaultsShow, Obeyed, LatchesKept, OneLatch
<1>5. StaysWired'
  BY <1>1 DEF RelaysInv, StaysWired, Wired, Driven
<1>6. Filled' /\ MotorsOnly'
  BY <1>1, <1>2 DEF RelaysInv, Filled, MotorsOnly, Directed, Driven
<1> QED
  BY <1>3, <1>4, <1>5, <1>6 DEF RelaysInv

\* A write that succeeds.
LEMMA WriteKeeps ==
  ASSUME RelaysInv, call # None, pc \in 1 .. Size(call), NEW t, t = Transfer(call, pc), Sound(call, pc, t),
         Write(t), Stored(t)
  PROVE  RelaysInv'
<1>1. /\ UNCHANGED <<call, begun, atReset>> /\ got' = Unread
      /\ pc' = pc + 1 /\ pc' \in Nat \ {0} /\ pc' <= Size(call) + 1
      /\ clean' => clean
      /\ faults' = 0 => faults = 0 /\ clean'
      /\ faults' \in Nat /\ clean' \in BOOLEAN
  BY WriteMoves DEF RelaysInv
<1>2. /\ Written(t) \subseteq Pin
      /\ t.how = "fill" => Held(t) \subseteq Written(t) /\ Port(t.pin) \subseteq Written(t)
      /\ t.how = "set" /\ clean => Written(t) = Held(t) \cup {t.pin}
      /\ t.how = "clear" /\ clean => Written(t) = Held(t) \ {t.pin}
  BY WrittenBits DEF Write, RelaysInv
<1>3. /\ regs' \in [Chip -> [Register -> SUBSET Pin]]
      /\ \A chip \in Chip, reg \in Register :
           regs'[chip][reg] = IF chip = t.chip /\ reg = t.reg THEN Written(t) ELSE regs[chip][reg]
  BY <1>2, StoredRegister DEF Sound, RelaysInv
<1>4. RelaysTypeOK'
  BY <1>1, <1>3 DEF RelaysInv, RelaysTypeOK
<1>5. GotOK' /\ FaultsShow'
  BY <1>1 DEF GotOK, FaultsShow
<1>6. Obeyed'
  <2>1. ~clean' => Obeyed'
    BY DEF Obeyed
  <2> QED
    BY <2>1, ObeyedAfterWrite DEF RelaysInv
<1>12. ASSUME clean, NEW chip \in Chip, NEW p \in Pin, p \in regs[chip]["iodir"], p \notin regs'[chip]["iodir"]
       PROVE  chip = 0 /\ p \in MotorPins /\ t.how # "fill"
  <2>1. chip = t.chip /\ t.reg = "iodir" /\ p \notin Written(t)
    BY <1>3, <1>12 DEF Register
  <2>2. p \in Held(t)
    BY <1>12, <2>1 DEF Held
  <2>3. t.how = "clear" /\ p = t.pin
    BY <1>2, <1>12, <2>1, <2>2 DEF Sound
  <2> QED
    BY <2>1, <2>3 DEF Sound
<1>13. Filled'
  <2> SUFFICES ASSUME clean', call = Start, pc + 1 <= 5, NEW j \in 1 .. pc
               PROVE  Port(Transfer(call, j).pin) \subseteq Held(Transfer(call, j))'
    BY <1>1 DEF Filled, RelaysInv, RelaysTypeOK
  <2> DEFINE u == Transfer(call, j)
  <2>1. j \in 1 .. 4 /\ pc \in 1 .. 4 /\ clean
    BY <1>1
  <2>2. /\ u.chip = (j - 1) \div 2 /\ u.reg = "iodir"
        /\ t.how = "fill"
        /\ u.pin \in {0, 8}
    BY <2>1, BeginsFill
  <2>3. u.chip \in Chip /\ Port(u.pin) \subseteq Pin
    BY <2>1, <2>2, PinInPort DEF Chip, Pin
  <2>4. Held(u)' = regs'[u.chip]["iodir"] /\ Held(u) = regs[u.chip]["iodir"]
    BY <1>1, <2>2 DEF Held
  <2>5. CASE j = pc
    <3>1. u = t
      BY <2>5
    <3>2. Held(u)' = Written(t)
      BY <1>3, <2>2, <2>3, <2>4, <3>1 DEF Register
    <3> QED
      BY <1>2, <2>2, <3>1, <3>2
  <2>6. CASE j # pc
    <3>1. j \in 1 .. pc - 1 /\ pc <= 5
      BY <2>1, <2>6
    <3>2. Port(u.pin) \subseteq Held(u)
      BY <2>1, <3>1 DEF RelaysInv, Filled
    <3>3. \A p \in Pin : p \in regs[u.chip]["iodir"] => p \in regs'[u.chip]["iodir"]
      BY <1>12, <2>1, <2>2, <2>3
    <3> QED
      BY <2>3, <2>4, <3>2, <3>3
  <2> QED
    BY <2>5, <2>6
<1>7. MotorsOnly'
  <2> SUFFICES ASSUME Directed'
               PROVE  Driven(0)' \subseteq MotorPins /\ Driven(1)' = {}
    BY DEF MotorsOnly
  <2>1. CASE call # Start /\ begun
    <3>1. t.reg = "olat"
      BY <2>1 DEF Sound
    <3>2. \A chip \in Chip : regs'[chip]["iodir"] = regs[chip]["iodir"]
      BY <1>3, <3>1 DEF Register
    <3>3. Driven(0)' = Driven(0) /\ Driven(1)' = Driven(1)
      BY <3>2 DEF Driven, Chip
    <3> QED
      BY <2>1, <3>3 DEF RelaysInv, MotorsOnly, Directed
  <2>2. CASE call = Start /\ clean' /\ pc = 4
    <3>1. \A k \in 1 .. 4 : Port(IF k % 2 = 1 THEN 0 ELSE 8) \subseteq regs'[(k - 1) \div 2]["iodir"]
      <4> SUFFICES ASSUME NEW k \in 1 .. 4
                   PROVE  Port(IF k % 2 = 1 THEN 0 ELSE 8) \subseteq regs'[(k - 1) \div 2]["iodir"]
        OBVIOUS
      <4>1. Port(Transfer(Start, k).pin) \subseteq Held(Transfer(Start, k))'
        BY <1>1, <1>13, <2>2 DEF Filled
      <4>2. Held(Transfer(Start, k))' = regs'[Transfer(Start, k).chip][Transfer(Start, k).reg]
        BY DEF Held
      <4> QED
        BY <4>1, <4>2, BeginsFill
    <3>2. Pin \subseteq regs'[0]["iodir"] /\ Pin \subseteq regs'[1]["iodir"]
      BY <3>1, AllInputs
    <3> QED
      BY <3>2 DEF Driven
  <2>3. CASE clean /\ Directed
    <3>1. Driven(0) \subseteq MotorPins /\ Driven(1) = {}
      BY <2>3 DEF RelaysInv, MotorsOnly
    <3> QED
      BY <1>12, <2>3, <3>1 DEF Driven, Chip
  <2>4. faults' = 0 => clean /\ Directed
    BY <1>1 DEF Directed
  <2>5. call' = Start /\ clean' /\ pc' > 4 => pc = 4 \/ (clean /\ Directed)
    BY <1>1 DEF Directed, RelaysInv, RelaysTypeOK
  <2> QED
    BY <1>1, <2>1, <2>2, <2>3, <2>4, <2>5 DEF Directed
<1>8. ASSUME faults' = 0, NEW c \in Latched' \ Latched
      PROVE  /\ call = On(c) /\ pc = 10
             /\ \A d \in Column : d \notin Latched
  <2>1. faults = 0 /\ clean
    BY <1>1, <1>8
  <2>2. MotorPin(c) \in regs'[0]["olat"] /\ MotorPin(c) \notin regs[0]["olat"] /\ c \in Column
    BY <1>8 DEF Latched
  <2>3. t.chip = 0 /\ t.reg = "olat" /\ MotorPin(c) \in Written(t) /\ MotorPin(c) \notin Held(t)
    BY <1>3, <2>2 DEF Chip, Register, Held
  <2>4. t.how = "set" /\ MotorPin(c) = t.pin
    BY <1>2, <2>1, <2>3 DEF Sound
  <2>5. PICK d \in Column : call = On(d) /\ t.pin = MotorPin(d)
    BY <2>3, <2>4 DEF Sound
  <2>6. pc = 10 /\ d = c
    BY <2>2, <2>3, <2>4, <2>5, MotorPinIsPin DEF Sound
  <2>7. Before(call) = 0
    BY <2>5, SizeOfCall DEF Before
  <2>8. \A e \in Column : e \notin Latched
    BY <2>1, <2>6, <2>7, LatchedAfter DEF RelaysInv
  <2> QED
    BY <2>5, <2>6, <2>8
<1>9. LatchesKept'
  <2>1. ASSUME faults' = 0, call = Start
        PROVE  Latched' \subseteq Latched
    BY <1>8, <2>1, SizeOfCall
  <2> QED
    BY <2>1, <1>1 DEF RelaysInv, LatchesKept
<1>10. OneLatch'
  <2> SUFFICES ASSUME faults' = 0, NEW c \in Latched', NEW d \in Latched'
               PROVE  c = d
    BY DEF OneLatch
  <2>1. c \in Column /\ d \in Column
    BY DEF Latched
  <2>2. CASE c \in Latched /\ d \in Latched
    BY <2>2, <1>1 DEF RelaysInv, OneLatch
  <2>3. CASE c \notin Latched /\ d \notin Latched
    <3>1. call = On(c) /\ call = On(d)
      BY <1>8, <2>3
    <3> QED
      BY <3>1, SizeOfCall
  <2>4. CASE ~(c \in Latched <=> d \in Latched)
    BY <1>8, <2>1, <2>4
  <2> QED
    BY <2>2, <2>3, <2>4
<1>11. StaysWired'
  <2> SUFFICES ASSUME begun, call # Start, NEW c \in Column
               PROVE  Wired(c)'
    BY <1>1 DEF StaysWired
  <2>1. t.reg = "olat"
    BY DEF Sound
  <2>2. \A chip \in Chip : regs'[chip]["iodir"] = regs[chip]["iodir"] /\ regs'[chip]["gppu"] = regs[chip]["gppu"]
    BY <1>3, <2>1 DEF Register
  <2>3. SoldOutPin(c)[1] \in Chip /\ 0 \in Chip /\ 1 \in Chip
    BY DEF SoldOutPin, Chip
  <2>4. Wired(c)
    BY DEF RelaysInv, StaysWired
  <2> QED
    BY <2>2, <2>3, <2>4 DEF Wired, Driven
<1> QED
  BY <1>4, <1>5, <1>6, <1>7, <1>9, <1>10, <1>11, <1>13 DEF RelaysInv

\* Calls come and go, and the processor starts again anywhere.
LEMMA CallsKeep ==
  ASSUME RelaysInv, Return \/ Call \/ Reset
  PROVE  RelaysInv'
<1>1. CASE Return
  <2>1. call # None /\ pc > Size(call) /\ call' = None /\ UNCHANGED <<regs, pc, got, faults, clean, atReset>>
    BY <1>1 DEF Return
  <2>2. got = Unread
    BY <2>1, SizeOfCall DEF RelaysInv, GotOK, RelaysTypeOK, Calls
  <2>3. begun' \in BOOLEAN
    BY <1>1 DEF Return, RelaysInv, RelaysTypeOK
  <2>4. RelaysTypeOK'
    BY <2>1, <2>3 DEF RelaysInv, RelaysTypeOK, Calls
  <2>5. GotOK' /\ FaultsShow' /\ Filled' /\ LatchesKept' /\ OneLatch'
    BY <2>1, <2>2, SizeOfCall DEF RelaysInv, GotOK, FaultsShow, Filled, LatchesKept, OneLatch, Latched
  <2>8. MotorsOnly'
    <3>1. call = Start => pc > 4
      BY <2>1, SizeOfCall DEF RelaysInv, RelaysTypeOK
    <3>2. Directed' => Directed
      BY <1>1, <2>1, <3>1, SizeOfCall DEF Return, Directed
    <3> QED
      BY <2>1, <3>2 DEF RelaysInv, MotorsOnly, Driven
  <2>6. Obeyed'
    BY <2>1, SizeOfCall DEF Obeyed
  <2>7. StaysWired'
    <3>1. CASE call = Start
      <4>1. pc = 96
        BY <2>1, <3>1, SizeOfCall DEF RelaysInv, RelaysTypeOK
      <4>2. begun' => \A c \in Column : Wired(c)
        BY <1>1, <3>1, <4>1, WiredAfterBegin DEF Return, RelaysInv
      <4> QED
        BY <2>1, <4>2 DEF StaysWired, Wired, Driven
    <3>2. CASE call # Start
      BY <1>1, <2>1, <3>2 DEF Return, RelaysInv, StaysWired, Wired, Driven
    <3> QED
      BY <3>1, <3>2
  <2> QED
    BY <2>4, <2>5, <2>6, <2>7, <2>8 DEF RelaysInv
<1>2. CASE Call
  <2>1. call = None /\ call' \in Calls \ {None, Start} /\ pc' = 1 /\ UNCHANGED <<regs, got, faults, begun, atReset>>
    BY <1>2, SizeOfCall DEF Call, Calls
  <2>2. clean'
    BY <1>2 DEF Call
  <2>3. got = Unread
    BY <2>1, SizeOfCall DEF RelaysInv, GotOK, RelaysTypeOK
  <2>4. Size(call') \in Nat
    BY <2>1, SizeOfCall DEF Calls
  <2>5. RelaysTypeOK'
    BY <2>1, <2>2, <2>4 DEF RelaysInv, RelaysTypeOK
  <2>6. GotOK' /\ FaultsShow' /\ Obeyed' /\ Filled' /\ LatchesKept'
    BY <2>1, <2>2, <2>3 DEF GotOK, FaultsShow, Obeyed, Filled, LatchesKept
  <2>7. MotorsOnly' /\ OneLatch'
    <3>1. Directed' => Directed
      BY <2>1, SizeOfCall DEF Directed
    <3> QED
      BY <2>1, <3>1 DEF RelaysInv, MotorsOnly, Driven, OneLatch, Latched
  <2>8. StaysWired'
    BY <2>1, SizeOfCall DEF RelaysInv, StaysWired, Wired, Driven
  <2> QED
    BY <2>5, <2>6, <2>7, <2>8 DEF RelaysInv
<1>3. CASE Reset
  <2>1. call' = Start /\ pc' = 1 /\ got' = Unread /\ atReset' = Latched /\ UNCHANGED <<regs, faults, begun>>
    BY <1>3 DEF Reset
  <2>2. clean'
    BY <1>3 DEF Reset
  <2>3. RelaysTypeOK'
    BY <1>3, <2>1, SizeOfCall DEF Reset, RelaysInv, RelaysTypeOK, Calls, Latched
  <2>4. GotOK' /\ FaultsShow' /\ Obeyed' /\ StaysWired'
    BY <2>1, <2>2 DEF GotOK, FaultsShow, Obeyed, StaysWired
  <2>5. OneLatch' /\ LatchesKept' /\ Filled'
    BY <2>1 DEF RelaysInv, OneLatch, LatchesKept, Latched, Filled
  <2>6. MotorsOnly'
    <3>1. Directed' => Directed
      BY <2>1 DEF Directed
    <3> QED
      BY <2>1, <3>1 DEF RelaysInv, MotorsOnly, Driven
  <2> QED
    BY <2>3, <2>4, <2>5, <2>6 DEF RelaysInv
<1> QED
  BY <1>1, <1>2, <1>3

LEMMA RelaysStart == Init => RelaysInv
<1> SUFFICES ASSUME Init
             PROVE  RelaysInv
  OBVIOUS
<1>1. /\ regs = [chip \in Chip |-> [reg \in Register |-> IF reg = "iodir" THEN Pin ELSE {}]]
      /\ call = Start /\ pc = 1 /\ got = Unread /\ faults = 0 /\ atReset = {}
  BY DEF Init
<1>2. clean = TRUE /\ begun = TRUE
  BY DEF Init
<1>3. regs \in [Chip -> [Register -> SUBSET Pin]] /\ Latched = {} /\ Driven(0) = {} /\ Driven(1) = {}
  BY <1>1 DEF Latched, Driven, Chip, Register
<1>4. RelaysTypeOK
  BY <1>1, <1>2, <1>3, SizeOfCall DEF RelaysTypeOK, Calls
<1>5. GotOK /\ FaultsShow /\ Obeyed /\ Filled /\ StaysWired
  BY <1>1, <1>2 DEF GotOK, FaultsShow, Obeyed, Filled, StaysWired
<1>6. MotorsOnly /\ LatchesKept /\ OneLatch
  BY <1>3 DEF MotorsOnly, LatchesKept, OneLatch
<1> QED
  BY <1>4, <1>5, <1>6 DEF RelaysInv

LEMMA RelaysStep == RelaysInv /\ [Next]_relaysVars => RelaysInv'
<1>1. ASSUME RelaysInv, Step
      PROVE  RelaysInv'
  <2> DEFINE t == Transfer(call, pc)
  <2>1. call # None /\ pc \in 1 .. Size(call) /\ Sound(call, pc, t) /\ (Read(t) \/ Write(t))
    BY <1>1, StepCases DEF RelaysInv
  <2>2. CASE Read(t)
    BY <1>1, <2>1, <2>2, ReadKeeps
  <2>3. CASE Write(t)
    BY <1>1, <2>1, <2>3, WriteKeeps, LostWriteKeeps DEF Write, Stored
  <2> QED
    BY <2>1, <2>2, <2>3
<1>2. ASSUME RelaysInv, UNCHANGED relaysVars
      PROVE  RelaysInv'
  <2>1. UNCHANGED <<regs, call, pc, got, faults, clean, begun, atReset>>
    BY <1>2 DEF relaysVars
  <2>2. RelaysTypeOK' /\ FaultsShow'
    BY <1>2, <2>1 DEF RelaysInv, RelaysTypeOK, FaultsShow
  <2>3. GotOK'
    BY <1>2, <2>1 DEF RelaysInv, GotOK, Held
  <2>4. Obeyed'
    BY <1>2, <2>1 DEF RelaysInv, Obeyed, Last, Held
  <2>5. Filled'
    BY <1>2, <2>1 DEF RelaysInv, Filled, Held
  <2>6. MotorsOnly'
    BY <1>2, <2>1 DEF RelaysInv, MotorsOnly, Directed, Driven
  <2>7. LatchesKept' /\ OneLatch'
    BY <1>2, <2>1 DEF RelaysInv, LatchesKept, OneLatch, Latched
  <2>8. StaysWired'
    BY <1>2, <2>1 DEF RelaysInv, StaysWired, Wired, Driven
  <2> QED
    BY <2>2, <2>3, <2>4, <2>5, <2>6, <2>7, <2>8 DEF RelaysInv
<1> QED
  BY <1>1, <1>2, CallsKeep DEF Next

\* Whatever failed reads put into the registers, every bit written by a call without a failure
\* so far is as the call last wrote it, and after a begin() without one only motors
\* are driven; while nothing has failed, at most one latch is high and begin() sets none.
THEOREM RelaysInvariant == Spec => []RelaysInv
BY RelaysStart, RelaysStep, PTL DEF Spec
-----------------------------------------------------------------------------
(* The properties.                                                         *)

\* OneMotor: as long as no transfer has failed, at most one motor has power, between any two
\* transfers and wherever the processor was reset (narco.cpp:147-162).
THEOREM OneMotorAtMost == Spec => []OneMotor
<1>1. RelaysInv => OneMotor
  BY DEF RelaysInv, OneLatch, OneMotor, Closed
<1> QED
  BY <1>1, RelaysInvariant, PTL

\* WiredAsListed: after a begin() without a failure nothing but a motor is driven and each pin
\* is what the connection table says, whatever failed before it and whatever a failed
\* read puts into the latches later (narco.cpp:16-76).
THEOREM PinsAreWired == Spec => []WiredAsListed
<1>1. \A p \in MotorPins : p \in Pin /\ Table[1][p + 1][1] = "MTR"
  <2>1. \A p \in {2} \cup 8 .. 15 : p \in Pin /\ Table[1][p + 1][1] = "MTR"
    BY DEF Table, Pin
  <2> QED
    BY <2>1, MotorPinIsPin DEF MotorPins
<1>2. \A c \in Column : /\ Table[1][MotorPin(c) + 1] = <<"MTR", c>>
                        /\ Table[2][HomePin(c) + 1] = <<"MTC", c>>
                        /\ Table[SoldOutPin(c)[1] + 1][SoldOutPin(c)[2] + 1] = <<"SOS", c>>
  BY DEF Table, MotorPin, HomePin, SoldOutPin, Column
<1>3. \A c \in Calls : c.name = "begin" <=> c = Start
  <2>1. None.name # "begin" /\ Off.name # "begin" /\ Start.name = "begin" /\ \A d : On(d).name # "begin"
    BY DEF Start, None, Off, On
  <2> QED
    BY <2>1 DEF Calls
<1>5. RelaysInv /\ Trusted => Directed
  BY <1>3 DEF RelaysInv, RelaysTypeOK, Trusted, Directed
<1>6. RelaysInv /\ Trusted => Driven(0) \subseteq Motors /\ Driven(1) = {}
  BY <1>1, <1>5 DEF RelaysInv, MotorsOnly, Motors
<1>4. RelaysInv => WiredAsListed
  BY <1>2, <1>3, <1>6 DEF RelaysInv, RelaysTypeOK, StaysWired, Wired, WiredAsListed
<1> QED
  BY <1>4, RelaysInvariant, PTL

\* StartsAsAsked: as long as no transfer has failed, a motor gets power from a powerOn of its
\* own column only, or for a moment in the begin() after a reset (narco.cpp:50-57, 75).
THEOREM MotorStartsAsAsked == Spec => StartsAsAsked
<1> DEFINE Fine == faults' = 0 => \A c \in Closed' \ Closed : call = On(c) \/ (call = Start /\ c \in atReset)
<1>1. RelaysInv /\ [Next]_relaysVars => [Fine]_relaysVars
  <2> SUFFICES ASSUME RelaysInv, Next, NEW c \in Closed' \ Closed, faults' = 0
               PROVE  call = On(c) \/ (call = Start /\ c \in atReset)
    OBVIOUS
  <2>1. CASE UNCHANGED regs
    BY <2>1 DEF Closed, Latched, Driven
  <2>2. CASE ~UNCHANGED regs
    <3> DEFINE t == Transfer(call, pc)
    <3>1. Step /\ Write(t) /\ Stored(t)
      BY <2>2 DEF Next, Step, Return, Call, Reset, Read, Write, Stored
    <3>2. call # None /\ pc \in 1 .. Size(call) /\ Sound(call, pc, t)
      BY <3>1, StepCases DEF RelaysInv
    <3>3. faults = 0 /\ clean
      BY <3>1, <3>2, WriteMoves DEF RelaysInv
    <3>4. /\ t.how = "clear" => Written(t) \subseteq Held(t)
          /\ t.how = "set" => Written(t) = Held(t) \cup {t.pin}
      BY <3>1, <3>2, <3>3, WrittenBits DEF RelaysInv, Write
    <3>5. \A chip \in Chip, reg \in Register :
            regs'[chip][reg] = IF chip = t.chip /\ reg = t.reg THEN Written(t) ELSE regs[chip][reg]
      BY <3>1, <3>2, WrittenBits, StoredRegister DEF RelaysInv, Sound, Write
    <3>6. c \in Column /\ MotorPin(c) \in regs'[0]["olat"] /\ MotorPin(c) \in Pin \ regs'[0]["iodir"]
      BY DEF Closed, Latched, Driven
    <3>7. CASE t.reg = "olat"
      <4>1. UNCHANGED Driven(0)
        BY <3>5, <3>7 DEF Driven, Chip, Register
      <4>2. MotorPin(c) \notin Held(t) /\ MotorPin(c) \in Written(t)
        BY <3>2, <3>5, <3>6, <3>7, <4>1 DEF Closed, Latched, Sound, Chip, Register, Held, Driven
      <4>3. t.how = "set" /\ MotorPin(c) = t.pin
        BY <3>2, <3>4, <3>7, <4>2 DEF Sound
      <4>4. PICK d \in Column : call = On(d) /\ t.pin = MotorPin(d)
        BY <3>2, <3>7, <4>3 DEF Sound
      <4> QED
        BY <3>6, <4>3, <4>4, MotorPinIsPin
    <3>8. CASE t.reg # "olat"
      <4>1. call = Start /\ MotorPin(c) \in regs[0]["olat"]
        BY <3>2, <3>5, <3>6, <3>8 DEF Sound, Chip, Register
      <4> QED
        BY <3>3, <3>6, <4>1 DEF RelaysInv, LatchesKept, Latched
    <3> QED
      BY <3>7, <3>8
  <2> QED
    BY <2>1, <2>2
<1> QED
  BY <1>1, RelaysInvariant, PTL DEF Spec, StartsAsAsked

\* CleanCallObeyed: whatever failed before, a call none of whose transfers fails leaves the
\* relays that Narco's PowerOff and PowerOn leave, less those a failed begin() has made no output
\* (narco.cpp:147-162).
THEOREM CallWithoutFailureObeyed == Spec => CleanCallObeyed
<1> DEFINE Wanted == IF call.name = "on" THEN Narco9(Closed)!PowerOn(Closed, call.column)
                     ELSE Narco9(Closed)!PowerOff(Closed)
           Fine == call # None /\ call' = None /\ clean =>
                     Closed' \subseteq Wanted /\ (begun' => Closed' = Wanted)
<1>1. RelaysInv /\ [Next]_relaysVars => [Fine]_relaysVars
  <2> SUFFICES ASSUME RelaysInv, Next, call # None, call' = None, clean
               PROVE  Closed' \subseteq Wanted /\ (begun' => Closed' = Wanted)
    OBVIOUS
  <2>1. Return
    BY SizeOfCall DEF Next, Step, Read, Write, Call, Reset
  <2>2. UNCHANGED regs /\ pc = Size(call) + 1
    BY <2>1, SizeOfCall DEF Return, RelaysInv, RelaysTypeOK, Calls
  <2>3. Closed' = Closed /\ Closed \subseteq Column /\ Latched \subseteq Column
    BY <2>2 DEF Closed, Latched, Driven
  <2>4. pc >= Before(call) + 10 /\ (pc = 11 => \A c : call = On(c) => c \in Column)
    BY <2>2, SizeOfCall DEF Before, RelaysInv, RelaysTypeOK, Calls
  <2>5. \A c \in Column : c \in Latched <=> call = On(c)
    BY <2>2, <2>4, LatchedAfter, SizeOfCall DEF RelaysInv
  <2>6. Wanted = {c \in Column : call = On(c)}
    <3>1. ASSUME NEW d, call = On(d)
          PROVE  Wanted = {c \in Column : call = On(c)}
      <4>1. call.name = "on" /\ call.column = d
        BY <3>1 DEF On
      <4>2. Wanted = (Closed \ 1 .. 9) \cup ({d} \cap 1 .. 9)
        BY <4>1 DEF Narco9!PowerOn, Narco9!PowerOff, Narco9!Column
      <4>3. \A c : call = On(c) <=> c = d
        BY <3>1, SizeOfCall
      <4> HIDE DEF Wanted
      <4> QED
        BY <4>2, <4>3, <2>3 DEF Column
    <3>2. CASE call \in {Off, Start}
      <4>1. call.name # "on"
        BY <3>2 DEF Off, Start
      <4>2. Wanted = Closed \ 1 .. 9
        BY <4>1 DEF Narco9!PowerOff, Narco9!Column
      <4>3. \A c : call # On(c)
        BY <3>2, SizeOfCall
      <4> HIDE DEF Wanted
      <4> QED
        BY <4>2, <4>3, <2>3 DEF Column
    <3> QED
      BY <3>1, <3>2 DEF RelaysInv, RelaysTypeOK, Calls
  <2>7. Latched = Wanted
    BY <2>3, <2>5, <2>6
  <2>8. Closed \subseteq Latched
    BY DEF Closed
  <2>9. ASSUME begun', NEW c \in Latched
        PROVE  c \in Closed
    <3>1. call = On(c) /\ c \in Column
      BY <2>3, <2>5, <2>9
    <3>2. Wired(c)
      BY <2>1, <2>9, <3>1, SizeOfCall DEF Return, RelaysInv, StaysWired
    <3> QED
      BY <2>9, <3>2 DEF Wired, Closed
  <2> QED
    BY <2>3, <2>7, <2>8, <2>9
<1> QED
  BY <1>1, RelaysInvariant, PTL DEF Spec, CleanCallObeyed
=============================================================================
