---------------------------- MODULE DisplayProofs ----------------------------
(***************************************************************************)
(* Theorems about Backpack, for any bytes and any number of transfers that *)
(* fail: begin() synchronises the display from wherever it was, and every  *)
(* failed transfer costs one nibble at most. Theorems about Display, for   *)
(* any texts, lines and lengths and any number of bytes that slip: reset() *)
(* and update() make it show the text, whatever it held.                   *)
(***************************************************************************)
EXTENDS Backpack, Display, SequenceTheorems, TLAPS

Byte == (SUBSET {RS}) \X Nibble \X Nibble

BackpackTypeOK == /\ inputs \in SUBSET Pins /\ latches \in SUBSET Pins /\ out \in SUBSET Pins
                  /\ enable \in {LOW, HIGH} /\ width \in {4, 8}
                  /\ half = {} \/ \E n \in Nibble : half = {n}
                  /\ routine \in {"begin", "send"} /\ place \in 1 .. Length + 1 /\ stage \in 0 .. 3
                  /\ wanted \in Byte /\ (wanted[1] = {} => wanted[2] # Three)
                  /\ routine = "begin" => wanted = EntryMode
                  /\ slip \in Int /\ failed \in Nat
                  /\ strayed \in BOOLEAN /\ intact \in BOOLEAN

\* The operation after which begin() has made a pin an output.
OutputAt(p) == IF p = Backlight THEN 2 ELSE IF p = RS THEN 8 ELSE IF p = Enable THEN 9 ELSE p + 1

\* From here on all pins are outputs.
Wired == routine = "send" \/ place > 9

\* Which pins are inputs, and that E follows its pin when it is none.
PinsInv == /\ \A p \in inputs : routine = "begin" /\ place <= OutputAt(p)
           /\ routine = "begin" /\ place \in {2} \cup 4 .. 9 /\ stage = 1 => out = inputs
           /\ Enable \notin inputs => (enable = HIGH <=> Enable \in latches)
           /\ width = 8 => half = {}

\* Once it has begun to synchronise the display begin() has the pins as it needs them; nothing
\* fails until it has done so.
NibbleOp == (routine = "begin" /\ place \in 12 .. 15) \/ (Settled /\ Busy /\ Now.op = "nibble")

StageInv == /\ ~Busy \/ (routine = "begin" /\ place = 1) => stage = 0
            /\ Busy /\ ~NibbleOp => stage \in {0, 1}
            /\ ~Settled => intact /\ failed = 0 /\ slip = 0 /\ ~strayed
            /\ failed = 0 => intact /\ ~strayed

\* What has been read, and what is written of it.
OutInv == /\ Wired /\ stage = 1 => out = latches \/ (out = Pins /\ ~intact)
          /\ NibbleOp /\ stage > 1 => Enable \notin out /\ out \cap DataPins = Now.on
          /\ NibbleOp /\ stage = 2 /\ intact => latches = out
          /\ NibbleOp /\ stage = 3 /\ intact => latches = out \cup {Enable}

\* Three times 3 bring the display into 8-bit mode, from 4-bit mode with half a byte or without.
SyncInv == routine = "begin" /\ place \in 11 .. 15 =>
             /\ RS \notin latches
             /\ place > 11 /\ stage < 2 => Enable \notin latches
             /\ place = 13 => width = 8 \/ half = {} \/ half = {Three}
             /\ place = 14 => width = 8 \/ half = {Three}
             /\ place = 15 => width = 8

\* The part of a byte that is sent next or now, and the byte; after the last part the
\* next byte's first.
Part == IF routine = "send" THEN IF place = 4 THEN 1 ELSE place
        ELSE IF place \in {16, 19, 22, 25, 28} THEN 1 ELSE IF place \in {17, 20, 23, 26} THEN 2 ELSE 3
Current == IF routine = "send" THEN wanted
           ELSE IF place < 19 THEN FunctionSet ELSE IF place < 22 THEN DisplayOn ELSE IF place < 25 THEN ClearDisplay
           ELSE EntryMode

\* A nibble has been sent that the display has not taken yet; E is high, or will be, without one.
Due == IF Part > 1 /\ stage > 0 THEN 1 ELSE 0
Pending == IF Enable \in latches \/ (Part = 1 /\ stage = 1 /\ Enable \in out) THEN 1 ELSE 0

\* The nibbles of this byte that have been sent.
SentNow == IF Part = 1 THEN 0 ELSE Part - 2 + Due

SlipInv == Settled =>
  /\ stage < 3 => slip + Due >= -failed /\ slip + Due + Pending <= failed
  /\ stage = 3 /\ Enable \in latches => slip + 1 >= -failed /\ slip + 1 <= failed
  /\ stage = 3 /\ Enable \notin latches => slip >= -failed /\ slip <= failed

\* Without failures in this call its nibbles arrive.
ByteInv == Settled =>
  /\ ~strayed => width = 4 /\ (half = {} <=> (slip + SentNow) % 2 = 0)
  /\ intact /\ Part > 1 => latches \cap {RS} = Current[1]
  /\ intact /\ Part = 3 /\ stage < 2 => Enable \notin latches
  /\ intact /\ Part = 3 => half = {} \/ half = {Current[2]}
  /\ intact /\ ~Busy /\ ~strayed /\ half = {} => last = wanted

BackpackInv == BackpackTypeOK /\ PinsInv /\ StageInv /\ OutInv /\ SyncInv /\ SlipInv /\ ByteInv
-----------------------------------------------------------------------------
(* The operations.                                                         *)

\* Part and Current say what begin() sends once it has synchronised the display.
LEMMA ConfigureParts ==
  ASSUME routine = "begin", place \in 16 .. 27
  PROVE  /\ Part = 1 => LCDBegin(place) = Operation("set", {RS}, Current[1])
         /\ Part > 1 => LCDBegin(place) = Operation("nibble", DataPins \cup {Enable}, Current[Part])
<1> DEFINE i == place - 15
           b == 1 + (i - 1) \div 3
           k == 1 + ((i - 1) % 3)
<1>1. LCDBegin(place) = Send(<<FunctionSet, DisplayOn, ClearDisplay, EntryMode>>[b], k)
  BY DEF LCDBegin, Configure
<1>2. /\ k = Part
      /\ b = IF place < 19 THEN 1 ELSE IF place < 22 THEN 2 ELSE IF place < 25 THEN 3 ELSE 4
  <2>1. CASE place \in 16 .. 18
    BY <2>1 DEF Part
  <2>2. CASE place \in 19 .. 21
    BY <2>2 DEF Part
  <2>3. CASE place \in 22 .. 24
    BY <2>3 DEF Part
  <2>4. CASE place \in 25 .. 27
    BY <2>4 DEF Part
  <2> QED
    BY <2>1, <2>2, <2>3, <2>4
<1>3. <<FunctionSet, DisplayOn, ClearDisplay, EntryMode>>[b] = Current
  BY <1>2 DEF Current
<1> QED
  BY <1>1, <1>2, <1>3 DEF Send, Write4Bits

LEMMA CurrentByte ==
  ASSUME BackpackTypeOK
  PROVE  Current \in Byte /\ (Current[1] = {} => Current[2] # Three)
  BY DEF BackpackTypeOK, Current, Byte, Nibble, DataPins, FunctionSet, DisplayOn, ClearDisplay, EntryMode, Three

\* What is under way when the display is in step.
LEMMA SettledOperation ==
  ASSUME BackpackTypeOK, Settled, Busy
  PROVE  /\ Part \in 1 .. 3
         /\ Part = 1 => Now = Operation("set", {RS}, Current[1])
         /\ Part > 1 => Now = Operation("nibble", DataPins \cup {Enable}, Current[Part])
<1>1. CASE routine = "begin"
  <2>1. place \in 16 .. 27
    BY <1>1 DEF BackpackTypeOK, Settled, Busy, Length
  <2> QED
    BY <1>1, <2>1, ConfigureParts DEF Now, Part
<1>2. CASE routine = "send"
  <2>1. place \in 1 .. 3
    BY <1>2 DEF BackpackTypeOK, Busy, Length
  <2> QED
    BY <1>2, <2>1 DEF Now, Part, Current, Send, Write4Bits
<1> QED
  BY <1>1, <1>2 DEF BackpackTypeOK

LEMMA SettledParts ==
  BackpackTypeOK /\ Settled /\ Busy =>
    /\ Part \in 1 .. 3
    /\ Part = 1 => Now.op = "set"
    /\ Part > 1 => Now.op = "nibble" /\ Now.on = Current[Part]
BY SettledOperation DEF Operation

\* The same of the next state.
LEMMA NextParts ==
  (BackpackTypeOK /\ Settled /\ Busy =>
    /\ Part \in 1 .. 3
    /\ Part = 1 => Now.op = "set"
    /\ Part > 1 => Now.op = "nibble" /\ Now.on = Current[Part])'
BY SettledParts, PTL

\* And before.
LEMMA EarlyOperation ==
  ASSUME BackpackTypeOK, ~Settled
  PROVE  /\ routine = "begin" /\ place \in 1 .. 15 /\ Busy
         /\ place = 1 => Now.op = "defaults"
         /\ place \in {2} \cup 4 .. 9 => \E p \in Pins : Now = Output(p) /\ OutputAt(p) = place
         /\ place = 3 => Now = Clear(Backlight)
         /\ place = 10 => Now = Clear(RS)
         /\ place = 11 => Now = Clear(Enable)
         /\ place \in 12 .. 14 => Now = Write4Bits(Three)
         /\ place = 15 => Now = Write4Bits(Two)
<1>1. routine = "begin" /\ place \in 1 .. 15 /\ Busy
  BY DEF BackpackTypeOK, Settled, Busy, Length
<1>2. Now = LCDBegin(place)
  BY <1>1 DEF Now
<1>3. CASE place \in 1 .. 3
  BY <1>1, <1>2, <1>3 DEF LCDBegin, Operation, Output, Clear, OutputAt, Pins, Backlight
<1>4. CASE place \in 4 .. 7
  <2>1. Now = Output(place - 1) /\ place - 1 \in Pins /\ OutputAt(place - 1) = place
    BY <1>2, <1>4 DEF LCDBegin, OutputAt, Pins, Backlight, RS, Enable
  <2> QED
    BY <1>1, <1>4, <2>1
<1>5. CASE place \in 8 .. 11
  BY <1>1, <1>2, <1>5 DEF LCDBegin, OutputAt, Pins, Backlight, RS, Enable
<1>6. CASE place \in 12 .. 15
  BY <1>1, <1>2, <1>6 DEF LCDBegin, Sync
<1> QED
  BY <1>1, <1>3, <1>4, <1>5, <1>6
-----------------------------------------------------------------------------
(* The lines, when E is an output before and after a transfer.             *)

\* The nibbles the display takes, of any levels.
LEMMA LatchFacts ==
  ASSUME BackpackTypeOK, PinsInv, NEW rs \in SUBSET {RS}, NEW n \in Nibble, Latch(rs, n)
  PROVE  /\ width' \in {4, 8} /\ (half' = {} \/ half' = {n}) /\ (width' = 8 => half' = {})
         /\ slip' = IF Settled THEN slip + 1 ELSE 0
         /\ strayed' = (strayed \/ (Settled /\ width' = 8))
         /\ width = 8 /\ ~(rs = {} /\ n = Two) => width' = 8
         /\ width = 8 /\ rs = {} /\ n = Two => width' = 4
         /\ width = 8 => half' = {}
         /\ width = 4 /\ half = {} => width' = 4 /\ half' = {n}
         /\ width = 4 /\ half # {} => half' = {}
         /\ \A h \in Nibble : width = 4 /\ half = {h} =>
              /\ width' = IF rs = {} /\ h = Three THEN 8 ELSE 4
              /\ last' = IF Settled THEN <<rs, h, n>> ELSE <<>>
<1>1. CASE width = 8
  <2>1. half = {} /\ UNCHANGED <<half, last>> /\ width' = IF rs = {} /\ n = Two THEN 4 ELSE 8
    BY <1>1 DEF Latch, PinsInv
  <2>2. slip' = (IF Settled THEN slip + 1 ELSE 0) /\ strayed' = (strayed \/ (Settled /\ width' = 8))
    BY DEF Latch
  <2> QED
    BY <1>1, <2>1, <2>2
<1>2. CASE width = 4 /\ half = {}
  <2>1. half' = {n} /\ UNCHANGED <<width, last>>
    BY <1>2 DEF Latch
  <2>2. slip' = (IF Settled THEN slip + 1 ELSE 0) /\ strayed' = (strayed \/ (Settled /\ width' = 8))
    BY DEF Latch
  <2> QED
    BY <1>2, <2>1, <2>2
<1>3. CASE width = 4 /\ half # {}
  <2>1. PICK high \in Nibble : half = {high}
    BY <1>3 DEF BackpackTypeOK
  <2>2. /\ last' = IF Settled THEN <<rs, high, n>> ELSE <<>>
        /\ width' = IF rs = {} /\ high = Three THEN 8 ELSE 4
        /\ half' = {}
    BY <1>3, <2>1 DEF Latch
  <2>3. slip' = (IF Settled THEN slip + 1 ELSE 0) /\ strayed' = (strayed \/ (Settled /\ width' = 8))
    BY DEF Latch
  <2> QED
    BY <1>3, <2>1, <2>2, <2>3
<1> QED
  BY <1>1, <1>2, <1>3 DEF BackpackTypeOK

\* E follows its latch, and a nibble is taken when it falls: the one on the pins when
\* only E has changed.
LEMMA LinesFacts ==
  ASSUME BackpackTypeOK, PinsInv, inputs = {}, inputs' = {}, latches' \in SUBSET Pins, Lines
  PROVE  /\ enable' \in {LOW, HIGH} /\ (enable' = HIGH <=> Enable \in latches')
         /\ Enable \in latches /\ Enable \notin latches' =>
              \E rs \in SUBSET {RS}, n \in Nibble :
                /\ Latch(rs, n)
                /\ latches = latches' \cup {Enable} => rs = latches \cap {RS} /\ n = latches \cap DataPins
         /\ Enable \notin latches \/ Enable \in latches' => UNCHANGED <<width, half, last, slip, strayed>>
<1>1. enable' = IF Enable \in latches' THEN HIGH ELSE LOW
  BY DEF Lines
<1>2. enable = HIGH <=> Enable \in latches
  BY DEF PinsInv
<1>3. ASSUME Enable \in latches, Enable \notin latches'
      PROVE  \E rs \in SUBSET {RS}, n \in Nibble :
               /\ Latch(rs, n)
               /\ latches = latches' \cup {Enable} => rs = latches \cap {RS} /\ n = latches \cap DataPins
  <2>1. PICK rs \in Found({RS}), n \in Found(DataPins) : Latch(rs, n)
    BY <1>1, <1>2, <1>3 DEF Lines, LOW, HIGH
  <2>2. rs \in SUBSET {RS} /\ n \in Nibble
    BY <2>1 DEF Found, Nibble
  <2>3. ASSUME latches = latches' \cup {Enable}
        PROVE  rs = latches \cap {RS} /\ n = latches \cap DataPins
    <3>1. \A p \in {RS} \cup DataPins : p \in latches' <=> p \in latches
      BY <2>3 DEF RS, Enable, DataPins
    <3> QED
      BY <2>1, <3>1 DEF Found
  <2> QED
    BY <2>1, <2>2, <2>3
<1>4. ASSUME Enable \notin latches \/ Enable \in latches'
      PROVE  UNCHANGED <<width, half, last, slip, strayed>>
  BY <1>1, <1>2, <1>4 DEF Lines, LOW, HIGH
<1> QED
  BY <1>1, <1>3, <1>4 DEF LOW, HIGH
\* The same while E may float: what can be said then.
LEMMA LinesType ==
  ASSUME BackpackTypeOK, PinsInv, Lines
  PROVE  /\ enable' \in {LOW, HIGH} /\ width' \in {4, 8}
         /\ half' = {} \/ \E n \in Nibble : half' = {n}
         /\ width' = 8 => half' = {}
         /\ Enable \notin inputs' => (enable' = HIGH <=> Enable \in latches')
         /\ ~Settled /\ slip = 0 => slip' = 0 /\ strayed' = strayed
<1>1. enable' \in {LOW, HIGH} /\ (Enable \notin inputs' => (enable' = HIGH <=> Enable \in latches'))
  BY DEF Lines, LOW, HIGH
<1>2. CASE enable = HIGH /\ enable' = LOW
  <2>1. PICK rs \in SUBSET {RS}, n \in Nibble : Latch(rs, n)
    BY <1>2 DEF Lines, Found, Nibble
  <2>2. /\ width' \in {4, 8} /\ (half' = {} \/ half' = {n}) /\ (width' = 8 => half' = {})
        /\ slip' = IF Settled THEN slip + 1 ELSE 0
        /\ strayed' = (strayed \/ (Settled /\ width' = 8))
    BY <2>1, LatchFacts
  <2>3. ~Settled => strayed' = strayed
    BY <2>2, Zenon DEF BackpackTypeOK
  <2> QED
    BY <1>1, <2>2, <2>3
<1>3. CASE ~(enable = HIGH /\ enable' = LOW)
  <2>1. UNCHANGED <<width, half, last, slip, strayed>>
    BY <1>3 DEF Lines
  <2> QED
    BY <1>1, <2>1 DEF BackpackTypeOK, PinsInv
<1> QED
  BY <1>2, <1>3
-----------------------------------------------------------------------------
(* Steps of begin() before the display is in step. Nothing fails.          *)

LEMMA EarlyWrite ==
  ASSUME ~Settled, NEW in, NEW olat, WritePort(in, olat)
  PROVE  UNCHANGED <<failed, intact>> /\ inputs' = in /\ latches' = olat /\ Lines
  BY DEF WritePort, Fails, Works

\* Wherever the next operation is one of begin()'s with the display still out of step.
LEMMA StillEarly ==
  ASSUME BackpackTypeOK', routine' = "begin", place' \in 1 .. 15, intact', failed' = 0, slip' = 0, ~strayed'
  PROVE  ~Settled' /\ Busy' /\ SlipInv' /\ ByteInv' /\ (NibbleOp' <=> place' \in 12 .. 15) /\ (Wired' <=> place' > 9)
  BY DEF Settled, Busy, Length, SlipInv, ByteInv, NibbleOp, Wired

LEMMA EarlyRead ==
  ASSUME BackpackInv, ~Settled, ReadPort
  PROVE  BackpackInv'
<1>1. /\ routine = "begin" /\ place \in 1 .. 15
      /\ place = 1 => Now.op = "defaults"
      /\ place \in {2} \cup 4 .. 9 => Now.op = "output"
      /\ place \in {3} \cup 10 .. 15 => Now.op # "output"
  BY EarlyOperation DEF BackpackInv, Operation, Output, Clear, Write4Bits
<1>2. /\ place \in 2 .. 15 /\ stage = 0 /\ stage' = 1 /\ slip' = slip /\ out' \in Readable
      /\ UNCHANGED <<failed, intact, inputs, latches, enable, width, half, last, strayed, routine, place, wanted>>
  BY <1>1 DEF ReadPort, Fails, Works, Settled
<1>3. /\ out' \in SUBSET Pins
      /\ place \in {2} \cup 4 .. 9 => out' = inputs
      /\ place \in 10 .. 15 => out' = latches
  <2>1. CASE place \in {2} \cup 4 .. 9
    BY <1>1, <1>2, <2>1 DEF Readable, BackpackInv, BackpackTypeOK
  <2>2. CASE place \in {3} \cup 10 .. 15
    <3>1. out' \in {g \cup (latches \ inputs) : g \in SUBSET inputs}
      BY <1>1, <1>2, <2>2 DEF Readable
    <3>2. out' \in SUBSET Pins
      BY <3>1 DEF BackpackInv, BackpackTypeOK
    <3>3. place \in 10 .. 15 => inputs = {}
      BY DEF BackpackInv, PinsInv, OutputAt, BackpackTypeOK, Pins, Backlight, RS, Enable
    <3> QED
      BY <2>2, <3>1, <3>2, <3>3
  <2> QED
    BY <1>2, <2>1, <2>2
<1>4. BackpackTypeOK'
  BY <1>2, <1>3 DEF BackpackInv, BackpackTypeOK, Length
<1>5. intact' /\ failed' = 0 /\ slip' = 0 /\ ~strayed'
  BY <1>2 DEF BackpackInv, StageInv
<1>6. ~Settled' /\ Busy' /\ SlipInv' /\ ByteInv' /\ (NibbleOp' <=> place' \in 12 .. 15) /\ (Wired' <=> place' > 9)
  BY <1>1, <1>2, <1>4, <1>5, StillEarly
<1>7. PinsInv'
  BY <1>2, <1>3 DEF BackpackInv, PinsInv
<1>8. StageInv'
  BY <1>2, <1>5, <1>6 DEF StageInv
<1>9. OutInv'
  BY <1>2, <1>3, <1>6 DEF OutInv
<1>10. SyncInv'
  BY <1>2 DEF BackpackInv, SyncInv
<1> QED
  BY <1>4, <1>6, <1>7, <1>8, <1>9, <1>10 DEF BackpackInv

\* Everything before the expander's pins are outputs, and E drifting.
LEMMA UnwiredStep ==
  ASSUME BackpackInv, routine = "begin", place \in 1 .. 9, Defaults \/ PinMode \/ DigitalWrite \/ WriteNibble \/ Drift
  PROVE  BackpackInv'
<1>0. ~Settled
  BY DEF Settled
<1>1. /\ place = 1 => Now.op = "defaults"
      /\ place \in {2} \cup 4 .. 9 => \E p \in Pins : Now = Output(p) /\ OutputAt(p) = place
      /\ place = 3 => Now = Clear(Backlight)
  BY <1>0, EarlyOperation DEF BackpackInv
<1>2. /\ UNCHANGED <<failed, intact, routine, wanted>> /\ Lines
      /\ inputs' \in SUBSET Pins /\ latches' \in SUBSET Pins /\ out' \in SUBSET Pins
      /\ \/ place' = place + 1 /\ stage' = 0
         \/ place' = place /\ stage' = stage /\ out' = out /\ inputs' = inputs
      /\ \A p \in inputs' : place' <= OutputAt(p)
  <2>1. CASE Defaults
    <3>1. place = 1
      BY <2>1, <1>1 DEF Defaults, Output, Clear, Operation
    <3>2. inputs' = Pins /\ latches' = {} /\ Lines /\ UNCHANGED <<failed, intact>> /\ Done
      BY <1>0, <2>1, EarlyWrite DEF Defaults
    <3>3. \A p \in Pins : 2 <= OutputAt(p)
      BY DEF OutputAt, Pins, Backlight, RS, Enable
    <3> QED
      BY <3>1, <3>2, <3>3 DEF Done
  <2>2. CASE PinMode
    <3>1. place \in {2} \cup 4 .. 9
      BY <2>2, <1>1 DEF PinMode, Clear, Operation
    <3>2. PICK p \in Pins : Now = Output(p) /\ OutputAt(p) = place
      BY <1>1, <3>1
    <3>3. stage = 1 /\ out = inputs
      BY <2>2, <3>1 DEF PinMode, BackpackInv, PinsInv
    <3>4. Changed = inputs \ {p}
      BY <3>2, <3>3 DEF Changed, Output, Operation
    <3>5. inputs' = inputs \ {p} /\ latches' = latches /\ Lines /\ UNCHANGED <<failed, intact>> /\ Done
      BY <1>0, <2>2, <3>4, EarlyWrite DEF PinMode
    <3>6. \A q \in inputs' : q \in Pins /\ place <= OutputAt(q) /\ OutputAt(q) # place
      BY <3>2, <3>5 DEF BackpackInv, BackpackTypeOK, PinsInv, OutputAt, Pins, Backlight, RS, Enable
    <3>7. \A q \in inputs' : place + 1 <= OutputAt(q)
      BY <3>6 DEF OutputAt, Pins
    <3> QED
      BY <3>5, <3>7 DEF Done, BackpackInv, BackpackTypeOK
  <2>3. CASE DigitalWrite
    <3>1. place = 3
      BY <2>3, <1>1 DEF DigitalWrite, Output, Operation
    <3>2. Changed \in SUBSET Pins
      BY <1>1, <3>1 DEF Changed, Clear, Operation, BackpackInv, BackpackTypeOK
    <3>3. inputs' = inputs /\ latches' = Changed /\ Lines /\ UNCHANGED <<failed, intact>> /\ Done
      BY <1>0, <2>3, EarlyWrite DEF DigitalWrite
    <3>4. \A p \in inputs : 4 <= OutputAt(p)
      <4>1. \A p \in inputs : p \in 1 .. 7 /\ 3 <= OutputAt(p)
        BY <3>1 DEF BackpackInv, BackpackTypeOK, PinsInv, Pins
      <4> QED
        BY <4>1 DEF OutputAt, Backlight, RS, Enable
    <3> QED
      BY <3>1, <3>2, <3>3, <3>4 DEF Done, BackpackInv, BackpackTypeOK
  <2>4. CASE WriteNibble
    BY <2>4, <1>1 DEF WriteNibble, Output, Clear, Operation
  <2>5. CASE Drift
    BY <2>5 DEF Drift, library, BackpackInv, BackpackTypeOK, PinsInv
  <2> QED
    BY <2>1, <2>2, <2>3, <2>4, <2>5
<1>3. intact /\ failed = 0 /\ slip = 0 /\ ~strayed
  BY <1>0 DEF BackpackInv, StageInv
<1>4. /\ enable' \in {LOW, HIGH} /\ width' \in {4, 8}
      /\ half' = {} \/ \E n \in Nibble : half' = {n}
      /\ width' = 8 => half' = {}
      /\ Enable \notin inputs' => (enable' = HIGH <=> Enable \in latches')
      /\ slip' = 0 /\ strayed' = strayed
  BY <1>0, <1>2, <1>3, LinesType DEF BackpackInv
<1>5. BackpackTypeOK'
  BY <1>2, <1>3, <1>4 DEF BackpackInv, BackpackTypeOK, Length
<1>6. ~Settled' /\ Busy' /\ SlipInv' /\ ByteInv' /\ (NibbleOp' <=> place' \in 12 .. 15) /\ (Wired' <=> place' > 9)
  BY <1>2, <1>3, <1>4, <1>5, StillEarly
<1>7. PinsInv'
  <2>1. routine' = "begin" /\ place' \in {2} \cup 4 .. 9 /\ stage' = 1 => out' = inputs'
    BY <1>2 DEF BackpackInv, PinsInv
  <2> QED
    BY <1>2, <1>4, <2>1 DEF PinsInv
<1>8. StageInv'
  <2>1. stage \in {0, 1} /\ (place = 1 => stage = 0)
    BY <1>0 DEF BackpackInv, StageInv, BackpackTypeOK, NibbleOp, Busy, Length
  <2> QED
    BY <1>2, <1>3, <1>4, <1>6, <2>1 DEF StageInv
<1>9. OutInv'
  BY <1>2, <1>6 DEF OutInv
<1>10. SyncInv'
  BY <1>2 DEF SyncInv
<1> QED
  BY <1>5, <1>6, <1>7, <1>8, <1>9, <1>10 DEF BackpackInv

\* The pins have been made outputs: RS and E are brought low.
LEMMA LowStep ==
  ASSUME BackpackInv, routine = "begin", place \in {10, 11}, Defaults \/ PinMode \/ DigitalWrite \/ WriteNibble
  PROVE  BackpackInv'
<1>0. ~Settled /\ inputs = {} /\ Wired
  BY DEF Settled, Wired, BackpackInv, BackpackTypeOK, PinsInv, OutputAt, Pins, Backlight, RS, Enable
<1>1. (place = 10 => Now = Clear(RS)) /\ (place = 11 => Now = Clear(Enable))
  BY <1>0, EarlyOperation DEF BackpackInv
<1>2. intact /\ failed = 0 /\ slip = 0 /\ ~strayed
  BY <1>0 DEF BackpackInv, StageInv
<1>3. DigitalWrite
  BY <1>1 DEF Defaults, PinMode, WriteNibble, Clear, Operation
<1>4. stage = 1 /\ out = latches
  BY <1>0, <1>2, <1>3 DEF DigitalWrite, BackpackInv, OutInv
<1>5. Changed = latches \ (IF place = 10 THEN {RS} ELSE {Enable})
  BY <1>1, <1>4 DEF Changed, Clear, Operation
<1>6. /\ inputs' = {} /\ latches' = latches \ (IF place = 10 THEN {RS} ELSE {Enable})
      /\ Lines /\ UNCHANGED <<failed, intact>> /\ Done
  BY <1>0, <1>3, <1>5, EarlyWrite DEF DigitalWrite
<1>7. /\ enable' \in {LOW, HIGH} /\ width' \in {4, 8}
      /\ half' = {} \/ \E n \in Nibble : half' = {n}
      /\ width' = 8 => half' = {}
      /\ Enable \notin inputs' => (enable' = HIGH <=> Enable \in latches')
      /\ slip' = 0 /\ strayed' = strayed
  BY <1>0, <1>2, <1>6, LinesType DEF BackpackInv
<1>8. routine' = "begin" /\ place' \in {11, 12} /\ place' = place + 1 /\ stage' = 0 /\ out' = {} /\ wanted' = wanted
  BY <1>6 DEF Done
<1>9. BackpackTypeOK'
  BY <1>2, <1>6, <1>7, <1>8 DEF BackpackInv, BackpackTypeOK, Length
<1>10. ~Settled' /\ Busy' /\ SlipInv' /\ ByteInv' /\ (NibbleOp' <=> place' \in 12 .. 15) /\ (Wired' <=> place' > 9)
  BY <1>2, <1>6, <1>7, <1>8, <1>9, StillEarly
<1>11. PinsInv'
  BY <1>6, <1>7, <1>8 DEF PinsInv
<1>12. StageInv'
  BY <1>2, <1>6, <1>7, <1>8, <1>10 DEF StageInv
<1>13. OutInv'
  BY <1>8 DEF OutInv
<1>14. SyncInv'
  <2>1. RS \notin latches'
    BY <1>6 DEF BackpackInv, SyncInv
  <2>2. place' = 12 => Enable \notin latches'
    BY <1>6, <1>8
  <2> QED
    BY <1>8, <2>1, <2>2 DEF SyncInv
<1> QED
  BY <1>9, <1>10, <1>11, <1>12, <1>13, <1>14 DEF BackpackInv

\* What write4bits puts on the pins: the nibble, with E low but in the second transfer.
LEMMA NibblePins ==
  ASSUME BackpackTypeOK, NEW n \in Nibble, Now = Operation("nibble", DataPins \cup {Enable}, n)
  PROVE  /\ Changed \in SUBSET Pins /\ Enable \notin Changed /\ Changed \cap DataPins = n
         /\ Changed \cap {RS} = out \cap {RS}
         /\ Enable \notin out /\ out \cap DataPins = n => Changed = out
         /\ Pulse(Changed, 1) = Changed /\ Pulse(Changed, 2) = Changed \cup {Enable} /\ Pulse(Changed, 3) = Changed
<1>1. Changed = (out \ (DataPins \cup {Enable})) \cup n
  BY DEF Changed, Operation
<1>2. n \subseteq DataPins /\ out \subseteq Pins /\ Enable \notin DataPins /\ RS \notin DataPins \cup {Enable}
      /\ DataPins \cup {Enable} \subseteq Pins
  BY DEF BackpackTypeOK, Nibble, DataPins, RS, Enable, Pins
<1>3. Pulse(Changed, 1) = Changed /\ Pulse(Changed, 2) = Changed \cup {Enable} /\ Pulse(Changed, 3) = Changed
  BY DEF Pulse
<1> QED
  BY <1>1, <1>2, <1>3

LEMMA SyncStep ==
  ASSUME BackpackInv, routine = "begin", place \in 12 .. 15, Defaults \/ PinMode \/ DigitalWrite \/ WriteNibble
  PROVE  BackpackInv'
<1>0. ~Settled /\ inputs = {} /\ Wired /\ NibbleOp
  BY DEF Settled, Wired, NibbleOp, BackpackInv, BackpackTypeOK, PinsInv, OutputAt, Pins, Backlight, RS, Enable
<1> DEFINE n == IF place = 15 THEN Two ELSE Three
<1>1. n \in Nibble /\ Now = Operation("nibble", DataPins \cup {Enable}, n)
  BY <1>0, EarlyOperation DEF BackpackInv, Write4Bits, Nibble, DataPins, Two, Three
<1>2. intact /\ failed = 0 /\ slip = 0 /\ ~strayed
  BY <1>0 DEF BackpackInv, StageInv
<1>3. WriteNibble /\ stage \in 1 .. 3
  BY <1>1 DEF Defaults, PinMode, DigitalWrite, WriteNibble, Operation, BackpackInv, BackpackTypeOK
<1>4. /\ Changed \in SUBSET Pins /\ Enable \notin Changed /\ Changed \cap DataPins = n
      /\ Changed \cap {RS} = out \cap {RS}
      /\ Enable \notin out /\ out \cap DataPins = n => Changed = out
      /\ Pulse(Changed, 1) = Changed /\ Pulse(Changed, 2) = Changed \cup {Enable} /\ Pulse(Changed, 3) = Changed
  BY <1>1, NibblePins DEF BackpackInv
<1>5. inputs' = {} /\ latches' = Pulse(Changed, stage) /\ Lines /\ UNCHANGED <<failed, intact>>
  BY <1>0, <1>3, EarlyWrite DEF WriteNibble
<1>6. /\ RS \notin latches /\ (stage < 2 => Enable \notin latches)
      /\ place = 13 => width = 8 \/ half = {} \/ half = {Three}
      /\ place = 14 => width = 8 \/ half = {Three}
      /\ place = 15 => width = 8
  BY DEF BackpackInv, SyncInv
<1>7. /\ stage = 1 => out = latches
      /\ stage > 1 => Enable \notin out /\ out \cap DataPins = n
      /\ stage = 2 => latches = out
      /\ stage = 3 => latches = out \cup {Enable}
  BY <1>0, <1>1, <1>2 DEF BackpackInv, OutInv, Operation
<1>8. stage > 1 => Changed = out
  BY <1>4, <1>7
<1>9. RS \notin Changed
  BY <1>3, <1>4, <1>6, <1>7 DEF RS, Enable
<1>l. latches' \in SUBSET Pins
  <2>1. latches' = Changed \/ latches' = Changed \cup {Enable}
    BY <1>3, <1>4, <1>5
  <2>2. Changed \subseteq Pins /\ Enable \in Pins
    BY <1>4 DEF Pins, Enable
  <2> QED
    BY <2>1, <2>2
<1>10. /\ enable' \in {LOW, HIGH} /\ (enable' = HIGH <=> Enable \in latches')
       /\ Enable \in latches /\ Enable \notin latches' =>
            \E rs \in SUBSET {RS}, m \in Nibble :
              /\ Latch(rs, m)
              /\ latches = latches' \cup {Enable} => rs = latches \cap {RS} /\ m = latches \cap DataPins
       /\ Enable \notin latches \/ Enable \in latches' => UNCHANGED <<width, half, last, slip, strayed>>
  BY <1>0, <1>5, <1>l, LinesFacts DEF BackpackInv
<1>11. CASE stage < 3
  <2>1. UNCHANGED <<width, half, last, slip, strayed>>
    <3>1. Enable \notin latches \/ Enable \in latches'
      BY <1>3, <1>4, <1>5, <1>6, <1>11
    <3> QED
      BY <1>10, <3>1
  <2>2. out' = Changed /\ stage' = stage + 1 /\ UNCHANGED <<routine, place, wanted>>
    BY <1>3, <1>11 DEF WriteNibble
  <2>3. BackpackTypeOK'
    BY <1>3, <1>4, <1>5, <1>l, <1>10, <1>11, <2>1, <2>2 DEF BackpackInv, BackpackTypeOK, Length
  <2>4. ~Settled' /\ Busy' /\ SlipInv' /\ ByteInv' /\ (NibbleOp' <=> place' \in 12 .. 15) /\ (Wired' <=> place' > 9)
    BY <1>2, <1>5, <2>1, <2>2, <2>3, StillEarly
  <2>5. PinsInv'
    BY <1>5, <1>10, <2>1, <2>2 DEF BackpackInv, PinsInv
  <2>6. StageInv'
    BY <1>2, <1>5, <2>1, <2>2, <2>4 DEF StageInv
  <2>7. OutInv'
    <3>1. Now' = Now
      BY <2>2 DEF Now
    <3>2. Now.on = n
      BY <1>1 DEF Operation
    <3>3. stage' \in {2, 3} /\ (stage' = 2 => stage = 1) /\ (stage' = 3 => stage = 2)
      BY <1>3, <1>11, <2>2
    <3>4. (stage' = 2 => latches' = Changed) /\ (stage' = 3 => latches' = Changed \cup {Enable})
      BY <1>4, <1>5, <3>3
    <3> QED
      BY <1>4, <2>2, <3>1, <3>2, <3>3, <3>4 DEF OutInv
  <2>8. SyncInv'
    <3>1. RS \notin latches'
      BY <1>3, <1>4, <1>5, <1>9 DEF RS, Enable
    <3> QED
      BY <1>3, <1>6, <1>11, <2>1, <2>2, <3>1 DEF SyncInv
  <2> QED
    BY <2>3, <2>4, <2>5, <2>6, <2>7, <2>8 DEF BackpackInv
<1>12. CASE stage = 3
  <2>1. latches' = Changed /\ Changed = out /\ latches = latches' \cup {Enable} /\ Enable \notin latches'
    BY <1>4, <1>5, <1>7, <1>8, <1>12
  <2>2. latches \cap {RS} = {} /\ latches \cap DataPins = n
    BY <1>4, <1>6, <2>1 DEF DataPins, Enable
  <2>3. Latch({}, n)
    BY <1>10, <2>1, <2>2
  <2>4. /\ width' \in {4, 8} /\ (half' = {} \/ half' = {n}) /\ (width' = 8 => half' = {})
        /\ slip' = IF Settled THEN slip + 1 ELSE 0
        /\ strayed' = (strayed \/ (Settled /\ width' = 8))
        /\ width = 8 /\ n # Two => width' = 8
        /\ width = 8 /\ n = Two => width' = 4
        /\ width = 8 => half' = {}
        /\ width = 4 /\ half = {} => width' = 4 /\ half' = {n}
        /\ width = 4 /\ half # {} => half' = {}
        /\ \A h \in Nibble : width = 4 /\ half = {h} => width' = IF h = Three THEN 8 ELSE 4
    BY <1>1, <2>3, LatchFacts DEF BackpackInv
  <2>5. slip' = 0 /\ ~strayed'
    BY <1>0, <1>2, <2>4
  <2>6. routine' = "begin" /\ place' = place + 1 /\ stage' = 0 /\ out' = {} /\ wanted' = wanted
    BY <1>3, <1>12 DEF WriteNibble, Done
  <2>7. BackpackTypeOK'
    BY <1>1, <1>2, <1>4, <1>5, <1>10, <2>1, <2>4, <2>5, <2>6 DEF BackpackInv, BackpackTypeOK, Length
  <2>8. PinsInv'
    BY <1>5, <1>10, <2>4, <2>6 DEF PinsInv
  <2>9. OutInv'
    BY <2>6 DEF OutInv
  <2>10. RS \notin latches' /\ Enable \notin latches'
    BY <1>9, <2>1
  <2>11. Three \in Nibble /\ Three # Two
    BY DEF Nibble, DataPins, Two, Three
  <2>12. width \in {4, 8} /\ (width = 8 => half = {}) /\ (half = {} \/ \E h \in Nibble : half = {h})
    BY DEF BackpackInv, BackpackTypeOK, PinsInv
  <2>13. CASE place < 15
    <3>1. n = Three
      BY <2>13
    <3>2. SyncInv'
      <4>1. CASE place = 12
        BY <2>4, <2>6, <2>10, <3>1, <4>1 DEF SyncInv
      <4>2. CASE place = 13
        BY <1>6, <2>4, <2>6, <2>10, <2>11, <2>12, <3>1, <4>2 DEF SyncInv
      <4>3. CASE place = 14
        BY <1>6, <2>4, <2>6, <2>10, <2>11, <2>12, <3>1, <4>3 DEF SyncInv
      <4> QED
        BY <2>13, <4>1, <4>2, <4>3
    <3>3. ~Settled' /\ Busy' /\ SlipInv' /\ ByteInv' /\ (NibbleOp' <=> place' \in 12 .. 15) /\ (Wired' <=> place' > 9)
      BY <1>2, <1>5, <2>5, <2>6, <2>7, <2>13, StillEarly
    <3>4. StageInv'
      BY <1>2, <1>5, <2>5, <2>6, <3>3 DEF StageInv
    <3> QED
      BY <2>7, <2>8, <2>9, <3>2, <3>3, <3>4 DEF BackpackInv
  <2>14. CASE place = 15
    <3>1. width' = 4 /\ half' = {}
      BY <1>6, <2>4, <2>12, <2>14
    <3>2. /\ Settled' /\ Wired' /\ Busy' /\ ~NibbleOp'
          /\ Part' = 1 /\ Due' = 0 /\ Pending' = 0 /\ SentNow' = 0
      <4>1. routine' = "begin" /\ place' = 16 /\ stage' = 0
        BY <2>6, <2>14
      <4>2. Settled' /\ Wired' /\ Busy' /\ Part' = 1
        BY <4>1 DEF Settled, Wired, Busy, Length, Part
      <4>3. ~NibbleOp'
        <5>1. Now'.op = "set"
          BY <2>7, <4>2, NextParts
        <5> QED
          BY <4>1, <5>1 DEF NibbleOp
      <4> QED
        BY <2>10, <4>1, <4>2, <4>3 DEF Due, Pending, SentNow
    <3>3. failed' = 0 /\ intact'
      BY <1>2, <1>5
    <3>4. SlipInv'
      BY <2>5, <2>6, <3>2, <3>3 DEF SlipInv
    <3>5. ByteInv'
      BY <2>5, <3>1, <3>2, <3>3 DEF ByteInv
    <3>6. StageInv'
      BY <2>5, <2>6, <3>2, <3>3 DEF StageInv
    <3>7. SyncInv'
      BY <2>6, <2>14 DEF SyncInv
    <3> QED
      BY <2>7, <2>8, <2>9, <3>4, <3>5, <3>6, <3>7 DEF BackpackInv
  <2> QED
    BY <2>13, <2>14
<1> QED
  BY <1>3, <1>11, <1>12
-----------------------------------------------------------------------------
(* Steps once the display is in step.                                      *)

LEMMA Odd ==
  ASSUME NEW x \in Int
  PROVE  /\ x % 2 \in {0, 1} /\ ((x + 1) % 2 = 0 <=> x % 2 # 0) /\ (x + 2) % 2 = x % 2
OBVIOUS

LEMMA SettledFacts ==
  ASSUME BackpackInv, Settled
  PROVE  /\ inputs = {} /\ Wired /\ Part \in 1 .. 3
         /\ ~Busy => Part = 1 /\ stage = 0
         /\ NibbleOp <=> Part > 1
         /\ Part = 1 => stage \in {0, 1} /\ Due = 0 /\ SentNow = 0
         /\ Part > 1 => Due = (IF stage > 0 THEN 1 ELSE 0) /\ SentNow = Part - 2 + Due
         /\ SentNow \in 0 .. 2 /\ Due \in {0, 1} /\ Pending \in {0, 1}
<1>1. inputs = {} /\ Wired
  BY DEF Settled, Wired, BackpackInv, BackpackTypeOK, PinsInv, OutputAt, Pins, Backlight, RS, Enable
<1>2. Part \in 1 .. 3 /\ (~Busy => Part = 1)
  BY DEF BackpackInv, BackpackTypeOK, Settled, Busy, Length, Part
<1>3. NibbleOp <=> Part > 1
  <2>1. ~(routine = "begin" /\ place \in 12 .. 15)
    BY DEF Settled
  <2>2. Busy => (Now.op = "nibble" <=> Part > 1)
    BY SettledParts DEF BackpackInv
  <2> QED
    BY <1>2, <2>1, <2>2 DEF NibbleOp
<1>4. (~Busy => stage = 0) /\ (Part = 1 => stage \in {0, 1})
  BY <1>3 DEF BackpackInv, StageInv
<1>5. stage \in 0 .. 3
  BY DEF BackpackInv, BackpackTypeOK
<1> QED
  BY <1>1, <1>2, <1>3, <1>4, <1>5 DEF Due, SentNow, Pending

\* The same parts in the next state.
LEMMA SettledAgain ==
  ASSUME BackpackTypeOK', Settled'
  PROVE  /\ Part' \in 1 .. 3 /\ Wired'
         /\ ~Busy' => Part' = 1
         /\ NibbleOp' <=> Part' > 1
         /\ Part' = 1 => Due' = 0 /\ SentNow' = 0
         /\ Part' > 1 => Due' = (IF stage' > 0 THEN 1 ELSE 0) /\ SentNow' = Part' - 2 + Due'
         /\ Part' > 1 => Now'.on = (Current[Part])'
<1>1. Part' \in 1 .. 3 /\ (~Busy' => Part' = 1) /\ Wired'
  BY DEF BackpackTypeOK, Settled, Busy, Length, Part, Wired
<1>2. NibbleOp' <=> Part' > 1
  <2>1. ~(routine' = "begin" /\ place' \in 12 .. 15)
    BY DEF Settled
  <2>2. Busy' => (Now'.op = "nibble" <=> Part' > 1)
    BY <1>1, NextParts
  <2> QED
    BY <1>1, <2>1, <2>2 DEF NibbleOp
<1>3. Part' > 1 => Now'.on = (Current[Part])'
  BY <1>1, NextParts
<1>4. Due' = IF Part' > 1 /\ stage' > 0 THEN 1 ELSE 0
  BY DEF Due
<1>5. SentNow' = IF Part' = 1 THEN 0 ELSE Part' - 2 + Due'
  BY DEF SentNow
<1>6. Part' = 1 => Due' = 0 /\ SentNow' = 0
  BY <1>4, <1>5
<1>7. Part' > 1 => Due' = (IF stage' > 0 THEN 1 ELSE 0)
  BY <1>4
<1>8. Part' > 1 => SentNow' = Part' - 2 + Due'
  BY <1>1, <1>5
<1> QED
  BY <1>1, <1>2, <1>3, <1>6, <1>7, <1>8

\* To the next part.
LEMMA NextPart ==
  ASSUME BackpackTypeOK, Settled, Busy, Done
  PROVE  /\ Settled' /\ routine' = routine /\ place' \in 1 .. Length' + 1
         /\ Part' = IF Part = 3 THEN 1 ELSE Part + 1
         /\ Part < 3 => Current' = Current
         /\ ~Busy' => Part = 3 /\ Current = wanted
<1>1. CASE routine = "send"
  BY <1>1 DEF BackpackTypeOK, Settled, Busy, Length, Done, Part, Current
<1>2. CASE routine = "begin"
  <2>1. place \in 16 .. 27 /\ routine' = "begin" /\ place' = place + 1 /\ wanted = EntryMode
    BY <1>2 DEF BackpackTypeOK, Settled, Busy, Length, Done
  <2>2. Settled' /\ place' \in 1 .. Length' + 1
    BY <2>1 DEF Settled, Length
  <2>3. Part' = IF Part = 3 THEN 1 ELSE Part + 1
    BY <1>2, <2>1 DEF Part
  <2>4. Part < 3 => Current' = Current
    BY <1>2, <2>1 DEF Part, Current
  <2>5. ~Busy' => Part = 3 /\ Current = wanted
    BY <1>2, <2>1 DEF Part, Current, Busy, Length
  <2> QED
    BY <1>2, <2>1, <2>2, <2>3, <2>4, <2>5
<1> QED
  BY <1>1, <1>2 DEF BackpackTypeOK

\* The type and the pins after any step that leaves the registers' directions alone.
LEMMA SettledPins ==
  ASSUME BackpackTypeOK', inputs' = {}, Settled', enable' = HIGH <=> Enable \in latches', width' = 8 => half' = {}
  PROVE  PinsInv' /\ SyncInv'
<1>1. ~(routine' = "begin" /\ place' <= 15)
  BY DEF Settled, BackpackTypeOK, Length
<1> QED
  BY <1>1 DEF PinsInv, SyncInv, BackpackTypeOK

LEMMA StillClean ==
  ASSUME BackpackTypeOK, intact' = intact \/ intact' = FALSE
  PROVE  intact' \in BOOLEAN /\ (intact' => intact)
<1>1. intact \in BOOLEAN
  BY DEF BackpackTypeOK
<1>2. CASE intact' = intact
  BY <1>1, <1>2
<1>3. CASE intact' = FALSE
  BY <1>3
<1> QED
  BY <1>2, <1>3

LEMMA SettledRead ==
  ASSUME BackpackInv, Settled, ReadPort
  PROVE  BackpackInv'
<1> USE DEF BackpackInv
<1>1. /\ inputs = {} /\ Wired /\ Part \in 1 .. 3
      /\ Part = 1 => Due = 0 /\ SentNow = 0
      /\ Part > 1 => Due = (IF stage > 0 THEN 1 ELSE 0) /\ SentNow = Part - 2 + Due
      /\ SentNow \in 0 .. 2 /\ Due \in {0, 1} /\ Pending \in {0, 1}
  BY SettledFacts
<1>2. Busy /\ stage = 0 /\ stage' = 1
      /\ UNCHANGED <<inputs, latches, enable, width, half, last, strayed, routine, place, wanted>>
  BY DEF ReadPort
<1>3. (Part = 1 => Now.op = "set") /\ (Part > 1 => Now.op = "nibble")
  BY <1>2, SettledParts
<1>4. slip' = IF Part > 1 THEN slip - 1 ELSE slip
  BY <1>1, <1>3 DEF ReadPort
<1>5. \/ failed' = failed /\ intact' = intact /\ out' = latches
      \/ failed' = failed + 1 /\ intact' = FALSE /\ out' = Pins
  <2>1. CASE Works /\ out' \in Readable
    <3>1. out' \in {g \cup (latches \ inputs) : g \in SUBSET inputs}
      BY <1>1, <1>3, <2>1 DEF Readable
    <3> QED
      BY <1>1, <2>1, <3>1 DEF Works
  <2>2. CASE Fails /\ out' = Pins
    BY <2>2 DEF Fails
  <2> QED
    BY <2>1, <2>2 DEF ReadPort
<1>t. intact' \in BOOLEAN /\ (intact' => intact)
  <2>1. intact' = intact \/ intact' = FALSE
    BY <1>5
  <2> QED
    BY <2>1, StillClean
<1>f. failed' \in Nat /\ (failed' = 0 => failed = 0 /\ intact' = intact)
  BY <1>5 DEF BackpackTypeOK
<1>o. out' \in SUBSET Pins /\ slip' \in Int
  BY <1>4, <1>5 DEF BackpackTypeOK
<1>6. BackpackTypeOK'
  BY <1>2, <1>t, <1>f, <1>o DEF BackpackTypeOK, Length
<1>7. Settled' /\ Part' = Part /\ Current' = Current /\ Busy'
  BY <1>2 DEF Settled, Part, Current, Busy, Length
<1>8. PinsInv' /\ SyncInv'
  BY <1>1, <1>2, <1>6, <1>7, SettledPins DEF PinsInv
<1>9. StageInv'
  <2>1. failed' = 0 => intact' /\ ~strayed'
    BY <1>2, <1>f DEF StageInv
  <2>2. ~(routine' = "begin" /\ place' = 1)
    BY <1>7 DEF Settled
  <2> QED
    BY <1>2, <1>7, <2>1, <2>2 DEF StageInv
<1>10. OutInv'
  BY <1>2, <1>5 DEF OutInv
<1>11. Due' = (IF Part > 1 THEN 1 ELSE 0) /\ Due = 0 /\ SentNow' = SentNow + Due'
  BY <1>1, <1>2, <1>6, <1>7, SettledAgain
<1>12. SlipInv'
  <2>1. slip' + Due' = slip + Due
    BY <1>1, <1>4, <1>11 DEF BackpackTypeOK
  <2>2. slip + Due >= -failed /\ slip + Due + Pending <= failed
    BY <1>2 DEF SlipInv
  <2>3. slip' + Due' >= -failed' /\ slip' + Due' + Pending' <= failed'
    <3>1. CASE failed' = failed /\ out' = latches
      <4>1. Pending' <= Pending /\ Pending' \in {0, 1}
        BY <1>2, <3>1 DEF Pending
      <4> QED
        BY <1>1, <1>11, <2>1, <2>2, <3>1, <4>1 DEF BackpackTypeOK
    <3>2. CASE failed' = failed + 1
      <4>1. Pending' \in {0, 1}
        BY DEF Pending
      <4> QED
        BY <1>1, <1>11, <2>1, <2>2, <3>2, <4>1 DEF BackpackTypeOK
    <3> QED
      BY <1>5, <3>1, <3>2
  <2> QED
    BY <1>2, <2>3 DEF SlipInv
<1>13. ByteInv'
  <2>1. slip' + SentNow' = slip + SentNow
    BY <1>1, <1>4, <1>11 DEF BackpackTypeOK
  <2>2. intact' => intact
    BY <1>5
  <2> QED
    BY <1>2, <1>7, <2>1, <2>2 DEF ByteInv
<1> QED
  BY <1>6, <1>8, <1>9, <1>10, <1>12, <1>13

\* A write that works or fails.
LEMMA SettledWrite ==
  ASSUME BackpackInv, Settled, NEW olat \in SUBSET Pins, WritePort(inputs, olat)
  PROVE  /\ inputs = {} /\ inputs' = {} /\ latches' \in SUBSET Pins
         /\ enable' \in {LOW, HIGH} /\ (enable' = HIGH <=> Enable \in latches')
         /\ intact' \in BOOLEAN /\ (intact' => intact) /\ failed' \in Nat /\ (failed' = 0 => failed = 0)
         /\ \/ failed' = failed /\ intact' = intact /\ latches' = olat /\ Lines
            \/ /\ failed' = failed + 1 /\ intact' = FALSE /\ latches' = latches
               /\ UNCHANGED <<width, half, last, slip, strayed>>
<1> USE DEF BackpackInv
<1>1. inputs = {}
  BY SettledFacts
<1>2. CASE Works /\ inputs' = inputs /\ latches' = olat /\ Lines
  <2>1. failed' = failed /\ intact' = intact
    BY <1>2 DEF Works
  <2>2. intact' \in BOOLEAN /\ (intact' => intact)
    BY <2>1, StillClean
  <2>3. enable' \in {LOW, HIGH} /\ (enable' = HIGH <=> Enable \in latches')
    BY <1>1, <1>2, LinesFacts
  <2> QED
    BY <1>1, <1>2, <2>1, <2>2, <2>3 DEF BackpackTypeOK
<1>3. CASE Fails /\ UNCHANGED <<inputs, latches>> /\ UNCHANGED display
  <2>1. failed' = failed + 1 /\ intact' = FALSE
    BY <1>3 DEF Fails
  <2>2. UNCHANGED <<inputs, latches, enable, width, half, last, slip, strayed>>
    BY <1>3 DEF display
  <2>3. intact' \in BOOLEAN /\ (intact' => intact)
    BY <2>1, StillClean
  <2>4. enable' \in {LOW, HIGH} /\ (enable' = HIGH <=> Enable \in latches')
    BY <1>1, <2>2 DEF BackpackTypeOK, PinsInv
  <2>5. latches' \in SUBSET Pins /\ failed' \in Nat /\ failed' # 0
    BY <2>1, <2>2 DEF BackpackTypeOK
  <2> QED
    BY <1>1, <2>1, <2>2, <2>3, <2>4, <2>5
<1> QED
  BY <1>2, <1>3 DEF WritePort

\* The register select line is set. E stays, or rises after a read that failed.
LEMMA SettledSet ==
  ASSUME BackpackInv, Settled, DigitalWrite
  PROVE  BackpackInv'
<1> USE DEF BackpackInv
<1>1. /\ Wired /\ Part \in 1 .. 3
      /\ Part = 1 => Due = 0 /\ SentNow = 0
      /\ Pending \in {0, 1}
  BY SettledFacts
<1>2. Busy /\ stage = 1 /\ Now.op = "set" /\ WritePort(inputs, Changed) /\ Done
  BY DEF DigitalWrite
<1>3. Part = 1 /\ Now = Operation("set", {RS}, Current[1])
  BY <1>1, <1>2, SettledParts, SettledOperation
<1>4. Changed = (out \ {RS}) \cup Current[1] /\ Current[1] \in SUBSET {RS}
  BY <1>3, CurrentByte DEF Changed, Operation, Byte
<1>5. Changed \in SUBSET Pins /\ Changed \cap {RS} = Current[1] /\ (Enable \in Changed <=> Enable \in out)
  <2>1. out \subseteq Pins /\ RS \in Pins /\ RS # Enable
    BY DEF BackpackTypeOK, RS, Enable, Pins
  <2> QED
    BY <1>4, <2>1
<1>6. out = latches \/ (out = Pins /\ ~intact)
  BY <1>1, <1>2 DEF OutInv
<1>7. Enable \in latches => Enable \in out
  BY <1>6 DEF BackpackTypeOK
<1>8. /\ inputs = {} /\ inputs' = {} /\ latches' \in SUBSET Pins
      /\ enable' \in {LOW, HIGH} /\ (enable' = HIGH <=> Enable \in latches')
      /\ intact' \in BOOLEAN /\ (intact' => intact) /\ failed' \in Nat /\ (failed' = 0 => failed = 0)
      /\ \/ failed' = failed /\ intact' = intact /\ latches' = Changed /\ Lines
         \/ /\ failed' = failed + 1 /\ intact' = FALSE /\ latches' = latches
            /\ UNCHANGED <<width, half, last, slip, strayed>>
  BY <1>2, <1>5, SettledWrite
<1>9. UNCHANGED <<width, half, last, slip, strayed>>
  <2>1. CASE latches' = Changed /\ Lines
    BY <1>5, <1>7, <1>8, <2>1, LinesFacts
  <2> QED
    BY <1>8, <2>1
<1>10. /\ Settled' /\ routine' = routine /\ place' \in 1 .. Length' + 1
       /\ Part' = 2 /\ Current' = Current /\ (Busy' \/ Part = 3)
  BY <1>2, <1>3, NextPart
<1>11. stage' = 0 /\ out' = {} /\ wanted' = wanted
  BY <1>2 DEF Done
<1>12. BackpackTypeOK'
  BY <1>8, <1>9, <1>10, <1>11 DEF BackpackTypeOK
<1>13. PinsInv' /\ SyncInv'
  BY <1>8, <1>9, <1>10, <1>12, SettledPins DEF PinsInv
<1>14. Due' = 0 /\ SentNow' = 0
  BY <1>10, <1>11, <1>12, SettledAgain
<1>15. StageInv'
  BY <1>8, <1>9, <1>10, <1>11 DEF StageInv
<1>16. OutInv'
  BY <1>11 DEF OutInv
<1>17. SlipInv'
  <2>1. slip + Due >= -failed /\ slip + Due + Pending <= failed
    BY <1>2 DEF SlipInv
  <2>2. Pending' = IF Enable \in latches' THEN 1 ELSE 0
    BY <1>11 DEF Pending
  <2>3. Pending = IF Enable \in out THEN 1 ELSE 0
    BY <1>2, <1>3, <1>7 DEF Pending
  <2>4. failed \in Nat /\ (failed' = failed \/ failed' = failed + 1)
    BY <1>8 DEF BackpackTypeOK
  <2>5. Pending' <= Pending
    BY <1>5, <1>7, <1>8, <2>2, <2>3
  <2>6. slip + Due' >= -failed' /\ slip + Due' + Pending' <= failed'
    <3>1. slip \in Int /\ Due = 0 /\ Due' = 0 /\ Pending \in Int /\ Pending' \in Int
      BY <1>1, <1>3, <1>14, <2>2 DEF BackpackTypeOK
    <3> QED
      BY <2>1, <2>4, <2>5, <3>1
  <2> QED
    BY <1>9, <1>11, <2>6 DEF SlipInv
<1>18. ByteInv'
  <2>1. slip' + SentNow' = slip + SentNow
    BY <1>1, <1>3, <1>9, <1>14
  <2>2. intact' => latches' \cap {RS} = Current[1]
    BY <1>5, <1>8
  <2> QED
    BY <1>3, <1>9, <1>10, <2>1, <2>2 DEF ByteInv
<1> QED
  BY <1>12, <1>13, <1>15, <1>16, <1>17, <1>18

\* The three writes of a nibble: what they have in common.
LEMMA NibbleWrite ==
  ASSUME BackpackInv, Settled, WriteNibble
  PROVE  /\ Busy /\ Part \in 2 .. 3 /\ stage \in 1 .. 3 /\ Current[Part] \in Nibble
         /\ Due = 1 /\ SentNow = Part - 1 /\ Pending \in {0, 1}
         /\ (Pending = 1 <=> Enable \in latches)
         /\ Changed \in SUBSET Pins /\ Enable \notin Changed /\ Changed \cap DataPins = Current[Part]
         /\ Changed \cap {RS} = out \cap {RS}
         /\ stage = 1 => out = latches \/ (out = Pins /\ ~intact)
         /\ stage > 1 => Changed = out
         /\ stage = 2 /\ intact => latches = out
         /\ stage = 3 /\ intact => latches = out \cup {Enable}
         /\ intact => out \cap {RS} = Current[1]
         /\ WritePort(inputs, IF stage = 2 THEN Changed \cup {Enable} ELSE Changed)
<1> USE DEF BackpackInv
<1>1. Busy /\ Now.op = "nibble" /\ stage > 0 /\ WritePort(inputs, Pulse(Changed, stage))
  BY DEF WriteNibble
<1>2. Part \in 2 .. 3 /\ Now = Operation("nibble", DataPins \cup {Enable}, Current[Part])
  BY <1>1, SettledParts, SettledOperation
<1>3. Current[Part] \in Nibble
  BY <1>2, CurrentByte DEF Byte
<1>4. /\ Wired /\ NibbleOp /\ Due = 1 /\ SentNow = Part - 1 /\ Pending \in {0, 1}
  BY <1>1, <1>2, SettledFacts
<1>5. stage \in 1 .. 3
  BY <1>1 DEF BackpackTypeOK
<1>6. Pending = 1 <=> Enable \in latches
  BY <1>2 DEF Pending
<1>7. /\ Changed \in SUBSET Pins /\ Enable \notin Changed /\ Changed \cap DataPins = Current[Part]
      /\ Changed \cap {RS} = out \cap {RS}
      /\ Enable \notin out /\ out \cap DataPins = Current[Part] => Changed = out
      /\ Pulse(Changed, 1) = Changed /\ Pulse(Changed, 2) = Changed \cup {Enable} /\ Pulse(Changed, 3) = Changed
  BY <1>2, <1>3, NibblePins
<1>8. /\ stage = 1 => out = latches \/ (out = Pins /\ ~intact)
      /\ stage > 1 => Enable \notin out /\ out \cap DataPins = Current[Part]
      /\ stage = 2 /\ intact => latches = out
      /\ stage = 3 /\ intact => latches = out \cup {Enable}
  BY <1>2, <1>4 DEF OutInv, Operation
<1>9. intact => out \cap {RS} = Current[1]
  <2>1. intact => latches \cap {RS} = Current[1]
    BY <1>2 DEF ByteInv
  <2> QED
    BY <1>5, <1>8, <2>1 DEF RS, Enable
<1>10. Pulse(Changed, stage) = IF stage = 2 THEN Changed \cup {Enable} ELSE Changed
  BY <1>5, <1>7
<1> QED
  BY <1>1, <1>2, <1>3, <1>4, <1>5, <1>6, <1>7, <1>8, <1>9, <1>10

\* What one more nibble does to a display in step.
LEMMA DisplayTakes ==
  ASSUME BackpackInv, Settled, NEW rs \in SUBSET {RS}, NEW n \in Nibble, Latch(rs, n)
  PROVE  /\ width' \in {4, 8} /\ (half' = {} \/ half' = {n}) /\ (width' = 8 => half' = {})
         /\ slip' = slip + 1 /\ strayed' \in BOOLEAN
         /\ ~strayed' => /\ ~strayed /\ width = 4 /\ width' = 4
                         /\ (half' = {} <=> half # {})
                         /\ half = {} => half' = {n}
         /\ ~strayed /\ half = {} => ~strayed'
         /\ \A h \in Nibble : ~strayed /\ half = {h} /\ ~(rs = {} /\ h = Three) => ~strayed'
         /\ \A h \in Nibble : ~strayed' /\ half = {h} => last' = <<rs, h, n>>
<1> USE DEF BackpackInv
<1>1. /\ width' \in {4, 8} /\ (half' = {} \/ half' = {n}) /\ (width' = 8 => half' = {})
      /\ slip' = slip + 1
      /\ width = 4 /\ half = {} => width' = 4 /\ half' = {n}
      /\ width = 4 /\ half # {} => half' = {}
      /\ \A h \in Nibble : width = 4 /\ half = {h} =>
           /\ width' = IF rs = {} /\ h = Three THEN 8 ELSE 4
           /\ last' = <<rs, h, n>>
  BY LatchFacts
<1>2. strayed' = (strayed \/ width' = 8)
  BY LatchFacts
<1>3. strayed' \in BOOLEAN /\ (strayed' <=> (strayed \/ width' = 8))
  BY <1>2, Zenon
<1>4. ~strayed => width = 4
  BY DEF ByteInv
<1> QED
  BY <1>1, <1>3, <1>4

\* The first write brings E low, and with it the second one high.
LEMMA SettledPulse ==
  ASSUME BackpackInv, Settled, WriteNibble, stage < 3
  PROVE  BackpackInv'
<1> USE DEF BackpackInv
<1> DEFINE olat == IF stage = 2 THEN Changed \cup {Enable} ELSE Changed
<1>1. /\ Busy /\ Part \in 2 .. 3 /\ stage \in 1 .. 2 /\ Current[Part] \in Nibble
      /\ Due = 1 /\ SentNow = Part - 1 /\ Pending \in {0, 1}
      /\ Pending = 1 <=> Enable \in latches
      /\ Changed \in SUBSET Pins /\ Enable \notin Changed /\ Changed \cap DataPins = Current[Part]
      /\ Changed \cap {RS} = out \cap {RS}
      /\ stage = 1 => out = latches \/ (out = Pins /\ ~intact)
      /\ stage > 1 => Changed = out
      /\ stage = 2 /\ intact => latches = out
      /\ intact => out \cap {RS} = Current[1]
      /\ WritePort(inputs, olat)
  BY NibbleWrite DEF BackpackTypeOK
<1>2. out' = Changed /\ stage' = stage + 1 /\ UNCHANGED <<routine, place, wanted>>
  BY <1>1 DEF WriteNibble
<1>3. olat \in SUBSET Pins
  <2>1. Enable \in Pins
    BY DEF Enable, Pins
  <2> QED
    BY <1>1, <2>1
<1> HIDE DEF olat
<1>4. /\ inputs = {} /\ inputs' = {} /\ latches' \in SUBSET Pins
      /\ enable' \in {LOW, HIGH} /\ (enable' = HIGH <=> Enable \in latches')
      /\ intact' \in BOOLEAN /\ (intact' => intact) /\ failed' \in Nat /\ (failed' = 0 => failed = 0)
      /\ \/ failed' = failed /\ intact' = intact /\ latches' = olat /\ Lines
         \/ /\ failed' = failed + 1 /\ intact' = FALSE /\ latches' = latches
            /\ UNCHANGED <<width, half, last, slip, strayed>>
  BY <1>1, <1>3, SettledWrite
<1>5. Settled' /\ Part' = Part /\ Current' = Current /\ Busy' /\ Now' = Now
  BY <1>1, <1>2 DEF Settled, Part, Current, Busy, Length, Now
<1>6. /\ slip \in Int /\ failed \in Nat
      /\ slip + 1 >= -failed /\ slip + 1 + Pending <= failed
      /\ ~strayed => width = 4 /\ (half = {} <=> (slip + SentNow) % 2 = 0)
      /\ intact /\ Part = 3 /\ stage < 2 => Enable \notin latches
      /\ intact /\ Part = 3 => half = {} \/ half = {Current[2]}
      /\ failed = 0 => intact /\ ~strayed
  BY <1>1 DEF BackpackTypeOK, SlipInv, ByteInv, StageInv
<1> DEFINE falls == failed' = failed /\ latches' = olat /\ Enable \in latches /\ Enable \notin olat
<1>7. CASE falls
  <2>1. stage = 1 /\ Pending = 1 /\ intact' = intact /\ Lines /\ latches' = Changed
    BY <1>1, <1>4, <1>6, <1>7 DEF olat
  <2>2. PICK rs \in SUBSET {RS}, n \in Nibble : Latch(rs, n)
    BY <1>4, <1>7, <2>1, LinesFacts
  <2>3. /\ width' \in {4, 8} /\ (half' = {} \/ half' = {n}) /\ (width' = 8 => half' = {})
        /\ slip' = slip + 1 /\ strayed' \in BOOLEAN
        /\ ~strayed' => ~strayed /\ width' = 4 /\ (half' = {} <=> half # {})
    BY <2>2, DisplayTakes
  <2>4. failed # 0
    BY <1>6, <2>1
  <2>5. intact => Part # 3
    BY <1>6, <1>7, <2>1
  <2>6. BackpackTypeOK'
    BY <1>1, <1>2, <1>4, <1>6, <2>1, <2>3 DEF BackpackTypeOK, Length
  <2>7. PinsInv' /\ SyncInv'
    BY <1>4, <1>5, <2>3, <2>6, SettledPins
  <2>8. Due' = 1 /\ SentNow' = SentNow /\ (NibbleOp' <=> Part' > 1)
    BY <1>1, <1>2, <1>5, <2>1, <2>6, SettledAgain
  <2>9. StageInv'
    <3>1. ~(routine' = "begin" /\ place' = 1)
      BY <1>5 DEF Settled
    <3> QED
      BY <1>1, <1>5, <1>7, <2>4, <2>8, <3>1 DEF StageInv
  <2>10. OutInv'
    BY <1>1, <1>2, <1>5, <1>6, <2>1, SettledParts DEF OutInv
  <2>11. SlipInv'
    <3>1. Pending' = 0
      BY <1>1, <1>5, <2>1 DEF Pending
    <3>2. slip' + Due' >= -failed' /\ slip' + Due' + Pending' <= failed'
      BY <1>6, <1>7, <2>1, <2>3, <2>8, <3>1
    <3> QED
      BY <1>2, <2>1, <3>2 DEF SlipInv
  <2>12. ByteInv'
    <3>1. ~strayed' => width' = 4 /\ (half' = {} <=> (slip' + SentNow') % 2 = 0)
      <4>1. slip + SentNow \in Int /\ slip' + SentNow' = (slip + SentNow) + 1
        BY <1>1, <1>6, <2>3, <2>8
      <4>2. ((slip + SentNow) + 1) % 2 = 0 <=> (slip + SentNow) % 2 # 0
        BY <4>1, Odd
      <4> QED
        BY <1>6, <2>3, <4>1, <4>2
    <3>2. intact' => latches' \cap {RS} = Current[1]
      BY <1>1, <2>1
    <3> QED
      BY <1>2, <1>5, <2>1, <2>5, <3>1, <3>2 DEF ByteInv
  <2> QED
    BY <2>6, <2>7, <2>9, <2>10, <2>11, <2>12
<1>8. CASE ~falls
  <2>1. UNCHANGED <<width, half, last, slip, strayed>>
    <3>1. CASE latches' = olat /\ Lines /\ failed' = failed
      BY <1>4, <1>8, <3>1, LinesFacts
    <3> QED
      BY <1>4, <3>1
  <2>2. failed' = failed \/ failed' = failed + 1
    BY <1>4
  <2>3. BackpackTypeOK'
    BY <1>1, <1>2, <1>4, <2>1 DEF BackpackTypeOK, Length
  <2>4. PinsInv' /\ SyncInv'
    BY <1>4, <1>5, <2>1, <2>3, SettledPins DEF PinsInv
  <2>5. Due' = 1 /\ SentNow' = SentNow /\ (NibbleOp' <=> Part' > 1)
    BY <1>1, <1>2, <1>5, <2>3, SettledAgain
  <2>6. StageInv'
    <3>1. ~(routine' = "begin" /\ place' = 1)
      BY <1>5 DEF Settled
    <3>2. failed' = 0 => intact' /\ ~strayed'
      BY <1>4, <1>6, <2>1
    <3> QED
      BY <1>1, <1>5, <2>5, <3>1, <3>2 DEF StageInv
  <2>7. intact' => latches' = olat /\ intact
    BY <1>4
  <2>8. OutInv'
    BY <1>1, <1>2, <1>5, <1>6, <2>7, SettledParts DEF OutInv, olat
  <2>9. SlipInv'
    <3>1. stage' = 2 => /\ slip' + Due' >= -failed' /\ slip' + Due' + Pending' <= failed'
      <4>1. ASSUME stage' = 2 PROVE Pending' = 0 \/ Pending' = Pending
        <5>1. stage = 1 /\ olat = Changed
          BY <1>1, <1>2, <4>1 DEF olat
        <5>2. Enable \in latches' => Enable \in latches
          BY <1>1, <1>4, <5>1
        <5> QED
          BY <1>1, <1>5, <5>2 DEF Pending
      <4> QED
        BY <1>1, <1>6, <2>1, <2>2, <2>5, <4>1
    <3>2. stage' = 3 => /\ Enable \in latches' => slip' + 1 >= -failed' /\ slip' + 1 <= failed'
                        /\ Enable \notin latches' => slip' >= -failed' /\ slip' <= failed'
      <4>1. slip + 1 >= -failed /\ slip + 1 <= failed
        BY <1>1, <1>6
      <4>2. ASSUME stage' = 3, Enable \notin latches' PROVE failed' = failed + 1
        <5>1. stage = 2 /\ olat = Changed \cup {Enable}
          BY <1>1, <1>2, <4>2 DEF olat
        <5> QED
          BY <1>4, <4>2, <5>1
      <4> QED
        BY <1>6, <2>1, <2>2, <4>1, <4>2
    <3>3. stage' \in {2, 3}
      BY <1>1, <1>2
    <3> QED
      BY <3>1, <3>2, <3>3 DEF SlipInv
  <2>10. ByteInv'
    <3>1. slip' + SentNow' = slip + SentNow
      BY <2>1, <2>5
    <3>2. intact' => latches' \cap {RS} = Current[1]
      BY <1>1, <2>7 DEF olat, RS, Enable
    <3>3. ~(stage' < 2)
      BY <1>1, <1>2
    <3> QED
      BY <1>5, <1>6, <2>1, <2>7, <3>1, <3>2, <3>3 DEF ByteInv
  <2> QED
    BY <2>3, <2>4, <2>6, <2>8, <2>9, <2>10
<1> QED
  BY <1>7, <1>8

\* The third write: the display takes the nibble, unless E had not risen.
LEMMA SettledLastWrite ==
  ASSUME BackpackInv, Settled, WriteNibble, stage = 3
  PROVE  BackpackInv'
<1> USE DEF BackpackInv
<1>1. /\ Busy /\ Part \in 2 .. 3 /\ Current[Part] \in Nibble
      /\ Due = 1 /\ SentNow = Part - 1
      /\ Changed \in SUBSET Pins /\ Enable \notin Changed /\ Changed \cap DataPins = Current[Part]
      /\ Changed = out
      /\ intact => latches = Changed \cup {Enable}
      /\ intact => Changed \cap {RS} = Current[1]
      /\ WritePort(inputs, Changed)
  BY NibbleWrite
<1>2. Done
  BY DEF WriteNibble
<1>3. stage' = 0 /\ out' = {} /\ wanted' = wanted
  BY <1>2 DEF Done
<1>4. /\ inputs = {} /\ inputs' = {} /\ latches' \in SUBSET Pins
      /\ enable' \in {LOW, HIGH} /\ (enable' = HIGH <=> Enable \in latches')
      /\ intact' \in BOOLEAN /\ (intact' => intact) /\ failed' \in Nat /\ (failed' = 0 => failed = 0)
      /\ \/ failed' = failed /\ intact' = intact /\ latches' = Changed /\ Lines
         \/ /\ failed' = failed + 1 /\ intact' = FALSE /\ latches' = latches
            /\ UNCHANGED <<width, half, last, slip, strayed>>
  BY <1>1, SettledWrite
<1>5. /\ Settled' /\ routine' = routine /\ place' \in 1 .. Length' + 1
      /\ Part' = IF Part = 3 THEN 1 ELSE Part + 1
      /\ Part < 3 => Current' = Current
      /\ ~Busy' => Part = 3 /\ Current = wanted
  BY <1>1, <1>2, NextPart
<1>6. /\ slip \in Int /\ failed \in Nat
      /\ Enable \in latches => slip + 1 >= -failed /\ slip + 1 <= failed
      /\ Enable \notin latches => slip >= -failed /\ slip <= failed
      /\ ~strayed => width = 4 /\ (half = {} <=> (slip + SentNow) % 2 = 0)
      /\ intact /\ Part = 3 => half = {} \/ half = {Current[2]}
      /\ intact => latches \cap {RS} = Current[1]
      /\ failed = 0 => intact /\ ~strayed
  BY <1>1 DEF BackpackTypeOK, SlipInv, ByteInv, StageInv
<1>7. Current[1] \in SUBSET {RS} /\ Current[2] \in Nibble /\ Current = <<Current[1], Current[2], Current[3]>>
      /\ (Current[1] = {} => Current[2] # Three)
  BY CurrentByte DEF Byte
<1>8. ASSUME BackpackTypeOK'
      PROVE  /\ Due' = 0 /\ SentNow' = (IF Part = 3 THEN 0 ELSE 1)
             /\ Pending' = (IF Enable \in latches' THEN 1 ELSE 0)
  <2>1. Due' = 0
    BY <1>3 DEF Due
  <2>2. SentNow' = IF Part = 3 THEN 0 ELSE 1
    BY <1>1, <1>5, <2>1, <1>8, SettledAgain
  <2>3. Pending' = IF Enable \in latches' THEN 1 ELSE 0
    BY <1>3 DEF Pending
  <2> QED
    BY <2>1, <2>2, <2>3
<1>9. \A x \in Int : /\ (x + SentNow) % 2 = 0 <=> (x + (IF Part = 3 THEN 0 ELSE 1)) % 2 = 0
  <2>1. ASSUME NEW x \in Int
        PROVE  (x + SentNow) % 2 = 0 <=> (x + (IF Part = 3 THEN 0 ELSE 1)) % 2 = 0
    <3>1. (x + 2) % 2 = x % 2
      BY Odd
    <3> QED
      BY <1>1, <3>1
  <2> QED
    BY <2>1
<1>10. OutInv'
  BY <1>3 DEF OutInv
<1> DEFINE falls == failed' = failed /\ intact' = intact /\ latches' = Changed /\ Enable \in latches
<1>11. CASE falls
  <2>1. Lines
    BY <1>4, <1>6, <1>11
  <2>2. PICK rs \in SUBSET {RS}, n \in Nibble :
          /\ Latch(rs, n)
          /\ latches = latches' \cup {Enable} => rs = latches \cap {RS} /\ n = latches \cap DataPins
    BY <1>1, <1>4, <1>11, <2>1, LinesFacts
  <2>3. /\ width' \in {4, 8} /\ (half' = {} \/ half' = {n}) /\ (width' = 8 => half' = {})
        /\ slip' = slip + 1 /\ strayed' \in BOOLEAN
        /\ ~strayed' => /\ ~strayed /\ width = 4 /\ width' = 4
                        /\ (half' = {} <=> half # {})
                        /\ half = {} => half' = {n}
        /\ ~strayed /\ half = {} => ~strayed'
        /\ \A h \in Nibble : ~strayed /\ half = {h} /\ ~(rs = {} /\ h = Three) => ~strayed'
        /\ \A h \in Nibble : ~strayed' /\ half = {h} => last' = <<rs, h, n>>
    BY <2>2, DisplayTakes
  <2>4. intact => rs = Current[1] /\ n = Current[Part]
    <3>1. Enable \notin DataPins
      BY DEF Enable, DataPins
    <3> QED
      BY <1>1, <1>6, <1>11, <2>2, <3>1
  <2>5. failed = 0 => ~strayed'
    <3> SUFFICES ASSUME failed = 0
                 PROVE  ~strayed'
      OBVIOUS
    <3>1. intact /\ ~strayed /\ slip = -1
      BY <1>6, <1>11
    <3>2. CASE Part = 2
      <4>1. slip + SentNow = 0
        BY <1>1, <3>1, <3>2
      <4> QED
        BY <1>6, <2>3, <3>1, <4>1, Odd
    <3>3. CASE Part = 3
      <4>1. half = {} \/ half = {Current[2]}
        BY <1>6, <3>1, <3>3
      <4> QED
        BY <1>7, <2>3, <2>4, <3>1, <4>1
    <3> QED
      BY <1>1, <3>2, <3>3
  <2>6. BackpackTypeOK'
    BY <1>1, <1>3, <1>4, <1>5, <1>6, <2>3 DEF BackpackTypeOK
  <2>7. PinsInv' /\ SyncInv'
    BY <1>4, <1>5, <2>3, <2>6, SettledPins
  <2>8. StageInv'
    <3>1. failed' = 0 => intact' /\ ~strayed'
      BY <1>6, <1>11, <2>5
    <3> QED
      BY <1>3, <1>5, <3>1 DEF StageInv
  <2>9. SlipInv'
    <3>1. slip' + Due' >= -failed' /\ slip' + Due' + Pending' <= failed'
      BY <1>1, <1>6, <1>8, <1>11, <2>3, <2>6
    <3> QED
      BY <1>3, <3>1 DEF SlipInv
  <2>10. ByteInv'
    <3>1. ~strayed' => width' = 4 /\ (half' = {} <=> (slip' + SentNow') % 2 = 0)
      <4>1. slip + SentNow \in Int /\ slip' + SentNow = (slip + SentNow) + 1
        BY <1>1, <1>6, <2>3
      <4>2. ((slip + SentNow) + 1) % 2 = 0 <=> (slip + SentNow) % 2 # 0
        BY <4>1, Odd
      <4>3. (slip' + SentNow) % 2 = 0 <=> (slip' + SentNow') % 2 = 0
        BY <1>6, <1>8, <1>9, <2>3, <2>6
      <4> QED
        BY <1>6, <2>3, <4>1, <4>2, <4>3
    <3>2. Part' = 3 => Part = 2 /\ Current' = Current
      BY <1>1, <1>5
    <3>3. Part' > 1 => Part' = 3
      BY <1>1, <1>5
    <3>4. intact' /\ Part' > 1 => latches' \cap {RS} = Current'[1]
      BY <1>1, <1>11, <3>2, <3>3
    <3>5. Enable \notin latches'
      BY <1>1, <1>11
    <3>6. intact' /\ Part' = 3 => half' = {} \/ half' = {Current'[2]}
      BY <1>11, <2>3, <2>4, <3>2
    <3>7. intact' /\ ~Busy' /\ ~strayed' /\ half' = {} => last' = wanted'
      <4> SUFFICES ASSUME intact', ~Busy', ~strayed', half' = {}
                   PROVE  last' = wanted'
        OBVIOUS
      <4>1. intact /\ Part = 3 /\ Current = wanted
        BY <1>4, <1>5
      <4>2. half = {Current[2]}
        BY <1>6, <2>3, <4>1
      <4>3. last' = <<Current[1], Current[2], Current[3]>>
        BY <1>7, <2>3, <2>4, <4>1, <4>2
      <4> QED
        BY <1>3, <1>7, <4>1, <4>3
    <3> QED
      BY <3>1, <3>4, <3>5, <3>6, <3>7 DEF ByteInv
  <2> QED
    BY <1>10, <2>6, <2>7, <2>8, <2>9, <2>10
<1>12. CASE ~falls
  <2>1. UNCHANGED <<width, half, last, slip, strayed>>
    <3>1. CASE failed' = failed /\ intact' = intact /\ latches' = Changed /\ Lines
      BY <1>4, <1>12, <3>1, LinesFacts
    <3> QED
      BY <1>4, <3>1
  <2>2. \/ failed' = failed /\ latches' = Changed /\ Enable \notin latches /\ Enable \notin latches'
        \/ failed' = failed + 1 /\ latches' = latches
    BY <1>1, <1>4, <1>12
  <2>3. ~intact'
    BY <1>1, <1>4, <1>12
  <2>4. BackpackTypeOK'
    BY <1>1, <1>3, <1>4, <1>5, <2>1 DEF BackpackTypeOK
  <2>5. PinsInv' /\ SyncInv'
    BY <1>4, <1>5, <2>1, <2>4, SettledPins DEF PinsInv
  <2>6. StageInv'
    <3>1. failed' # 0
      BY <1>1, <1>6, <2>2
    <3> QED
      BY <1>3, <1>5, <3>1 DEF StageInv
  <2>7. SlipInv'
    <3>1. slip' + Due' >= -failed' /\ slip' + Due' + Pending' <= failed'
      BY <1>6, <1>8, <2>1, <2>2, <2>4
    <3> QED
      BY <1>3, <3>1 DEF SlipInv
  <2>8. ByteInv'
    <3>1. (slip' + SentNow') % 2 = 0 <=> (slip + SentNow) % 2 = 0
      BY <1>6, <1>8, <1>9, <2>1, <2>4
    <3> QED
      BY <1>6, <2>1, <2>3, <3>1 DEF ByteInv
  <2> QED
    BY <1>10, <2>4, <2>5, <2>6, <2>7, <2>8
<1> QED
  BY <1>11, <1>12
-----------------------------------------------------------------------------
(* Steps between the calls, and every step.                                *)

LEMMA EntryModeByte == EntryMode \in Byte /\ (EntryMode[1] = {} => EntryMode[2] # Three)
BY DEF EntryMode, Byte, Nibble, DataPins, Three

\* What begin() starts from.
LEMMA BeginState ==
  ASSUME BackpackTypeOK', routine' = "begin", place' = 1, stage' = 0, out' = {},
         slip' = 0, failed' = 0, ~strayed', intact',
         Enable \notin inputs' => (enable' = HIGH <=> Enable \in latches'), width' = 8 => half' = {}
  PROVE  BackpackInv'
<1>1. ~Settled' /\ Busy' /\ SlipInv' /\ ByteInv' /\ (NibbleOp' <=> place' \in 12 .. 15) /\ (Wired' <=> place' > 9)
  BY StillEarly
<1>2. \A p \in Pins : 1 <= OutputAt(p)
  BY DEF OutputAt, Pins, Backlight, RS, Enable
<1>3. PinsInv'
  BY <1>2 DEF PinsInv, BackpackTypeOK
<1>4. StageInv'
  BY <1>1 DEF StageInv
<1>5. OutInv'
  BY <1>1 DEF OutInv
<1>6. SyncInv'
  BY DEF SyncInv
<1> QED
  BY <1>1, <1>3, <1>4, <1>5, <1>6 DEF BackpackInv

LEMMA InitInv == BackpackInit => BackpackInv
<1> SUFFICES ASSUME BackpackInit
             PROVE  BackpackInv
  OBVIOUS
<1>1. BackpackTypeOK
  <2>1. wanted \in Byte /\ (wanted[1] = {} => wanted[2] # Three)
    BY EntryModeByte DEF BackpackInit
  <2>2. strayed \in BOOLEAN /\ intact \in BOOLEAN
    BY DEF BackpackInit
  <2>3. /\ inputs \in SUBSET Pins /\ latches \in SUBSET Pins /\ out \in SUBSET Pins
        /\ enable \in {LOW, HIGH} /\ width \in {4, 8} /\ half = {} /\ slip \in Int /\ failed \in Nat
    BY DEF BackpackInit
  <2>4. routine = "begin" /\ place \in 1 .. Length + 1 /\ stage \in 0 .. 3 /\ wanted = EntryMode
    BY DEF BackpackInit, Length
  <2> QED
    BY <2>1, <2>2, <2>3, <2>4 DEF BackpackTypeOK
<1>2. ~Settled /\ Busy /\ ~NibbleOp /\ ~Wired
  BY DEF BackpackInit, Settled, Busy, Length, NibbleOp, Wired
<1>3. PinsInv
  BY DEF BackpackInit, PinsInv, OutputAt, Pins, Backlight, RS, Enable
<1>4. StageInv
  BY <1>2 DEF BackpackInit, StageInv
<1>5. OutInv /\ SlipInv /\ ByteInv /\ SyncInv
  BY <1>2 DEF BackpackInit, OutInv, SlipInv, ByteInv, SyncInv
<1> QED
  BY <1>1, <1>3, <1>4, <1>5 DEF BackpackInv

LEMMA CallBeginStep ==
  ASSUME BackpackInv, CallBegin
  PROVE  BackpackInv'
<1>1. BackpackTypeOK'
  <2>1. wanted' \in Byte /\ (wanted'[1] = {} => wanted'[2] # Three)
    BY EntryModeByte DEF CallBegin
  <2>2. strayed' \in BOOLEAN /\ intact' \in BOOLEAN
    BY DEF CallBegin
  <2>3. /\ inputs' \in SUBSET Pins /\ latches' \in SUBSET Pins /\ out' \in SUBSET Pins
        /\ enable' \in {LOW, HIGH} /\ width' \in {4, 8} /\ slip' \in Int /\ failed' \in Nat
        /\ half' = {} \/ \E n \in Nibble : half' = {n}
    BY DEF CallBegin, BackpackInv, BackpackTypeOK
  <2>4. routine' = "begin" /\ place' \in 1 .. Length' + 1 /\ stage' \in 0 .. 3 /\ wanted' = EntryMode
    BY DEF CallBegin, Length
  <2> QED
    BY <2>1, <2>2, <2>3, <2>4 DEF BackpackTypeOK
<1>2. /\ Enable \notin inputs' => (enable' = HIGH <=> Enable \in latches')
      /\ width' = 8 => half' = {}
  BY DEF CallBegin, BackpackInv, PinsInv
<1>3. /\ routine' = "begin" /\ place' = 1 /\ stage' = 0 /\ out' = {}
      /\ slip' = 0 /\ failed' = 0 /\ ~strayed' /\ intact'
  BY DEF CallBegin
<1> QED
  BY <1>1, <1>2, <1>3, BeginState

LEMMA SendByteStep ==
  ASSUME BackpackInv, SendByte
  PROVE  BackpackInv'
<1> USE DEF BackpackInv
<1>1. /\ ~Busy /\ wanted' \in Bytes /\ routine' = "send" /\ place' = 1 /\ intact' = TRUE
      /\ UNCHANGED <<inputs, latches, stage, out, failed, enable, width, half, last, slip, strayed>>
  BY DEF SendByte, display
<1>2. Settled
  BY <1>1 DEF Settled, Busy, Length, BackpackTypeOK
<1>3. inputs = {} /\ Part = 1 /\ stage = 0 /\ Due = 0 /\ SentNow = 0
  BY <1>1, <1>2, SettledFacts
<1>4. wanted' \in Byte /\ (wanted'[1] = {} => wanted'[2] # Three)
  BY BackpackAssumption, <1>1 DEF Byte
<1>5. BackpackTypeOK'
  BY <1>1, <1>4 DEF BackpackTypeOK, Length
<1>6. Settled' /\ Busy' /\ Part' = 1
  BY <1>1 DEF Settled, Busy, Length, Part
<1>7. PinsInv' /\ SyncInv'
  BY <1>1, <1>3, <1>5, <1>6, SettledPins DEF PinsInv
<1>8. Due' = 0 /\ SentNow' = 0 /\ (NibbleOp' <=> Part' > 1)
  BY <1>5, <1>6, SettledAgain
<1>9. StageInv'
  BY <1>1, <1>3, <1>6 DEF StageInv
<1>10. OutInv'
  BY <1>1, <1>3, <1>6, <1>8 DEF OutInv
<1>11. SlipInv'
  <2>1. slip + Due >= -failed /\ slip + Due + Pending <= failed
    BY <1>2, <1>3 DEF SlipInv
  <2>2. Pending' = Pending
    BY <1>1, <1>3 DEF Pending
  <2> QED
    BY <1>1, <1>3, <1>8, <2>1, <2>2 DEF SlipInv
<1>12. ByteInv'
  BY <1>1, <1>2, <1>3, <1>6, <1>8 DEF ByteInv
<1> QED
  BY <1>5, <1>7, <1>9, <1>10, <1>11, <1>12

\* A step of the expander or of the library.
LEMMA TransferStep ==
  ASSUME BackpackInv, Drift \/ ReadPort \/ Defaults \/ PinMode \/ DigitalWrite \/ WriteNibble
  PROVE  BackpackInv'
<1> USE DEF BackpackInv
<1>1. CASE ~Settled
  <2>1. routine = "begin" /\ place \in 1 .. 15
    BY <1>1, EarlyOperation
  <2>2. CASE ReadPort
    BY <1>1, <2>2, EarlyRead
  <2>3. CASE Drift
    <3>1. place \in 1 .. 9
      BY <2>1, <2>3 DEF Drift, PinsInv, OutputAt, Enable, RS, Backlight
    <3> QED
      BY <2>1, <2>3, <3>1, UnwiredStep
  <2>4. CASE Defaults \/ PinMode \/ DigitalWrite \/ WriteNibble
    <3>1. place \in 1 .. 9 \/ place \in {10, 11} \/ place \in 12 .. 15
      BY <2>1
    <3> QED
      BY <2>1, <2>4, <3>1, UnwiredStep, LowStep, SyncStep
  <2> QED
    BY <2>2, <2>3, <2>4
<1>2. CASE Settled
  <2>1. inputs = {}
    BY <1>2, SettledFacts
  <2>2. ~Drift
    BY <2>1 DEF Drift
  <2>3. ~Defaults /\ ~PinMode
    <3>1. Busy => Now.op = "set" \/ Now.op = "nibble"
      BY <1>2, SettledParts
    <3> QED
      BY <3>1 DEF Defaults, PinMode
  <2>4. CASE ReadPort
    BY <1>2, <2>4, SettledRead
  <2>5. CASE DigitalWrite
    BY <1>2, <2>5, SettledSet
  <2>6. CASE WriteNibble
    <3>1. stage < 3 \/ stage = 3
      BY DEF BackpackTypeOK
    <3> QED
      BY <1>2, <2>6, <3>1, SettledPulse, SettledLastWrite
  <2> QED
    BY <2>2, <2>3, <2>4, <2>5, <2>6
<1> QED
  BY <1>1, <1>2

LEMMA StutterStep ==
  ASSUME BackpackInv, UNCHANGED backpackVars
  PROVE  BackpackInv'
<1>1. UNCHANGED <<inputs, latches, enable, width, half, last, routine, place, stage, out, wanted, slip, strayed, failed, intact>>
  BY DEF backpackVars, display, library
<1>2. /\ Settled' = Settled /\ Busy' = Busy /\ Now' = Now /\ Part' = Part /\ Current' = Current /\ Due' = Due
      /\ Pending' = Pending /\ SentNow' = SentNow /\ NibbleOp' = NibbleOp /\ Wired' = Wired
  BY <1>1 DEF Settled, Busy, Length, Now, Part, Current, Due, Pending, SentNow, NibbleOp, Wired
<1>3. BackpackTypeOK' /\ PinsInv' /\ SyncInv'
  BY <1>1 DEF BackpackInv, BackpackTypeOK, Length, PinsInv, SyncInv
<1>4. StageInv'
  BY <1>1, <1>2 DEF BackpackInv, StageInv
<1>5. OutInv'
  BY <1>1, <1>2 DEF BackpackInv, OutInv
<1>6. SlipInv'
  BY <1>1, <1>2 DEF BackpackInv, SlipInv
<1>7. ByteInv'
  BY <1>1, <1>2 DEF BackpackInv, ByteInv
<1> QED
  BY <1>3, <1>4, <1>5, <1>6, <1>7 DEF BackpackInv
-----------------------------------------------------------------------------
(* The theorems.                                                           *)

\* Whatever the pins, the latches and the display were in when begin() was called, and whichever
\* transfers fail later: which pins are outputs, what has been read of a register and what the
\* display takes it for (LiquidCrystal.cpp:130-227, 387-437).
THEOREM BackpackInvariant == BackpackSpec => []BackpackInv
<1>1. BackpackInit => BackpackInv
  BY InitInv
<1>2. BackpackInv /\ [BackpackNext]_backpackVars => BackpackInv'
  <2> SUFFICES ASSUME BackpackInv, [BackpackNext]_backpackVars
               PROVE  BackpackInv'
    OBVIOUS
  <2>1. CASE Drift \/ ReadPort \/ Defaults \/ PinMode \/ DigitalWrite \/ WriteNibble
    BY <2>1, TransferStep
  <2>2. CASE SendByte
    BY <2>2, SendByteStep
  <2>3. CASE CallBegin
    BY <2>3, CallBeginStep
  <2>4. CASE UNCHANGED backpackVars
    BY <2>4, StutterStep
  <2> QED
    BY <2>1, <2>2, <2>3, <2>4 DEF BackpackNext
<1> QED
  BY <1>1, <1>2, PTL DEF BackpackSpec

\* While no transfer has failed the display waits for the first nibble of a byte, in 4-bit
\* mode, whenever the firmware is about to send one (LiquidCrystal.cpp:180-197).
THEOREM DisplaySynchronised == BackpackSpec => []Synchronised
<1>1. BackpackInv => Synchronised
  <2> SUFFICES ASSUME BackpackInv, failed = 0, AtByte
               PROVE  width = 4 /\ half = {}
    BY DEF Synchronised
  <2> USE DEF BackpackInv
  <2>1. Settled /\ stage = 0
    BY DEF AtByte
  <2>2. Part = 1
    BY SettledFacts, SettledParts DEF AtByte
  <2>3. Due = 0 /\ SentNow = 0 /\ Pending \in {0, 1}
    BY <2>1, <2>2, SettledFacts
  <2>4. slip = 0
    BY <2>1, <2>3 DEF SlipInv, BackpackTypeOK
  <2>5. ~strayed
    BY DEF StageInv
  <2>6. (slip + SentNow) % 2 = 0
    BY <2>3, <2>4
  <2> QED
    BY <2>1, <2>5, <2>6 DEF ByteInv
<1> QED
  BY <1>1, BackpackInvariant, PTL

\* Every failed transfer makes the display miss a nibble or take one more, never two, and
\* once the count is even again a byte arrives whole (LiquidCrystal.cpp:387-437).
THEOREM SlipsOneNibble == BackpackSpec => []OneSlip
<1>1. BackpackInv => OneSlip
  <2> SUFFICES ASSUME BackpackInv, ~Busy
               PROVE  /\ slip \in -failed .. failed
                      /\ intact /\ slip = 0 /\ ~strayed => last = wanted
    BY DEF OneSlip
  <2> USE DEF BackpackInv
  <2>1. Settled
    BY DEF Settled, Busy, Length, BackpackTypeOK
  <2>2. stage = 0 /\ Due = 0 /\ SentNow = 0 /\ Pending \in {0, 1}
    BY <2>1, SettledFacts
  <2>3. slip \in -failed .. failed
    BY <2>1, <2>2 DEF SlipInv, BackpackTypeOK
  <2>4. slip = 0 => (slip + SentNow) % 2 = 0
    BY <2>2
  <2> QED
    BY <2>1, <2>3, <2>4 DEF ByteInv
<1> QED
  BY <1>1, BackpackInvariant, PTL
-----------------------------------------------------------------------------
(* The display: what LiquidCrystal has still to send, and what has come of *)
(* it.                                                                     *)

\* What is left of a program of m bytes when n of them have been sent.
Rest(t, p, m, n) == /\ \E S : t \in Seq(S)
                    /\ Len(t) = m - n
                    /\ \A k \in 1 .. m - n : t[k] = p[n + k]

\* The dots of every glyph below an address of the display's glyphs are made.
GlyphsTo(a) == \A b \in 8 .. 55 : b < a => cgram[b] = b

\* The first characters of a row are shown.
RowTo(r, c) == \A d \in Col : d < c => ddram[FirstOfRow[r + 1] + d] = text[r][d]

Ready == forward = TRUE /\ lit = TRUE /\ GlyphsTo(56)

\* In reset(), after n bytes.
InGlyph(k, i) == counter = <<TRUE, (8 * k + i) - 1>> /\ GlyphsTo((8 * k + i) - 1)

InReset(n) == /\ n >= 3 => lit = TRUE
              /\ n >= 4 => forward = TRUE
              /\ \A k \in 1 .. 6, i \in 1 .. 9 : n = (9 * k + i) - 4 => InGlyph(k, i)

\* In update(), after i bytes of a row.
InRow(r, i) == /\ \A q \in Row : q < r => RowTo(q, 20)
               /\ i >= 1 => RowTo(r, i - 1) /\ counter = <<FALSE, FirstOfRow[r + 1] + (i - 1)>>

Resetting(n) == /\ Rest(todo, ResetBytes, 59, n) /\ dirty = TRUE
                /\ healthy = TRUE => InReset(n)

Updating(r, i) == /\ Rest(todo, Update, 84, 21 * r + i) /\ dirty = FALSE
                  /\ healthy = TRUE => Ready /\ InRow(r, i)

Resting == /\ todo = <<>>
           /\ healthy = TRUE => /\ Ready
                                /\ dirty = FALSE => \A r \in Row : RowTo(r, 20)

Whole == ddram = [a \in Address |-> ddram[a]] /\ cgram = [a \in 0 .. 63 |-> cgram[a]]

DisplayInv == /\ Whole
              /\ healthy = TRUE \/ healthy = FALSE
              /\ dirty = TRUE \/ dirty = FALSE
              /\ \/ \E n \in 0 .. 58 : Resetting(n)
                 \/ \E r \in Row, i \in 0 .. 20 : Updating(r, i)
                 \/ Resting
-----------------------------------------------------------------------------
(* Programs of bytes.                                                      *)

LEMMA RestStep ==
  ASSUME NEW t, NEW p, NEW m \in Nat, NEW n \in 0 .. m - 1, Rest(t, p, m, n)
  PROVE  t # <<>> /\ Head(t) = p[n + 1] /\ Rest(Tail(t), p, m, n + 1)
<1>1. PICK S : t \in Seq(S)
  BY DEF Rest
<1>2. Len(t) = m - n /\ \A k \in 1 .. m - n : t[k] = p[n + k]
  BY DEF Rest
<1>3. t # <<>>
  BY <1>2
<1>4. Head(t) = t[1] /\ Tail(t) \in Seq(S) /\ Len(Tail(t)) = Len(t) - 1 /\ \A k \in 1 .. Len(t) - 1 : Tail(t)[k] = t[k + 1]
  BY <1>1, <1>3, HeadTailProperties
<1>5. Head(t) = p[n + 1]
  <2>1. 1 \in 1 .. m - n
    OBVIOUS
  <2> QED
    BY <1>2, <1>4, <2>1
<1>6. ASSUME NEW k \in 1 .. m - (n + 1)
      PROVE  Tail(t)[k] = p[(n + 1) + k]
  <2>1. k \in 1 .. Len(t) - 1 /\ k + 1 \in 1 .. m - n /\ n + (k + 1) = (n + 1) + k
    BY <1>2
  <2> QED
    BY <1>2, <1>4, <2>1
<1>7. Len(Tail(t)) = m - (n + 1)
  BY <1>2, <1>4
<1> QED
  BY <1>3, <1>4, <1>5, <1>6, <1>7 DEF Rest

LEMMA RestEnd ==
  ASSUME NEW t, NEW p, NEW m \in Nat, Rest(t, p, m, m)
  PROVE  t = <<>>
BY EmptySeq DEF Rest

LEMMA RestBegin ==
  ASSUME NEW S, NEW p \in Seq(S)
  PROVE  Rest(p, p, Len(p), 0)
<1>1. Len(p) \in Nat /\ Len(p) - 0 = Len(p) /\ \A k \in 1 .. Len(p) : 0 + k = k
  OBVIOUS
<1> QED
  BY <1>1 DEF Rest

LEMMA FunctionSeq ==
  ASSUME NEW S, NEW n \in Nat, NEW f \in [1 .. n -> S]
  PROVE  f \in Seq(S) /\ Len(f) = n
<1>1. f \in Seq(S)
  BY SeqDef
<1>2. DOMAIN f = 1 .. n /\ DOMAIN f = 1 .. Len(f) /\ Len(f) \in Nat
  BY <1>1, LenProperties
<1> QED
  BY <1>1, <1>2

LEMMA RowsFirst == /\ FirstOfRow[1] = 0 /\ FirstOfRow[2] = 64 /\ FirstOfRow[3] = 20 /\ FirstOfRow[4] = 84
                   /\ RowOffset(0) = 0 /\ RowOffset(1) = 64 /\ RowOffset(2) = 20 /\ RowOffset(3) = 84
BY DEF FirstOfRow, RowOffset

\* The rows share no address.
LEMMA RowsApart ==
  /\ \A r \in Row : RowOffset(r) = FirstOfRow[r + 1]
  /\ \A r \in Row, c \in Col : FirstOfRow[r + 1] + c \in Address
  /\ \A q, r \in Row, c, d \in Col : FirstOfRow[q + 1] + c = FirstOfRow[r + 1] + d => q = r /\ c = d
  /\ \A r \in Row, c \in Col : c < 19 => Up(FirstOfRow[r + 1] + c) = FirstOfRow[r + 1] + (c + 1)
<1>1. \A r \in Row : \/ r = 0 /\ FirstOfRow[r + 1] = 0 /\ RowOffset(r) = 0
                     \/ r = 1 /\ FirstOfRow[r + 1] = 64 /\ RowOffset(r) = 64
                     \/ r = 2 /\ FirstOfRow[r + 1] = 20 /\ RowOffset(r) = 20
                     \/ r = 3 /\ FirstOfRow[r + 1] = 84 /\ RowOffset(r) = 84
  <2>1. \A r \in Row : (r = 0 /\ r + 1 = 1) \/ (r = 1 /\ r + 1 = 2) \/ (r = 2 /\ r + 1 = 3) \/ (r = 3 /\ r + 1 = 4)
    BY DEF Row
  <2> QED
    BY <2>1, RowsFirst
<1>2. \A r \in Row : RowOffset(r) = FirstOfRow[r + 1]
  BY <1>1
<1>3. \A r \in Row, c \in Col : FirstOfRow[r + 1] + c \in Address
  BY <1>1 DEF Col, Address
<1>4. \A q, r \in Row, c, d \in Col : FirstOfRow[q + 1] + c = FirstOfRow[r + 1] + d => q = r /\ c = d
  BY <1>1 DEF Col
<1>5. \A r \in Row, c \in Col : c < 19 => Up(FirstOfRow[r + 1] + c) = FirstOfRow[r + 1] + (c + 1)
  BY <1>1 DEF Col, Up
<1> QED
  BY <1>2, <1>3, <1>4, <1>5

LEMMA ResetByte ==
  /\ \E S : ResetBytes \in Seq(S)
  /\ Len(ResetBytes) = 59
  /\ ResetBytes[1] = Command("sync") /\ ResetBytes[2] = Command("function") /\ ResetBytes[3] = Command("on")
  /\ ResetBytes[4] = Command("clear") /\ ResetBytes[5] = Command("entry")
  /\ \A k \in 1 .. 6, i \in 0 .. 8 : ResetBytes[(9 * k + i) - 3] = CreateChar(k, i)
<1> DEFINE S == {BeginBytes[n] : n \in 1 .. 5} \cup {AddNorwegianChars[n] : n \in 1 .. 54}
<1>1. BeginBytes \in Seq(S) /\ Len(BeginBytes) = 5
  BY DEF BeginBytes
<1>2. AddNorwegianChars \in Seq(S) /\ Len(AddNorwegianChars) = 54
  <2>1. AddNorwegianChars = [n \in 1 .. 54 |-> AddNorwegianChars[n]]
    BY DEF AddNorwegianChars
  <2>2. \A n \in 1 .. 54 : AddNorwegianChars[n] \in S
    OBVIOUS
  <2>3. PICK T, u : T = S /\ u = AddNorwegianChars
    OBVIOUS
  <2> HIDE DEF S
  <2>4. u = [n \in 1 .. 54 |-> u[n]] /\ \A n \in 1 .. 54 : u[n] \in T
    BY <2>1, <2>2, <2>3, Zenon
  <2>5. u \in [1 .. 54 -> T]
    BY <2>4
  <2>6. u \in Seq(T) /\ Len(u) = 54
    <3>1. PICK m \in Nat : m = 54
      OBVIOUS
    <3>2. u \in [1 .. m -> T]
      BY <2>5, <3>1, Zenon
    <3>3. u \in Seq(T) /\ Len(u) = m
      BY <3>2, FunctionSeq
    <3> QED
      BY <3>1, <3>3, Zenon
  <2> QED
    BY <2>3, <2>6, Zenon
<1> HIDE DEF S
<1>3. /\ ResetBytes \in Seq(S) /\ Len(ResetBytes) = 59
      /\ \A n \in 1 .. 59 : ResetBytes[n] = IF n <= 5 THEN BeginBytes[n] ELSE AddNorwegianChars[n - 5]
  <2>1. PICK b \in Seq(S), a \in Seq(S) : b = BeginBytes /\ a = AddNorwegianChars /\ Len(b) = 5 /\ Len(a) = 54
    BY <1>1, <1>2
  <2>2. b \o a \in Seq(S) /\ Len(b \o a) = Len(b) + Len(a)
    BY ConcatProperties
  <2>3. \A n \in 1 .. Len(b) + Len(a) : (b \o a)[n] = IF n <= Len(b) THEN b[n] ELSE a[n - Len(b)]
    BY ConcatProperties
  <2>4. Len(b) + Len(a) = 59
    BY <2>1
  <2>5. \A n \in 1 .. 59 : (b \o a)[n] = IF n <= 5 THEN b[n] ELSE a[n - 5]
    BY <2>1, <2>3, <2>4
  <2>6. ResetBytes = b \o a
    BY <2>1 DEF ResetBytes
  <2> QED
    BY <2>1, <2>2, <2>4, <2>5, <2>6
<1>4. ASSUME NEW k \in 1 .. 6, NEW i \in 0 .. 8
      PROVE  ResetBytes[(9 * k + i) - 3] = CreateChar(k, i)
  <2>1. PICK n \in 1 .. 54 : n = (9 * (k - 1) + i) + 1 /\ n + 5 = (9 * k + i) - 3 /\ n + 5 \in 6 .. 59
    <3>1. (9 * (k - 1) + i) + 1 \in 1 .. 54 /\ ((9 * (k - 1) + i) + 1) + 5 = (9 * k + i) - 3
      OBVIOUS
    <3> QED
      BY <3>1
  <2>2. 1 + ((n - 1) \div 9) = k /\ (n - 1) % 9 = i
    BY <2>1
  <2>3. ResetBytes[n + 5] = AddNorwegianChars[n]
    <3>1. n + 5 \in 1 .. 59 /\ ~(n + 5 <= 5) /\ (n + 5) - 5 = n
      BY <2>1
    <3> QED
      BY <1>3, <3>1
  <2>4. AddNorwegianChars[n] = CreateChar(1 + ((n - 1) \div 9), (n - 1) % 9)
    BY DEF AddNorwegianChars
  <2> QED
    BY <2>1, <2>2, <2>3, <2>4
<1>5. /\ ResetBytes[1] = BeginBytes[1] /\ ResetBytes[2] = BeginBytes[2] /\ ResetBytes[3] = BeginBytes[3]
      /\ ResetBytes[4] = BeginBytes[4] /\ ResetBytes[5] = BeginBytes[5]
  BY <1>3
<1>6. /\ BeginBytes[1] = Command("sync") /\ BeginBytes[2] = Command("function") /\ BeginBytes[3] = Command("on")
      /\ BeginBytes[4] = Command("clear") /\ BeginBytes[5] = Command("entry")
  BY DEF BeginBytes
<1> QED
  BY <1>3, <1>4, <1>5, <1>6

LEMMA UpdateByte ==
  /\ \E S : Update \in Seq(S)
  /\ Len(Update) = 84
  /\ \A r \in Row, i \in 0 .. 20 : Update[(21 * r + i) + 1] = UpdateRow(r, i)
<1> DEFINE S == {Update[n] : n \in 1 .. 84}
<1>1. Update \in Seq(S) /\ Len(Update) = 84
  <2>1. Update = [n \in 1 .. 84 |-> Update[n]]
    BY DEF Update
  <2>2. \A n \in 1 .. 84 : Update[n] \in S
    OBVIOUS
  <2>3. PICK T, u : T = S /\ u = Update
    OBVIOUS
  <2> HIDE DEF S
  <2>4. u = [n \in 1 .. 84 |-> u[n]] /\ \A n \in 1 .. 84 : u[n] \in T
    BY <2>1, <2>2, <2>3, Zenon
  <2>5. u \in [1 .. 84 -> T]
    BY <2>4
  <2>6. u \in Seq(T) /\ Len(u) = 84
    <3>1. PICK m \in Nat : m = 84
      OBVIOUS
    <3>2. u \in [1 .. m -> T]
      BY <2>5, <3>1, Zenon
    <3>3. u \in Seq(T) /\ Len(u) = m
      BY <3>2, FunctionSeq
    <3> QED
      BY <3>1, <3>3, Zenon
  <2> QED
    BY <2>3, <2>6, Zenon
<1>2. ASSUME NEW r \in Row, NEW i \in 0 .. 20
      PROVE  Update[(21 * r + i) + 1] = UpdateRow(r, i)
  <2>1. PICK n \in 1 .. 84 : n = (21 * r + i) + 1
    <3>1. (21 * r + i) + 1 \in 1 .. 84
      BY DEF Row
    <3> QED
      BY <3>1
  <2>2. (n - 1) \div 21 = r /\ (n - 1) % 21 = i
    BY <2>1 DEF Row
  <2>3. Update[n] = UpdateRow((n - 1) \div 21, (n - 1) % 21)
    BY DEF Update
  <2> QED
    BY <2>1, <2>2, <2>3
<1> QED
  BY <1>1, <1>2

-----------------------------------------------------------------------------
(* What the bytes do.                                                      *)

LEMMA Executes ==
  /\ Execute(Command("sync")) => UNCHANGED panel
  /\ Execute(Command("function")) => UNCHANGED panel
  /\ Execute(Command("on")) => lit' = TRUE /\ UNCHANGED <<ddram, cgram, counter, forward>>
  /\ Execute(Command("clear")) => ddram' = [a \in Address |-> Space] /\ forward' = TRUE /\ UNCHANGED <<cgram, lit>>
  /\ Execute(Command("entry")) => forward' = TRUE /\ UNCHANGED <<ddram, cgram, counter, lit>>
  /\ \A a : Execute(SetDDRAM(a)) => counter' = <<FALSE, a>> /\ UNCHANGED <<ddram, cgram, forward, lit>>
  /\ \A a : Execute(SetCGRAM(a)) => counter' = <<TRUE, a>> /\ UNCHANGED <<ddram, cgram, forward, lit>>
<1>1. /\ Command("sync").op = "sync" /\ Command("function").op = "function" /\ Command("on").op = "on"
      /\ Command("clear").op = "clear" /\ Command("entry").op = "entry"
      /\ \A a : SetDDRAM(a).op = "ddram" /\ SetDDRAM(a).at = a
      /\ \A a : SetCGRAM(a).op = "cgram" /\ SetCGRAM(a).at = a
  BY DEF Command, SetDDRAM, SetCGRAM
<1> QED
  BY <1>1 DEF Execute

LEMMA ExecutesData ==
  ASSUME NEW c, NEW x, Execute(Data(c)), forward = TRUE
  PROVE  /\ counter = <<TRUE, x>> => /\ cgram' = [cgram EXCEPT ![x] = c]
                                     /\ counter' = <<TRUE, (x + 1) % 64>>
                                     /\ UNCHANGED <<ddram, forward, lit>>
         /\ counter = <<FALSE, x>> => /\ ddram' = [ddram EXCEPT ![x] = c]
                                      /\ counter' = <<FALSE, Up(x)>>
                                      /\ UNCHANGED <<cgram, forward, lit>>
<1>1. Data(c).op = "data" /\ Data(c).char = c
  BY DEF Data
<1>2. ASSUME counter = <<TRUE, x>>
      PROVE  cgram' = [cgram EXCEPT ![x] = c] /\ counter' = <<TRUE, (x + 1) % 64>> /\ UNCHANGED <<ddram, forward, lit>>
  <2>1. counter[1] = TRUE /\ counter[2] = x
    BY <1>2
  <2> QED
    BY <1>1, <2>1 DEF Execute
<1>3. ASSUME counter = <<FALSE, x>>
      PROVE  ddram' = [ddram EXCEPT ![x] = c] /\ counter' = <<FALSE, Up(x)>> /\ UNCHANGED <<cgram, forward, lit>>
  <2>1. counter[1] = FALSE /\ counter[2] = x
    BY <1>3
  <2> QED
    BY <1>1, <2>1 DEF Execute
<1> QED
  BY <1>2, <1>3

LEMMA WholeStays ==
  ASSUME Whole, NEW b, Execute(b)
  PROVE  Whole'
<1>1. CASE UNCHANGED ddram /\ UNCHANGED cgram
  BY <1>1 DEF Whole
<1>2. CASE ddram' = [a \in Address |-> Space] /\ UNCHANGED cgram
  BY <1>2 DEF Whole
<1>3. CASE cgram' = [cgram EXCEPT ![counter[2]] = b.char] /\ UNCHANGED ddram
  <2>1. cgram' = [a \in 0 .. 63 |-> cgram'[a]]
    BY <1>3 DEF Whole
  <2> QED
    BY <1>3, <2>1 DEF Whole
<1>4. CASE ddram' = [ddram EXCEPT ![counter[2]] = b.char] /\ UNCHANGED cgram
  <2>1. ddram' = [a \in Address |-> ddram'[a]]
    BY <1>4 DEF Whole
  <2> QED
    BY <1>4, <2>1 DEF Whole
<1> QED
  BY <1>1, <1>2, <1>3, <1>4 DEF Execute, panel

\* begin() and the glyphs.
LEMMA ResetStep ==
  ASSUME Whole, NEW n \in 0 .. 58, InReset(n), Execute(ResetBytes[n + 1])
  PROVE  InReset(n + 1)'
<1>1. CASE n < 5
  <2>1. \A k \in 1 .. 6, i \in 1 .. 9 : n + 1 # (9 * k + i) - 4
    BY <1>1
  <2>2. n \in {0, 1, 2, 3, 4}
    BY <1>1
  <2>3. CASE n = 0
    BY <2>3 DEF InReset
  <2>4. CASE n = 1
    BY <2>4 DEF InReset
  <2>5. CASE n = 2
    <3>1. Execute(Command("on"))
      BY <2>5, ResetByte
    <3>2. lit' = TRUE
      BY <3>1, Executes
    <3> QED
      BY <2>1, <2>5, <3>2 DEF InReset
  <2>6. CASE n = 3
    <3>1. Execute(Command("clear"))
      BY <2>6, ResetByte
    <3>2. forward' = TRUE /\ lit' = lit
      BY <3>1, Executes
    <3> QED
      BY <2>1, <2>6, <3>2 DEF InReset
  <2>7. CASE n = 4
    <3>1. Execute(Command("entry"))
      BY <2>7, ResetByte
    <3>2. forward' = TRUE /\ lit' = lit
      BY <3>1, Executes
    <3> QED
      BY <2>1, <2>7, <3>2 DEF InReset
  <2> QED
    BY <2>2, <2>3, <2>4, <2>5, <2>6, <2>7
<1>2. CASE n >= 5
  <2>1. PICK k \in 1 .. 6, i \in 0 .. 8 : n = (9 * k + i) - 4
    <3>1. (n - 5) \div 9 \in 0 .. 5 /\ (n - 5) % 9 \in 0 .. 8 /\ n - 5 = 9 * ((n - 5) \div 9) + ((n - 5) % 9)
      BY <1>2
    <3>2. PICK q \in 0 .. 5, i \in 0 .. 8 : n - 5 = 9 * q + i
      BY <3>1
    <3>3. q + 1 \in 1 .. 6 /\ n = (9 * (q + 1) + i) - 4
      BY <3>2
    <3> QED
      BY <3>3
  <2>2. Execute(CreateChar(k, i))
    <3>1. n + 1 = (9 * k + i) - 3
      BY <2>1
    <3> QED
      BY <3>1, ResetByte
  <2>3. lit = TRUE /\ forward = TRUE
    BY <1>2 DEF InReset
  <2>4. \A l \in 1 .. 6, j \in 1 .. 9 : n + 1 = (9 * l + j) - 4 => l = k /\ j = i + 1
    BY <2>1
  <2>5. SUFFICES lit' = TRUE /\ forward' = TRUE /\ InGlyph(k, i + 1)'
    BY <1>2, <2>4 DEF InReset
  <2>6. CASE i = 0
    <3>1. Execute(SetCGRAM(8 * k))
      <4>1. k % 8 = k
        OBVIOUS
      <4> QED
        BY <2>2, <2>6, <4>1 DEF CreateChar
    <3>2. counter' = <<TRUE, 8 * k>> /\ cgram' = cgram /\ forward' = forward /\ lit' = lit
      BY <3>1, Executes
    <3>3. GlyphsTo(8 * k)
      <4>1. CASE k = 1
        BY <4>1 DEF GlyphsTo
      <4>2. CASE k > 1
        <5>1. k - 1 \in 1 .. 6 /\ 9 \in 1 .. 9 /\ n = (9 * (k - 1) + 9) - 4 /\ (8 * (k - 1) + 9) - 1 = 8 * k
          BY <2>1, <2>6, <4>2
        <5>2. InGlyph(k - 1, 9)
          BY <5>1 DEF InReset
        <5> QED
          BY <5>1, <5>2 DEF InGlyph
      <4> QED
        BY <4>1, <4>2
    <3>4. (8 * k + (i + 1)) - 1 = 8 * k
      BY <2>6
    <3> QED
      BY <2>3, <3>2, <3>3, <3>4 DEF InGlyph, GlyphsTo
  <2>7. CASE i >= 1
    <3>1. PICK x \in 8 .. 55 : x = (8 * k + i) - 1
      <4>1. (8 * k + i) - 1 \in 8 .. 55
        BY <2>7
      <4> QED
        BY <4>1
    <3>2. Execute(Data(x))
      <4>1. Dots(k, i - 1) = x /\ i # 0
        BY <2>7, <3>1 DEF Dots
      <4> QED
        BY <2>2, <4>1 DEF CreateChar
    <3>3. counter = <<TRUE, x>> /\ GlyphsTo(x)
      <4>1. i \in 1 .. 9
        BY <2>7
      <4>2. InGlyph(k, i)
        BY <2>1, <4>1 DEF InReset
      <4> QED
        BY <3>1, <4>2 DEF InGlyph
    <3>4. /\ cgram' = [cgram EXCEPT ![x] = x] /\ counter' = <<TRUE, (x + 1) % 64>>
          /\ forward' = forward /\ lit' = lit
      BY <2>3, <3>2, <3>3, ExecutesData
    <3>5. (x + 1) % 64 = x + 1 /\ (8 * k + (i + 1)) - 1 = x + 1
      BY <3>1
    <3>6. \A b \in 8 .. 55 : b < x + 1 => cgram'[b] = b
      <4>1. \A b \in 8 .. 55 : b \in 0 .. 63 /\ (b < x + 1 => b = x \/ b < x)
        BY <3>1
      <4>2. cgram'[x] = x /\ \A b \in 8 .. 55 : b # x => cgram'[b] = cgram[b]
        BY <3>4, <4>1 DEF Whole
      <4> QED
        BY <3>3, <4>1, <4>2 DEF GlyphsTo
    <3> QED
      BY <2>3, <3>4, <3>5, <3>6 DEF InGlyph, GlyphsTo
  <2>8. i = 0 \/ i >= 1
    OBVIOUS
  <2> QED
    BY <2>6, <2>7, <2>8
<1> QED
  BY <1>1, <1>2

LEMMA ResetDone == InReset(59) => Ready
<1> SUFFICES ASSUME InReset(59)
             PROVE  Ready
  OBVIOUS
<1>1. 59 >= 3 /\ 59 >= 4 /\ 6 \in 1 .. 6 /\ 9 \in 1 .. 9 /\ 59 = (9 * 6 + 9) - 4 /\ (8 * 6 + 9) - 1 = 56
  OBVIOUS
<1>2. InGlyph(6, 9)
  BY <1>1 DEF InReset
<1>3. GlyphsTo(56)
  BY <1>1, <1>2 DEF InGlyph
<1>4. lit = TRUE /\ forward = TRUE
  BY <1>1 DEF InReset
<1> QED
  BY <1>3, <1>4 DEF Ready

\* A row of the text.
LEMMA RowStep ==
  ASSUME Whole, NEW r \in Row, NEW i \in 0 .. 20, Ready, InRow(r, i), Execute(UpdateRow(r, i)), text' = text
  PROVE  /\ Ready'
         /\ i < 20 => InRow(r, i + 1)'
         /\ i = 20 => \A q \in Row : q <= r => RowTo(q, 20)'
<1>0. i \in Nat /\ 0 <= i /\ Row \subseteq Int
  BY DEF Row
<1>1. CASE i = 0
  <2>1. Execute(SetDDRAM(FirstOfRow[r + 1]))
    <3>1. 0 + RowOffset(IF r > 4 THEN 3 ELSE r) = FirstOfRow[r + 1]
      <4>1. FirstOfRow[r + 1] \in Int /\ ~(r > 4)
        BY RowsFirst DEF Row
      <4> QED
        BY <4>1, RowsApart
    <3> QED
      BY <1>1, <3>1 DEF UpdateRow, SetCursor
  <2>2. counter' = <<FALSE, FirstOfRow[r + 1]>> /\ ddram' = ddram /\ cgram' = cgram /\ forward' = forward /\ lit' = lit
    BY <2>1, Executes
  <2>3. Ready'
    BY <2>2 DEF Ready, GlyphsTo
  <2>4. (\A q \in Row : q < r => RowTo(q, 20)')
    BY <2>2 DEF InRow, RowTo
  <2>5. RowTo(r, 0)'
    BY DEF RowTo, Col
  <2>6. FirstOfRow[r + 1] + ((i + 1) - 1) = FirstOfRow[r + 1] /\ (i + 1) - 1 = 0
    <3>1. FirstOfRow[r + 1] \in Int
      BY RowsFirst DEF Row
    <3> QED
      BY <1>1, <3>1
  <2> QED
    BY <1>1, <2>2, <2>3, <2>4, <2>5, <2>6 DEF InRow
<1>2. CASE i >= 1
  <2>1. PICK c \in Col : c = i - 1
    BY <1>2 DEF Col
  <2>2. PICK x \in Address : x = FirstOfRow[r + 1] + c
    BY RowsApart
  <2>3. Execute(Data(text[r][c]))
    BY <1>2, <2>1 DEF UpdateRow
  <2>4. counter = <<FALSE, x>> /\ RowTo(r, c) /\ \A q \in Row : q < r => RowTo(q, 20)
    BY <1>2, <2>1, <2>2 DEF InRow
  <2>5. /\ ddram' = [ddram EXCEPT ![x] = text[r][c]] /\ counter' = <<FALSE, Up(x)>>
        /\ cgram' = cgram /\ forward' = forward /\ lit' = lit
    BY <2>3, <2>4, ExecutesData DEF Ready
  <2>6. Ready'
    BY <2>5 DEF Ready, GlyphsTo
  <2>7. \A q \in Row, d \in Col : ddram'[FirstOfRow[q + 1] + d] = IF q = r /\ d = c THEN text[r][c] ELSE ddram[FirstOfRow[q + 1] + d]
    <3>1. \A a \in Address : ddram'[a] = IF a = x THEN text[r][c] ELSE ddram[a]
      BY <2>5 DEF Whole
    <3>2. ASSUME NEW q \in Row, NEW d \in Col
          PROVE  ddram'[FirstOfRow[q + 1] + d] = IF q = r /\ d = c THEN text[r][c] ELSE ddram[FirstOfRow[q + 1] + d]
      <4>1. PICK a \in Address : a = FirstOfRow[q + 1] + d
        BY RowsApart
      <4>2. a = x <=> q = r /\ d = c
        BY <2>2, <4>1, RowsApart
      <4> QED
        BY <3>1, <4>1, <4>2
    <3> QED
      BY <3>2
  <2>8. RowTo(r, c + 1)'
    <3>1. \A d \in Col : d < c + 1 => d = c \/ d < c
      BY DEF Col
    <3> QED
      BY <2>4, <2>7, <3>1 DEF RowTo
  <2>9. \A q \in Row : q < r => RowTo(q, 20)'
    <3>1. \A q \in Row : q < r => q # r
      BY DEF Row
    <3> QED
      BY <2>4, <2>7, <3>1 DEF RowTo
  <2>10. CASE i < 20
    <3>1. c < 19 /\ i = c + 1 /\ (i + 1) - 1 = c + 1 /\ i + 1 >= 1
      BY <1>2, <2>1, <2>10 DEF Col
    <3>2. Up(x) = FirstOfRow[r + 1] + ((i + 1) - 1)
      BY <2>2, <3>1, RowsApart
    <3>3. i # 20
      BY <2>10
    <3> QED
      BY <2>5, <2>6, <2>8, <2>9, <3>1, <3>2, <3>3 DEF InRow
  <2>11. CASE i = 20
    <3>1. RowTo(r, 20)'
      <4>1. c + 1 = 20
        BY <2>1, <2>11
      <4> QED
        BY <2>8, <4>1
    <3>2. \A q \in Row : q <= r => q < r \/ q = r
      BY DEF Row
    <3> QED
      BY <2>6, <2>9, <2>11, <3>1, <3>2
  <2> QED
    BY <2>10, <2>11
<1> QED
  BY <1>0, <1>1, <1>2
-----------------------------------------------------------------------------
(* The steps.                                                              *)

LEMMA NoSync ==
  /\ \A n \in 1 .. 58 : ResetBytes[n + 1].op # "sync"
  /\ \A r \in Row, i \in 0 .. 20 : UpdateRow(r, i).op # "sync"
<1>1. /\ Command("function").op = "function" /\ Command("on").op = "on"
      /\ Command("clear").op = "clear" /\ Command("entry").op = "entry"
      /\ \A a : SetDDRAM(a).op = "ddram"
      /\ \A a : SetCGRAM(a).op = "cgram"
      /\ \A c : Data(c).op = "data"
  BY DEF Command, SetDDRAM, SetCGRAM, Data
<1>2. \A k, i : CreateChar(k, i).op # "sync"
  BY <1>1 DEF CreateChar
<1>3. \A r, i : UpdateRow(r, i).op # "sync"
  BY <1>1 DEF UpdateRow, SetCursor
<1>4. ASSUME NEW n \in 1 .. 58
      PROVE  ResetBytes[n + 1].op # "sync"
  <2>1. CASE n >= 5
    <3>1. (n - 5) \div 9 \in 0 .. 5 /\ (n - 5) % 9 \in 0 .. 8 /\ n - 5 = 9 * ((n - 5) \div 9) + ((n - 5) % 9)
      BY <2>1
    <3>2. PICK q \in 0 .. 5, i \in 0 .. 8 : n - 5 = 9 * q + i
      BY <3>1
    <3>3. q + 1 \in 1 .. 6 /\ n + 1 = (9 * (q + 1) + i) - 3
      BY <3>2
    <3>4. ResetBytes[n + 1] = CreateChar(q + 1, i)
      BY <3>3, ResetByte
    <3> QED
      BY <1>2, <3>4
  <2>2. CASE n < 5
    <3>1. n + 1 \in {2, 3, 4, 5}
      BY <2>2
    <3>2. ResetBytes[2].op # "sync" /\ ResetBytes[3].op # "sync" /\ ResetBytes[4].op # "sync" /\ ResetBytes[5].op # "sync"
      BY <1>1, ResetByte
    <3> QED
      BY <3>1, <3>2
  <2>3. n >= 5 \/ n < 5
    OBVIOUS
  <2> QED
    BY <2>1, <2>2, <2>3
<1> QED
  BY <1>3, <1>4

\* A byte of reset() less to send.
LEMMA ResetOn ==
  ASSUME NEW n \in 0 .. 58, Resetting(n), todo' = Tail(todo), dirty' = dirty, healthy' = TRUE => InReset(n + 1)'
  PROVE  (\E k \in 0 .. 58 : Resetting(k)') \/ Resting'
<1>1. dirty' = TRUE
  BY DEF Resetting
<1>2. Rest(todo', ResetBytes, 59, n + 1)
  <2>1. 59 \in Nat /\ n \in 0 .. 59 - 1
    OBVIOUS
  <2>2. Rest(todo, ResetBytes, 59, n)
    BY DEF Resetting
  <2> QED
    BY <2>1, <2>2, RestStep
<1>3. CASE n < 58
  <2>1. n + 1 \in 0 .. 58
    BY <1>3
  <2>2. Resetting(n + 1)'
    BY <1>1, <1>2 DEF Resetting, Rest
  <2> QED
    BY <2>1, <2>2
<1>4. CASE n = 58
  <2>1. n + 1 = 59 /\ 59 \in Nat
    BY <1>4
  <2>2. todo' = <<>>
    BY <1>2, <2>1, RestEnd
  <2>3. InReset(59)' => Ready'
    BY ResetDone, PTL
  <2> QED
    BY <1>1, <2>1, <2>2, <2>3 DEF Resting
<1>5. n < 58 \/ n = 58
  OBVIOUS
<1> QED
  BY <1>3, <1>4, <1>5

\* A byte of update() less to send.
LEMMA UpdateOn ==
  ASSUME NEW r \in Row, NEW i \in 0 .. 20, Updating(r, i), todo' = Tail(todo), dirty' = dirty, text' = text,
         healthy' = TRUE => /\ Ready'
                            /\ i < 20 => InRow(r, i + 1)'
                            /\ i = 20 => \A q \in Row : q <= r => RowTo(q, 20)'
  PROVE  (\E q \in Row, j \in 0 .. 20 : Updating(q, j)') \/ Resting'
<1>1. dirty' = FALSE
  BY DEF Updating
<1>2. Update' = Update
  BY DEF Update, UpdateRow
<1>3. Rest(todo', Update, 84, (21 * r + i) + 1)
  <2>1. 84 \in Nat /\ 21 * r + i \in 0 .. 84 - 1
    BY DEF Row
  <2>2. Rest(todo, Update, 84, 21 * r + i)
    BY DEF Updating
  <2> QED
    BY <2>1, <2>2, RestStep
<1>4. CASE i < 20
  <2>1. i + 1 \in 0 .. 20 /\ 21 * r + (i + 1) = (21 * r + i) + 1
    BY <1>4 DEF Row
  <2>2. Rest(todo, Update, 84, 21 * r + (i + 1))'
    BY <1>2, <1>3, <2>1 DEF Rest
  <2>3. Updating(r, i + 1)'
    BY <1>1, <1>4, <2>2 DEF Updating
  <2> QED
    BY <2>1, <2>3
<1>5. CASE i = 20 /\ r < 3
  <2>1. r + 1 \in Row /\ 0 \in 0 .. 20 /\ 21 * (r + 1) + 0 = (21 * r + i) + 1
    BY <1>5 DEF Row
  <2>2. Rest(todo, Update, 84, 21 * (r + 1) + 0)'
    BY <1>2, <1>3, <2>1 DEF Rest
  <2>3. \A q \in Row : q < r + 1 => q <= r
    BY DEF Row
  <2>4. healthy' = TRUE => Ready' /\ InRow(r + 1, 0)'
    BY <1>5, <2>3 DEF InRow
  <2>5. Updating(r + 1, 0)'
    BY <1>1, <2>2, <2>4 DEF Updating
  <2> QED
    BY <2>1, <2>5
<1>6. CASE i = 20 /\ r = 3
  <2>1. (21 * r + i) + 1 = 84 /\ 84 \in Nat
    BY <1>6
  <2>2. todo' = <<>>
    BY <1>3, <2>1, RestEnd
  <2>3. \A q \in Row : q <= r
    BY <1>6 DEF Row
  <2> QED
    BY <1>6, <2>2, <2>3 DEF Resting
<1>7. i < 20 \/ (i = 20 /\ r < 3) \/ (i = 20 /\ r = 3)
  BY DEF Row
<1> QED
  BY <1>4, <1>5, <1>6, <1>7

LEMMA Idles ==
  ASSUME DisplayInv, todo = <<>>
  PROVE  Resting
<1>1. ASSUME NEW n \in 0 .. 58, Resetting(n)
      PROVE  FALSE
  <2>1. 59 \in Nat /\ n \in 0 .. 59 - 1 /\ Rest(todo, ResetBytes, 59, n)
    BY <1>1 DEF Resetting
  <2> QED
    BY <2>1, RestStep
<1>2. ASSUME NEW r \in Row, NEW i \in 0 .. 20, Updating(r, i)
      PROVE  FALSE
  <2>1. 84 \in Nat /\ 21 * r + i \in 0 .. 84 - 1
    BY DEF Row
  <2>2. Rest(todo, Update, 84, 21 * r + i)
    BY <1>2 DEF Updating
  <2> QED
    BY <2>1, <2>2, RestStep
<1> QED
  BY <1>1, <1>2 DEF DisplayInv

\* reset() has yet to begin.
LEMMA ResetBegins ==
  ASSUME todo' = ResetBytes, dirty' = TRUE
  PROVE  \E n \in 0 .. 58 : Resetting(n)'
<1>1. Rest(ResetBytes, ResetBytes, 59, 0)
  BY ResetByte, RestBegin
<1>2. InReset(0)'
  BY DEF InReset
<1>3. Resetting(0)'
  BY <1>1, <1>2 DEF Resetting, Rest
<1> QED
  BY <1>3

LEMMA Sends ==
  ASSUME DisplayInv, SendNext
  PROVE  DisplayInv'
<1>1. todo # <<>> /\ todo' = Tail(todo) /\ dirty' = dirty /\ text' = text
  BY DEF SendNext
<1>2. healthy = TRUE => Execute(Head(todo)) /\ healthy' = TRUE
  BY DEF SendNext
<1>3. healthy = FALSE => UNCHANGED panel /\ healthy' = (Head(todo).op = "sync")
  BY DEF SendNext
<1>4. Whole'
  <2>1. CASE healthy = TRUE
    BY <1>2, <2>1, WholeStays DEF DisplayInv
  <2>2. CASE healthy = FALSE
    BY <1>3, <2>2 DEF DisplayInv, Whole, panel
  <2> QED
    BY <2>1, <2>2 DEF DisplayInv
<1>5. healthy' = TRUE \/ healthy' = FALSE
  BY <1>2, <1>3 DEF DisplayInv
<1>6. dirty' = TRUE \/ dirty' = FALSE
  BY <1>1 DEF DisplayInv
<1>7. ASSUME NEW n \in 0 .. 58, Resetting(n)
      PROVE  (\E k \in 0 .. 58 : Resetting(k)') \/ Resting'
  <2>1. Head(todo) = ResetBytes[n + 1]
    <3>1. 59 \in Nat /\ n \in 0 .. 59 - 1 /\ Rest(todo, ResetBytes, 59, n)
      BY <1>7 DEF Resetting
    <3> QED
      BY <3>1, RestStep
  <2>2. healthy = TRUE => InReset(n + 1)'
    <3>1. Whole /\ (healthy = TRUE => InReset(n))
      BY <1>7 DEF Resetting, DisplayInv
    <3> QED
      BY <1>2, <2>1, <3>1, ResetStep
  <2>3. healthy = FALSE /\ n >= 1 => healthy' = FALSE
    <3>1. n >= 1 => ResetBytes[n + 1].op # "sync"
      BY NoSync
    <3> QED
      BY <1>3, <2>1, <3>1
  <2>4. n = 0 => InReset(n + 1)'
    BY DEF InReset
  <2>5. healthy' = TRUE => InReset(n + 1)'
    BY <2>2, <2>3, <2>4 DEF DisplayInv
  <2> QED
    BY <1>1, <1>7, <2>5, ResetOn
<1>8. ASSUME NEW r \in Row, NEW i \in 0 .. 20, Updating(r, i)
      PROVE  (\E q \in Row, j \in 0 .. 20 : Updating(q, j)') \/ Resting'
  <2>1. Head(todo) = UpdateRow(r, i)
    <3>1. PICK n \in 0 .. 84 - 1 : n = 21 * r + i
      <4>1. 21 * r + i \in 0 .. 84 - 1
        BY DEF Row
      <4> QED
        BY <4>1
    <3>2. Rest(todo, Update, 84, n)
      BY <1>8, <3>1 DEF Updating
    <3>3. 84 \in Nat
      OBVIOUS
    <3>4. Head(todo) = Update[n + 1]
      BY <3>2, <3>3, RestStep
    <3> QED
      BY <3>1, <3>4, UpdateByte
  <2>2. healthy = FALSE => healthy' = FALSE
    BY <1>3, <2>1, NoSync
  <2>3. healthy = TRUE => /\ Ready'
                          /\ i < 20 => InRow(r, i + 1)'
                          /\ i = 20 => \A q \in Row : q <= r => RowTo(q, 20)'
    <3>1. Whole /\ (healthy = TRUE => Ready /\ InRow(r, i))
      BY <1>8 DEF Updating, DisplayInv
    <3> QED
      BY <1>1, <1>2, <2>1, <3>1, RowStep
  <2>4. healthy' = TRUE => healthy = TRUE
    BY <2>2 DEF DisplayInv
  <2> QED
    BY <1>1, <1>8, <2>3, <2>4, UpdateOn
<1>9. ~Resting
  BY <1>1 DEF Resting
<1> QED
  BY <1>4, <1>5, <1>6, <1>7, <1>8, <1>9 DEF DisplayInv

LEMMA Slips ==
  ASSUME DisplayInv, Slip
  PROVE  DisplayInv'
<1>1. todo # <<>> /\ todo' = Tail(todo) /\ dirty' = dirty /\ text' = text /\ healthy' = FALSE
  BY DEF Slip
<1>2. Whole'
  BY DEF Slip, Anything, Whole
<1>3. ASSUME NEW n \in 0 .. 58, Resetting(n)
      PROVE  (\E k \in 0 .. 58 : Resetting(k)') \/ Resting'
  BY <1>1, <1>3, ResetOn
<1>4. ASSUME NEW r \in Row, NEW i \in 0 .. 20, Updating(r, i)
      PROVE  (\E q \in Row, j \in 0 .. 20 : Updating(q, j)') \/ Resting'
  BY <1>1, <1>4, UpdateOn
<1>5. ~Resting
  BY <1>1 DEF Resting
<1> QED
  BY <1>1, <1>2, <1>3, <1>4, <1>5 DEF DisplayInv

LEMMA TextChanges ==
  ASSUME DisplayInv, todo = <<>>, UNCHANGED <<todo, healthy>>, UNCHANGED panel,
         UNCHANGED <<text, dirty>> \/ dirty' = TRUE
  PROVE  DisplayInv'
<1>1. Resting
  BY Idles
<1>2. Whole' /\ (healthy' = TRUE \/ healthy' = FALSE) /\ (dirty' = TRUE \/ dirty' = FALSE)
  BY DEF DisplayInv, Whole, panel
<1>3. healthy' = TRUE => Ready'
  BY <1>1 DEF Resting, Ready, GlyphsTo, panel
<1>4. healthy' = TRUE /\ dirty' = FALSE => \A r \in Row : RowTo(r, 20)'
  <2>1. CASE UNCHANGED <<text, dirty>>
    BY <1>1, <2>1 DEF Resting, RowTo, panel
  <2>2. CASE dirty' = TRUE
    BY <2>2
  <2> QED
    BY <2>1, <2>2
<1>5. Resting'
  BY <1>3, <1>4 DEF Resting
<1> QED
  BY <1>2, <1>5 DEF DisplayInv

LEMMA Updates ==
  ASSUME DisplayInv, CallUpdate
  PROVE  DisplayInv'
<1>1. Resting
  BY Idles DEF CallUpdate, Idle
<1>2. /\ todo' = Update /\ dirty' = FALSE /\ text' = text /\ healthy' = healthy
      /\ UNCHANGED panel
  BY DEF CallUpdate
<1>3. Whole' /\ (healthy' = TRUE \/ healthy' = FALSE)
  BY <1>2 DEF DisplayInv, Whole, panel
<1>4. Update' = Update
  BY <1>2 DEF Update, UpdateRow
<1>5. Rest(todo, Update, 84, 21 * 0 + 0)'
  <2>1. Rest(Update, Update, 84, 0)
    BY UpdateByte, RestBegin
  <2>2. 21 * 0 + 0 = 0
    OBVIOUS
  <2> QED
    BY <1>2, <1>4, <2>1, <2>2 DEF Rest
<1>6. healthy' = TRUE => Ready'
  BY <1>1, <1>2 DEF Resting, Ready, GlyphsTo, panel
<1>7. InRow(0, 0)'
  BY DEF InRow, Row
<1>8. Updating(0, 0)'
  BY <1>2, <1>5, <1>6, <1>7 DEF Updating
<1>9. 0 \in Row /\ 0 \in 0 .. 20
  BY DEF Row
<1> QED
  BY <1>2, <1>3, <1>8, <1>9 DEF DisplayInv

LEMMA Resets ==
  ASSUME DisplayInv, CallLCDReset \/ ProcessorReset
  PROVE  DisplayInv'
<1>1. todo' = ResetBytes /\ dirty' = TRUE /\ UNCHANGED panel /\ (healthy' = healthy \/ healthy' = FALSE)
  BY DEF CallLCDReset, ProcessorReset
<1>2. \E n \in 0 .. 58 : Resetting(n)'
  BY <1>1, ResetBegins
<1>3. Whole' /\ (healthy' = TRUE \/ healthy' = FALSE)
  BY <1>1 DEF DisplayInv, Whole, panel
<1> QED
  BY <1>1, <1>2, <1>3 DEF DisplayInv

LEMMA DisplayStart == DisplayInit => DisplayInv
<1> SUFFICES ASSUME DisplayInit
             PROVE  DisplayInv
  OBVIOUS
<1>1. Whole /\ healthy = FALSE /\ dirty = TRUE /\ todo = ResetBytes
  BY DEF DisplayInit, Whole
<1>2. Rest(ResetBytes, ResetBytes, 59, 0)
  BY ResetByte, RestBegin
<1>3. Resetting(0)
  BY <1>1, <1>2 DEF Resetting
<1> QED
  BY <1>1, <1>3 DEF DisplayInv

LEMMA DisplaySteps == DisplayInv /\ [DisplayNext]_displayVars => DisplayInv'
<1> SUFFICES ASSUME DisplayInv, [DisplayNext]_displayVars
             PROVE  DisplayInv'
  OBVIOUS
<1>1. CASE SendNext
  BY <1>1, Sends
<1>2. CASE Slip
  BY <1>2, Slips
<1>3. CASE CallSetText
  <2>1. UNCHANGED <<text, dirty>> \/ dirty' = TRUE
    BY <1>3 DEF CallSetText, SetText
  <2> QED
    BY <1>3, <2>1, TextChanges DEF CallSetText, Idle
<1>4. CASE CallClear
  BY <1>4, TextChanges DEF CallClear, Idle
<1>5. CASE CallUpdate
  BY <1>5, Updates
<1>6. CASE CallLCDReset
  BY <1>6, Resets
<1>7. CASE ProcessorReset
  BY <1>7, Resets
<1>8. CASE UNCHANGED displayVars
  <2>1. UNCHANGED <<text, todo, ddram, cgram, counter, forward, lit, healthy, dirty>>
    BY <1>8 DEF displayVars, panel
  <2>2. Update' = Update
    BY <2>1 DEF Update, UpdateRow
  <2>3. ASSUME NEW n \in 0 .. 58, Resetting(n)
        PROVE  Resetting(n)'
    BY <2>1, <2>3 DEF Resetting, Rest, InReset, InGlyph, GlyphsTo
  <2>4. ASSUME NEW r \in Row, NEW i \in 0 .. 20, Updating(r, i)
        PROVE  Updating(r, i)'
    <3>1. Ready' <=> Ready
      BY <2>1 DEF Ready, GlyphsTo
    <3>2. InRow(r, i)' <=> InRow(r, i)
      BY <2>1 DEF InRow, RowTo
    <3>3. Rest(todo, Update, 84, 21 * r + i)' <=> Rest(todo, Update, 84, 21 * r + i)
      BY <2>1, <2>2 DEF Rest
    <3> QED
      BY <2>1, <2>4, <3>1, <3>2, <3>3 DEF Updating
  <2>5. Resting => Resting'
    BY <2>1 DEF Resting, Ready, RowTo, GlyphsTo
  <2>6. Whole' /\ healthy' = healthy /\ dirty' = dirty
    BY <2>1 DEF DisplayInv, Whole
  <2> QED
    BY <2>3, <2>4, <2>5, <2>6 DEF DisplayInv
<1> QED
  BY <1>1, <1>2, <1>3, <1>4, <1>5, <1>6, <1>7, <1>8 DEF DisplayNext

LEMMA ShowsTextHolds == DisplayInv => ShowsText
<1> SUFFICES ASSUME DisplayInv
             PROVE  ShowsText
  OBVIOUS
<1>1. ASSUME healthy, Idle
      PROVE  Ready /\ (~dirty => \A r \in Row : RowTo(r, 20))
  <2>1. Resting /\ healthy = TRUE
    BY <1>1, Idles DEF Idle, DisplayInv
  <2>2. ~dirty => dirty = FALSE
    BY DEF DisplayInv
  <2> QED
    BY <2>1, <2>2 DEF Resting
<1>2. ASSUME healthy, Idle, ~dirty
      PROVE  lit /\ \A r \in Row, c \in Col : ddram[FirstOfRow[r + 1] + c] = text[r][c]
  <2>1. Ready /\ \A r \in Row : RowTo(r, 20)
    BY <1>1, <1>2
  <2>2. \A c \in Col : c < 20
    BY DEF Col
  <2> QED
    BY <2>1, <2>2 DEF Ready, RowTo
<1>3. ASSUME healthy, Idle, NEW n \in Norwegian, NEW r \in 0 .. 7
      PROVE  cgram[8 * Glyph(n) + r] = Dots(Glyph(n), r)
  <2>1. Ready
    BY <1>1, <1>3
  <2>2. PICK g \in 1 .. 6 : g = Glyph(n)
    BY DEF Norwegian, Glyph
  <2>3. 8 * g + r \in 8 .. 55 /\ 8 * g + r < 56
    OBVIOUS
  <2> QED
    BY <2>1, <2>2, <2>3 DEF Ready, GlyphsTo, Dots
<1> QED
  BY <1>2, <1>3 DEF ShowsText

\* Whatever the display held when begin() was called, after a reset() and an update() it
\* shows the text, line by line, and has a glyph for each Norwegian letter (lcd.cpp:24-57),
\* whatever texts and lines setText() is called with and whichever bytes slipped before.
THEOREM TextShown == DisplaySpec => []ShowsText
<1>1. DisplayInit => DisplayInv
  BY DisplayStart
<1>2. DisplayInv /\ [DisplayNext]_displayVars => DisplayInv'
  BY DisplaySteps
<1>3. DisplayInv => ShowsText
  BY ShowsTextHolds
<1> QED
  BY <1>1, <1>2, <1>3, PTL DEF DisplaySpec
=============================================================================
