--------------------------- MODULE FirmwareProofs ---------------------------
(***************************************************************************)
(* Theorems about four parts of the firmware: the text of Narco's columns  *)
(* (InfoText) and the word of bits that holds them (NarcoBits), for any    *)
(* number of columns; the main loop (Loop), for every word size, delay,    *)
(* watchdog and boot time that LoopAssumption allows; and a timer (Clock), *)
(* for every word size and set of intervals.                               *)
(***************************************************************************)
EXTENDS Clock, Loop, InfoText, NarcoBits, WellFoundedInduction, TLAPS

(* The text.                                                               *)

\* What is shown of a column is one of three things, and each call tells what it told before.
TextTypeOK == /\ full \subseteq Column /\ jammed \subseteq Column
              /\ m_infoText \in [Column -> {"_", "#", "J"}]
              /\ told \in [full : SUBSET Column, jammed : SUBSET Column]
              /\ toldEver \in [full : SUBSET Column, jammed : SUBSET Column]

LEMMA TextStart == TextInit => TextTypeOK /\ TextErrsOneWay
<1> SUFFICES ASSUME TextInit
             PROVE  TextTypeOK /\ TextErrsOneWay
  OBVIOUS
<1>1. TextTypeOK
  BY DEF TextInit, NarcoInit, TextTypeOK, Nothing
<1>2. toldEver.full = {} /\ toldEver.jammed = {} /\ \A c \in Column : m_infoText[c] = "_"
  BY DEF TextInit, Nothing
<1> QED
  BY <1>1, <1>2 DEF TextErrsOneWay

\* What was told before matters only where no mark is due.
LEMMA AskedText ==
  ASSUME TextTypeOK, TextErrsOneWay, NEW r \in Reading, GetInfoText(r)
  PROVE  TextTypeOK' /\ TextErrsOneWay'
<1>1. r.full \subseteq Column /\ full' = r.full /\ jammed' = Column \ r.home
  BY DEF Reading, GetInfoText, UpdateWithJam
<1>2. /\ m_infoText' = [c \in Column |-> IF c \in jammed' THEN "J" ELSE IF c \in full' THEN "#" ELSE m_infoText[c]]
      /\ told' = [full |-> full', jammed |-> jammed']
      /\ toldEver' = [full |-> toldEver.full \cup full', jammed |-> toldEver.jammed \cup jammed']
  BY DEF GetInfoText, Marked
<1>3. /\ told'.full = full' /\ told'.jammed = jammed'
      /\ toldEver'.full = toldEver.full \cup full' /\ toldEver'.jammed = toldEver.jammed \cup jammed'
  BY <1>2
<1>4. TextTypeOK'
  BY <1>1, <1>2 DEF TextTypeOK
<1>5. ASSUME NEW c \in Column
      PROVE  /\ m_infoText'[c] = "#" => c \in toldEver'.full \ told'.jammed
             /\ m_infoText'[c] = "J" => c \in toldEver'.jammed \ (told'.full \ told'.jammed)
             /\ m_infoText'[c] = "_" => c \notin toldEver'.full \cup toldEver'.jammed
  <2>1. CASE c \in jammed'
    BY <1>2, <1>3, <2>1
  <2>2. CASE c \notin jammed' /\ c \in full'
    BY <1>2, <1>3, <2>2
  <2>3. CASE c \notin jammed' /\ c \notin full'
    <3>1. m_infoText'[c] = m_infoText[c]
      BY <1>2, <2>3
    <3> QED
      BY <1>3, <2>3, <3>1 DEF TextErrsOneWay
  <2> QED
    BY <2>1, <2>2, <2>3
<1> QED
  BY <1>4, <1>5 DEF TextErrsOneWay

LEMMA TextStep == TextTypeOK /\ TextErrsOneWay /\ [TextNext]_textVars => TextTypeOK' /\ TextErrsOneWay'
<1> SUFFICES ASSUME TextTypeOK, TextErrsOneWay, [TextNext]_textVars
             PROVE  TextTypeOK' /\ TextErrsOneWay'
  OBVIOUS
<1>1. CASE Unasked
  <2>1. UNCHANGED <<m_infoText, told, toldEver>> /\ \E r \in Reading : UpdateWithJam(r)
    BY <1>1 DEF Unasked, GetDeployColumn
  <2>2. full' \subseteq Column /\ jammed' \subseteq Column
    BY <2>1 DEF Reading, UpdateWithJam
  <2> QED
    BY <2>1, <2>2 DEF TextTypeOK, TextErrsOneWay
<1>2. ASSUME NEW c \in 0 .. N + 1, SetJammed(c)
      PROVE  TextTypeOK' /\ TextErrsOneWay'
  BY <1>2 DEF SetJammed, MarkJammed, TextTypeOK, TextErrsOneWay
<1>3. ASSUME NEW r \in Reading, GetInfoText(r)
      PROVE  TextTypeOK' /\ TextErrsOneWay'
  BY <1>3, AskedText
<1>4. CASE PowerUp
  BY <1>4 DEF PowerUp, TextTypeOK, TextErrsOneWay, Nothing
<1>5. CASE UNCHANGED textVars
  BY <1>5 DEF textVars, narcoVars, TextTypeOK, TextErrsOneWay
<1> QED
  BY <1>1, <1>2, <1>3, <1>4, <1>5 DEF TextNext

\* TextErrsOneWay: a mark may be old, but no column is shown as fit that was jammed, nor as empty
\* that was full (narco.cpp:210-222).
THEOREM TextHonest == TextSpec => []TextErrsOneWay
<1> QED
  BY TextStart, TextStep, PTL DEF TextSpec
-----------------------------------------------------------------------------
(* The main loop: the service state is forced exactly when the button has  *)
(* been held, on either side of a wrap of the clock.                       *)

Step == {"setup", "update", "read", "judge", "force"}

LoopTypeOK == /\ step \in Step
              /\ millis \in 0 .. Word - 1 /\ lastDebounceTime \in 0 .. Word - 1
              /\ pin \in {LOW, HIGH} /\ reading \in {LOW, HIGH} /\ lastServiceButtonState \in {LOW, HIGH}
              /\ dog \in {Off} \cup 0 .. Dog
              /\ held \in 0 .. Cap /\ rested \in 0 .. Cap

\* What the program computes with unsigned numbers.
Elapsed == (millis - lastDebounceTime) % Word

\* The button counts as down.
Down == \/ step \in {"setup", "update", "read"} /\ lastServiceButtonState = LOW
        \/ step = "judge" /\ reading = LOW

Longest == IF Boot > Delay THEN Boot ELSE Delay

\* How long it can have been so since the last look that did not force anything, or since
\* power-up: loop() is left, and entered again, within the watchdog's time.
Bound == IF step = "setup" THEN millis ELSE IF step = "update" THEN Longest + dog ELSE Longest + Dog + dog

Watched == IF step = "setup" THEN dog = Off /\ millis <= Boot /\ lastDebounceTime = 0 ELSE dog # Off

\* While the button counts as down the unsigned difference is the time for which it has been.
Timed == Down => /\ Elapsed <= Bound
                 /\ held = IF Elapsed < Cap THEN Elapsed ELSE Cap
                 /\ held <= rested

LoopInv == LoopTypeOK /\ Watched /\ Timed
-----------------------------------------------------------------------------
(* Arithmetic on the word.                                                 *)

LEMMA Difference ==
  ASSUME NEW a \in 0 .. Word - 1, NEW b \in 0 .. Word - 1
  PROVE  (a - b) % Word = IF a >= b THEN a - b ELSE a - b + Word
<1>1. Word \in Nat /\ Word > 0
  BY LoopAssumption
<1>2. \A n \in 0 .. Word - 1 : n % Word = n
  BY <1>1
<1>3. CASE a >= b
  BY <1>1, <1>2, <1>3
<1>4. CASE a < b
  <2>1. a - b + Word \in 0 .. Word - 1 /\ (a - b + Word) % Word = a - b + Word
    BY <1>1, <1>2, <1>4
  <2>2. (a - b + Word) % Word = (a - b) % Word
    BY <1>1
  <2> QED
    BY <1>4, <2>1, <2>2
<1> QED
  BY <1>3, <1>4

LEMMA NextMillis ==
  ASSUME NEW a \in 0 .. Word - 1
  PROVE  (a + 1) % Word = IF a + 1 < Word THEN a + 1 ELSE 0
<1>1. Word \in Nat /\ Word > 0
  BY LoopAssumption
<1>2. \A n \in 0 .. Word - 1 : n % Word = n
  BY <1>1
<1>3. Word % Word = 0
  BY <1>1
<1> QED
  BY <1>1, <1>2, <1>3

LEMMA ElapsedRange ==
  ASSUME LoopTypeOK
  PROVE  Elapsed \in 0 .. Word - 1
BY LoopAssumption, Difference DEF LoopTypeOK, Elapsed

\* A clock that has just been noted shows nothing elapsed.
LEMMA ElapsedAnew ==
  ASSUME LoopTypeOK, UNCHANGED millis, lastDebounceTime' = millis
  PROVE  Elapsed' = 0
BY LoopAssumption, Difference DEF LoopTypeOK, Elapsed

\* A tick is seen, unless it completes a lap.
LEMMA ElapsedTick ==
  ASSUME LoopTypeOK, millis' = (millis + 1) % Word, UNCHANGED lastDebounceTime,
         Elapsed + 1 < Word
  PROVE  Elapsed' = Elapsed + 1
<1>1. millis \in 0 .. Word - 1 /\ lastDebounceTime \in 0 .. Word - 1 /\ Word \in Nat /\ Word > 0
  BY LoopAssumption DEF LoopTypeOK
<1>2. millis' = IF millis + 1 < Word THEN millis + 1 ELSE 0
  BY <1>1, NextMillis
<1>3. millis' \in 0 .. Word - 1
  BY <1>1, <1>2
<1>4. Elapsed' = IF millis' >= lastDebounceTime THEN millis' - lastDebounceTime ELSE millis' - lastDebounceTime + Word
  BY <1>1, <1>3, Difference DEF Elapsed
<1>5. Elapsed = IF millis >= lastDebounceTime THEN millis - lastDebounceTime ELSE millis - lastDebounceTime + Word
  BY <1>1, Difference DEF Elapsed
<1> QED
  BY <1>1, <1>2, <1>4, <1>5
-----------------------------------------------------------------------------
(* The invariant.                                                          *)

LEMMA LoopStart ==
  ASSUME LoopInit
  PROVE  LoopInv
<1>1. LoopTypeOK
  BY LoopAssumption DEF LoopInit, LoopTypeOK, Step, LOW, HIGH, Off, Cap
<1>2. Elapsed = 0
  BY LoopAssumption, <1>1, Difference DEF LoopInit, Elapsed, LoopTypeOK
<1>3. Watched /\ Timed
  BY LoopAssumption, <1>2 DEF LoopInit, Watched, Timed, Bound, Cap
<1> QED
  BY <1>1, <1>3 DEF LoopInv

LEMMA LoopTypeStep ==
  ASSUME LoopTypeOK, Watched, LoopNext
  PROVE  LoopTypeOK' /\ Watched'
<1> USE DEF LoopTypeOK, Watched, Off, LOW, HIGH
<1>0. Word \in Nat /\ Word > 0 /\ Delay \in Nat /\ Dog \in Nat \ {0} /\ Boot \in Nat /\ Cap \in Nat \ {0}
  BY LoopAssumption DEF Cap
<1>1. CASE Setup
  <2>1. dog' = 0 /\ step' = "update" /\ 0 \in 0 .. Dog
    BY <1>0, <1>1 DEF Setup, Watch
  <2> QED
    BY <1>1, <2>1 DEF Setup, Step
<1>2. CASE Update
  <2>1. dog' = 0 /\ step' = "read" /\ 0 \in 0 .. Dog
    BY <1>0, <1>2 DEF Update
  <2> QED
    BY <1>2, <2>1 DEF Update, Step
<1>3. CASE Read
  <2>1. step' = "judge" /\ lastDebounceTime' \in 0 .. Word - 1 /\ held' \in 0 .. Cap
    BY <1>0, <1>3 DEF Read
  <2> QED
    BY <1>3, <2>1 DEF Read, Step
<1>4. CASE Judge
  <2>1. step' \in {"force", "update"} /\ reading' \in {LOW, HIGH} /\ lastServiceButtonState' \in {LOW, HIGH}
    BY <1>4 DEF Judge
  <2> QED
    BY <1>4, <2>1 DEF Judge, Step
<1>5. CASE ForceService
  <2>1. step' = "update" /\ rested' \in 0 .. Cap
    BY <1>0, <1>5 DEF ForceService
  <2> QED
    BY <1>5, <2>1 DEF ForceService, Step
<1>6. CASE LoopTick
  <2>1. millis' \in 0 .. Word - 1 /\ (millis < Boot => millis' <= Boot)
    BY <1>0, <1>6, NextMillis DEF LoopTick
  <2>2. dog' \in {-1} \cup 0 .. Dog /\ (dog' = -1 <=> dog = -1)
    BY <1>0, <1>6 DEF LoopTick
  <2>3. held' \in 0 .. Cap /\ rested' \in 0 .. Cap
    BY <1>0, <1>6 DEF LoopTick, Capped
  <2> QED
    BY <1>6, <2>1, <2>2, <2>3 DEF LoopTick
<1>7. CASE Bite
  <2>1. 0 \in 0 .. Word - 1 /\ 0 \in 0 .. Cap /\ 0 <= Boot
    BY <1>0
  <2> QED
    BY <1>7, <2>1 DEF Bite, Step
<1>8. CASE Button
  BY <1>0, <1>8 DEF Button
<1> QED
  BY <1>1, <1>2, <1>3, <1>4, <1>5, <1>6, <1>7, <1>8 DEF LoopNext, Processor

\* Time passes: the difference goes up with it, for it is less than a lap.
LEMMA TickTimed ==
  ASSUME LoopInv, LoopTick
  PROVE  Timed'
<1>1. /\ Word \in Nat /\ Delay \in Nat /\ Dog \in Nat \ {0} /\ Boot \in Nat
      /\ Word > Boot + 2 * Dog /\ Word > Delay + 2 * Dog
      /\ Longest \in Nat /\ Word > Longest + 2 * Dog /\ Boot <= Longest
  BY LoopAssumption DEF Longest
<1>2. Elapsed \in 0 .. Word - 1 /\ LoopTypeOK /\ Watched /\ Timed
  BY ElapsedRange DEF LoopInv
<1>3. /\ millis' = (millis + 1) % Word /\ UNCHANGED <<step, reading, lastServiceButtonState, lastDebounceTime>>
      /\ dog # Dog /\ (step = "setup" => millis < Boot)
      /\ dog' = (IF dog = Off THEN Off ELSE dog + 1) /\ held' = Capped(held) /\ rested' = Capped(rested)
  BY DEF LoopTick
<1> SUFFICES ASSUME Down
             PROVE  /\ Elapsed' <= Bound'
                    /\ held' = IF Elapsed' < Cap THEN Elapsed' ELSE Cap
                    /\ held' <= rested'
  BY <1>3 DEF Timed, Down
<1>4. Elapsed <= Bound /\ held = (IF Elapsed < Cap THEN Elapsed ELSE Cap) /\ held <= rested
  BY <1>2 DEF Timed
<1>5. Elapsed + 1 < Word /\ Elapsed + 1 <= Bound'
  <2>1. CASE step = "setup"
    <3>1. millis' = millis + 1
      BY <1>1, <1>2, <1>3, <2>1, NextMillis DEF LoopTypeOK
    <3> QED
      BY <1>1, <1>2, <1>3, <1>4, <2>1, <3>1 DEF Bound, LoopTypeOK
  <2>2. CASE step # "setup"
    <3>1. dog \in 0 .. Dog - 1 /\ dog' = dog + 1
      BY <1>1, <1>2, <1>3, <2>2 DEF LoopTypeOK, Watched, Off
    <3> QED
      BY <1>1, <1>2, <1>3, <1>4, <2>2, <3>1 DEF Bound
  <2> QED
    BY <2>1, <2>2
<1>6. Elapsed' = Elapsed + 1
  BY <1>2, <1>3, <1>5, ElapsedTick
<1>7. held' = IF Elapsed' < Cap THEN Elapsed' ELSE Cap
  BY <1>1, <1>2, <1>3, <1>4, <1>6 DEF Capped, Cap
<1>8. held' <= rested'
  BY <1>1, <1>2, <1>3, <1>4 DEF Capped, Cap, LoopTypeOK
<1> QED
  BY <1>5, <1>6, <1>7, <1>8

LEMMA LoopStep ==
  ASSUME LoopInv, [LoopNext]_loopVars
  PROVE  LoopInv'
<1>1. /\ Word \in Nat /\ Delay \in Nat /\ Dog \in Nat \ {0} /\ Boot \in Nat /\ Cap = Delay + 1
      /\ Longest \in Nat /\ Boot <= Longest /\ Delay <= Longest
  BY LoopAssumption DEF Longest, Cap
<1>2. LoopTypeOK /\ Watched /\ Timed /\ Elapsed \in 0 .. Word - 1
  BY ElapsedRange DEF LoopInv
<1>3. CASE UNCHANGED loopVars
  BY <1>3 DEF loopVars, LoopInv, LoopTypeOK, Watched, Timed, Down, Bound, Elapsed
<1>4. ASSUME LoopNext, Timed'
      PROVE  LoopInv'
  BY <1>2, <1>4, LoopTypeStep DEF LoopInv
<1> USE DEF Timed, Down
<1>5. CASE Setup
  <2>1. Elapsed' = Elapsed /\ Bound' = Longest /\ step = "setup"
    BY <1>1, <1>5 DEF Setup, Watch, Elapsed, Bound
  <2>2. Elapsed <= Bound => Elapsed <= Longest
    BY <1>1, <1>2, <2>1 DEF Bound, Watched, LoopTypeOK
  <2>3. Timed'
    BY <1>2, <1>5, <2>1, <2>2 DEF Setup
  <2> QED
    BY <1>4, <1>5, <2>3 DEF LoopNext, Processor
<1>6. CASE Update
  <2>1. Elapsed' = Elapsed /\ dog \in 0 .. Dog /\ Bound = Longest + dog /\ Bound' = Longest + Dog
    BY <1>1, <1>2, <1>6 DEF Update, Elapsed, Bound, Watched, LoopTypeOK, Off
  <2>2. Timed'
    BY <1>1, <1>2, <1>6, <2>1 DEF Update
  <2> QED
    BY <1>4, <1>6, <2>2 DEF LoopNext, Processor
<1>7. CASE Read
  <2>1. Bound' = Bound /\ Bound \in Nat
    BY <1>1, <1>2, <1>7 DEF Read, Bound, Watched, LoopTypeOK, Off
  <2>2. CASE Changed
    <3>1. Elapsed' = 0
      BY <1>2, <1>7, <2>2, ElapsedAnew DEF Read
    <3>2. reading' = LOW => held' = 0 /\ 0 <= rested'
      BY <1>2, <1>7, <2>2 DEF Read, Changed, LoopTypeOK
    <3>3. Down' => reading' = LOW
      BY <1>7 DEF Read
    <3>4. Elapsed' <= Bound' /\ 0 < Cap
      BY <1>1, <2>1, <3>1
    <3>5. Timed'
      BY <3>1, <3>2, <3>3, <3>4
    <3> QED
      BY <1>4, <1>7, <3>5 DEF LoopNext, Processor
  <2>3. CASE ~Changed
    <3>1. Elapsed' = Elapsed
      BY <1>7, <2>3 DEF Read, Elapsed
    <3>2. reading' = LOW => lastServiceButtonState = LOW /\ UNCHANGED <<held, rested>>
      BY <1>7, <2>3 DEF Read, Changed, LOW, HIGH
    <3>3. Timed'
      BY <1>2, <1>7, <2>1, <3>1, <3>2 DEF Read
    <3> QED
      BY <1>4, <1>7, <3>3 DEF LoopNext, Processor
  <2> QED
    BY <2>2, <2>3
<1>8. CASE Judge
  <2>1. Elapsed' = Elapsed /\ UNCHANGED <<held, rested, dog>>
    BY <1>8 DEF Judge, Elapsed
  <2>2. CASE step' = "force"
    <3>1. Timed'
      BY <2>2
    <3> QED
      BY <1>4, <1>8, <3>1 DEF LoopNext, Processor
  <2>3. CASE step' # "force"
    <3>1. ~(Debounced /\ reading = LOW) /\ step = "judge" /\ step' = "update" /\ lastServiceButtonState' = reading'
      BY <1>8, <2>3 DEF Judge
    <3>2. lastServiceButtonState' = LOW => reading = LOW /\ ~Debounced
      BY <1>8, <3>1 DEF Judge, LOW, HIGH
    <3>3. ~Debounced => Elapsed <= Delay
      BY <1>1, <1>2 DEF Debounced, Elapsed
    <3>4. Bound' = Longest + dog /\ dog \in 0 .. Dog
      BY <1>2, <2>1, <3>1 DEF Bound, Watched, LoopTypeOK, Off
    <3>5. Timed'
      BY <1>1, <1>2, <2>1, <3>1, <3>2, <3>3, <3>4
    <3> QED
      BY <1>4, <1>8, <3>5 DEF LoopNext, Processor
  <2> QED
    BY <2>2, <2>3
<1>9. CASE ForceService
  <2>1. Timed'
    <3>1. step' = "update" /\ lastServiceButtonState' # LOW
      BY <1>9 DEF ForceService, LOW, HIGH
    <3> QED
      BY <3>1
  <2> QED
    BY <1>4, <1>9, <2>1 DEF LoopNext, Processor
<1>10. CASE LoopTick
  BY <1>4, <1>10, TickTimed DEF LoopNext
<1>11. CASE Bite
  <2>1. millis' = 0 /\ lastDebounceTime' = 0 /\ held' = 0 /\ rested' = 0 /\ step' = "setup"
    BY <1>11 DEF Bite
  <2>2. Elapsed' = 0
    BY LoopAssumption, <1>1, <2>1, Difference DEF Elapsed
  <2>3. Timed'
    BY <1>1, <2>1, <2>2 DEF Bound
  <2> QED
    BY <1>4, <1>11, <2>3 DEF LoopNext
<1>12. CASE Button
  <2>1. Timed'
    BY <1>2, <1>12 DEF Button, Bound, Elapsed
  <2> QED
    BY <1>4, <1>12, <2>1 DEF LoopNext
<1> QED
  BY <1>3, <1>5, <1>6, <1>7, <1>8, <1>9, <1>10, <1>11, <1>12 DEF LoopNext, Processor

\* While the button counts as down the program's unsigned difference is the time for which it
\* has been, and never reaches a lap: the watchdog sees to it that loop() looks in time.
THEOREM LoopTimed == LoopSpec => []LoopInv
BY LoopStart, LoopStep, PTL DEF LoopSpec

\* ForcedWhenHeld: the service state is forced exactly when the button has been down at every
\* look for longer than the delay, and as long after the last time, on either side of a wrap
\* of the clock (main.cpp:36-56).
THEOREM ServiceWhenHeld == LoopSpec => ForcedWhenHeld
<1> DEFINE Fine == step = "judge" /\ step' \in {"force", "update"} =>
                     (step' = "force" <=> reading = LOW /\ held > Delay /\ rested > Delay)
<1>1. LoopInv /\ [LoopNext]_loopVars => [Fine]_loopVars
  <2> SUFFICES ASSUME LoopInv, LoopNext, step = "judge", step' \in {"force", "update"}
               PROVE  step' = "force" <=> reading = LOW /\ held > Delay /\ rested > Delay
    OBVIOUS
  <2>1. Judge
    <3>1. ~LoopTick /\ ~Button
      BY DEF LoopTick, Button
    <3>2. ~Bite
      BY DEF Bite
    <3> QED
      BY <3>1, <3>2 DEF LoopNext, Processor, Setup, Update, Read, ForceService
  <2>2. step' = "force" <=> Debounced /\ reading = LOW
    BY <2>1 DEF Judge
  <2>3. reading = LOW => (Debounced <=> held > Delay) /\ held <= rested
    BY LoopAssumption, ElapsedRange DEF LoopInv, Timed, Down, Debounced, Elapsed, Cap
  <2>4. held \in Nat /\ rested \in Nat /\ Delay \in Nat
    BY LoopAssumption DEF LoopInv, LoopTypeOK, Cap
  <2> QED
    BY <2>2, <2>3, <2>4
<1> QED
  BY <1>1, LoopTimed, PTL DEF LoopSpec, ForcedWhenHeld
-----------------------------------------------------------------------------
(* A timer.                                                                *)

USE ClockAssumption DEF ClockAssumption

LEMMA ModSmall == \A a \in 0 .. Word - 1 : a % Word = a
  OBVIOUS

LEMMA ModRange == \A a \in Nat : a % Word \in 0 .. Word - 1
  OBVIOUS

LEMMA ModWord == Word % Word = 0
  OBVIOUS

LEMMA TypeInit == Init => ClockTypeOK
<1> SUFFICES ASSUME Init PROVE ClockTypeOK
  OBVIOUS
<1>1. millis \in 0 .. Word - 1 /\ startTime \in 0 .. Word - 1 /\ age \in 0 .. Word
  BY DEF Init
<1>2. isActive \in BOOLEAN /\ answer \in BOOLEAN /\ interval \in Interval
  BY DEF Init
<1> QED
  BY <1>1, <1>2 DEF ClockTypeOK

LEMMA TypeStep == ClockTypeOK /\ [Next]_clockVars => ClockTypeOK'
<1> SUFFICES ASSUME ClockTypeOK, [Next]_clockVars PROVE ClockTypeOK'
  OBVIOUS
<1> USE DEF ClockTypeOK
<1>1. CASE Restart
  BY <1>1 DEF Restart, Start
<1>2. CASE \E i \in Interval : StartWith(i)
  BY <1>2 DEF StartWith, Start
<1>3. CASE Stop
  BY <1>3 DEF Stop
<1>4. CASE Look
  BY <1>4 DEF Look, TimedOut
<1>5. CASE Tick
  BY <1>5, ModRange DEF Tick
<1>6. CASE UNCHANGED clockVars
  BY <1>6 DEF clockVars
<1> QED
  BY <1>1, <1>2, <1>3, <1>4, <1>5, <1>6 DEF Next

\* The clock stays in its word, and a timer keeps one of the intervals.
THEOREM ClockTypeCorrect == Spec => []ClockTypeOK
  BY TypeInit, TypeStep, PTL DEF Spec

\* Until the clock has wrapped since the start, millis() is the start and the age.
AgeInv == isActive /\ startTime + age < Word => millis = startTime + age

LEMMA AgeStep == ClockTypeOK /\ AgeInv /\ [Next]_clockVars => AgeInv'
<1> SUFFICES ASSUME ClockTypeOK, AgeInv, [Next]_clockVars PROVE AgeInv'
  OBVIOUS
<1> USE DEF ClockTypeOK, AgeInv
<1>1. CASE Restart
  BY <1>1 DEF Restart, Start
<1>2. CASE \E i \in Interval : StartWith(i)
  BY <1>2 DEF StartWith, Start
<1>3. CASE Stop
  BY <1>3 DEF Stop
<1>4. CASE Look
  BY <1>4 DEF Look
<1>5. CASE Tick
  <2> SUFFICES ASSUME isActive, startTime + age' < Word PROVE millis' = startTime + age'
    BY <1>5 DEF Tick
  <2>1. age' = age + 1 /\ millis = startTime + age
    BY <1>5 DEF Tick
  <2>2. (millis + 1) % Word = millis + 1
    BY <2>1, ModSmall
  <2> QED
    BY <1>5, <2>1, <2>2 DEF Tick
<1>6. CASE UNCHANGED clockVars
  BY <1>6 DEF clockVars
<1> QED
  BY <1>1, <1>2, <1>3, <1>4, <1>5, <1>6 DEF Next

\* A timer is wrong near the wrap of the clock only.
THEOREM WrongAtWrap == Spec => []WrongOnlyAtWrap
<1>1. Init => AgeInv
  BY DEF Init, AgeInv
<1>2. ClockTypeOK /\ AgeInv => WrongOnlyAtWrap
  <2> SUFFICES ASSUME ClockTypeOK, AgeInv, isActive
               PROVE  /\ TimedOut /\ age < interval => startTime + interval >= Word
                      /\ ~TimedOut /\ age >= interval => startTime + age >= Word
    BY DEF WrongOnlyAtWrap
  <2> USE DEF ClockTypeOK, AgeInv
  <2>1. startTime + interval < Word => (startTime + interval) % Word = startTime + interval
    BY ModSmall
  <2> QED
    BY <2>1 DEF TimedOut
<1> QED
  BY <1>1, <1>2, AgeStep, ClockTypeCorrect, PTL DEF Spec

-----------------------------------------------------------------------------
\* A timer that is no older than this lap of the clock was started at what startTime says.
StartInv == isActive /\ age <= millis => startTime = millis - age

LEMMA StartStep == ClockTypeOK /\ StartInv /\ [Next]_clockVars => StartInv'
<1> SUFFICES ASSUME ClockTypeOK, StartInv, [Next]_clockVars PROVE StartInv'
  OBVIOUS
<1> USE DEF ClockTypeOK, StartInv
<1>1. CASE Restart
  BY <1>1 DEF Restart, Start
<1>2. CASE \E i \in Interval : StartWith(i)
  BY <1>2 DEF StartWith, Start
<1>3. CASE Stop
  BY <1>3 DEF Stop
<1>4. CASE Look
  BY <1>4 DEF Look
<1>5. CASE Tick
  <2>1. CASE millis + 1 < Word
    <3>1. millis' = millis + 1
      BY <1>5, <2>1, ModSmall DEF Tick
    <3> QED
      BY <1>5, <3>1 DEF Tick
  <2>2. CASE ~(millis + 1 < Word)
    <3>1. millis' = 0
      BY <1>5, <2>2, ModWord DEF Tick
    <3> QED
      BY <1>5, <3>1 DEF Tick
  <2> QED
    BY <2>1, <2>2
<1>6. CASE UNCHANGED clockVars
  BY <1>6 DEF clockVars
<1> QED
  BY <1>1, <1>2, <1>3, <1>4, <1>5, <1>6 DEF Next

\* Before the wrap timedOut() is the end of the countdown.
LEMMA LapTimedOut == ClockTypeOK /\ StartInv /\ InLap => (TimedOut <=> left = 0)
<1> SUFFICES ASSUME ClockTypeOK, StartInv, InLap PROVE TimedOut <=> left = 0
  OBVIOUS
<1> USE DEF StartInv, InLap, ClockTypeOK
<1>1. CASE isActive
  <2>1. (startTime + interval) % Word = startTime + interval
    BY <1>1, ModSmall
  <2>2. millis >= startTime + interval <=> left = 0
    BY <1>1 DEF left
  <2> QED
    BY <1>1, <2>1, <2>2 DEF TimedOut
<1>2. CASE ~isActive
  <2>1. left = -1
    BY <1>2 DEF left
  <2> QED
    BY <1>2, <2>1 DEF TimedOut
<1> QED
  BY <1>1, <1>2

LEMMA LapImplements == ClockTypeOK /\ StartInv /\ InLap /\ [Next]_clockVars => [C!Next]_(C!countdownVars)
<1> SUFFICES ASSUME ClockTypeOK, StartInv, InLap, [Next]_clockVars
             PROVE  [C!Next]_(C!countdownVars)
  OBVIOUS
<1> USE DEF InLap, ClockTypeOK, C!countdownVars
<1>1. CASE Restart
  <2>1. left' = interval
    BY <1>1 DEF Restart, Start, left
  <2> QED
    BY <1>1, <2>1 DEF Restart, Start, C!Next, C!Start
<1>2. CASE \E i \in Interval : StartWith(i)
  <2>1. PICK i \in Interval : StartWith(i)
    BY <1>2
  <2>2. left' = i
    BY <2>1 DEF StartWith, Start, left
  <2> QED
    BY <2>1, <2>2 DEF StartWith, Start, C!Next, C!Start
<1>3. CASE Stop
  BY <1>3 DEF Stop, left, C!Next, C!Stop, C!Off
<1>4. CASE Look
  <2>1. left' = left
    BY <1>4 DEF Look, left
  <2>2. TimedOut = (left = 0)
    <3> HIDE DEF InLap, ClockTypeOK
    <3>1. TimedOut <=> left = 0
      BY LapTimedOut
    <3> QED
      BY <3>1 DEF TimedOut
  <2> QED
    BY <1>4, <2>1, <2>2 DEF Look, C!Next, C!Look
<1>5. CASE Tick
  <2>1. CASE left > 0
    <3>1. left' = left - 1
      BY <1>5, <2>1 DEF Tick, left
    <3> QED
      BY <1>5, <2>1, <3>1 DEF Tick, C!Next, C!Pass
  <2>2. CASE ~(left > 0)
    <3>1. CASE ~isActive
      BY <1>5, <3>1 DEF Tick, left
    <3>2. CASE isActive
      <4>1. age >= interval /\ left = 0
        BY <2>2, <3>2 DEF left
      <4>2. age' >= interval' /\ isActive'
        BY <1>5, <3>2, <4>1 DEF Tick
      <4> QED
        BY <1>5, <4>1, <4>2 DEF Tick, left
    <3> QED
      BY <1>5, <3>1, <3>2 DEF Tick
  <2> QED
    BY <2>1, <2>2
<1>6. CASE UNCHANGED clockVars
  BY <1>6 DEF clockVars, left
<1> QED
  BY <1>1, <1>2, <1>3, <1>4, <1>5, <1>6 DEF Next

\* Every step of a Timer, while its interval does not reach across a wrap, is a step of
\* the countdown or none.
THEOREM TimerIsCountdown == Spec => ImplementsCountdown
<1>1. Init => C!Init
  BY DEF Init, C!Init, C!Off, left
<1>2. Init => StartInv
  BY DEF Init, StartInv
<1>3. ClockTypeOK /\ StartInv /\ [Next]_clockVars => [InLap /\ InLap' => [C!Next]_(C!countdownVars)]_clockVars
  BY LapImplements
<1> QED
  BY <1>1, <1>2, <1>3, StartStep, ClockTypeCorrect, PTL DEF Spec, ImplementsCountdown
-----------------------------------------------------------------------------
(* The word of bits. Induction over numbers.                               *)

LEMMA Least ==
  ASSUME NEW S, S \subseteq Nat, S # {}
  PROVE  \E x \in S : \A y \in S : x <= y
<1>1. \E x \in S : \A y \in S : ~(<<y, x>> \in OpToRel(<, Nat))
  BY NatLessThanWellFounded, WFMin
<1>2. PICK x \in S : \A y \in S : ~(y < x)
  BY <1>1 DEF OpToRel
<1>3. \A y \in S : x <= y
  BY <1>2
<1> QED
  BY <1>3

LEMMA Induction ==
  ASSUME NEW S, 0 \in S, \A n \in Nat : n \in S => n + 1 \in S
  PROVE  Nat \subseteq S
<1> SUFFICES ASSUME Nat \ S # {}
             PROVE  FALSE
  OBVIOUS
<1>1. PICK x \in Nat \ S : \A y \in Nat \ S : x <= y
  BY Least
<1>2. x - 1 \in Nat /\ ~(x <= x - 1) /\ (x - 1) + 1 = x
  BY <1>1
<1>3. x - 1 \in S
  BY <1>1, <1>2
<1> QED
  BY <1>1, <1>2, <1>3

-----------------------------------------------------------------------------
(* Powers of two.                                                          *)

Top == NextColumnBit + 3

LEMMA TopIs == LastColumn \in 1 .. 14 /\ NextColumnBit \in Nat /\ NextColumnBit = 2 * LastColumn /\ Top \in Nat /\ Top = NextColumnBit + 3
BY BitsAssumption DEF NextColumnBit, Top

ShiftStep(g, b) == IF b = 0 THEN 1 ELSE 2 * g[b - 1]

LEMMA ShiftsExist == \A m \in Nat : \E g : g = [b \in 0 .. m |-> ShiftStep(g, b)]
<1> DEFINE S == {m \in Nat : \E g : g = [b \in 0 .. m |-> ShiftStep(g, b)]}
<1>1. 0 \in S
  <2> DEFINE g == [b \in 0 .. 0 |-> 1]
  <2>1. \A b \in 0 .. 0 : ShiftStep(g, b) = 1
    BY DEF ShiftStep
  <2>2. g = [b \in 0 .. 0 |-> ShiftStep(g, b)]
    BY <2>1
  <2> HIDE DEF g
  <2> QED
    BY <2>2
<1>2. ASSUME NEW m \in Nat, m \in S
      PROVE  m + 1 \in S
  <2>1. PICK g : g = [b \in 0 .. m |-> ShiftStep(g, b)]
    BY <1>2
  <2> DEFINE h == [b \in 0 .. m + 1 |-> ShiftStep(g, b)]
  <2>2. \A b \in 0 .. m : h[b] = g[b]
    <3>1. \A b \in 0 .. m : g[b] = ShiftStep(g, b)
      BY <2>1
    <3>2. \A b \in 0 .. m : b \in 0 .. m + 1
      OBVIOUS
    <3> QED
      BY <3>1, <3>2
  <2>3. ASSUME NEW b \in 0 .. m + 1
        PROVE  ShiftStep(g, b) = ShiftStep(h, b)
    <3>1. b # 0 => h[b - 1] = g[b - 1]
      <4>1. b # 0 => b - 1 \in 0 .. m
        OBVIOUS
      <4> HIDE DEF h
      <4> QED
        BY <2>2, <4>1
    <3> HIDE DEF h
    <3> QED
      BY <3>1 DEF ShiftStep
  <2>4. h = [b \in 0 .. m + 1 |-> ShiftStep(h, b)]
    BY <2>3
  <2> HIDE DEF h
  <2>5. m + 1 \in Nat
    OBVIOUS
  <2> QED
    BY <2>4, <2>5
<1> HIDE DEF S
<1>3. Nat \subseteq S
  BY <1>1, <1>2, Induction
<1> QED
  BY <1>3 DEF S

LEMMA ShiftIs == Shift[0] = 1 /\ \A b \in 1 .. Top : Shift[b] = 2 * Shift[b - 1]
<1>1. \E g : g = [b \in 0 .. Top |-> ShiftStep(g, b)]
  BY TopIs, ShiftsExist
<1>2. Shift = CHOOSE g : g = [b \in 0 .. Top |-> ShiftStep(g, b)]
  BY DEF Shift, ShiftStep, Top
<1>3. Shift = [b \in 0 .. Top |-> ShiftStep(Shift, b)]
  BY <1>1, <1>2
<1>4. \A b \in 0 .. Top : Shift[b] = ShiftStep(Shift, b)
  BY <1>3
<1>5. 0 \in 0 .. Top /\ \A b \in 1 .. Top : b \in 0 .. Top /\ b # 0
  BY TopIs
<1> QED
  BY <1>4, <1>5 DEF ShiftStep

LEMMA ShiftType == \A b \in 0 .. Top : Shift[b] \in Nat /\ Shift[b] >= 1
<1> DEFINE S == {b \in Nat : b <= Top => Shift[b] \in Nat /\ Shift[b] >= 1}
<1>1. 0 \in S
  BY ShiftIs
<1>2. ASSUME NEW b \in Nat, b \in S
      PROVE  b + 1 \in S
  <2>1. ASSUME b + 1 <= Top
        PROVE  Shift[b + 1] \in Nat /\ Shift[b + 1] >= 1
    <3>1. b <= Top /\ b + 1 \in 1 .. Top /\ (b + 1) - 1 = b
      BY <2>1, TopIs
    <3>2. Shift[b] \in Nat /\ Shift[b] >= 1
      BY <1>2, <3>1
    <3>3. Shift[b + 1] = 2 * Shift[b]
      BY <3>1, ShiftIs
    <3> QED
      BY <3>2, <3>3
  <2>2. b + 1 \in Nat
    OBVIOUS
  <2> QED
    BY <2>1, <2>2
<1> HIDE DEF S
<1>3. Nat \subseteq S
  BY <1>1, <1>2, Induction
<1> USE DEF S
<1>4. \A b \in 0 .. Top : b \in Nat /\ b <= Top
  BY TopIs
<1> QED
  BY <1>3, <1>4

\* A higher bit's weight is an even multiple of a lower one's.
LEMMA Multiples ==
  ASSUME NEW b \in 0 .. Top, NEW d \in 0 .. Top, b < d
  PROVE  \E k \in Nat : k >= 1 /\ Shift[d] = (2 * k) * Shift[b]
<1>0. Shift[b] \in Nat
  BY ShiftType
<1> DEFINE S == {j \in Nat : b + (j + 1) <= Top => \E k \in Nat : k >= 1 /\ Shift[b + (j + 1)] = (2 * k) * Shift[b]}
<1>1. 0 \in S
  <2>1. ASSUME b + 1 <= Top
        PROVE  Shift[b + 1] = 2 * Shift[b]
    <3>1. b + 1 \in 1 .. Top /\ (b + 1) - 1 = b
      BY <2>1, TopIs
    <3> QED
      BY <3>1, ShiftIs
  <2>2. b + (0 + 1) = b + 1 /\ 2 * 1 = 2 /\ 1 \in Nat /\ 1 >= 1
    OBVIOUS
  <2> QED
    BY <2>1, <2>2
<1>2. ASSUME NEW j \in Nat, j \in S
      PROVE  j + 1 \in S
  <2>1. ASSUME b + ((j + 1) + 1) <= Top
        PROVE  \E k \in Nat : k >= 1 /\ Shift[b + ((j + 1) + 1)] = (2 * k) * Shift[b]
    <3>1. b + (j + 1) <= Top /\ b + ((j + 1) + 1) \in 1 .. Top /\ (b + ((j + 1) + 1)) - 1 = b + (j + 1)
      BY <2>1, TopIs
    <3>2. PICK k \in Nat : k >= 1 /\ Shift[b + (j + 1)] = (2 * k) * Shift[b]
      BY <1>2, <3>1
    <3>3. Shift[b + ((j + 1) + 1)] = 2 * Shift[b + (j + 1)]
      BY <3>1, ShiftIs
    <3>4. 2 * ((2 * k) * Shift[b]) = (2 * (2 * k)) * Shift[b] /\ 2 * k \in Nat /\ 2 * k >= 1
      BY <1>0, <3>2
    <3> QED
      BY <3>2, <3>3, <3>4
  <2>2. j + 1 \in Nat
    OBVIOUS
  <2> QED
    BY <2>1, <2>2
<1> HIDE DEF S
<1>3. Nat \subseteq S
  BY <1>1, <1>2, Induction
<1> USE DEF S
<1>4. d - b - 1 \in Nat /\ b + ((d - b - 1) + 1) = d /\ d <= Top
  BY TopIs
<1> QED
  BY <1>3, <1>4

-----------------------------------------------------------------------------
(* Bits of a word.                                                         *)

LEMMA Quotient ==
  ASSUME NEW w \in Nat, NEW p \in Nat, NEW q \in Nat, NEW r \in Nat, r < p, w = q * p + r
  PROVE  w \div p = q
<1>1. PICK s \in Int, t \in 0 .. p - 1 : s = w \div p /\ w = p * s + t
  <2>1. w \div p \in Int /\ w % p \in 0 .. p - 1 /\ w = p * (w \div p) + (w % p)
    OBVIOUS
  <2> QED
    BY <2>1
<1>2. CASE s > q
  <2>1. PICK e \in Nat : s = (q + e) + 1
    <3>1. (s - q) - 1 \in Nat /\ s = (q + ((s - q) - 1)) + 1
      BY <1>2
    <3> QED
      BY <3>1
  <2>2. p * s = q * p + e * p + p /\ e * p \in Nat
    BY <2>1
  <2> QED
    BY <1>1, <2>2
<1>3. CASE s < q
  <2>1. PICK e \in Nat : q = (s + e) + 1
    <3>1. (q - s) - 1 \in Nat /\ q = (s + ((q - s) - 1)) + 1
      BY <1>3
    <3> QED
      BY <3>1
  <2>2. q * p = p * s + e * p + p /\ e * p \in Nat
    BY <2>1
  <2> QED
    BY <1>1, <2>2
<1> QED
  BY <1>1, <1>2, <1>3

LEMMA Remainder ==
  ASSUME NEW w \in Nat, NEW p \in Nat, p >= 1
  PROVE  \E q \in Nat, r \in Nat : r < p /\ w = q * p + r /\ w \div p = q
<1>1. w \div p \in Nat /\ w % p \in 0 .. p - 1 /\ w = p * (w \div p) + (w % p)
  OBVIOUS
<1>2. PICK q \in Nat, r \in 0 .. p - 1 : q = w \div p /\ w = p * q + r
  BY <1>1
<1>3. p * q = q * p /\ r \in Nat /\ r < p
  OBVIOUS
<1> QED
  BY <1>2, <1>3

\* A clear bit is set by adding its weight, which changes no other.
LEMMA Adds ==
  ASSUME NEW w \in Nat, NEW b \in 0 .. Top, ~Bit(w, b)
  PROVE  w + Shift[b] \in Nat /\ Bit(w + Shift[b], b) /\ \A d \in 0 .. Top : d # b => (Bit(w + Shift[b], d) <=> Bit(w, d))
<1>1. PICK p \in Nat : p = Shift[b] /\ p >= 1
  BY ShiftType
<1>2. PICK q \in Nat, r \in Nat : r < p /\ w = q * p + r /\ w \div p = q
  BY <1>1, Remainder
<1>3. w + p \in Nat
  OBVIOUS
<1>4. q % 2 # 1
  BY <1>1, <1>2 DEF Bit
<1>5. Bit(w + p, b)
  <2>1. q + 1 \in Nat /\ w + p = (q + 1) * p + r
    BY <1>2
  <2>2. (w + p) \div p = q + 1
    BY <1>2, <1>3, <2>1, Quotient
  <2>3. (q + 1) % 2 = 1
    BY <1>4
  <2> QED
    BY <1>1, <2>2, <2>3 DEF Bit
<1>6. ASSUME NEW d \in 0 .. Top, d < b
      PROVE  Bit(w + p, d) <=> Bit(w, d)
  <2>1. PICK s \in Nat : s = Shift[d] /\ s >= 1
    BY ShiftType
  <2>2. PICK k \in Nat : p = (2 * k) * s
    BY <1>1, <1>6, <2>1, Multiples
  <2>3. PICK m \in Nat, t \in Nat : t < s /\ w = m * s + t /\ w \div s = m
    BY <2>1, Remainder
  <2>4. m + 2 * k \in Nat /\ w + p = (m + 2 * k) * s + t
    BY <2>2, <2>3
  <2>5. (w + p) \div s = m + 2 * k
    BY <1>3, <2>3, <2>4, Quotient
  <2>6. (m + 2 * k) % 2 = m % 2
    OBVIOUS
  <2> QED
    BY <2>1, <2>3, <2>5, <2>6 DEF Bit
<1>7. ASSUME NEW d \in 0 .. Top, b < d
      PROVE  Bit(w + p, d) <=> Bit(w, d)
  <2>1. PICK s \in Nat : s = Shift[d] /\ s >= 1
    BY ShiftType
  <2>2. PICK k \in Nat : s = (2 * k) * p
    BY <1>1, <1>7, <2>1, Multiples
  <2>3. PICK m \in Nat, t \in Nat : t < s /\ w = m * s + t /\ w \div s = m
    BY <2>1, Remainder
  <2>4. PICK u \in Nat, v \in Nat : v < p /\ t = u * p + v /\ t \div p = u
    BY <1>1, Remainder
  <2>5. w \div p = m * (2 * k) + u
    <3>1. m * (2 * k) + u \in Nat
      OBVIOUS
    <3>2. w = (m * (2 * k) + u) * p + v
      <4>1. m * s = (m * (2 * k)) * p
        BY <2>2
      <4>2. PICK x \in Nat : x = m * (2 * k)
        OBVIOUS
      <4>3. (x + u) * p = x * p + u * p
        OBVIOUS
      <4> QED
        BY <2>3, <2>4, <4>1, <4>2, <4>3
    <3> QED
      BY <2>4, <3>1, <3>2, Quotient
  <2>6. u % 2 # 1
    <3>1. PICK x \in Nat : x = m * k /\ m * (2 * k) = 2 * x
      <4>1. m * k \in Nat /\ m * (2 * k) = 2 * (m * k)
        OBVIOUS
      <4> QED
        BY <4>1
    <3>2. (2 * x + u) % 2 = u % 2
      OBVIOUS
    <3> QED
      BY <1>2, <1>4, <2>5, <3>1, <3>2
  <2>7. u < 2 * k
    <3>1. CASE u >= 2 * k
      <4>1. PICK e \in Nat : u = 2 * k + e
        <5>1. u - 2 * k \in Nat /\ u = 2 * k + (u - 2 * k)
          BY <3>1
        <5> QED
          BY <5>1
      <4>2. u * p = (2 * k) * p + e * p /\ e * p \in Nat
        BY <4>1
      <4> QED
        BY <2>2, <2>3, <2>4, <4>2
    <3> QED
      BY <3>1
  <2>8. PICK e \in Nat : 2 * k = (u + 2) + e
    <3>1. u + 2 <= 2 * k
      BY <2>6, <2>7
    <3>2. (2 * k - u) - 2 \in Nat /\ 2 * k = (u + 2) + ((2 * k - u) - 2)
      BY <3>1
    <3> QED
      BY <3>2
  <2>9. t + p \in Nat /\ t + p < s
    <3>1. s = u * p + 2 * p + e * p /\ e * p \in Nat
      BY <2>2, <2>8
    <3> QED
      BY <2>4, <3>1
  <2>10. w + p = m * s + (t + p)
    <3>1. m * s \in Nat
      OBVIOUS
    <3> QED
      BY <2>3, <3>1
  <2>11. (w + p) \div s = m
    BY <1>3, <2>9, <2>10, Quotient
  <2> QED
    BY <2>1, <2>3, <2>11 DEF Bit
<1>8. \A d \in 0 .. Top : d # b => d < b \/ b < d
  BY TopIs
<1> QED
  BY <1>1, <1>3, <1>5, <1>6, <1>7, <1>8

LEMMA Takes ==
  ASSUME NEW w \in Nat, NEW b \in 0 .. Top, Bit(w, b)
  PROVE  w - Shift[b] \in Nat /\ ~Bit(w - Shift[b], b) /\ \A d \in 0 .. Top : d # b => (Bit(w - Shift[b], d) <=> Bit(w, d))
<1>1. PICK p \in Nat : p = Shift[b] /\ p >= 1
  BY ShiftType
<1>2. PICK q \in Nat, r \in Nat : r < p /\ w = q * p + r /\ w \div p = q
  BY <1>1, Remainder
<1>3. q % 2 = 1
  BY <1>1, <1>2 DEF Bit
<1>4. q - 1 \in Nat /\ (q - 1) % 2 # 1
  BY <1>3
<1>5. (q - 1) * p \in Nat /\ (q - 1) * p = q * p - p /\ q * p \in Nat
  BY <1>4
<1>6. PICK v \in Nat : v = w - p /\ v = (q - 1) * p + r /\ v + p = w
  <2>1. w - p \in Nat /\ w - p = (q - 1) * p + r /\ (w - p) + p = w
    BY <1>2, <1>5
  <2> QED
    BY <2>1
<1>7. v \div p = q - 1
  BY <1>2, <1>4, <1>6, Quotient
<1>8. ~Bit(v, b)
  BY <1>1, <1>4, <1>7 DEF Bit
<1>9. \A d \in 0 .. Top : d # b => (Bit(v + Shift[b], d) <=> Bit(v, d))
  BY <1>8, Adds
<1> QED
  BY <1>1, <1>6, <1>8, <1>9

LEMMA WritesOne ==
  ASSUME NEW w \in Nat, NEW b \in 0 .. Top
  PROVE  \E x \in Nat : /\ x = Written(w, b, TRUE) /\ Bit(x, b)
                        /\ \A d \in 0 .. Top : d # b => (Bit(x, d) <=> Bit(w, d))
<1>1. CASE ~Bit(w, b)
  <2>1. Written(w, b, TRUE) = w + Shift[b]
    BY <1>1 DEF Written, Bit
  <2> QED
    BY <1>1, <2>1, Adds
<1>2. CASE Bit(w, b)
  <2>1. Written(w, b, TRUE) = w
    BY <1>2 DEF Written, Bit
  <2> QED
    BY <1>2, <2>1
<1> QED
  BY <1>1, <1>2

LEMMA WritesZero ==
  ASSUME NEW w \in Nat, NEW b \in 0 .. Top
  PROVE  \E x \in Nat : /\ x = Written(w, b, FALSE) /\ ~Bit(x, b)
                        /\ \A d \in 0 .. Top : d # b => (Bit(x, d) <=> Bit(w, d))
<1>1. CASE Bit(w, b)
  <2>1. Written(w, b, FALSE) = w - Shift[b]
    BY <1>1 DEF Written, Bit
  <2> QED
    BY <1>1, <2>1, Takes
<1>2. CASE ~Bit(w, b)
  <2>1. Written(w, b, FALSE) = w
    BY <1>2 DEF Written, Bit
  <2> QED
    BY <1>2, <2>1
<1> QED
  BY <1>1, <1>2

LEMMA Writes ==
  ASSUME NEW w \in Nat, NEW b \in 0 .. Top, NEW e, NEW S
  PROVE  \E x \in Nat : /\ x = Written(w, b, e \in S) /\ (Bit(x, b) <=> e \in S)
                        /\ \A d \in 0 .. Top : d # b => (Bit(x, d) <=> Bit(w, d))
<1>1. CASE e \in S
  <2>1. Written(w, b, e \in S) = Written(w, b, TRUE)
    BY <1>1 DEF Written, Bit
  <2> QED
    BY <1>1, <2>1, WritesOne
<1>2. CASE e \notin S
  <2>1. Written(w, b, e \in S) = Written(w, b, FALSE)
    BY <1>2 DEF Written, Bit
  <2> QED
    <3>1. PICK x \in Nat : /\ x = Written(w, b, FALSE) /\ ~Bit(x, b)
                           /\ \A d \in 0 .. Top : d # b => (Bit(x, d) <=> Bit(w, d))
      BY WritesZero
    <3> QED
      BY <1>2, <2>1, <3>1
<1> QED
  BY <1>1, <1>2

-----------------------------------------------------------------------------
(* Fields of a word.                                                       *)

FieldStep(w, low, S, g, i) == IF i = 0 THEN w ELSE Written(g[i - 1], low + (i - 1), i \in S)

Words(w, low, n, S) == CHOOSE g : g = [i \in 0 .. n |-> FieldStep(w, low, S, g, i)]

LEMMA WordsAre ==
  ASSUME NEW w, NEW low, NEW n \in Nat, NEW S
  PROVE  /\ Field(w, low, n, S) = Words(w, low, n, S)[n]
         /\ Words(w, low, n, S)[0] = w
         /\ \A i \in 1 .. n : Words(w, low, n, S)[i] = Written(Words(w, low, n, S)[i - 1], low + (i - 1), i \in S)
<1> DEFINE T == {m \in Nat : \E g : g = [i \in 0 .. m |-> FieldStep(w, low, S, g, i)]}
<1>1. 0 \in T
  <2> DEFINE g == [i \in 0 .. 0 |-> w]
  <2>1. \A i \in 0 .. 0 : FieldStep(w, low, S, g, i) = w
    BY DEF FieldStep
  <2>2. g = [i \in 0 .. 0 |-> FieldStep(w, low, S, g, i)]
    BY <2>1
  <2> HIDE DEF g
  <2> QED
    BY <2>2
<1>2. ASSUME NEW m \in Nat, m \in T
      PROVE  m + 1 \in T
  <2>1. PICK g : g = [i \in 0 .. m |-> FieldStep(w, low, S, g, i)]
    BY <1>2
  <2> DEFINE h == [i \in 0 .. m + 1 |-> FieldStep(w, low, S, g, i)]
  <2>2. \A i \in 0 .. m : h[i] = g[i]
    <3>1. \A i \in 0 .. m : g[i] = FieldStep(w, low, S, g, i)
      BY <2>1
    <3>2. \A i \in 0 .. m : i \in 0 .. m + 1
      OBVIOUS
    <3> QED
      BY <3>1, <3>2
  <2>3. ASSUME NEW i \in 0 .. m + 1
        PROVE  FieldStep(w, low, S, g, i) = FieldStep(w, low, S, h, i)
    <3>1. i # 0 => h[i - 1] = g[i - 1]
      <4>1. i # 0 => i - 1 \in 0 .. m
        OBVIOUS
      <4> HIDE DEF h
      <4> QED
        BY <2>2, <4>1
    <3> HIDE DEF h
    <3> QED
      BY <3>1 DEF FieldStep
  <2>4. h = [i \in 0 .. m + 1 |-> FieldStep(w, low, S, h, i)]
    BY <2>3
  <2> HIDE DEF h
  <2>5. m + 1 \in Nat
    OBVIOUS
  <2> QED
    BY <2>4, <2>5
<1> HIDE DEF T
<1>3. Nat \subseteq T
  BY <1>1, <1>2, Induction
<1>4. \E g : g = [i \in 0 .. n |-> FieldStep(w, low, S, g, i)]
  BY <1>3 DEF T
<1>5. Words(w, low, n, S) = [i \in 0 .. n |-> FieldStep(w, low, S, Words(w, low, n, S), i)]
  BY <1>4 DEF Words
<1>6. Field(w, low, n, S) = Words(w, low, n, S)[n]
  BY DEF Field, Words, FieldStep
<1>7. \A i \in 0 .. n : Words(w, low, n, S)[i] = FieldStep(w, low, S, Words(w, low, n, S), i)
  BY <1>5
<1>8. 0 \in 0 .. n /\ \A i \in 1 .. n : i \in 0 .. n /\ i # 0
  OBVIOUS
<1> QED
  BY <1>6, <1>7, <1>8 DEF FieldStep

\* The bits of a field are as asked, all others as they were.
FieldIs(v, w, low, i, S) ==
  /\ v \in Nat
  /\ \A j \in 1 .. i : Bit(v, low + (j - 1)) <=> j \in S
  /\ \A d \in 0 .. Top : d < low \/ d >= low + i => (Bit(v, d) <=> Bit(w, d))

LEMMA FieldWrites ==
  ASSUME NEW w \in Nat, NEW low \in Nat, NEW n \in Nat, low + n <= Top + 1, NEW S
  PROVE  FieldIs(Field(w, low, n, S), w, low, n, S)
<1> DEFINE T == {i \in Nat : i <= n => FieldIs(Words(w, low, n, S)[i], w, low, i, S)}
<1>1. 0 \in T
  <2>1. Words(w, low, n, S)[0] = w
    BY WordsAre
  <2> QED
    BY <2>1 DEF FieldIs
<1>2. ASSUME NEW i \in Nat, i \in T
      PROVE  i + 1 \in T
  <2>1. ASSUME i + 1 <= n
        PROVE  FieldIs(Words(w, low, n, S)[i + 1], w, low, i + 1, S)
    <3>1. PICK v : v = Words(w, low, n, S)[i]
      OBVIOUS
    <3>2. FieldIs(v, w, low, i, S)
      BY <1>2, <2>1, <3>1
    <3>3. i + 1 \in 1 .. n /\ (i + 1) - 1 = i
      BY <2>1
    <3>5. PICK b \in 0 .. Top : b = low + i
      <4>1. low + i \in 0 .. Top
        BY <2>1, TopIs
      <4> QED
        BY <4>1
    <3>6. Words(w, low, n, S)[i + 1] = Written(v, b, i + 1 \in S)
      <4>1. \A k \in 1 .. n : Words(w, low, n, S)[k] = Written(Words(w, low, n, S)[k - 1], low + (k - 1), k \in S)
        BY WordsAre
      <4> QED
        BY <3>1, <3>3, <3>5, <4>1
    <3>7. v \in Nat
      BY <3>2 DEF FieldIs
    <3>8. PICK x \in Nat : /\ x = Written(v, b, i + 1 \in S)
                           /\ Bit(x, b) <=> i + 1 \in S
                           /\ \A d \in 0 .. Top : d # b => (Bit(x, d) <=> Bit(v, d))
      <4>1. PICK e : e = i + 1
        OBVIOUS
      <4>2. \E x \in Nat : /\ x = Written(v, b, e \in S) /\ (Bit(x, b) <=> e \in S)
                           /\ \A d \in 0 .. Top : d # b => (Bit(x, d) <=> Bit(v, d))
        BY <3>7, Writes
      <4> QED
        BY <4>1, <4>2
    <3>9. ASSUME NEW j \in 1 .. i + 1
          PROVE  Bit(x, low + (j - 1)) <=> j \in S
      <4>1. CASE j = i + 1
        <5>1. low + (j - 1) = b
          BY <3>5, <4>1
        <5> QED
          BY <3>8, <4>1, <5>1
      <4>2. CASE j # i + 1
        <5>1. j \in 1 .. i /\ low + (j - 1) \in 0 .. Top /\ low + (j - 1) # b
          BY <2>1, <3>5, <4>2, TopIs
        <5>2. Bit(v, low + (j - 1)) <=> j \in S
          BY <3>2, <5>1 DEF FieldIs
        <5> QED
          BY <3>8, <5>1, <5>2
      <4> QED
        BY <4>1, <4>2
    <3>10. ASSUME NEW d \in 0 .. Top, d < low \/ d >= low + (i + 1)
           PROVE  Bit(x, d) <=> Bit(w, d)
      <4>1. d # b /\ (d < low \/ d >= low + i)
        BY <3>5, <3>10, TopIs
      <4>2. Bit(v, d) <=> Bit(w, d)
        BY <3>2, <4>1 DEF FieldIs
      <4> QED
        BY <3>8, <4>1, <4>2
    <3>11. FieldIs(x, w, low, i + 1, S)
      BY <3>9, <3>10 DEF FieldIs
    <3> QED
      BY <3>6, <3>8, <3>11
  <2>2. i + 1 \in Nat
    OBVIOUS
  <2> QED
    BY <2>1, <2>2
<1> HIDE DEF T
<1>3. Nat \subseteq T
  BY <1>1, <1>2, Induction
<1> USE DEF T
<1>4. FieldIs(Words(w, low, n, S)[n], w, low, n, S)
  BY <1>3
<1>5. Field(w, low, n, S) = Words(w, low, n, S)[n]
  BY WordsAre
<1> QED
  BY <1>4, <1>5

-----------------------------------------------------------------------------
(* The three fields.                                                       *)

\* Where the bits are.
LEMMA Places ==
  /\ \A c \in Columns : FullBit(c) \in 0 .. Top /\ FullBit(c) = FullBit(1) + (c - 1) /\ FullBit(c) < JammedBit(1)
  /\ \A c \in Columns : JammedBit(c) \in 0 .. Top /\ JammedBit(c) = JammedBit(1) + (c - 1) /\ JammedBit(c) < NextColumnBit
                        /\ JammedBit(c) >= FullBit(1) + LastColumn
  /\ \A b \in 0 .. 3 : /\ NextColumnBit + b \in 0 .. Top
                       /\ NextColumnBit + b >= JammedBit(1) + LastColumn /\ NextColumnBit + b >= FullBit(1) + LastColumn
  /\ FullBit(1) = 0 /\ JammedBit(1) = LastColumn
  /\ \A c, d \in Columns : c # d => JammedBit(c) # JammedBit(d)
BY TopIs DEF Columns, FullBit, JammedBit

LEMMA Reads ==
  ASSUME NEW w \in Nat, NEW r \in Readings
  PROVE  /\ AfterUpdateWithJam(w, r) \in Nat
         /\ FullIn(AfterUpdateWithJam(w, r)) = r.full
         /\ JammedIn(AfterUpdateWithJam(w, r)) = Columns \ r.home
         /\ NextBits(AfterUpdateWithJam(w, r)) = NextBits(w)
<1>0. r.full \subseteq Columns
  BY BitsAssumption
<1>1. PICK v : v = Field(w, FullBit(1), LastColumn, r.full)
  OBVIOUS
<1>2. FieldIs(v, w, 0, LastColumn, r.full)
  <2>1. 0 + LastColumn <= Top + 1 /\ 0 \in Nat /\ LastColumn \in Nat
    BY TopIs
  <2> QED
    BY <1>1, <2>1, FieldWrites, Places
<1>3. PICK x : x = Field(v, JammedBit(1), LastColumn, Columns \ r.home)
  OBVIOUS
<1>4. FieldIs(x, v, LastColumn, LastColumn, Columns \ r.home)
  <2>1. LastColumn + LastColumn <= Top + 1 /\ LastColumn \in Nat
    BY TopIs
  <2>2. v \in Nat
    BY <1>2 DEF FieldIs
  <2> QED
    BY <1>3, <2>1, <2>2, FieldWrites, Places
<1>5. AfterUpdateWithJam(w, r) = x
  BY <1>1, <1>3 DEF AfterUpdateWithJam
<1>6. x \in Nat
  BY <1>4 DEF FieldIs
<1>7. ASSUME NEW c \in Columns
      PROVE  IsFull(x, c) <=> c \in r.full
  <2>1. PICK b \in 0 .. Top : b = FullBit(c) /\ b = 0 + (c - 1) /\ b < LastColumn /\ c \in 1 .. LastColumn
    BY Places DEF Columns
  <2>2. Bit(x, b) <=> Bit(v, b)
    BY <1>4, <2>1 DEF FieldIs
  <2>3. Bit(v, b) <=> c \in r.full
    BY <1>2, <2>1 DEF FieldIs
  <2> QED
    BY <2>1, <2>2, <2>3 DEF IsFull
<1>8. ASSUME NEW c \in Columns
      PROVE  IsJammed(x, c) <=> c \in Columns \ r.home
  <2>1. JammedBit(c) = LastColumn + (c - 1) /\ c \in 1 .. LastColumn
    BY Places DEF Columns
  <2>2. Bit(x, LastColumn + (c - 1)) <=> c \in Columns \ r.home
    BY <1>4, <2>1 DEF FieldIs
  <2> QED
    BY <2>1, <2>2 DEF IsJammed
<1>9. ASSUME NEW b \in 0 .. 3
      PROVE  Bit(x, NextColumnBit + b) <=> Bit(w, NextColumnBit + b)
  <2>1. PICK d \in 0 .. Top : d = NextColumnBit + b /\ d >= LastColumn + LastColumn /\ d >= 0 + LastColumn
    <3>1. 0 + LastColumn = LastColumn
      BY TopIs
    <3> QED
      BY <3>1, Places
  <2>2. (Bit(x, d) <=> Bit(v, d)) /\ (Bit(v, d) <=> Bit(w, d))
    BY <1>2, <1>4, <2>1 DEF FieldIs
  <2> QED
    BY <2>1, <2>2
<1>10. FullIn(x) = r.full
  BY <1>0, <1>7 DEF FullIn
<1>11. JammedIn(x) = Columns \ r.home
  BY <1>8 DEF JammedIn
<1>12. NextBits(x) = NextBits(w)
  BY <1>9 DEF NextBits
<1> QED
  BY <1>5, <1>6, <1>10, <1>11, <1>12

LEMMA Jams ==
  ASSUME NEW w \in Nat, NEW c \in Columns
  PROVE  /\ Written(w, JammedBit(c), TRUE) \in Nat
         /\ JammedIn(Written(w, JammedBit(c), TRUE)) = JammedIn(w) \cup {c}
         /\ FullIn(Written(w, JammedBit(c), TRUE)) = FullIn(w)
         /\ NextBits(Written(w, JammedBit(c), TRUE)) = NextBits(w)
<1>1. PICK b \in 0 .. Top : b = JammedBit(c)
  BY Places
<1>2. PICK x \in Nat : /\ x = Written(w, b, TRUE) /\ Bit(x, b)
                       /\ \A d \in 0 .. Top : d # b => (Bit(x, d) <=> Bit(w, d))
  BY WritesOne
<1>3. ASSUME NEW e \in Columns
      PROVE  IsJammed(x, e) <=> IsJammed(w, e) \/ e = c
  <2>1. JammedBit(e) \in 0 .. Top /\ (e # c => JammedBit(e) # b)
    BY <1>1, Places
  <2> QED
    BY <1>1, <1>2, <2>1 DEF IsJammed
<1>4. ASSUME NEW e \in Columns
      PROVE  IsFull(x, e) <=> IsFull(w, e)
  <2>1. FullBit(e) \in 0 .. Top /\ FullBit(e) # b
    BY <1>1, Places, TopIs
  <2> QED
    BY <1>2, <2>1 DEF IsFull
<1>5. ASSUME NEW e \in 0 .. 3
      PROVE  Bit(x, NextColumnBit + e) <=> Bit(w, NextColumnBit + e)
  <2>1. NextColumnBit + e \in 0 .. Top /\ NextColumnBit + e # b
    BY <1>1, Places, TopIs
  <2> QED
    BY <1>2, <2>1
<1> QED
  BY <1>1, <1>2, <1>3, <1>4, <1>5 DEF JammedIn, FullIn, NextBits

-----------------------------------------------------------------------------
(* The column chosen.                                                      *)

LEMMA Halves ==
  ASSUME NEW w \in Nat, NEW b \in 0 .. Top - 1
  PROVE  w \div Shift[b + 1] = (w \div Shift[b]) \div 2
<1>1. b \in 0 .. Top /\ b + 1 \in 1 .. Top /\ (b + 1) - 1 = b
  BY TopIs
<1>2. PICK p \in Nat : p = Shift[b] /\ p >= 1 /\ Shift[b + 1] = 2 * p
  BY <1>1, ShiftType, ShiftIs
<1>3. PICK q \in Nat, r \in Nat : r < p /\ w = q * p + r /\ w \div p = q
  BY <1>2, Remainder
<1>4. PICK h \in Nat, e \in {0, 1} : h = q \div 2 /\ q = 2 * h + e
  <2>1. q \div 2 \in Nat /\ q % 2 \in {0, 1} /\ q = 2 * (q \div 2) + (q % 2)
    OBVIOUS
  <2> QED
    BY <2>1
<1>5. PICK t \in Nat : t = e * p + r /\ t < 2 * p
  <2>1. e * p = 0 \/ e * p = p
    OBVIOUS
  <2>2. e * p + r \in Nat /\ e * p + r < 2 * p
    BY <1>3, <2>1
  <2> QED
    BY <2>2
<1>6. w = h * (2 * p) + t
  <2>1. q * p = h * (2 * p) + e * p /\ h * (2 * p) \in Nat /\ e * p \in Nat
    BY <1>4
  <2> QED
    BY <1>3, <1>5, <2>1
<1>7. w \div (2 * p) = h
  <2>1. 2 * p \in Nat
    OBVIOUS
  <2> QED
    BY <1>5, <1>6, <2>1, Quotient
<1> QED
  BY <1>2, <1>3, <1>4, <1>7

LEMMA Current ==
  ASSUME NEW w \in Nat
  PROVE  CurrentColumn(w) = Sets!StartColumn(NextBits(w)) /\ CurrentColumn(w) \in 1 .. 15
<1>1. PICK v \in Nat : v = w \div Shift[NextColumnBit]
  <2>1. NextColumnBit \in 0 .. Top
    BY TopIs
  <2>2. PICK p \in Nat : p = Shift[NextColumnBit] /\ p >= 1
    BY <2>1, ShiftType
  <2>3. w \div p \in Nat
    BY <2>2, Remainder
  <2> QED
    BY <2>2, <2>3
<1>2. /\ w \div Shift[NextColumnBit + 1] = v \div 2
      /\ w \div Shift[NextColumnBit + 2] = (v \div 2) \div 2
      /\ w \div Shift[NextColumnBit + 3] = ((v \div 2) \div 2) \div 2
  <2>1. /\ NextColumnBit \in 0 .. Top - 1 /\ NextColumnBit + 1 \in 0 .. Top - 1 /\ NextColumnBit + 2 \in 0 .. Top - 1
        /\ (NextColumnBit + 1) + 1 = NextColumnBit + 2 /\ (NextColumnBit + 2) + 1 = NextColumnBit + 3
    BY TopIs
  <2>2. w \div Shift[NextColumnBit + 1] = v \div 2
    BY <1>1, <2>1, Halves
  <2>3. w \div Shift[NextColumnBit + 2] = (v \div 2) \div 2
    BY <2>1, <2>2, Halves
  <2>4. w \div Shift[NextColumnBit + 3] = ((v \div 2) \div 2) \div 2
    BY <2>1, <2>3, Halves
  <2> QED
    BY <2>2, <2>3, <2>4
<1>3. /\ 0 \in NextBits(w) <=> v % 2 = 1
      /\ 1 \in NextBits(w) <=> (v \div 2) % 2 = 1
      /\ 2 \in NextBits(w) <=> ((v \div 2) \div 2) % 2 = 1
      /\ 3 \in NextBits(w) <=> (((v \div 2) \div 2) \div 2) % 2 = 1
  <2>1. NextColumnBit + 0 = NextColumnBit
    BY TopIs
  <2> QED
    BY <1>1, <1>2, <2>1 DEF NextBits, Bit
<1>4. v % 16 = (v % 2) + 2 * ((v \div 2) % 2) + 4 * (((v \div 2) \div 2) % 2) + 8 * ((((v \div 2) \div 2) \div 2) % 2)
  OBVIOUS
<1>5. NextBits(w) = {} <=> 0 \notin NextBits(w) /\ 1 \notin NextBits(w) /\ 2 \notin NextBits(w) /\ 3 \notin NextBits(w)
  <2>1. \A b \in NextBits(w) : b \in {0, 1, 2, 3}
    BY DEF NextBits
  <2> QED
    BY <2>1
<1>6. PICK b0 \in {0, 1}, b1 \in {0, 1}, b2 \in {0, 1}, b3 \in {0, 1} :
        /\ v % 16 = b0 + 2 * b1 + 4 * b2 + 8 * b3
        /\ 0 \in NextBits(w) <=> b0 = 1
        /\ 1 \in NextBits(w) <=> b1 = 1
        /\ 2 \in NextBits(w) <=> b2 = 1
        /\ 3 \in NextBits(w) <=> b3 = 1
  <2>1. \A x \in Nat : x % 2 \in {0, 1} /\ x \div 2 \in Nat
    OBVIOUS
  <2>2. v % 2 \in {0, 1} /\ (v \div 2) % 2 \in {0, 1} /\ ((v \div 2) \div 2) % 2 \in {0, 1} /\ (((v \div 2) \div 2) \div 2) % 2 \in {0, 1}
    BY <2>1
  <2> QED
    BY <1>3, <1>4, <2>2
<1>7. CurrentColumn(w) = IF v % 16 = 0 THEN 1 ELSE v % 16
  BY <1>1 DEF CurrentColumn
<1>8. Sets!StartColumn(NextBits(w)) = IF v % 16 = 0 THEN 1 ELSE v % 16
  BY <1>5, <1>6 DEF Sets!StartColumn
<1>9. v % 16 \in 0 .. 15
  OBVIOUS
<1> QED
  BY <1>7, <1>8, <1>9

LEMMA MinIs ==
  ASSUME NEW S, S \subseteq Nat, S # {}
  PROVE  Min(S) \in S
<1>1. PICK x \in S : \A y \in S : x <= y
  BY Least
<1> QED
  BY <1>1 DEF Min

\* Both loops together find what Narco selects.
LEMMA Finds ==
  ASSUME NEW w \in Nat, NEW r \in Readings, FullIn(w) = r.full, JammedIn(w) = Columns \ r.home
  PROVE  /\ Found(w) = Sets!Select(Sets!StartColumn(NextBits(w)), Sets!Deployable(r))
         /\ Found(w) \in Columns \cup {0}
<1> DEFINE S == r.full \cap r.home
           start == CurrentColumn(w)
           ahead == {c \in S : c >= start}
<1>1. S \subseteq Columns /\ Columns \subseteq Nat /\ 0 \notin Columns
  BY BitsAssumption DEF Columns
<1>2. start \in 1 .. 15 /\ Sets!StartColumn(NextBits(w)) = start /\ Sets!Deployable(r) = S
  BY Current DEF Sets!Deployable
<1>3. \A c : ~IsJammed(w, c) /\ IsFull(w, c) <=> c \in S
  <2>1. \A c : IsFull(w, c) <=> c \in r.full
    <3>1. \A c : IsFull(w, c) <=> c \in FullIn(w)
      BY DEF FullIn, IsFull
    <3> QED
      BY <3>1
  <2>2. \A c : IsJammed(w, c) <=> c \in Columns \ r.home
    <3>1. \A c : IsJammed(w, c) <=> c \in JammedIn(w)
      BY DEF JammedIn, IsJammed
    <3> QED
      BY <3>1
  <2>3. r.full \subseteq Columns
    BY BitsAssumption
  <2> QED
    BY <2>1, <2>2, <2>3
<1> HIDE DEF start, S
<1>4. Scan(w, start, LastColumn) = ahead
  <2>1. \A c \in S : c \in Int /\ c <= LastColumn
    BY <1>1, TopIs DEF Columns
  <2> QED
    BY <1>2, <1>3, <2>1 DEF Scan
<1>5. ahead = {} => Scan(w, 1, start - 1) = S
  <2>1. \A c \in S : c \in Int /\ c >= 1
    BY <1>1, TopIs DEF Columns
  <2>2. ASSUME ahead = {}, NEW c \in S
        PROVE  c \in 1 .. start - 1
    BY <1>2, <2>1, <2>2
  <2> QED
    BY <1>3, <2>2 DEF Scan
<1>6. ASSUME NEW T
      PROVE  Sets!Min(T) = Min(T)
  BY DEF Min, Sets!Min
<1>7. ahead = {} /\ S = {} => Found(w) = 0 /\ Sets!Select(start, S) = 0
  BY <1>4, <1>5 DEF Found, Sets!Select, start
<1>8. ahead # {} => Found(w) = Min(ahead) /\ Sets!Select(start, S) = Min(ahead)
  BY <1>4, <1>6 DEF Found, Sets!Select, start
<1>9. ahead = {} /\ S # {} => Found(w) = Min(S) /\ Sets!Select(start, S) = Min(S)
  BY <1>4, <1>5, <1>6 DEF Found, Sets!Select, start
<1>10. (ahead # {} => Min(ahead) \in Columns) /\ (S # {} => Min(S) \in Columns)
  <2>1. ahead \subseteq Nat /\ S \subseteq Nat /\ ahead \subseteq Columns
    BY <1>1
  <2> HIDE DEF ahead
  <2> QED
    BY <1>1, <2>1, MinIs
<1> QED
  BY <1>2, <1>7, <1>8, <1>9, <1>10

LEMMA NarcoBitsAre == \A c : Sets!Bits(c) = {b \in 0 .. 3 : Bit(c, b)}
<1>1. Top >= 3 /\ 0 \in 0 .. Top /\ 1 \in 1 .. Top /\ 2 \in 1 .. Top /\ 3 \in 1 .. Top
  BY TopIs
<1>2. Shift[0] = 1 /\ Shift[1] = 2 * Shift[1 - 1] /\ Shift[2] = 2 * Shift[2 - 1] /\ Shift[3] = 2 * Shift[3 - 1]
  BY <1>1, ShiftIs
<1>3. Shift[0] = 1 /\ Shift[1] = 2 /\ Shift[2] = 4 /\ Shift[3] = 8
  BY <1>2
<1>4. \A b \in 0 .. 3 : <<1, 2, 4, 8>>[b + 1] = Shift[b]
  <2>1. 0 .. 3 = {0, 1, 2, 3}
    OBVIOUS
  <2> QED
    BY <1>3, <2>1
<1> QED
  BY <1>4 DEF Sets!Bits, Bit

LEMMA Ors ==
  ASSUME NEW w \in Nat, NEW c \in Columns
  PROVE  /\ Ored(w, c) \in Nat
         /\ FullIn(Ored(w, c)) = FullIn(w)
         /\ JammedIn(Ored(w, c)) = JammedIn(w)
         /\ NextBits(Ored(w, c)) = NextBits(w) \cup Sets!Bits(c)
<1> DEFINE S == {i \in 1 .. 4 : Bit(w, NextColumnBit + (i - 1)) \/ Bit(c, i - 1)}
<1>1. PICK x : x = Ored(w, c)
  OBVIOUS
<1>2. FieldIs(x, w, NextColumnBit, 4, S)
  <2>1. NextColumnBit \in Nat /\ 4 \in Nat /\ NextColumnBit + 4 <= Top + 1
    BY TopIs
  <2>2. x = Field(w, NextColumnBit, 4, S)
    BY <1>1 DEF Ored
  <2> HIDE DEF S
  <2> QED
    BY <2>1, <2>2, FieldWrites
<1>3. x \in Nat
  BY <1>2 DEF FieldIs
<1>4. \A d \in 0 .. Top : d < NextColumnBit => (Bit(x, d) <=> Bit(w, d))
  BY <1>2 DEF FieldIs
<1>5. ASSUME NEW e \in Columns
      PROVE  (IsFull(x, e) <=> IsFull(w, e)) /\ (IsJammed(x, e) <=> IsJammed(w, e))
  <2>1. /\ FullBit(e) \in 0 .. Top /\ FullBit(e) < NextColumnBit
        /\ JammedBit(e) \in 0 .. Top /\ JammedBit(e) < NextColumnBit
    BY TopIs DEF FullBit, JammedBit, Columns
  <2> QED
    BY <1>4, <2>1 DEF IsFull, IsJammed
<1>6. ASSUME NEW b \in 0 .. 3
      PROVE  Bit(x, NextColumnBit + b) <=> Bit(w, NextColumnBit + b) \/ b \in Sets!Bits(c)
  <2>1. PICK i \in 1 .. 4 : i = b + 1 /\ i - 1 = b
    OBVIOUS
  <2>2. Bit(x, NextColumnBit + (i - 1)) <=> i \in S
    <3> HIDE DEF S
    <3> QED
      BY <1>2 DEF FieldIs
  <2>3. i \in S <=> Bit(w, NextColumnBit + (i - 1)) \/ Bit(c, i - 1)
    OBVIOUS
  <2>4. Bit(c, b) <=> b \in Sets!Bits(c)
    BY NarcoBitsAre
  <2> QED
    BY <2>1, <2>2, <2>3, <2>4
<1>7. Sets!Bits(c) \subseteq 0 .. 3
  BY DEF Sets!Bits
<1>8. FullIn(x) = FullIn(w) /\ JammedIn(x) = JammedIn(w)
  BY <1>5 DEF FullIn, JammedIn
<1>9. NextBits(x) = NextBits(w) \cup Sets!Bits(c)
  BY <1>6, <1>7 DEF NextBits
<1> QED
  BY <1>1, <1>3, <1>8, <1>9

-----------------------------------------------------------------------------
(* The steps.                                                              *)

\* A step of Narco's, or a reset, as ImplementsNarco has it.
NarcoStep ==
  \/ \E r \in Readings :
       \/ /\ Sets!UpdateWithJam(r)
          /\ infoText' \in {infoText, Sets!Marked(r.full, Columns \ r.home, infoText)}
          /\ UNCHANGED <<NextBits(m_narco), returned>>
       \/ Sets!GetDeployColumn(r) /\ returned' = Sets!DeployColumn(r) /\ UNCHANGED infoText
  \/ \E c \in Outside : /\ Sets!MarkJammed(c)
                        /\ UNCHANGED <<FullIn(m_narco), NextBits(m_narco), returned, infoText>>
  \/ m_narco' = 0 /\ \A c \in Columns : infoText'[c] = "_"

LEMMA BitsUpdated ==
  ASSUME m_narco \in Nat, NEW r \in Readings, BitsUpdateWithJam(r) \/ BitsGetInfoText(r)
  PROVE  m_narco' \in Nat /\ NarcoStep
<1>1. PICK x \in Nat : /\ x = AfterUpdateWithJam(m_narco, r)
                       /\ FullIn(x) = r.full /\ JammedIn(x) = Columns \ r.home /\ NextBits(x) = NextBits(m_narco)
  BY Reads
<1>2. m_narco' = x /\ returned' = returned
  BY <1>1 DEF BitsUpdateWithJam, BitsGetInfoText
<1>3. Sets!UpdateWithJam(r)
  BY <1>1, <1>2 DEF Sets!UpdateWithJam, Sets!Column, Columns
<1>4. infoText' \in {infoText, Sets!Marked(r.full, Columns \ r.home, infoText)}
  <2>1. CASE BitsUpdateWithJam(r)
    BY <2>1 DEF BitsUpdateWithJam
  <2>2. CASE BitsGetInfoText(r)
    <3>1. infoText' = Shown(x, infoText)
      BY <1>1, <2>2 DEF BitsGetInfoText
    <3>2. \A c \in Columns : (IsFull(x, c) <=> c \in r.full) /\ (IsJammed(x, c) <=> c \in Columns \ r.home)
      <4>1. \A c \in Columns : (IsFull(x, c) <=> c \in FullIn(x)) /\ (IsJammed(x, c) <=> c \in JammedIn(x))
        BY DEF FullIn, JammedIn
      <4> QED
        BY <1>1, <4>1
    <3>3. Shown(x, infoText) = Sets!Marked(r.full, Columns \ r.home, infoText)
      BY <3>2 DEF Shown, Sets!Marked, Sets!Column, Columns
    <3> QED
      BY <3>1, <3>3
  <2> QED
    BY <2>1, <2>2
<1>5. UNCHANGED <<NextBits(m_narco), returned>>
  BY <1>1, <1>2
<1> QED
  BY <1>2, <1>3, <1>4, <1>5 DEF NarcoStep

LEMMA BitsDeployed ==
  ASSUME m_narco \in Nat, NEW r \in Readings, BitsGetDeployColumn(r)
  PROVE  m_narco' \in Nat /\ NarcoStep
<1>1. PICK x \in Nat : /\ x = AfterUpdateWithJam(m_narco, r)
                       /\ FullIn(x) = r.full /\ JammedIn(x) = Columns \ r.home /\ NextBits(x) = NextBits(m_narco)
  BY Reads
<1>2. /\ m_narco' = IF Found(x) = 0 THEN x ELSE Ored(x, Found(x))
      /\ returned' = Found(x) /\ infoText' = infoText
  BY <1>1 DEF BitsGetDeployColumn
<1>3. Found(x) = Sets!DeployColumn(r) /\ Found(x) \in Columns \cup {0}
  BY <1>1, Finds DEF Sets!DeployColumn
<1>4. m_narco' \in Nat /\ FullIn(m_narco') = r.full /\ JammedIn(m_narco') = Columns \ r.home
      /\ NextBits(m_narco') = NextBits(m_narco) \cup Sets!Bits(Found(x))
  <2>1. CASE Found(x) = 0
    <3>1. Sets!Bits(0) = {}
      <4>1. \A b \in 0 .. 3 : Shift[b] \in Nat /\ Shift[b] >= 1
        BY ShiftType, TopIs
      <4>2. \A p \in Nat : p >= 1 => (0 \div p) % 2 # 1
        OBVIOUS
      <4> QED
        BY <4>1, <4>2, NarcoBitsAre DEF Bit
    <3> QED
      BY <1>1, <1>2, <2>1, <3>1
  <2>2. CASE Found(x) # 0
    <3>1. Found(x) \in Columns /\ m_narco' = Ored(x, Found(x))
      BY <1>2, <1>3, <2>2
    <3> QED
      BY <1>1, <3>1, Ors
  <2> QED
    BY <2>1, <2>2
<1>5. Sets!GetDeployColumn(r)
  BY <1>3, <1>4 DEF Sets!GetDeployColumn, Sets!UpdateWithJam, Sets!Column, Columns
<1> QED
  BY <1>2, <1>3, <1>4, <1>5 DEF NarcoStep

LEMMA BitsJammed ==
  ASSUME m_narco \in Nat, NEW c \in Outside, BitsSetJammed(c)
  PROVE  m_narco' \in Nat /\ NarcoStep
<1>1. infoText' = infoText /\ returned' = returned
  BY DEF BitsSetJammed
<1>2. /\ m_narco' \in Nat /\ JammedIn(m_narco') = JammedIn(m_narco) \cup ({c} \cap Columns)
      /\ FullIn(m_narco') = FullIn(m_narco) /\ NextBits(m_narco') = NextBits(m_narco)
  <2>1. CASE c \in Columns
    <3>1. PICK x : x = Written(m_narco, JammedBit(c), TRUE)
      OBVIOUS
    <3>2. x \in Nat /\ JammedIn(x) = JammedIn(m_narco) \cup {c} /\ FullIn(x) = FullIn(m_narco) /\ NextBits(x) = NextBits(m_narco)
      BY <2>1, <3>1, Jams
    <3>3. m_narco' = x /\ {c} \cap Columns = {c}
      BY <2>1, <3>1 DEF BitsSetJammed
    <3> QED
      BY <3>2, <3>3
  <2>2. CASE c \notin Columns
    BY <2>2 DEF BitsSetJammed
  <2> QED
    BY <2>1, <2>2
<1>3. Sets!MarkJammed(c)
  BY <1>2 DEF Sets!MarkJammed, Sets!Column, Columns
<1> QED
  BY <1>1, <1>2, <1>3 DEF NarcoStep

LEMMA BitsStep ==
  ASSUME m_narco \in Nat, BitsNext
  PROVE  m_narco' \in Nat /\ NarcoStep
<1>1. ASSUME NEW r \in Readings, BitsUpdateWithJam(r) \/ BitsGetDeployColumn(r) \/ BitsGetInfoText(r)
      PROVE  m_narco' \in Nat /\ NarcoStep
  BY <1>1, BitsUpdated, BitsDeployed
<1>2. ASSUME NEW c \in Outside, BitsSetJammed(c)
      PROVE  m_narco' \in Nat /\ NarcoStep
  BY <1>2, BitsJammed
<1>3. CASE BitsPowerUp
  BY <1>3 DEF BitsPowerUp, NarcoStep
<1> QED
  BY <1>1, <1>2, <1>3 DEF BitsNext

\* The word of bits does what Narco says of its fields, for any number of columns up to
\* fourteen, any readings of the switches and any columns marked from outside (narco.cpp:78-222).
THEOREM WordIsFields == BitsSpec => ImplementsNarco
<1>1. BitsInit => m_narco \in Nat
  <2> SUFFICES ASSUME BitsInit
               PROVE  m_narco \in Nat
    OBVIOUS
  <2>1. m_narco = 0
    BY DEF BitsInit
  <2> QED
    BY <2>1
<1>2. m_narco \in Nat /\ [BitsNext]_bitsVars => (m_narco \in Nat)' /\ [NarcoStep]_bitsVars
  <2> SUFFICES ASSUME m_narco \in Nat, [BitsNext]_bitsVars
               PROVE  m_narco' \in Nat /\ [NarcoStep]_bitsVars
    OBVIOUS
  <2>1. CASE BitsNext
    BY <2>1, BitsStep
  <2>2. CASE UNCHANGED bitsVars
    BY <2>2 DEF bitsVars
  <2> QED
    BY <2>1, <2>2
<1> QED
  BY <1>1, <1>2, PTL DEF BitsSpec, ImplementsNarco, NarcoStep
=============================================================================
