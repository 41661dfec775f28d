------------------------------ MODULE Display ------------------------------
(***************************************************************************)
(* The firmware's text (src/arduino/lcd.cpp) and what an HD44780 of four   *)
(* rows of twenty shows of it, one byte of LiquidCrystal (src/arduino/     *)
(* libraries/LiquidCrystal) at a time. That a byte arrives as it was sent  *)
(* is Backpack's matter; here a byte may slip, after which the display     *)
(* holds anything until begin() has synchronised it.                       *)
(***************************************************************************)
EXTENDS Integers, FiniteSetsExt, SequencesExt

CONSTANTS Texts,                \* what setText is called with, sequences of characters
          TextLines             \* the lines it is called with

ASSUME DisplayAssumption == TextLines \subseteq Nat /\ \A t \in Texts : t \in Seq(0 .. 255)

Row == 0 .. 3                   \* LCD_ROWS
Col == 0 .. 19                  \* LCD_COLS
Space == 32
Address == (0 .. 39) \cup (64 .. 103)

VARIABLES text,                 \* m_text
          todo,                 \* the bytes LiquidCrystal has still to send
          ddram,                \* the display's characters
          cgram,                \* and its eight rows of dots for each of eight glyphs
          counter,              \* its address counter: <<in cgram, address>>
          forward,              \* the counter goes up after each character
          lit,                  \* the display is on
          healthy,              \* it has been in step since begin() synchronised it
          dirty                 \* text has changed, or the display was reset, since update()

panel == <<ddram, cgram, counter, forward, lit>>
displayVars == <<text, todo, panel, healthy, dirty>>

Blank == [r \in Row |-> [c \in Col |-> Space]]
-----------------------------------------------------------------------------
(* lcd.cpp: the text.                                                      *)

Norwegian == {230, 198, 248, 216, 229, 197}

\* The glyph of each of them, in the order in which addNorwegianChars makes them.
Glyph(char) == IF char = 230 THEN 1 ELSE IF char = 198 THEN 2 ELSE IF char = 248 THEN 3
               ELSE IF char = 216 THEN 4 ELSE IF char = 229 THEN 5 ELSE IF char = 197 THEN 6 ELSE char

\* The text up to its end, its given length or the line's, and spaces.
Line(t, length, old) ==
  LET n == Min({length, 20, Len(t)} \cup {k - 1 : k \in {k \in DOMAIN t : t[k] = 0}})
  IN  [c \in Col |-> IF c < n THEN Glyph(t[c + 1]) ELSE Space]

SetText(line, t, length) ==
  IF length = 0 THEN UNCHANGED <<text, dirty>>
                ELSE /\ text' = [text EXCEPT ![line % 4] = Line(t, length, @)]
                     /\ dirty' = TRUE
-----------------------------------------------------------------------------
(* LiquidCrystal: the bytes.                                               *)

Command(c) == [op |-> c]
SetDDRAM(a) == [op |-> "ddram", at |-> a]
SetCGRAM(a) == [op |-> "cgram", at |-> a]
Data(c) == [op |-> "data", char |-> c]

RowOffset(r) == <<0, 64, 20, 84>>[r + 1]

SetCursor(c, r) == SetDDRAM(c + RowOffset(IF r > 4 THEN 3 ELSE r))

\* The dots of a glyph, each row of them told apart.
Dots(k, r) == 8 * k + r

CreateChar(k, i) == IF i = 0 THEN SetCGRAM(8 * (k % 8)) ELSE Data(Dots(k, i - 1))

\* Nine bytes for each of six glyphs.
AddNorwegianChars == [n \in 1 .. 54 |-> CreateChar(1 + ((n - 1) \div 9), (n - 1) % 9)]

\* Mutant: the display is not cleared and the entry mode is left as it is.
BeginShort == <<Command("sync"), Command("function"), Command("on")>>

BeginBytes == <<Command("sync"), Command("function"), Command("on"), Command("clear"), Command("entry")>>

\* LCD::reset.
ResetBytes == BeginBytes \o AddNorwegianChars

UpdateRow(r, i) == IF i = 0 THEN SetCursor(0, r) ELSE Data(text[r][i - 1])

\* Twenty-one bytes for each of four rows.
Update == [n \in 1 .. 84 |-> UpdateRow((n - 1) \div 21, (n - 1) % 21)]
-----------------------------------------------------------------------------
(* The display.                                                            *)

\* From the last address of its first line on the counter goes to the second one, and back.
Up(a) == IF a = 39 THEN 64 ELSE IF a = 103 THEN 0 ELSE a + 1
Down(a) == IF a = 64 THEN 39 ELSE IF a = 0 THEN 103 ELSE a - 1

Execute(b) ==
  \/ b.op \in {"sync", "function"} /\ UNCHANGED panel
  \/ b.op = "on"    /\ lit' = TRUE /\ UNCHANGED <<ddram, cgram, counter, forward>>
  \/ b.op = "entry" /\ forward' = TRUE /\ UNCHANGED <<ddram, cgram, counter, lit>>
  \/ b.op = "clear" /\ ddram' = [a \in Address |-> Space] /\ counter' = <<FALSE, 0>> /\ forward' = TRUE
                    /\ UNCHANGED <<cgram, lit>>
  \/ b.op = "ddram" /\ counter' = <<FALSE, b.at>> /\ UNCHANGED <<ddram, cgram, forward, lit>>
  \/ b.op = "cgram" /\ counter' = <<TRUE, b.at>> /\ UNCHANGED <<ddram, cgram, forward, lit>>
  \/ b.op = "data"  /\ counter[1]
                    /\ cgram' = [cgram EXCEPT ![counter[2]] = b.char]
                    /\ counter' = <<TRUE, (counter[2] + (IF forward THEN 1 ELSE 63)) % 64>>
                    /\ UNCHANGED <<ddram, forward, lit>>
  \/ b.op = "data"  /\ ~counter[1]
                    /\ ddram' = [ddram EXCEPT ![counter[2]] = b.char]
                    /\ counter' = <<FALSE, IF forward THEN Up(counter[2]) ELSE Down(counter[2])>>
                    /\ UNCHANGED <<cgram, forward, lit>>

\* What the display may hold once it has taken nibbles for others: any of these.
Anything == /\ ddram' = [a \in Address |-> 255]
            /\ cgram' = [a \in 0 .. 63 |-> 255]
            /\ counter' \in {<<TRUE, 63>>, <<FALSE, 0>>, <<FALSE, 70>>}
            /\ forward' \in BOOLEAN /\ lit' \in BOOLEAN

\* A byte arrives; only the four nibbles of begin() do anything for a display out of step.
SendNext == /\ todo # <<>>
            /\ todo' = Tail(todo)
            /\ healthy' = (healthy \/ Head(todo).op = "sync")
            /\ IF healthy THEN Execute(Head(todo)) ELSE UNCHANGED panel
            /\ UNCHANGED <<text, dirty>>

\* A nibble is lost or doubled in a byte.
Slip == /\ todo # <<>>
        /\ todo' = Tail(todo)
        /\ healthy' = FALSE
        /\ Anything
        /\ UNCHANGED <<text, dirty>>
-----------------------------------------------------------------------------
(* The calls of Dixie, in any order, and the reset of the processor, which *)
(* the display does not share: LCD's constructor, and reset() from setup().*)

Idle == todo = <<>>

CallSetText == /\ Idle
               /\ \E l \in TextLines, t \in Texts : \E n \in {0, Len(t), 20} : SetText(l, t, n)
               /\ UNCHANGED <<todo, healthy>> /\ UNCHANGED panel

CallClear == /\ Idle
             /\ text' = Blank /\ dirty' = TRUE
             /\ UNCHANGED <<todo, healthy>> /\ UNCHANGED panel

CallUpdate == /\ Idle
              /\ todo' = Update /\ dirty' = FALSE
              /\ UNCHANGED <<text, healthy>> /\ UNCHANGED panel

CallLCDReset == /\ Idle
                /\ todo' = ResetBytes /\ dirty' = TRUE
                /\ UNCHANGED <<text, healthy>> /\ UNCHANGED panel

ProcessorReset == /\ text' = Blank
                  /\ todo' = ResetBytes /\ dirty' = TRUE
                  /\ healthy' = FALSE
                  /\ UNCHANGED panel

DisplayInit == /\ text = Blank
               /\ todo = ResetBytes
               /\ ddram = [a \in Address |-> Space] /\ cgram = [a \in 0 .. 63 |-> 255]
               /\ counter = <<FALSE, 0>> /\ forward = TRUE /\ lit = FALSE
               /\ healthy = FALSE /\ dirty = TRUE

DisplayNext == SendNext \/ Slip \/ CallSetText \/ CallClear \/ CallUpdate \/ CallLCDReset \/ ProcessorReset

DisplaySpec == DisplayInit /\ [][DisplayNext]_displayVars
-----------------------------------------------------------------------------
\* The first character of each row of the display, as it is built.
FirstOfRow == <<0, 64, 20, 84>>

\* Whatever the display held when begin() was called, after a reset() and an update() it
\* shows each line of the text in its row, and is on; and each Norwegian letter that the
\* text can hold has its glyph (lcd.cpp:24-57, 122-136).
ShowsText ==
  /\ healthy /\ Idle /\ ~dirty =>
       lit /\ \A r \in Row, c \in Col : ddram[FirstOfRow[r + 1] + c] = text[r][c]
  /\ healthy /\ Idle => \A n \in Norwegian, r \in 0 .. 7 : cgram[8 * Glyph(n) + r] = Dots(Glyph(n), r)
=============================================================================
