----------------------------- MODULE NarcoBits ------------------------------
(***************************************************************************)
(* Narco as it is stored (src/arduino/narco.cpp): one word of bits, read   *)
(* and written with shifts and masks, and the text made from it, which is  *)
(* kept between two calls. From bit 0 on the word holds a full bit and     *)
(* then a jammed bit for every column, then the four of the next column.   *)
(***************************************************************************)
EXTENDS Integers, FiniteSetsExt

CONSTANTS LastColumn,           \* NARCO_LAST_COLUMN
          Readings,             \* what the switches may say: the columns full, those home
          Outside               \* columns setJammed is called for from outside

VARIABLES m_narco, infoText,
          returned              \* what getDeployColumn returned last

bitsVars == <<m_narco, infoText, returned>>

Columns == 1 .. LastColumn

\* The three fields fit the word's 32 bits.
ASSUME BitsAssumption == /\ LastColumn \in 1 .. 14
                         /\ Readings \subseteq [full : SUBSET Columns, home : SUBSET Columns]
                         /\ Outside \subseteq 0 .. LastColumn + 1

FullBit(c) == c - 1

\* Mutant: jammed bits begin one bit too low.
JammedBitLow(c) == c + LastColumn - 2

\* "column + 8" for nine columns.
JammedBit(c) == c + LastColumn - 1

NextColumnBit == 2 * LastColumn

\* 1 << b
Shift[b \in 0 .. NextColumnBit + 3] == IF b = 0 THEN 1 ELSE 2 * Shift[b - 1]

Bit(w, b) == (w \div Shift[b]) % 2 = 1

\* w |= 1 << b, or w &= ~(1 << b).
Written(w, b, on) == IF on = Bit(w, b) THEN w ELSE IF on THEN w + Shift[b] ELSE w - Shift[b]

\* The n bits from "low" on, one after the other; those whose numbers are in S are set, the others cleared.
Field(w, low, n, S) ==
  LET word[i \in 0 .. n] == IF i = 0 THEN w ELSE Written(word[i - 1], low + (i - 1), i \in S)
  IN  word[n]

IsFull(w, c)   == c \in Columns /\ Bit(w, FullBit(c))
IsJammed(w, c) == c \in Columns /\ Bit(w, JammedBit(c))

FullIn(w)   == {c \in Columns : IsFull(w, c)}
JammedIn(w) == {c \in Columns : IsJammed(w, c)}
NextBits(w) == {b \in 0 .. 3 : Bit(w, NextColumnBit + b)}

BitsInit == /\ m_narco = 0
            /\ infoText = [c \in Columns |-> "_"]
            /\ returned = 0
-----------------------------------------------------------------------------
\* update(), then the rotation switch of one column after the other.
AfterUpdateWithJam(w, r) ==
  Field(Field(w, FullBit(1), LastColumn, r.full), JammedBit(1), LastColumn, Columns \ r.home)

BitsUpdateWithJam(r) == /\ m_narco' = AfterUpdateWithJam(m_narco, r)
                        /\ UNCHANGED <<infoText, returned>>

BitsSetJammed(c) == /\ m_narco' = IF c \in Columns THEN Written(m_narco, JammedBit(c), TRUE) ELSE m_narco
                    /\ UNCHANGED <<infoText, returned>>

CurrentColumn(w) ==
  LET next == (w \div Shift[NextColumnBit]) % 16 IN IF next = 0 THEN 1 ELSE next

\* What one of the two loops may return; the second one can start past the last column.
Scan(w, first, last) == {c \in first .. last : ~IsJammed(w, c) /\ IsFull(w, c)}

Found(w) == LET ahead  == Scan(w, CurrentColumn(w), LastColumn)
                behind == Scan(w, 1, CurrentColumn(w) - 1)
            IN  IF ahead # {} THEN Min(ahead) ELSE IF behind # {} THEN Min(behind) ELSE 0

\* setDeployColumn: w |= c << 18, for the four bits of c.
Ored(w, c) == Field(w, NextColumnBit, 4, {i \in 1 .. 4 : Bit(w, NextColumnBit + (i - 1)) \/ Bit(c, i - 1)})

BitsGetDeployColumn(r) ==
  LET w == AfterUpdateWithJam(m_narco, r)
  IN  /\ m_narco' = IF Found(w) = 0 THEN w ELSE Ored(w, Found(w))
      /\ returned' = Found(w)
      /\ UNCHANGED infoText

Shown(w, text) == [c \in Columns |-> IF IsJammed(w, c) THEN "J" ELSE IF IsFull(w, c) THEN "#" ELSE text[c]]

BitsGetInfoText(r) ==
  LET w == AfterUpdateWithJam(m_narco, r)
  IN  /\ m_narco' = w
      /\ infoText' = Shown(w, infoText)
      /\ UNCHANGED returned

BitsPowerUp == /\ m_narco' = 0
               /\ infoText' = [c \in Columns |-> "_"]
               /\ returned' = 0

BitsNext == \/ \E r \in Readings : BitsUpdateWithJam(r) \/ BitsGetDeployColumn(r) \/ BitsGetInfoText(r)
            \/ \E c \in Outside : BitsSetJammed(c)
            \/ BitsPowerUp

BitsSpec == BitsInit /\ [][BitsNext]_bitsVars
-----------------------------------------------------------------------------
Sets == INSTANCE Narco WITH N <- LastColumn, full <- FullIn(m_narco), jammed <- JammedIn(m_narco),
                            cursor <- NextBits(m_narco), motor <- {}

\* The word is what Narco takes it for (narco.cpp:78-222): every shift and mask
\* changes the field it is meant for, and no other, both loops of getDeployColumn
\* together answer with the column of Narco's choice, and the text has the marks
\* that Narco says are due.
ImplementsNarco ==
  [][\/ \E r \in Readings :
          \/ /\ Sets!UpdateWithJam(r)
             /\ infoText' \in {infoText, Sets!Marked(r.full, Columns \ r.home, infoText)}
             /\ UNCHANGED <<NextBits(m_narco), returned>>
          \/ Sets!GetDeployColumn(r) /\ returned' = Sets!DeployColumn(r) /\ UNCHANGED infoText
     \/ \E c \in Outside : /\ Sets!MarkJammed(c)
                           /\ UNCHANGED <<FullIn(m_narco), NextBits(m_narco), returned, infoText>>
     \/ m_narco' = 0 /\ \A c \in Columns : infoText'[c] = "_"]_bitsVars
=============================================================================
