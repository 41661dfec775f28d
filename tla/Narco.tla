------------------------------- MODULE Narco --------------------------------
(***************************************************************************)
(* The column vender behind two I/O expanders (src/arduino/narco.cpp): the *)
(* sold-out switch and the rotation switch of every column, read again at  *)
(* every use, and the relay of every motor. The packed word m_narco is its *)
(* three fields, each the set of its one bits.                             *)
(***************************************************************************)
EXTENDS Integers, FiniteSetsExt

CONSTANT N                      \* NARCO_LAST_COLUMN

\* The next-column field has four bits.
ASSUME NAssumption == N \in 1 .. 15

VARIABLES full,                 \* columns whose sold-out switch was last read as full
          jammed,               \* columns marked jammed
          cursor,               \* one bits of the next-column field
          motor                 \* columns whose relay is closed

narcoVars == <<full, jammed, cursor, motor>>

Column == 1 .. N

\* What the switches say during one operation: any answer is possible.
Reading == [full : SUBSET Column, home : SUBSET Column]

NarcoTypeOK == /\ full \subseteq Column
               /\ jammed \subseteq Column
               /\ cursor \subseteq 0 .. 3
               /\ motor \subseteq Column

NarcoInit == full = {} /\ jammed = {} /\ cursor = {} /\ motor = {}
-----------------------------------------------------------------------------
\* updateWithJam: a column whose motor is not in its home position is jammed.
UpdateWithJam(r) == /\ full' = r.full
                    /\ jammed' = Column \ r.home

\* setJammed(column, true): no effect outside the columns.
MarkJammed(c) == jammed' = jammed \cup ({c} \cap Column)

\* The bits of a column's number; bit b weighs 2^b.
Bits(c) == {b \in 0 .. 3 : (c \div <<1, 2, 4, 8>>[b + 1]) % 2 = 1}

\* The value of the next-column field; an empty field means the first column.
StartColumn(bits) ==
  IF bits = {} THEN 1
  ELSE (IF 0 \in bits THEN 1 ELSE 0) + (IF 1 \in bits THEN 2 ELSE 0)
         + (IF 2 \in bits THEN 4 ELSE 0) + (IF 3 \in bits THEN 8 ELSE 0)

\* Mutant: no second loop, from the first column on.
SelectAhead(from, S) ==
  LET ahead == {c \in S : c >= from} IN IF ahead = {} THEN 0 ELSE Min(ahead)

\* The first column of S at or after "from", wrapping around; 0 when S is empty.
Select(from, S) ==
  LET ahead == {c \in S : c >= from}
  IN  IF S = {} THEN 0 ELSE IF ahead # {} THEN Min(ahead) ELSE Min(S)

\* The columns getDeployColumn may answer with.
Deployable(r) == r.full \cap r.home

DeployColumn(r) == Select(StartColumn(cursor), Deployable(r))

\* getDeployColumn reads the switches and stores its answer with an OR: the
\* bits of the previous answers are never cleared.
GetDeployColumn(r) == /\ UpdateWithJam(r)
                      /\ cursor' = cursor \cup Bits(DeployColumn(r))

\* Mutant: a column that is full is shown so, jammed or not.
MarkedFullFirst(f, j, text) == [c \in Column |-> IF c \in f THEN "#" ELSE IF c \in j THEN "J" ELSE text[c]]

\* The text of getInfoText: a mark where one is due, and elsewhere what was there.
Marked(f, j, text) == [c \in Column |-> IF c \in j THEN "J" ELSE IF c \in f THEN "#" ELSE text[c]]

\* Mutant: the last column's relay, on a port of its own, is forgotten.
PowerOffButLast(on) == on \ (Column \ {N})

\* The relays after powerOff, and after powerOn(c), which begins with it.
PowerOff(on) == on \ Column
PowerOn(on, c) == PowerOff(on) \cup ({c} \cap Column)
=============================================================================
