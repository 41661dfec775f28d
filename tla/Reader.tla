------------------------------- MODULE Reader -------------------------------
(***************************************************************************)
(* The card reader, a keyboard to the system: MagtekReader reads its       *)
(* events in a thread of its own (src/alkod/magtekreader.cpp) and signals  *)
(* each card to CustomerHandler (src/alkod/customerhandler.cpp). read()    *)
(* gives all the events that wait, and only the second of them is looked   *)
(* at: keys that are pressed while the thread does not run are missed.     *)
(***************************************************************************)
EXTENDS FiniteSetsExt, SequencesExt

CONSTANTS Cards,                \* the cards that there are, each the keys of its number
          MaxSwiped,            \* cards swiped at most
          MaxWaiting,           \* key strokes that wait at most, up or down
          MaxMissed             \* keys missed at most

\* Keys by their codes: the digits from 1 to 9 and 0, and Enter. Neither the ';' before the
\* number of a magnetic card nor a shift key is part of the number.
KeyDigit == 2 .. 11
KeyEnter == 28
KeySilent == {39, 42}

\* The digits among the first n keys of a card, as characters.
Numbers(card) ==
  LET number[n \in 0 .. Len(card)] ==
        IF n = 0 THEN <<>>
        ELSE IF card[n] \in KeyDigit THEN Append(number[n - 1], 48 + ((card[n] - 1) % 10)) ELSE number[n - 1]
  IN  number

Digits(card) == Numbers(card)[Len(card)]

\* read() has room for 64 events, three of each stroke.
ASSUME ReaderAssumption == /\ Cards \subseteq Seq(KeyDigit \cup KeySilent)
                           /\ \A card \in Cards : Len(Digits(card)) \in {12, 16}
                           /\ MaxWaiting \in 1 .. 21
                           /\ {MaxSwiped, MaxMissed} \subseteq Nat

VARIABLES swiped,               \* the cards that were swiped
          stroke,               \* the next stroke the reader makes
          waiting,              \* the strokes whose events wait to be read
          data,                 \* the characters of the card being read
          missed,               \* the keys pressed that were not looked at
          running,              \* readFromDeviceSignalOnly has not returned
          queue,                \* the signals that wait for the daemon's event loop
          customers             \* the customers of the purchases begun

readerVars == <<swiped, stroke, waiting, data, missed, running, queue, customers>>

\* Each key of a card goes down and up, and Enter ends the card.
Stroke(c, k, down) == [card |-> c, key |-> k, down |-> down]

KeyOf(s) == IF s.key <= Len(swiped[s.card]) THEN swiped[s.card][s.key] ELSE KeyEnter

After(s) == IF s.down THEN Stroke(s.card, s.key, FALSE)
            ELSE IF s.key <= Len(swiped[s.card]) THEN Stroke(s.card, s.key + 1, TRUE)
            ELSE Stroke(s.card + 1, 1, TRUE)

ReaderInit == /\ swiped = <<>> /\ stroke = Stroke(1, 1, TRUE)
              /\ waiting = <<>> /\ data = <<>> /\ missed = 0 /\ running = TRUE
              /\ queue = <<>> /\ customers = <<>>

Swipe == /\ stroke.card > Len(swiped) /\ Len(swiped) < MaxSwiped
         /\ \E card \in Cards : swiped' = Append(swiped, card)
         /\ UNCHANGED <<stroke, waiting, data, missed, running, queue, customers>>

Press == /\ stroke.card <= Len(swiped) /\ Len(waiting) < MaxWaiting
         /\ waiting' = Append(waiting, stroke)
         /\ stroke' = After(stroke)
         /\ UNCHANGED <<swiped, data, missed, running, queue, customers>>
-----------------------------------------------------------------------------
(* readFromDeviceSignalOnly.                                               *)

Signal == queue' = Append(queue, data) /\ data' = <<>>

\* Mutant: a zero is the character after 9.
CharacterInLine(key) == key + 47

\* The character of a key.
Character(key) == IF key + 47 = 58 THEN 48 ELSE key + 47

Look(s) == \/ s.down /\ KeyOf(s) = KeyEnter /\ Signal
           \/ /\ s.down /\ KeyOf(s) \notin KeySilent \union {KeyEnter}
              /\ data' = Append(data, Character(KeyOf(s)))
              /\ UNCHANGED queue
           \/ /\ ~s.down \/ KeyOf(s) \in KeySilent
              /\ UNCHANGED <<data, queue>>

Overlooked == Cardinality({k \in 2 .. Len(waiting) : waiting[k].down})

\* A stroke is three events: the scan code, the key, and the end of the report. So the second
\* of all that wait is the key of the first stroke.
Read == /\ running /\ waiting # <<>>
        /\ missed' = missed + Overlooked
        /\ missed' <= MaxMissed
        /\ Look(waiting[1])
        /\ waiting' = <<>>
        /\ UNCHANGED <<swiped, stroke, running, customers>>

\* read() fails: what there is of a card is signalled, and nothing is read any more.
Fail == /\ running
        /\ running' = FALSE
        /\ Signal
        /\ UNCHANGED <<swiped, stroke, waiting, missed, customers>>
-----------------------------------------------------------------------------
Right(s, n) == SubSeq(s, Len(s) - n + 1, Len(s))

\* Mutant: any number long enough is cut to what an RFID card's is.
CustomerAtLeast(d) == IF Len(d) >= 12 THEN Right(d, 10) ELSE d

\* newCustomer: the part of the number that names the customer.
Customer(d) == IF Len(d) = 16 THEN Right(d, 10) ELSE IF Len(d) = 12 THEN Right(d, 6) ELSE d

NewCustomer == /\ queue # <<>>
               /\ customers' = Append(customers, Customer(Head(queue)))
               /\ queue' = Tail(queue)
               /\ UNCHANGED <<swiped, stroke, waiting, data, missed, running>>

ReaderNext == Swipe \/ Press \/ Read \/ Fail \/ NewCustomer

ReaderSpec == ReaderInit /\ [][ReaderNext]_readerVars
-----------------------------------------------------------------------------
\* The digits that name a card's holder: the last ten of an RFID card's sixteen, the last six
\* of a magnetic card's twelve.
Holder(card) == SubSeq(Digits(card), 7, Len(Digits(card)))

\* The customers that were signalled; what the reader signals when it ends is no whole card.
Signalled == customers \o [k \in DOMAIN queue |-> Customer(queue[k])]
Whole == IF running THEN Signalled ELSE Front(Signalled)

\* When no key was missed the cards that were read are those that were swiped, in their
\* order, each with the digits that name its holder (magtekreader.cpp:97-124,
\* customerhandler.cpp:59-69).
ReadAsSwiped == missed = 0 => IsPrefix(Whole, [k \in DOMAIN swiped |-> Holder(swiped[k])])

\* One missed key, be it Enter, never makes a purchase in another's name: the number is
\* one of a card swiped or too long or too short to name a holder. Two keys of a magnetic
\* card or four of an RFID card would do, as nothing checks a number
\* (customerhandler.cpp:62-65).
NoStranger == missed <= 1 =>
  \A k \in DOMAIN Whole : \/ Whole[k] \in {Holder(swiped[c]) : c \in DOMAIN swiped}
                          \/ Len(Whole[k]) \notin {6, 10}
=============================================================================
