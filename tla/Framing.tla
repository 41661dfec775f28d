------------------------------ MODULE Framing ------------------------------
(***************************************************************************)
(* The daemon's frames on their way to the machine, byte by byte: a line   *)
(* that damages, loses and invents bytes, the receive buffer of the UART,  *)
(* and Network::datagramIsPending (src/arduino/network.cpp), which loop()  *)
(* calls once a round and which looks at one possible frame per call.      *)
(***************************************************************************)
EXTENDS Checksum, FiniteSetsExt, SequencesExt

CONSTANTS Sent,                 \* the frames sent, in their order, each of its own id
          Capacity,             \* of the receive buffer
          MaxFaults,            \* bytes damaged, lost or invented at most
          Noise,                \* what a damaged or invented byte can be
          Reach                 \* frames the trouble reaches beyond the last one damaged

FramingAssumption == /\ Sent \in Seq(Seq(Byte))
                     /\ \A n \in DOMAIN Sent : ChecksumIsValid(Sent[n])
                     /\ \A j, k \in DOMAIN Sent : Sent[j] = Sent[k] => j = k
                     /\ Noise \subseteq Byte
                     /\ {Capacity, MaxFaults, Reach} \subseteq Nat

VARIABLES line,                 \* the bytes still to arrive
          buffer,               \* the bytes arrived and not yet read
          sizePending,          \* bytes of the frame begun that are still to be read, 0 if none
          handled,              \* the frames given to the handler, in order
          refused,              \* CHKSUM_INVALID answers
          faults,               \* bytes damaged, lost or invented so far
          hurt                  \* the frames whose bytes the line or the buffer harmed

framingVars == <<line, buffer, sizePending, handled, refused, faults, hurt>>

Signature == <<66, 83>>         \* 0x42 0x53
Smallest == HeaderSize
Largest == 32

\* The frame, or the one before which, the next byte is about to arrive.
Arriving ==
  LET before[n \in 0 .. Len(Sent)] == IF n = 0 THEN 0 ELSE before[n - 1] + Len(Sent[n])
  IN  Min({n \in DOMAIN Sent : before[Len(Sent)] - Len(line) < before[n]})

Init == /\ line = FlattenSeq(Sent)
        /\ buffer = <<>>
        /\ sizePending = 0
        /\ handled = <<>>
        /\ refused = 0
        /\ faults = 0
        /\ hurt = {}
-----------------------------------------------------------------------------
(* The line. The interrupt puts a byte into the buffer, or drops it when   *)
(* loop() has been busy with the display for too long.                     *)

Receive(b) ==
  IF Len(buffer) < Capacity THEN buffer' = Append(buffer, b) /\ UNCHANGED hurt
                            ELSE UNCHANGED buffer /\ hurt' = hurt \cup {Arriving}

Arrive == /\ line # <<>>
          /\ Receive(Head(line))
          /\ line' = Tail(line)
          /\ UNCHANGED <<sizePending, handled, refused, faults>>

\* A byte is lost, becomes another one, or is preceded by one nobody sent.
Fault == /\ line # <<>> /\ faults < MaxFaults
         /\ faults' = faults + 1
         /\ hurt' = hurt \cup {Arriving}
         /\ \/ line' = Tail(line) /\ UNCHANGED buffer
            \/ \E b \in Noise : line' = Tail(line) /\ buffer' = Append(buffer, b)
            \/ \E b \in Noise : line' = line /\ buffer' = Append(buffer, b)
         /\ Len(buffer') <= Capacity
         /\ UNCHANGED <<sizePending, handled, refused>>
-----------------------------------------------------------------------------
(* datagramIsPending.                                                      *)

Skip(n) == SubSeq(buffer, n + 1, Len(buffer))

\* Mutant: the largest size is not looked at.
FitsAny(size) == size >= Smallest

\* The size byte names a frame that can be one.
Fits(size) == size \in Smallest .. Largest

\* The first byte that is no part of a signature is dropped, the second one together
\* with the first, a size that does not fit with both.
NoFrame == /\ sizePending = 0 /\ Len(buffer) >= 8
           /\ \/ buffer[1] # Signature[1] /\ buffer' = Skip(1)
              \/ buffer[1] = Signature[1] /\ buffer[2] # Signature[2] /\ buffer' = Skip(2)
              \/ SubSeq(buffer, 1, 2) = Signature /\ ~Fits(buffer[3]) /\ buffer' = Skip(3)
           /\ UNCHANGED <<line, sizePending, handled, refused, faults, hurt>>

\* A header that fits, the rest of whose frame has not arrived.
Begin == /\ sizePending = 0 /\ Len(buffer) >= 8
         /\ SubSeq(buffer, 1, 2) = Signature /\ Fits(buffer[3])
         /\ Len(buffer) < buffer[3]
         /\ sizePending' = buffer[3] - 3
         /\ buffer' = Skip(3)
         /\ UNCHANGED <<line, handled, refused, faults, hurt>>

\* Mutant: as the daemon does, a wrong checksum is not acted upon.
JudgedGood(frame) == handled' = Append(handled, frame) /\ UNCHANGED refused

\* A whole frame: it is handled, or refused if its checksum is wrong.
Judged(frame) == IF ChecksumIsValid(frame) THEN handled' = Append(handled, frame) /\ UNCHANGED refused
                                           ELSE refused' = refused + 1 /\ UNCHANGED handled

\* sizePending once the frame is read, valid or not.
Reset(frame) == 0

Take(frame, n) == /\ Judged(frame)
                  /\ sizePending' = Reset(frame)
                  /\ buffer' = Skip(n)

Whole == /\ \/ sizePending = 0 /\ Len(buffer) >= 8
               /\ SubSeq(buffer, 1, 2) = Signature /\ Fits(buffer[3]) /\ Len(buffer) >= buffer[3]
               /\ Take(SubSeq(buffer, 1, buffer[3]), buffer[3])
            \/ sizePending > 0 /\ Len(buffer) >= sizePending
               /\ Take(Signature \o <<sizePending + 3>> \o SubSeq(buffer, 1, sizePending), sizePending)
         /\ UNCHANGED <<line, faults, hurt>>

DatagramIsPending == NoFrame \/ Begin \/ Whole

Next == Arrive \/ Fault \/ DatagramIsPending

Spec == Init /\ [][Next]_framingVars
-----------------------------------------------------------------------------
Position(frame) == IF frame \in ToSet(Sent) THEN CHOOSE n \in DOMAIN Sent : Sent[n] = frame ELSE 0

Receivable == {n \in DOMAIN Sent : Fits(Len(Sent[n]))}

\* Whatever the line does, only frames that were sent are handled, none twice and none
\* before an earlier one (network.cpp:68-72).
HandledAsSent == \A k \in DOMAIN handled :
                    Position(handled[k]) > (IF k = 1 THEN 0 ELSE Position(handled[k - 1]))

\* Nothing more arrives, and a call of datagramIsPending only waits.
AtRest == /\ line = <<>>
          /\ Len(buffer) < (IF sizePending = 0 THEN 8 ELSE sizePending)

\* What can have gone wrong: frames that were harmed, and frames the machine never takes.
Trouble == hurt \cup (DOMAIN Sent \ Receivable)

\* The trouble a damaged, lost, invented or dropped byte makes ends by itself: of the
\* frames the machine takes at all, those before the first one in trouble and those
\* more than Reach after the last one are handled. And no frame in trouble is refused
\* twice: the reader, lost inside of frames, takes no other part of one for a frame
\* (network.cpp:29-38, 69-71).
Recovers == LET missed == {n \in Receivable : ~\E k \in DOMAIN handled : handled[k] = Sent[n]}
            IN  /\ AtRest => \A n \in missed : \E t \in Trouble : n \in t .. t + Reach
                /\ refused <= Cardinality(Trouble)
=============================================================================
