------------------------------- MODULE Chunks -------------------------------
(***************************************************************************)
(* The machine's answers on their way to the daemon: the serial port hands *)
(* the bytes over in chunks of any length, signals readyRead for each, and *)
(* AlkoManager::slotReadyRead (src/alkod/alkomanager.cpp) reads one frame  *)
(* at most per signal and only logs that a checksum is wrong.              *)
(***************************************************************************)
EXTENDS Checksum, FiniteSetsExt, SequencesExt

CONSTANTS Sent,                 \* the frames the machine sends, in their order
          MaxFaults,            \* bytes damaged or lost at most
          Noise                 \* what a damaged byte can be

ChunksAssumption == /\ Sent \in Seq(Seq(Byte))
                    /\ \A n \in DOMAIN Sent : ChecksumIsValid(Sent[n])
                    /\ \A j, k \in DOMAIN Sent : Sent[j] = Sent[k] => j = k
                    /\ Noise \subseteq Byte
                    /\ MaxFaults \in Nat

VARIABLES coming,               \* the bytes that have not reached the port
          port,                 \* the bytes to be read from it
          sizePending,          \* bytes of the frame begun that are still to be read
          received,             \* the frames slotReadyRead looked up the reply of
          faults,               \* bytes damaged or lost so far
          fresh,                \* the frames a chunk not yet signalled completes, -1 without one
          signals               \* readyRead signals of chunks that completed a frame

chunksVars == <<coming, port, sizePending, received, faults, fresh, signals>>

Signature == <<66, 83>>         \* 0x42 0x53

Init == /\ coming = FlattenSeq(Sent)
        /\ port = <<>>
        /\ sizePending = 0
        /\ received = <<>>
        /\ faults = 0
        /\ fresh = -1
        /\ signals = 0

\* How many frames are complete when so many bytes have not yet come.
Complete(left) == Cardinality({n \in DOMAIN Sent : Len(FlattenSeq(SubSeq(Sent, n + 1, Len(Sent)))) >= left})

\* One more byte of the chunk that the next signal is for.
Arrive == /\ coming # <<>>
          /\ coming' = Tail(coming)
          /\ port' = Append(port, Head(coming))
          /\ fresh' = Max({fresh, 0}) + Complete(Len(coming) - 1) - Complete(Len(coming))
          /\ UNCHANGED <<sizePending, received, faults, signals>>

Fault == /\ faults < MaxFaults /\ coming # <<>>
         /\ faults' = faults + 1
         /\ \/ coming' = Tail(coming)
            \/ \E b \in Noise : coming' = [coming EXCEPT ![1] = b]
         /\ UNCHANGED <<port, sizePending, received, fresh, signals>>
-----------------------------------------------------------------------------
(* slotReadyRead, of the bytes then to be read.                            *)

Skip(bytes, n) == SubSeq(bytes, n + 1, Len(bytes))

Fits(size) == size \in HeaderSize .. 64

\* Too little for a signature and a size, the wrong one, or a size that does not fit:
\* what was read of it is gone, and the rest waits for another signal.
NoFrame(bytes) == /\ sizePending = 0
                  /\ \/ Len(bytes) < 3 /\ port' = bytes
                     \/ Len(bytes) >= 3 /\ bytes[1] # Signature[1] /\ port' = Skip(bytes, 1)
                     \/ Len(bytes) >= 3 /\ bytes[1] = Signature[1] /\ bytes[2] # Signature[2] /\ port' = Skip(bytes, 2)
                     \/ Len(bytes) >= 3 /\ SubSeq(bytes, 1, 2) = Signature /\ ~Fits(bytes[3]) /\ port' = Skip(bytes, 3)
                  /\ UNCHANGED <<sizePending, received>>

\* Of a frame's bytes three have already been read.
Body(size) == size - 3

\* Mutant: sizePending is not reset after the frame.
RestKeepingSize(bytes, size) == \/ /\ Len(bytes) < size
                                   /\ sizePending' = size /\ port' = bytes
                                   /\ UNCHANGED received
                                \/ /\ Len(bytes) >= size
                                   /\ received' = Append(received, Signature \o <<size + 3>> \o SubSeq(bytes, 1, size))
                                   /\ sizePending' = size /\ port' = Skip(bytes, size)

\* The rest of a frame waits, or the frame goes to the reply it is the answer of.
Rest(bytes, size) == \/ /\ Len(bytes) < size
                        /\ sizePending' = size /\ port' = bytes
                        /\ UNCHANGED received
                     \/ /\ Len(bytes) >= size
                        /\ received' = Append(received, Signature \o <<size + 3>> \o SubSeq(bytes, 1, size))
                        /\ sizePending' = 0 /\ port' = Skip(bytes, size)

SlotReadyRead(bytes) == \/ NoFrame(bytes)
                        \/ sizePending = 0 /\ Len(bytes) >= 3 /\ SubSeq(bytes, 1, 2) = Signature /\ Fits(bytes[3])
                             /\ Rest(Skip(bytes, 3), Body(bytes[3]))
                        \/ sizePending > 0 /\ Rest(bytes, sizePending)

ReadyRead == /\ fresh >= 0
             /\ SlotReadyRead(port)
             /\ fresh' = -1
             /\ signals' = signals + (IF fresh > 0 THEN 1 ELSE 0)
             /\ UNCHANGED <<coming, faults>>

Next == Arrive \/ Fault \/ ReadyRead

Spec == Init /\ [][Next]_chunksVars
-----------------------------------------------------------------------------
Altered == {k \in DOMAIN received : received[k] \notin ToSet(Sent)}

\* However the bytes are cut into chunks, the answers are read as they were sent, and each
\* signal that makes one complete gives an answer, if only an older one: as many wait as
\* came together with others. A damaged or lost byte makes one altered answer at
\* most, though the checksum is not acted upon, and the others are in their order, none
\* twice (alkomanager.cpp:133-166).
AnswersInOrder ==
  /\ faults = 0 => IsPrefix(received, Sent) /\ Len(received) >= signals
  /\ Cardinality(Altered) <= faults
  /\ \A j, k \in DOMAIN received \ Altered :
       j < k => \E a, b \in DOMAIN Sent : a < b /\ Sent[a] = received[j] /\ Sent[b] = received[k]
=============================================================================
