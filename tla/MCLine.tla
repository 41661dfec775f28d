------------------------------- MODULE MCLine --------------------------------
(***************************************************************************)
(* The serial line: what the checksum notices (Damage), how each side      *)
(* finds the frames in its bytes (Framing in the machine, for requests and *)
(* for the lines of the display; Chunks in the daemon), and the machine's  *)
(* buffers that frames are kept in (Buffers). Each runs by itself, the     *)
(* others at rest, so that their states add up and do not multiply; "part" *)
(* says which one.                                                         *)
(***************************************************************************)
EXTENDS Buffers, Damage

CONSTANTS Capacity, Reach,      \* as in Framing
          MaxFaults             \* bytes harmed, of requests and of answers

VARIABLES part,
          line, buffer, sizePending, handled, refused, faults, hurt,
          coming, port, restPending, answers, harmed, fresh, signals

framingOnly == <<line, buffer, sizePending, handled, refused, faults, hurt>>
chunksOnly == <<coming, port, restPending, answers, harmed, fresh, signals>>
lineVars == <<part, buffersVars, damageVars, framingOnly, chunksOnly>>
-----------------------------------------------------------------------------
K == INSTANCE Checksum WITH Base <- 256

Datagram(id, command, data) ==
  K!Sealed(<<66, 83, K!HeaderSize + Len(data), id \div 256, id % 256, 0, 0, command>> \o data)

\* What the daemon sends. Requests with ids whose high byte, read as a size, is the
\* largest one.
Requests == [n \in 1 .. 7 |-> Datagram(8191 + n, 12, <<>>)]

\* A purchase's lines: SET_TEXT_3 with the 24 bytes the machine takes, one with 25 of
\* them and "BS " in the middle, and the requests that follow.
Spaces(n) == [k \in 1 .. n |-> 32]
Texts == <<Datagram(1, 67, Spaces(24)), Datagram(2, 67, Spaces(10) \o <<66, 83, 32>> \o Spaces(12))>>
           \o [n \in 1 .. 5 |-> Datagram(2 + n, 12, <<>>)]

\* The signature's bytes, sizes that fit or do not, and others.
Noise == {0, 8, 32, 33, 66, 83, 255}

F == INSTANCE Framing WITH Base <- 256, Sent <- Requests
X == INSTANCE Framing WITH Base <- 256, Sent <- Texts, MaxFaults <- 0

\* What the machine sends, with ids as the daemon gave them.
Answers == [n \in 1 .. 5 |-> Datagram(2047 + n, 2 + n, <<>>)]

C == INSTANCE Chunks WITH Base <- 256, Sent <- Answers, Noise <- {0, 8, 24, 64, 66, 83},
                          sizePending <- restPending, received <- answers, faults <- harmed

\* Bytes of four values; a frame without data, and one with a byte of it.
Contents == {<<2, 3, 0, i, j, 0, 0, c>> : i \in {0, 3}, j \in 0 .. 3, c \in 0 .. 3}
SomeFrames == Contents \cup {f \o <<d>> : f \in Contents, d \in 0 .. 3}

ASSUME /\ K!ChecksumAssumption /\ F!FramingAssumption /\ X!FramingAssumption
       /\ C!ChunksAssumption
-----------------------------------------------------------------------------
LineInit == /\ part \in {"buffers", "requests", "texts", "answers", "damage"}
            /\ Init /\ C!Init
            /\ IF part = "texts" THEN X!Init ELSE F!Init
            /\ DamageInit
            /\ part # "damage" => sent = Sealed(<<2, 3, 0, 0, 0, 0, 0, 0>>)

LineNext == \/ part = "buffers" /\ Next /\ UNCHANGED <<part, damageVars, framingOnly, chunksOnly>>
            \/ part = "requests" /\ F!Next /\ UNCHANGED <<part, buffersVars, damageVars, chunksOnly>>
            \/ part = "texts" /\ X!Next /\ UNCHANGED <<part, buffersVars, damageVars, chunksOnly>>
            \/ part = "answers" /\ C!Next /\ UNCHANGED <<part, buffersVars, damageVars, framingOnly>>
            \/ part = "damage" /\ Harm /\ UNCHANGED <<part, buffersVars, framingOnly, chunksOnly>>

LineSpec == LineInit /\ [][LineNext]_lineVars
-----------------------------------------------------------------------------
(* The properties of the parts; those of the buffers are Buffers' own, and *)
(* that of the checksum is Damage's.                                       *)

\* The machine handles only frames that were sent, in their order (network.cpp:20-76).
HandledAsSent == /\ part = "requests" => F!HandledAsSent
                 /\ part = "texts" => X!HandledAsSent

\* What was harmed costs no more than a few of the frames that follow (network.cpp:22-43).
Recovers == /\ part = "requests" => F!Recovers
            /\ part = "texts" => X!Recovers

\* Each signal gives the daemon at most one answer, in their order (alkomanager.cpp:133-166).
AnswersInOrder == part = "answers" => C!AnswersInOrder
=============================================================================
