------------------------------ MODULE Checksum ------------------------------
(***************************************************************************)
(* The frames of the serial line and their checksum, which both sides      *)
(* compute alike (Datagram::generateChecksum in src/arduino/datagram.cpp,  *)
(* AlkoManager::makeChecksum in src/alkod/alkomanager.cpp): the one's      *)
(* complement sum of the little-endian words of a sequence of bytes.       *)
(***************************************************************************)
EXTENDS Integers, Sequences

CONSTANT Base                   \* how many values a byte has

ASSUME ChecksumAssumption == Base \in Nat \ {0, 1}

Byte == 0 .. Base - 1
LargestWord == Base * Base - 1

\* Mutant: the last byte of an odd number of them is left out.
SumOfPairs(f) ==
  LET sum[n \in 0 .. Len(f)] == IF n = 0 THEN 0 ELSE sum[n - 1] + f[n] * (IF n % 2 = 1 THEN 1 ELSE Base)
  IN  sum[Len(f) - (Len(f) % 2)]

\* The first byte of each word is its low one; a byte left over is one too.
Sum(f) ==
  LET sum[n \in 0 .. Len(f)] == IF n = 0 THEN 0 ELSE sum[n - 1] + f[n] * (IF n % 2 = 1 THEN 1 ELSE Base)
  IN  sum[Len(f)]

\* The carries are added until none is left.
Carried(s) ==
  LET carried[x \in 0 .. s] ==
        IF x > LargestWord THEN carried[(x % (LargestWord + 1)) + (x \div (LargestWord + 1))] ELSE x
  IN  carried[s]

GenerateChecksum(f) == LargestWord - Carried(Sum(f))

\* Both sides take a frame whose checksum, its own included, is 0 for undamaged.
ChecksumIsValid(f) == GenerateChecksum(f) = 0
-----------------------------------------------------------------------------
\* The positions of the header's bytes; the command, and then the data, follow.
SizeAt == 3
IdAt == 4
ChecksumAt == 6
HeaderSize == 8

\* updateChecksum: the sum is taken with 0 in its place, and stored high byte first.
Sealed(f) ==
  LET bare == [f EXCEPT ![ChecksumAt] = 0, ![ChecksumAt + 1] = 0]
      sum  == GenerateChecksum(bare)
  IN  [bare EXCEPT ![ChecksumAt] = sum \div Base, ![ChecksumAt + 1] = sum % Base]
=============================================================================
