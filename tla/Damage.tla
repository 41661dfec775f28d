------------------------------- MODULE Damage -------------------------------
(***************************************************************************)
(* What the checksum is good for: a frame is sealed, and then bytes of it  *)
(* are damaged on the line.                                                *)
(***************************************************************************)
EXTENDS Checksum, FiniteSets

CONSTANTS Frames,               \* frames before they are sealed
          MaxDamaged            \* bytes damaged at most

ASSUME DamageAssumption == /\ Frames \subseteq Seq(Byte)
                           /\ \A f \in Frames : Len(f) >= HeaderSize
                           /\ MaxDamaged \in Nat

VARIABLES sent,                 \* the sealed frame
          frame                 \* what has become of it

damageVars == <<sent, frame>>

Damaged == {k \in DOMAIN frame : frame[k] # sent[k]}

DamageInit == /\ \E f \in Frames : sent = Sealed(f)
              /\ frame = sent

Harm == /\ Cardinality(Damaged) < MaxDamaged
        /\ \E k \in DOMAIN frame, b \in Byte : frame' = [frame EXCEPT ![k] = b]
        /\ UNCHANGED sent

DamageSpec == DamageInit /\ [][Harm]_damageVars
-----------------------------------------------------------------------------
\* A frame sealed on one side is valid on the other, of an odd length too, though the
\* checksum is stored high byte first and across two words; a single damaged byte, in the
\* header, the checksum or the data, is always noticed; and of more damage exactly
\* that is not which leaves the sum of the words the same but for a multiple of the
\* largest word (datagram.cpp:126-150, alkomanager.cpp:114-119, 166).
DamageIsNoticed ==
  /\ Cardinality(Damaged) <= 1 => (ChecksumIsValid(frame) <=> Damaged = {})
  /\ ChecksumIsValid(frame) <=> (Sum(frame) - Sum(sent)) % LargestWord = 0 /\ Sum(frame) > 0
=============================================================================
