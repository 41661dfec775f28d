----------------------------- MODULE LineProofs -----------------------------
(***************************************************************************)
(* The serial line, proved for any heap, any frames of any length, and     *)
(* bytes of any width: the reference counts of the datagrams are right,    *)
(* the handler is given the frame that was received, and the checksum      *)
(* notices the damage it should. The recursions of the checksum have a     *)
(* solution for every number; what it computes is known by an induction    *)
(* of sets. And on a line that harms nothing every frame is read once, in  *)
(* order, however its bytes arrive.                                        *)
(***************************************************************************)
EXTENDS Buffers, Damage, SequenceTheorems, FiniteSetTheorems, WellFoundedInduction, TLAPS

-----------------------------------------------------------------------------
(* The datagrams' buffers.                                                 *)

BuffersInv == BuffersTypeOK /\ CountsAreHandles

LEMMA OneMore ==
  ASSUME NEW S, NEW x, NEW n \in Nat, IsFiniteSet(S), Cardinality(S) \in 0 .. n
  PROVE  IsFiniteSet(S \cup {x}) /\ Cardinality(S \cup {x}) \in 0 .. n + 1
  BY FS_AddElement

\* There are eight variables, so no count comes near the end of its byte.
LEMMA VariablesFew ==
  \A S \in SUBSET Variable : IsFiniteSet(S) /\ Cardinality(S) \in 0 .. 8
<1> DEFINE Few(S, n) == IsFiniteSet(S) /\ Cardinality(S) \in 0 .. n
<1>0. Few({"pending"}, 1)
  BY FS_Singleton
<1>1. ASSUME NEW S, NEW n \in Nat, NEW x, Few(S, n) PROVE Few(S \cup {x}, n + 1)
  BY <1>1, OneMore
<1> HIDE DEF Few
<1>2. Few({"pending"} \cup {"param"}, 1 + 1)
  BY <1>0, <1>1
<1>3. Few({"pending", "param"} \cup {"command"} \cup {"member"}, 4)
  <2>1. Few({"pending", "param"}, 2)
    BY <1>2
  <2>2. Few({"pending", "param"} \cup {"command"}, 2 + 1)
    BY <1>1, <2>1
  <2>3. Few({"pending", "param"} \cup {"command"} \cup {"member"}, 3 + 1)
    BY <1>1, <2>2
  <2> QED
    BY <2>3
<1>4. Few({"pending", "param", "command", "member"} \cup {"handler"} \cup {"outer"}, 6)
  <2>1. Few({"pending", "param", "command", "member"}, 4)
    BY <1>3
  <2>2. Few({"pending", "param", "command", "member"} \cup {"handler"}, 4 + 1)
    BY <1>1, <2>1
  <2>3. Few({"pending", "param", "command", "member"} \cup {"handler"} \cup {"outer"}, 5 + 1)
    BY <1>1, <2>2
  <2> QED
    BY <2>3
<1>5. Few(Variable, 8)
  <2>1. Few({"pending", "param", "command", "member", "handler", "outer"}, 6)
    BY <1>4
  <2>2. Few({"pending", "param", "command", "member", "handler", "outer"} \cup {"inner"}, 6 + 1)
    BY <1>1, <2>1
  <2>3. Few({"pending", "param", "command", "member", "handler", "outer"} \cup {"inner"} \cup {"sent"}, 7 + 1)
    BY <1>1, <2>2
  <2> QED
    BY <2>3 DEF Variable
<1> QED
  BY <1>5, FS_Subset, FS_CardinalityType DEF Few

LEMMA HandlesFew == ASSUME NEW b PROVE IsFiniteSet(Handles(b)) /\ Cardinality(Handles(b)) \in 0 .. 8
  BY VariablesFew DEF Handles

LEMMA HandlesFewAfter == ASSUME NEW b PROVE IsFiniteSet(Handles(b)') /\ Cardinality(Handles(b)') \in 0 .. 8
  BY VariablesFew DEF Handles

\* A new buffer has one handle.
LEMMA AllocateCounts ==
  ASSUME BuffersInv, NEW v \in Variable, NEW f \in Frame \cup {Own}, Allocate(v, f)
  PROVE  CountsAreHandles' /\ heap' \subseteq Buffer /\ refs' \in [Buffer -> 0 .. 255]
         /\ holds' \in [Buffer -> Frame \cup {Own}] /\ handle' \in [Variable -> Buffer \cup {NoBuffer}]
<1> USE BuffersAssumption DEF BuffersInv, BuffersTypeOK
<1>1. PICK b \in Buffer \ heap : /\ Empty(v)
                                 /\ heap' = heap \cup {b}
                                 /\ refs' = [refs EXCEPT ![b] = 1]
                                 /\ holds' = [holds EXCEPT ![b] = f]
                                 /\ handle' = [handle EXCEPT ![v] = b]
  BY DEF Allocate
<1>2. Handles(b) = {}
  BY DEF CountsAreHandles
<1>3. Handles(b)' = {v}
  BY <1>1, <1>2 DEF Handles
<1>4. Cardinality(Handles(b)') = 1
  BY <1>3, FS_Singleton
<1>5. \A c \in Buffer \ {b} : Handles(c)' = Handles(c)
  BY <1>1 DEF Handles, Empty
<1>6. CountsAreHandles'
  BY <1>1, <1>3, <1>4, <1>5 DEF CountsAreHandles
<1> QED
  BY <1>1, <1>6

\* A copy is one handle more.
LEMMA AnotherOne ==
  ASSUME NEW S, IsFiniteSet(S), NEW x, x \notin S
  PROVE  Cardinality(S \cup {x}) = Cardinality(S) + 1
  BY FS_AddElement

LEMMA CopyCounts ==
  ASSUME BuffersInv, NEW v \in Variable, NEW from \in Variable, Copy(v, from)
  PROVE  CountsAreHandles' /\ heap' \subseteq Buffer /\ refs' \in [Buffer -> 0 .. 255]
         /\ holds' \in [Buffer -> Frame \cup {Own}] /\ handle' \in [Variable -> Buffer \cup {NoBuffer}]
<1> USE BuffersAssumption DEF BuffersInv, BuffersTypeOK
<1>0. PICK b \in Buffer : b = handle[from]
  <2>1. handle[from] \in Buffer \cup {NoBuffer} /\ handle[from] # NoBuffer
    BY DEF Copy, Empty
  <2> QED
    BY <2>1
<1>1. handle[v] = NoBuffer /\ handle' = [handle EXCEPT ![v] = b]
  BY <1>0 DEF Copy, Empty
<1>2. from \in Handles(b) /\ v \notin Handles(b)
  BY <1>0, <1>1 DEF Handles
<1>3. Handles(b)' = Handles(b) \cup {v}
  BY <1>1 DEF Handles
<1>4. Cardinality(Handles(b)') = Cardinality(Handles(b)) + 1
  <2>1. IsFiniteSet(Handles(b))
    BY HandlesFew
  <2>2. Cardinality(Handles(b) \cup {v}) = Cardinality(Handles(b)) + 1
    <3> HIDE DEF BuffersInv, BuffersTypeOK
    <3>1. PICK S : S = Handles(b)
      OBVIOUS
    <3>2. IsFiniteSet(S) /\ v \notin S
      BY <1>2, <2>1, <3>1
    <3>3. Cardinality(S \cup {v}) = Cardinality(S) + 1
      BY <3>2, AnotherOne
    <3> QED
      BY <3>1, <3>3
  <2> QED
    BY <1>3, <2>2
<1>5. \A c \in Buffer \ {b} : Handles(c)' = Handles(c)
  BY <1>0, <1>1 DEF Handles
<1>6. b \in heap /\ refs[b] = Cardinality(Handles(b))
  BY <1>1, <1>2 DEF CountsAreHandles
<1>7. refs[b] \in 0 .. 8
  BY <1>6, HandlesFew
<1>8. (refs[b] + 1) % 256 = refs[b] + 1
  BY <1>7
<1>9. heap' = heap /\ holds' = holds /\ refs' = [refs EXCEPT ![b] = refs[b] + 1]
  BY <1>0, <1>8 DEF Copy
<1>10. refs'[b] = Cardinality(Handles(b)')
  BY <1>1, <1>4, <1>6, <1>9
<1>11. CountsAreHandles'
  <2>1. b \in heap' /\ Handles(b)' # {} /\ refs'[b] = Cardinality(Handles(b)')
    BY <1>3, <1>6, <1>9, <1>10, <1>2
  <2>2. ASSUME NEW c \in Buffer \ {b}
        PROVE  /\ c \in heap' <=> Handles(c)' # {}
               /\ c \in heap' => refs'[c] = Cardinality(Handles(c)')
    <3>1. (c \in heap' <=> c \in heap) /\ refs'[c] = refs[c] /\ Handles(c)' = Handles(c)
      BY <1>5, <1>9
    <3> QED
      BY <3>1 DEF CountsAreHandles
  <2> QED
    BY <2>1, <2>2 DEF CountsAreHandles
<1> QED
  BY <1>1, <1>7, <1>9, <1>11

\* A destructor takes one handle away, and the buffer with the last one.
LEMMA ReleaseCounts ==
  ASSUME BuffersInv, NEW v \in Variable, Release(v)
  PROVE  CountsAreHandles' /\ heap' \subseteq Buffer /\ refs' \in [Buffer -> 0 .. 255]
         /\ holds' \in [Buffer -> Frame \cup {Own}] /\ handle' \in [Variable -> Buffer \cup {NoBuffer}]
<1> USE BuffersAssumption DEF BuffersInv, BuffersTypeOK
<1>0. PICK b \in Buffer : b = handle[v]
  BY DEF Release, Empty
<1>1. handle' = [handle EXCEPT ![v] = NoBuffer] /\ holds' = holds
  BY DEF Release
<1>2. v \in Handles(b)
  BY <1>0 DEF Handles
<1>3. Handles(b)' = Handles(b) \ {v}
  BY <1>1 DEF Handles
<1>4. Cardinality(Handles(b)') = Cardinality(Handles(b)) - 1
  <2>1. IsFiniteSet(Handles(b))
    BY HandlesFew
  <2>2. Cardinality(Handles(b) \ {v}) = Cardinality(Handles(b)) - 1
    BY <1>2, <2>1, FS_RemoveElement
  <2> QED
    BY <1>3, <2>2
<1>5. \A c \in Buffer \ {b} : Handles(c)' = Handles(c)
  BY <1>0, <1>1 DEF Handles
<1>6. b \in heap /\ refs[b] = Cardinality(Handles(b))
  BY <1>1, <1>2 DEF CountsAreHandles
<1>7. refs[b] \in 0 .. 8 /\ Cardinality(Handles(b)') \in 0 .. 8
  BY <1>6, HandlesFew, HandlesFewAfter
<1>8. CASE refs[b] = 1
  <2>1. heap' = heap \ {b} /\ refs' = refs
    BY <1>0, <1>8 DEF Release
  <2>2. Cardinality(Handles(b)') = 0
    BY <1>4, <1>6, <1>8
  <2>3. Handles(b)' = {}
    BY <2>2, HandlesFewAfter, FS_EmptySet
  <2>4. CountsAreHandles'
    BY <1>5, <2>1, <2>3 DEF CountsAreHandles
  <2> QED
    BY <1>1, <2>1, <2>4
<1>9. CASE refs[b] # 1
  <2>1. refs[b] \in 2 .. 8
    BY <1>4, <1>6, <1>7, <1>9
  <2>2. (refs[b] - 1) % 256 = refs[b] - 1
    BY <2>1
  <2>3. heap' = heap /\ refs' = [refs EXCEPT ![b] = refs[b] - 1]
    BY <1>0, <1>9, <2>2 DEF Release
  <2>4. refs'[b] = Cardinality(Handles(b)') /\ Cardinality(Handles(b)') # 0
    BY <1>1, <1>4, <1>6, <2>1, <2>3
  <2>5. Handles(b)' # {}
    BY <2>4, FS_EmptySet
  <2>6. CountsAreHandles'
    BY <1>1, <1>5, <1>6, <2>3, <2>4, <2>5 DEF CountsAreHandles
  <2> QED
    BY <1>1, <2>1, <2>3, <2>6
<1> QED
  BY <1>8, <1>9
-----------------------------------------------------------------------------
LEMMA BuffersInit == Init => BuffersInv
<1> SUFFICES ASSUME Init PROVE BuffersInv
  OBVIOUS
<1>1. \A b \in Buffer : Handles(b) = {}
  BY BuffersAssumption DEF Init, Handles
<1> QED
  BY <1>1 DEF Init, BuffersInv, BuffersTypeOK, CountsAreHandles, Position

\* What every action but Reset leaves to show.
LEMMA BuffersStep == BuffersInv /\ [Next]_buffersVars => BuffersInv'
<1> SUFFICES ASSUME BuffersInv, [Next]_buffersVars PROVE BuffersInv'
  OBVIOUS
<1> DEFINE Counted == CountsAreHandles' /\ heap' \subseteq Buffer /\ refs' \in [Buffer -> 0 .. 255]
                      /\ holds' \in [Buffer -> Frame \cup {Own}]
                      /\ handle' \in [Variable -> Buffer \cup {NoBuffer}]
           Placed  == at' \in Position /\ received' \in Frame \cup {Own}
<1>0. ASSUME Counted, Placed PROVE BuffersInv'
  BY <1>0 DEF BuffersInv, BuffersTypeOK
<1>v. {"pending", "param", "command", "member", "handler", "outer", "inner", "sent"} \subseteq Variable
  BY DEF Variable
<1>s. ASSUME UNCHANGED <<heap, refs, holds, handle>> PROVE Counted
  BY <1>s DEF BuffersInv, BuffersTypeOK, CountsAreHandles, Handles
<1>1. CASE \E f \in Frame : Arrive(f)
  <2>1. PICK f \in Frame : Arrive(f)
    BY <1>1
  <2>2. Counted
    BY <1>v, <2>1, AllocateCounts DEF Arrive
  <2>3. Placed
    BY <2>1 DEF Arrive, Go, Position, BuffersInv, BuffersTypeOK
  <2> QED
    BY <1>0, <2>2, <2>3
<1>2. CASE Refuse
  <2>1. Counted
    BY <1>v, <1>2, AllocateCounts DEF Refuse
  <2>2. Placed
    BY <1>2 DEF Refuse, Go, Position, BuffersInv, BuffersTypeOK
  <2> QED
    BY <1>0, <2>1, <2>2
<1>3. CASE Refused
  <2>1. Counted
    BY <1>v, <1>3, ReleaseCounts DEF Refused
  <2>2. Placed
    BY <1>3 DEF Refused, Go, Position, BuffersInv, BuffersTypeOK
  <2> QED
    BY <1>0, <2>1, <2>2
<1>4. CASE Accept
  <2>1. Counted
    BY <1>v, <1>4, CopyCounts DEF Accept
  <2>2. Placed
    BY <1>4 DEF Accept, Go, Position, BuffersInv, BuffersTypeOK
  <2> QED
    BY <1>0, <2>1, <2>2
<1>5. CASE Delete
  <2>1. ASSUME Release("member") PROVE Counted
    BY <1>v, <2>1, ReleaseCounts
  <2>2. ASSUME UNCHANGED <<heap, refs, holds, handle>> PROVE Counted
    BY <1>s, <2>2
  <2>3. Counted
    BY <1>5, <2>1, <2>2 DEF Delete
  <2>4. Placed
    BY <1>5 DEF Delete, Go, Position, BuffersInv, BuffersTypeOK
  <2> QED
    BY <1>0, <2>3, <2>4
<1>6. CASE Keep
  <2>1. Counted
    BY <1>v, <1>6, CopyCounts DEF Keep
  <2>2. Placed
    BY <1>6 DEF Keep, Go, Position, BuffersInv, BuffersTypeOK
  <2> QED
    BY <1>0, <2>1, <2>2
<1>7. CASE Leave
  <2>1. Counted
    BY <1>v, <1>7, ReleaseCounts DEF Leave
  <2>2. Placed
    BY <1>7 DEF Leave, Go, Position, BuffersInv, BuffersTypeOK
  <2> QED
    BY <1>0, <2>1, <2>2
<1>8. CASE GetPending
  <2>1. Counted
    BY <1>v, <1>8, CopyCounts DEF GetPending
  <2>2. Placed
    BY <1>8 DEF GetPending, Go, Position, BuffersInv, BuffersTypeOK
  <2> QED
    BY <1>0, <2>1, <2>2
<1>9. ASSUME Answering PROVE Placed
  BY <1>9 DEF Answering, BuffersInv, BuffersTypeOK
<1>10. CASE Answer
  <2>1. Counted
    BY <1>v, <1>10, AllocateCounts DEF Answer
  <2> QED
    BY <1>0, <1>9, <1>10, <2>1 DEF Answer
<1>11. CASE \E v \in {"handler", "outer", "inner"} : SendDatagram(v)
  <2>1. PICK v \in {"handler", "outer", "inner"} : SendDatagram(v)
    BY <1>11
  <2>2. Counted
    BY <1>v, <2>1, CopyCounts DEF SendDatagram
  <2> QED
    BY <1>0, <1>9, <2>1, <2>2 DEF SendDatagram
<1>12. CASE Sent
  <2>1. Counted
    BY <1>v, <1>12, ReleaseCounts DEF Sent
  <2> QED
    BY <1>0, <1>9, <1>12, <2>1 DEF Sent
<1>13. CASE AnswerDone
  <2>1. Counted
    BY <1>v, <1>13, ReleaseCounts DEF AnswerDone
  <2> QED
    BY <1>0, <1>9, <1>13, <2>1 DEF AnswerDone
<1>14. CASE HandlerDone
  <2>1. Counted
    BY <1>v, <1>14, ReleaseCounts DEF HandlerDone
  <2>2. Placed
    BY <1>14 DEF HandlerDone, Go, Position, BuffersInv, BuffersTypeOK
  <2> QED
    BY <1>0, <2>1, <2>2
<1>15. CASE Reset
  <2>1. \A b \in Buffer : Handles(b)' = {}
    BY <1>15, BuffersAssumption DEF Reset, Handles
  <2>2. CountsAreHandles'
    BY <1>15, <2>1 DEF Reset, CountsAreHandles
  <2> QED
    BY <1>15, <2>2 DEF Reset, BuffersInv, BuffersTypeOK, Position
<1>16. CASE UNCHANGED buffersVars
  <2>1. Placed
    BY <1>16 DEF buffersVars, BuffersInv, BuffersTypeOK
  <2> QED
    BY <1>0, <1>s, <1>16, <2>1 DEF buffersVars
<1> QED
  BY <1>1, <1>2, <1>3, <1>4, <1>5, <1>6, <1>7, <1>8, <1>10, <1>11, <1>12, <1>13, <1>14, <1>15, <1>16
  DEF Next

\* The byte in every buffer counts its handles, in every state: nothing is used after it
\* was freed (datagram.cpp:27-53) and nothing is lost.
THEOREM CountsRight == Spec => []CountsAreHandles
<1>1. BuffersInv => CountsAreHandles
  BY DEF BuffersInv
<1> QED
  BY <1>1, BuffersInit, BuffersStep, PTL DEF Spec
-----------------------------------------------------------------------------
(***************************************************************************)
(* The frame that was received goes from variable to variable, and is in   *)
(* one of them until it has been handled; its buffer is not written again  *)
(* as long as a variable names it.                                         *)
(***************************************************************************)
Carries(v) == handle[v] \in Buffer /\ holds[handle[v]] = received

ReceivedInv == /\ at = "check" => Carries("pending")
               /\ at \in {"handle", "keep"} => Carries("param")
               /\ at \in {"unparam", "unpending", "get"} => Carries("member")
               /\ at = "handler" => Carries("handler")

LEMMA AllocateCarries ==
  ASSUME BuffersInv, NEW v \in Variable, NEW f, Allocate(v, f), UNCHANGED received,
         NEW w \in Variable, Carries(w)
  PROVE  Carries(w)'
<1>1. handle[w] \in heap /\ w # v
  BY BuffersAssumption DEF BuffersInv, CountsAreHandles, Handles, Carries, Allocate, Empty
<1> QED
  BY <1>1 DEF BuffersInv, BuffersTypeOK, Carries, Allocate

\* What has just been allocated for a frame holds it.
LEMMA AllocateNew ==
  ASSUME BuffersInv, NEW v \in Variable, NEW f, Allocate(v, f), received' = f
  PROVE  Carries(v)'
  BY DEF BuffersInv, BuffersTypeOK, Carries, Allocate

LEMMA CopyCarries ==
  ASSUME BuffersInv, NEW v \in Variable, NEW from \in Variable, Copy(v, from), UNCHANGED received
  PROVE  /\ \A w \in Variable : Carries(w) => Carries(w)'
         /\ Carries(from) => Carries(v)'
<1>1. /\ holds' = holds /\ handle'[v] = handle[from] /\ Empty(v)
      /\ \A w \in Variable \ {v} : handle'[w] = handle[w]
  BY DEF BuffersInv, BuffersTypeOK, Copy
<1>2. ~Carries(v)
  BY <1>1, BuffersAssumption DEF Carries, Empty
<1> QED
  BY <1>1, <1>2 DEF Carries

LEMMA ReleaseCarries ==
  ASSUME BuffersInv, NEW v \in Variable, Release(v), UNCHANGED received, NEW w \in Variable \ {v}, Carries(w)
  PROVE  Carries(w)'
  BY DEF BuffersInv, BuffersTypeOK, Release, Carries

LEMMA ReceivedStep ==
  ASSUME BuffersInv, ReceivedInv, [Next]_buffersVars
  PROVE  ReceivedInv'
<1>v. /\ {"pending", "param", "command", "member", "handler", "outer", "inner", "sent"} \subseteq Variable
      /\ "pending" # "param" /\ "member" \notin {"pending", "param"}
      /\ "handler" \notin {"outer", "inner", "sent"}
  BY DEF Variable
<1>1. ASSUME NEW f \in Frame, Arrive(f) PROVE ReceivedInv'
  <2>1. at' = "check" /\ Carries("pending")'
    BY <1>v, <1>1, AllocateNew DEF Arrive, Go
  <2> QED
    BY <2>1 DEF ReceivedInv
<1>2. CASE Refuse \/ Refused
  BY <1>2 DEF Refuse, Refused, Go, ReceivedInv
<1>3. CASE Accept
  <2>1. at' = "handle" /\ Carries("param")'
    BY <1>v, <1>3, CopyCarries DEF Accept, Go, ReceivedInv
  <2> QED
    BY <2>1 DEF ReceivedInv
<1>4. CASE Delete
  <2>1. at' = "keep" /\ Carries("param")
    BY <1>4 DEF Delete, Go, ReceivedInv
  <2>2. Release("member") => Carries("param")'
    BY <1>v, <1>4, <2>1, ReleaseCarries DEF Delete
  <2>3. UNCHANGED <<heap, refs, holds, handle>> => Carries("param")'
    BY <1>4, <2>1 DEF Delete, Carries
  <2> QED
    BY <1>4, <2>1, <2>2, <2>3 DEF Delete, ReceivedInv
<1>5. CASE Keep
  <2>1. at' = "unparam" /\ Carries("member")'
    BY <1>v, <1>5, CopyCarries DEF Keep, Go, ReceivedInv
  <2> QED
    BY <2>1 DEF ReceivedInv
<1>6. CASE Leave
  <2>1. at' \in {"unpending", "get"} /\ Carries("member")
    BY <1>6 DEF Leave, Go, ReceivedInv
  <2>2. Carries("member")'
    BY <1>v, <1>6, <2>1, ReleaseCarries DEF Leave
  <2> QED
    BY <2>1, <2>2 DEF ReceivedInv
<1>7. CASE GetPending
  <2>1. at' = "handler" /\ Carries("handler")'
    BY <1>v, <1>7, CopyCarries DEF GetPending, Go, ReceivedInv
  <2> QED
    BY <2>1 DEF ReceivedInv
<1>8. ASSUME Answering, Carries("handler") => Carries("handler")'
      PROVE  ReceivedInv'
  BY <1>8 DEF Answering, ReceivedInv
<1>9. CASE Answer
  <2>1. Carries("handler") => Carries("handler")'
    BY <1>v, <1>9, AllocateCarries DEF Answer, Answering
  <2> QED
    BY <1>8, <1>9, <2>1 DEF Answer
<1>10. ASSUME NEW v \in {"handler", "outer", "inner"}, SendDatagram(v) PROVE ReceivedInv'
  <2>1. v \in Variable
    BY <1>v
  <2>2. Carries("handler") => Carries("handler")'
    BY <1>v, <1>10, <2>1, CopyCarries DEF SendDatagram, Answering
  <2> QED
    BY <1>8, <1>10, <2>2 DEF SendDatagram
<1>11. CASE Sent \/ AnswerDone
  <2>1. Carries("handler") => Carries("handler")'
    BY <1>v, <1>11, ReleaseCarries DEF Sent, AnswerDone, Answering
  <2> QED
    BY <1>8, <1>11, <2>1 DEF Sent, AnswerDone
<1>12. CASE HandlerDone \/ Reset
  BY <1>12 DEF HandlerDone, Reset, Go, ReceivedInv
<1>13. CASE UNCHANGED buffersVars
  BY <1>13 DEF buffersVars, ReceivedInv, Carries
<1> QED
  BY <1>1, <1>2, <1>3, <1>4, <1>5, <1>6, <1>7, <1>9, <1>10, <1>11, <1>12, <1>13 DEF Next

\* HandlerSeesReceived: the buffer of the datagram that is handled holds the frame received
\* last, whatever answers are made meanwhile (network.cpp, datagram.cpp:27-53).
THEOREM HandlerReads == Spec => []HandlerSeesReceived
<1>1. Init => ReceivedInv
  BY DEF Init, ReceivedInv
<1>2. ReceivedInv => HandlerSeesReceived
  BY DEF ReceivedInv, HandlerSeesReceived, Carries
<1> QED
  BY <1>1, <1>2, ReceivedStep, BuffersInit, BuffersStep, PTL DEF Spec

-----------------------------------------------------------------------------

\* A set with 0 and every successor of its elements has every number.
LEMMA Induction ==
  ASSUME NEW S, 0 \in S, \A n \in Nat : n \in S => n + 1 \in S
  PROVE  Nat \subseteq S
<1> DEFINE T == Nat \ S
<1> DEFINE R == OpToRel(<, Nat)
<1> SUFFICES ASSUME T # {}
             PROVE  FALSE
  OBVIOUS
<1>1. IsWellFoundedOn(R, Nat)
  BY NatLessThanWellFounded
<1>2. T \subseteq Nat
  OBVIOUS
<1>3. \A x, y \in Nat : x < y => <<x, y>> \in R
  BY DEF OpToRel
<1> HIDE DEF R, T
<1>4. PICK x \in T : \A y \in T : ~(<<y, x>> \in R)
  BY <1>1, <1>2, WFMin
<1> USE DEF T
<1>5. x # 0 /\ x \in Nat
  BY <1>4
<1>6. x - 1 \in Nat /\ x - 1 < x
  BY <1>5
<1>7. x - 1 \in S
  BY <1>3, <1>4, <1>5, <1>6
<1>8. (x - 1) + 1 \in S
  BY <1>6, <1>7
<1> QED
  BY <1>4, <1>5, <1>8

-----------------------------------------------------------------------------
(* Numbers.                                                                *)

LEMMA BaseIs == Base \in Nat /\ Base >= 2
BY ChecksumAssumption

LEMMA DivMod ==
  ASSUME NEW a \in Nat, NEW b \in Nat, b >= 1
  PROVE  a \div b \in Nat /\ a % b \in 0 .. b - 1 /\ a = b * (a \div b) + (a % b)
OBVIOUS

\* Products with a positive factor.
LEMMA TimesGrows ==
  ASSUME NEW q \in Nat, NEW w \in Nat
  PROVE  q * w \in Nat /\ (q >= 1 => q * w >= w)
<1>1. q * w \in Nat
  OBVIOUS
<1>2. ASSUME q >= 1
      PROVE  q * w >= w
  <2>1. PICK p \in Nat : q = p + 1
    BY <1>2
  <2>2. p * w \in Nat /\ q * w = p * w + w
    BY <2>1
  <2> QED
    BY <2>2
<1> QED
  BY <1>1, <1>2

LEMMA WordIs ==
  /\ LargestWord \in Nat /\ LargestWord >= 3 /\ LargestWord = Base * (Base - 1) + (Base - 1)
  /\ Base - 1 < LargestWord /\ Base * (Base - 1) < LargestWord
<1>1. Base \in Nat /\ Base >= 2
  BY BaseIs
<1>2. PICK c \in Nat : Base = c + 1 /\ c >= 1
  <2>1. Base - 1 \in Nat /\ Base = (Base - 1) + 1 /\ Base - 1 >= 1
    BY <1>1
  <2> QED
    BY <2>1
<1>3. Base * Base = Base * c + c + 1 /\ Base * c \in Nat
  BY <1>1, <1>2
<1>4. Base * c >= Base
  BY <1>1, <1>2, TimesGrows
<1> QED
  BY <1>1, <1>2, <1>3, <1>4 DEF LargestWord

\* What one's complement sums take for 0.
Multiple(a) == \E q \in Int : a = q * LargestWord

LEMMA MultipleSums ==
  ASSUME NEW a \in Int, NEW b \in Int, Multiple(a)
  PROVE  Multiple(b) <=> Multiple(a + b)
<1>0. LargestWord \in Nat
  BY WordIs
<1>1. PICK p \in Int : a = p * LargestWord
  BY DEF Multiple
<1>2. ASSUME NEW q \in Int, b = q * LargestWord
      PROVE  p + q \in Int /\ a + b = (p + q) * LargestWord
  BY <1>0, <1>1, <1>2
<1>3. ASSUME NEW q \in Int, a + b = q * LargestWord
      PROVE  q - p \in Int /\ b = (q - p) * LargestWord
  BY <1>0, <1>1, <1>3
<1> QED
  BY <1>2, <1>3 DEF Multiple

LEMMA MultipleMod ==
  ASSUME NEW a \in Int
  PROVE  a % LargestWord = 0 <=> Multiple(a)
<1>0. LargestWord \in Nat /\ LargestWord >= 3
  BY WordIs
<1>1. a \div LargestWord \in Int /\ a = LargestWord * (a \div LargestWord) + (a % LargestWord) /\ a % LargestWord \in 0 .. LargestWord - 1
  BY <1>0
<1>2. ASSUME a % LargestWord = 0
      PROVE  Multiple(a)
  <2>1. a = (a \div LargestWord) * LargestWord
    BY <1>0, <1>1, <1>2
  <2> QED
    BY <1>1, <2>1 DEF Multiple
<1>3. ASSUME NEW q \in Int, a = q * LargestWord
      PROVE  a % LargestWord = 0
  BY <1>0, <1>3
<1> QED
  BY <1>2, <1>3 DEF Multiple

\* None but 0 is smaller than the largest word.
LEMMA MultipleSmall ==
  ASSUME NEW a \in Int, Multiple(a), -LargestWord < a, a < LargestWord
  PROVE  a = 0
<1>0. LargestWord \in Nat /\ LargestWord >= 3
  BY WordIs
<1>1. PICK q \in Int : a = q * LargestWord
  BY DEF Multiple
<1>2. CASE q >= 1
  BY <1>0, <1>1, <1>2, TimesGrows
<1>3. CASE q <= -1
  <2>1. PICK p \in Nat : p = -q /\ p >= 1
    BY <1>3
  <2>2. p * LargestWord >= LargestWord
    BY <1>0, <2>1, TimesGrows
  <2>3. -a = p * LargestWord
    BY <1>0, <1>1, <2>1
  <2> QED
    BY <1>0, <2>2, <2>3
<1>4. CASE q = 0
  BY <1>0, <1>1, <1>4
<1> QED
  BY <1>2, <1>3, <1>4

-----------------------------------------------------------------------------
(* Carries.                                                                *)

CarryStep(g, x) ==
  IF x > LargestWord THEN g[(x % (LargestWord + 1)) + (x \div (LargestWord + 1))] ELSE x

\* A carry makes a number less, but not 0, and changes it by a multiple of the largest word.
LEMMA CarryLess ==
  ASSUME NEW x \in Nat, x > LargestWord
  PROVE  /\ (x % (LargestWord + 1)) + (x \div (LargestWord + 1)) \in 1 .. x - 1
         /\ Multiple(x - ((x % (LargestWord + 1)) + (x \div (LargestWord + 1))))
<1>0. LargestWord \in Nat /\ LargestWord >= 3
  BY WordIs
<1>1. PICK w \in Nat : w = LargestWord + 1 /\ w >= 1
  <2>1. LargestWord + 1 \in Nat /\ LargestWord + 1 >= 1
    BY <1>0
  <2> QED
    BY <2>1
<1>2. PICK q \in Nat, r \in Nat : q = x \div w /\ r = x % w
  <2>1. x \div w \in Nat /\ x % w \in 0 .. w - 1
    BY <1>1, DivMod, Zenon
  <2>2. x % w \in Nat
    BY <1>1, <2>1
  <2> QED
    BY <1>1, <2>1, <2>2
<1>3. x = w * q + r /\ r \in 0 .. w - 1
  BY <1>1, <1>2, DivMod, Zenon
<1>4. x - (r + q) = q * LargestWord
  <2>1. w * q = q * LargestWord + q
    BY <1>0, <1>1
  <2>2. q * LargestWord \in Nat
    BY <1>0
  <2> QED
    BY <1>3, <2>1, <2>2
<1>5. q >= 1
  <2>1. ASSUME q = 0
        PROVE  FALSE
    <3>1. x = r
      BY <1>1, <1>3, <2>1
    <3> QED
      BY <1>0, <1>1, <1>3, <3>1
  <2> QED
    BY <2>1
<1>6. q * LargestWord \in Nat /\ q * LargestWord >= LargestWord
  BY <1>0, <1>5, TimesGrows
<1>7. r + q \in 1 .. x - 1
  BY <1>0, <1>4, <1>5, <1>6
<1>8. Multiple(x - (r + q))
  BY <1>4 DEF Multiple
<1> QED
  BY <1>1, <1>2, <1>7, <1>8

\* The recursion of the carries has a solution up to every number.
LEMMA CarriesExist == \A m \in Nat : \E g : g = [x \in 0 .. m |-> CarryStep(g, x)]
<1> DEFINE S == {m \in Nat : \E g : g = [x \in 0 .. m |-> CarryStep(g, x)]}
<1>1. 0 \in S
  <2> DEFINE g == [x \in 0 .. 0 |-> x]
  <2>1. \A x \in 0 .. 0 : CarryStep(g, x) = x
    <3>1. \A x \in 0 .. 0 : ~(x > LargestWord)
      BY WordIs
    <3> HIDE DEF g
    <3> QED
      BY <3>1 DEF CarryStep
  <2>2. g = [x \in 0 .. 0 |-> CarryStep(g, x)]
    BY <2>1
  <2> HIDE DEF g
  <2> QED
    BY <2>2
<1>2. ASSUME NEW m \in Nat, m \in S
      PROVE  m + 1 \in S
  <2>1. PICK g : g = [x \in 0 .. m |-> CarryStep(g, x)]
    BY <1>2
  <2> DEFINE h == [x \in 0 .. m + 1 |-> CarryStep(g, x)]
  <2>2. \A x \in 0 .. m : h[x] = g[x]
    <3>1. \A x \in 0 .. m : g[x] = CarryStep(g, x)
      BY <2>1
    <3>2. \A x \in 0 .. m : x \in 0 .. m + 1
      OBVIOUS
    <3> QED
      BY <3>1, <3>2
  <2>3. ASSUME NEW x \in 0 .. m + 1
        PROVE  CarryStep(g, x) = CarryStep(h, x)
    <3> DEFINE y == (x % (LargestWord + 1)) + (x \div (LargestWord + 1))
    <3>1. x > LargestWord => y \in 0 .. m
      <4>1. x \in Nat
        OBVIOUS
      <4>2. ASSUME x > LargestWord
            PROVE  y \in 0 .. m
        <5>1. y \in 1 .. x - 1
          BY <4>1, <4>2, CarryLess
        <5> HIDE DEF y
        <5> QED
          BY <5>1
      <4> QED
        BY <4>2
    <3>2. x > LargestWord => h[y] = g[y]
      BY <2>2, <3>1
    <3> HIDE DEF h
    <3> QED
      BY <3>2 DEF CarryStep
  <2>4. h = [x \in 0 .. m + 1 |-> CarryStep(h, x)]
    BY <2>3
  <2> HIDE DEF h
  <2>5. m + 1 \in Nat
    OBVIOUS
  <2> QED
    BY <2>4, <2>5
<1> HIDE DEF S
<1>3. Nat \subseteq S
  BY <1>1, <1>2, Induction
<1> QED
  BY <1>3 DEF S

\* What the carries make of a sum: a word, the same but for a multiple of the largest, and 0 only of 0.
LEMMA CarriedIs ==
  ASSUME NEW s \in Nat
  PROVE  /\ Carried(s) \in 0 .. LargestWord
         /\ Multiple(s - Carried(s))
         /\ Carried(s) = 0 <=> s = 0
<1> DEFINE f == CHOOSE g : g = [x \in 0 .. s |-> CarryStep(g, x)]
<1>1. \A x \in 0 .. s : f[x] = CarryStep(f, x)
  <2>1. \E g : g = [x \in 0 .. s |-> CarryStep(g, x)]
    BY CarriesExist
  <2>2. f = [x \in 0 .. s |-> CarryStep(f, x)]
    BY <2>1
  <2> QED
    BY <2>2
<1>2. Carried(s) = f[s]
  BY DEF Carried, CarryStep
<1> HIDE DEF f
<1> DEFINE Good(x) == f[x] \in 0 .. LargestWord /\ Multiple(x - f[x]) /\ (f[x] = 0 <=> x = 0)
<1> DEFINE S == {n \in Nat : \A x \in 0 .. n : x <= s => Good(x)}
<1>3. ASSUME NEW x \in 0 .. s, x <= LargestWord
      PROVE  Good(x)
  <2>1. f[x] = x /\ x \in 0 .. LargestWord
    BY <1>1, <1>3, WordIs DEF CarryStep
  <2>2. Multiple(0)
    <3>1. 0 \in Int /\ 0 = 0 * LargestWord
      BY WordIs
    <3> QED
      BY <3>1 DEF Multiple
  <2>3. x - f[x] = 0
    BY <2>1
  <2> QED
    BY <2>1, <2>2, <2>3
<1>4. ASSUME NEW x \in 0 .. s, x > LargestWord, \A y \in 0 .. x - 1 : Good(y)
      PROVE  Good(x)
  <2>1. PICK y : y = (x % (LargestWord + 1)) + (x \div (LargestWord + 1))
    OBVIOUS
  <2>2. y \in 1 .. x - 1 /\ Multiple(x - y)
    BY <1>4, <2>1, CarryLess
  <2>3. f[x] = f[y]
    BY <1>1, <1>4, <2>1 DEF CarryStep
  <2>4. f[y] \in 0 .. LargestWord /\ Multiple(y - f[y]) /\ f[y] # 0
    <3>1. y \in 0 .. x - 1 /\ y # 0
      BY <2>2
    <3> QED
      BY <1>4, <3>1
  <2>5. Multiple((x - y) + (y - f[y]))
    <3>1. x - y \in Int /\ y - f[y] \in Int
      BY <2>2, <2>4, WordIs
    <3> HIDE DEF Good
    <3> QED
      BY <2>2, <2>4, <3>1, MultipleSums
  <2>6. (x - y) + (y - f[y]) = x - f[y] /\ x # 0
    BY <1>4, <2>2, <2>4, WordIs
  <2> QED
    BY <2>3, <2>4, <2>5, <2>6
<1>5. 0 \in S
  <2>1. 0 \in 0 .. s /\ 0 <= LargestWord
    BY WordIs
  <2>2. Good(0)
    BY <1>3, <2>1
  <2> HIDE DEF Good
  <2>3. \A x \in 0 .. 0 : x = 0
    OBVIOUS
  <2> QED
    BY <2>2, <2>3
<1>6. ASSUME NEW n \in Nat, n \in S
      PROVE  n + 1 \in S
  <2> HIDE DEF Good
  <2>1. ASSUME n + 1 <= s
        PROVE  Good(n + 1)
    <3>1. \A y \in 0 .. (n + 1) - 1 : Good(y)
      BY <1>6, <2>1
    <3>2. n + 1 \in 0 .. s
      BY <2>1
    <3>3. CASE n + 1 <= LargestWord
      BY <1>3, <3>2, <3>3
    <3>4. CASE n + 1 > LargestWord
      BY <1>4, <3>1, <3>2, <3>4
    <3> QED
      BY <3>3, <3>4, WordIs
  <2>2. \A x \in 0 .. n + 1 : x \in 0 .. n \/ x = n + 1
    OBVIOUS
  <2> QED
    BY <1>6, <2>1, <2>2
<1>7. s \in S
  <2> HIDE DEF S
  <2> QED
    BY <1>5, <1>6, Induction
<1>8. Good(s)
  <2> HIDE DEF Good
  <2>1. s \in 0 .. s /\ s <= s
    OBVIOUS
  <2> QED
    BY <1>7, <2>1
<1> QED
  BY <1>2, <1>8

\* A frame is valid when its bytes add up to a multiple of the largest word, but not to 0.
LEMMA ValidIs ==
  ASSUME NEW f, Sum(f) \in Nat
  PROVE  ChecksumIsValid(f) <=> Multiple(Sum(f)) /\ Sum(f) > 0
<1>0. LargestWord \in Nat /\ LargestWord >= 3
  BY WordIs
<1>1. PICK s \in Nat, c \in 0 .. LargestWord : s = Sum(f) /\ c = Carried(s)
  BY CarriedIs
<1>2. Multiple(s - c) /\ (c = 0 <=> s = 0)
  BY <1>1, CarriedIs
<1>3. ChecksumIsValid(f) <=> c = LargestWord
  BY <1>0, <1>1 DEF ChecksumIsValid, GenerateChecksum
<1>4. Multiple(c) <=> Multiple(s)
  <2>1. s - c \in Int /\ c \in Int /\ (s - c) + c = s
    BY <1>0, <1>1
  <2> QED
    BY <1>2, <2>1, MultipleSums
<1>5. Multiple(LargestWord)
  <2>1. 1 \in Int /\ LargestWord = 1 * LargestWord
    BY <1>0
  <2> QED
    BY <2>1 DEF Multiple
<1>6. ASSUME c = LargestWord
      PROVE  Multiple(s) /\ s > 0
  BY <1>0, <1>1, <1>2, <1>4, <1>5, <1>6
<1>7. ASSUME Multiple(s), s > 0
      PROVE  c = LargestWord
  <2>1. Multiple(c) /\ c # 0 /\ c \in Int
    BY <1>0, <1>1, <1>2, <1>4, <1>7
  <2>2. ~(c < LargestWord)
    <3>1. -LargestWord < c
      BY <1>0, <1>1
    <3> QED
      BY <2>1, <3>1, MultipleSmall
  <2> QED
    BY <1>0, <1>1, <2>2
<1> QED
  BY <1>1, <1>3, <1>6, <1>7

-----------------------------------------------------------------------------
(* Sums.                                                                   *)

Weight(n) == IF n % 2 = 1 THEN 1 ELSE Base

SumStep(f, g, n) == IF n = 0 THEN 0 ELSE g[n - 1] + f[n] * (IF n % 2 = 1 THEN 1 ELSE Base)

\* The sums of a frame's first bytes.
Sums(f) == CHOOSE g : g = [n \in 0 .. Len(f) |-> SumStep(f, g, n)]

LEMMA SumsExist ==
  ASSUME NEW f
  PROVE  \A m \in Nat : \E g : g = [n \in 0 .. m |-> SumStep(f, g, n)]
<1> DEFINE S == {m \in Nat : \E g : g = [n \in 0 .. m |-> SumStep(f, g, n)]}
<1>1. 0 \in S
  <2> DEFINE g == [n \in 0 .. 0 |-> 0]
  <2>1. \A n \in 0 .. 0 : SumStep(f, g, n) = 0
    BY DEF SumStep
  <2>2. g = [n \in 0 .. 0 |-> SumStep(f, g, n)]
    BY <2>1
  <2> HIDE DEF g
  <2> QED
    BY <2>2
<1>2. ASSUME NEW m \in Nat, m \in S
      PROVE  m + 1 \in S
  <2>1. PICK g : g = [n \in 0 .. m |-> SumStep(f, g, n)]
    BY <1>2
  <2> DEFINE h == [n \in 0 .. m + 1 |-> SumStep(f, g, n)]
  <2>2. \A n \in 0 .. m : h[n] = g[n]
    <3>1. \A n \in 0 .. m : g[n] = SumStep(f, g, n)
      BY <2>1
    <3>2. \A n \in 0 .. m : n \in 0 .. m + 1
      OBVIOUS
    <3> QED
      BY <3>1, <3>2
  <2>3. ASSUME NEW n \in 0 .. m + 1
        PROVE  SumStep(f, g, n) = SumStep(f, h, n)
    <3>1. n # 0 => h[n - 1] = g[n - 1]
      <4>1. n # 0 => n - 1 \in 0 .. m
        OBVIOUS
      <4> HIDE DEF h
      <4> QED
        BY <2>2, <4>1
    <3> HIDE DEF h
    <3> QED
      BY <3>1 DEF SumStep
  <2>4. h = [n \in 0 .. m + 1 |-> SumStep(f, h, n)]
    BY <2>3
  <2> HIDE DEF h
  <2>5. m + 1 \in Nat
    OBVIOUS
  <2> QED
    BY <2>4, <2>5
<1> HIDE DEF S
<1>3. Nat \subseteq S
  BY <1>1, <1>2, Induction
<1> QED
  BY <1>3 DEF S

LEMMA SumsAre ==
  ASSUME NEW f, Len(f) \in Nat
  PROVE  /\ Sum(f) = Sums(f)[Len(f)]
         /\ Sums(f)[0] = 0
         /\ \A n \in 1 .. Len(f) : Sums(f)[n] = Sums(f)[n - 1] + f[n] * Weight(n)
<1>1. \E g : g = [n \in 0 .. Len(f) |-> SumStep(f, g, n)]
  BY SumsExist
<1>2. Sums(f) = [n \in 0 .. Len(f) |-> SumStep(f, Sums(f), n)]
  BY <1>1 DEF Sums
<1>3. Sum(f) = Sums(f)[Len(f)]
  BY DEF Sum, Sums, SumStep
<1>4. \A n \in 0 .. Len(f) : Sums(f)[n] = SumStep(f, Sums(f), n)
  BY <1>2
<1>5. 0 \in 0 .. Len(f) /\ \A n \in 1 .. Len(f) : n \in 0 .. Len(f) /\ n # 0
  OBVIOUS
<1> QED
  BY <1>3, <1>4, <1>5 DEF SumStep, Weight

LEMMA WeightIs == \A n \in Nat : Weight(n) \in Nat /\ Weight(n) \in {1, Base}
BY BaseIs DEF Weight

LEMMA SumsTyped ==
  ASSUME NEW f \in Seq(Byte)
  PROVE  \A n \in 0 .. Len(f) : Sums(f)[n] \in Nat
<1>1. Len(f) \in Nat /\ \A n \in 1 .. Len(f) : f[n] \in Nat
  BY BaseIs DEF Byte
<1> DEFINE S == {n \in Nat : n <= Len(f) => Sums(f)[n] \in Nat}
<1>2. 0 \in S
  BY <1>1, SumsAre
<1>3. ASSUME NEW n \in Nat, n \in S
      PROVE  n + 1 \in S
  <2>1. ASSUME n + 1 <= Len(f)
        PROVE  Sums(f)[n + 1] \in Nat
    <3>1. Sums(f)[n] \in Nat /\ n + 1 \in 1 .. Len(f) /\ (n + 1) - 1 = n
      BY <1>1, <1>3, <2>1
    <3>2. Sums(f)[n + 1] = Sums(f)[n] + f[n + 1] * Weight(n + 1)
      BY <1>1, <3>1, SumsAre
    <3>3. f[n + 1] \in Nat /\ Weight(n + 1) \in Nat
      BY <1>1, <3>1, WeightIs
    <3>4. f[n + 1] * Weight(n + 1) \in Nat
      BY <3>3
    <3> QED
      BY <3>1, <3>2, <3>4
  <2> QED
    BY <2>1
<1> HIDE DEF S
<1>4. Nat \subseteq S
  BY <1>2, <1>3, Induction
<1> QED
  BY <1>1, <1>4 DEF S

LEMMA SumTyped ==
  ASSUME NEW f \in Seq(Byte)
  PROVE  Sum(f) \in Nat
<1>1. Len(f) \in Nat /\ Len(f) \in 0 .. Len(f)
  OBVIOUS
<1> QED
  BY <1>1, SumsAre, SumsTyped

\* One byte changed changes the sum by as much, or by Base times as much.
LEMMA SumChanged ==
  ASSUME NEW f \in Seq(Byte), NEW g \in Seq(Byte), Len(g) = Len(f), NEW k \in 1 .. Len(f),
         \A n \in 1 .. Len(f) : n # k => g[n] = f[n]
  PROVE  Sum(g) = Sum(f) + (g[k] - f[k]) * Weight(k)
<1>1. /\ Len(f) \in Nat /\ k \in Nat
      /\ (\A n \in 1 .. Len(f) : f[n] \in Nat) /\ (\A n \in 1 .. Len(f) : g[n] \in Nat)
  <2>1. Byte \subseteq Nat
    BY BaseIs DEF Byte
  <2>2. (\A n \in 1 .. Len(f) : f[n] \in Byte) /\ (\A n \in 1 .. Len(g) : g[n] \in Byte)
    OBVIOUS
  <2>3. Len(f) \in Nat /\ k \in Nat
    OBVIOUS
  <2> QED
    BY <2>1, <2>2, <2>3
<1>2. /\ \A n \in 0 .. Len(f) : Sums(f)[n] \in Nat
      /\ \A n \in 0 .. Len(f) : Sums(g)[n] \in Nat
  BY SumsTyped
<1>3. /\ Sums(f)[0] = 0 /\ Sums(g)[0] = 0
      /\ \A n \in 1 .. Len(f) : Sums(f)[n] = Sums(f)[n - 1] + f[n] * Weight(n)
      /\ \A n \in 1 .. Len(f) : Sums(g)[n] = Sums(g)[n - 1] + g[n] * Weight(n)
      /\ Sum(f) = Sums(f)[Len(f)] /\ Sum(g) = Sums(g)[Len(f)]
  BY <1>1, SumsAre
<1> DEFINE change == (g[k] - f[k]) * Weight(k)
<1>4. change \in Int /\ g[k] * Weight(k) = f[k] * Weight(k) + change
  <2>1. PICK a \in Nat, b \in Nat, w \in Nat : a = f[k] /\ b = g[k] /\ w = Weight(k)
    BY <1>1, WeightIs
  <2>2. (b - a) * w \in Int /\ b * w = a * w + (b - a) * w
    OBVIOUS
  <2> QED
    BY <2>1, <2>2
<1> HIDE DEF change
<1> DEFINE S == {n \in Nat : n <= Len(f) => Sums(g)[n] = Sums(f)[n] + (IF n < k THEN 0 ELSE change)}
<1>5. 0 \in S
  BY <1>1, <1>3
<1>6. ASSUME NEW n \in Nat, n \in S
      PROVE  n + 1 \in S
  <2>1. ASSUME n + 1 <= Len(f)
        PROVE  Sums(g)[n + 1] = Sums(f)[n + 1] + (IF n + 1 < k THEN 0 ELSE change)
    <3>1. n + 1 \in 1 .. Len(f) /\ (n + 1) - 1 = n /\ n \in 0 .. Len(f) /\ n <= Len(f)
      BY <1>1, <2>1
    <3>2. Sums(g)[n] = Sums(f)[n] + (IF n < k THEN 0 ELSE change) /\ Sums(f)[n] \in Nat /\ Sums(g)[n] \in Nat
      BY <1>2, <1>6, <3>1
    <3>3. /\ Sums(f)[n + 1] = Sums(f)[n] + f[n + 1] * Weight(n + 1)
          /\ Sums(g)[n + 1] = Sums(g)[n] + g[n + 1] * Weight(n + 1)
      BY <1>3, <3>1
    <3>4. PICK a \in Nat, b \in Nat : a = f[n + 1] * Weight(n + 1) /\ b = g[n + 1] * Weight(n + 1)
      <4>1. f[n + 1] \in Nat /\ g[n + 1] \in Nat /\ Weight(n + 1) \in Nat
        BY <1>1, <3>1, WeightIs
      <4>2. f[n + 1] * Weight(n + 1) \in Nat /\ g[n + 1] * Weight(n + 1) \in Nat
        BY <4>1
      <4> QED
        BY <4>2
    <3>5. CASE n + 1 = k
      <4>1. b = a + change /\ n < k /\ ~(n + 1 < k)
        <5>1. a = f[k] * Weight(k) /\ b = g[k] * Weight(k)
          BY <3>4, <3>5
        <5>2. n < n + 1 /\ ~(n + 1 < n + 1)
          OBVIOUS
        <5> QED
          BY <1>4, <3>5, <5>1, <5>2
      <4>2. PICK s \in Nat, t \in Nat : s = Sums(f)[n] /\ t = Sums(g)[n] /\ t = s + 0
        BY <3>2, <4>1
      <4>3. t + b = (s + a) + change
        BY <1>4, <4>1, <4>2
      <4> QED
        BY <3>3, <3>4, <4>1, <4>2, <4>3
    <3>6. CASE n + 1 # k
      <4>1. b = a /\ (n < k <=> n + 1 < k)
        BY <1>1, <3>1, <3>4, <3>6
      <4>2. PICK s \in Nat, t \in Nat, v \in Int : /\ s = Sums(f)[n] /\ t = Sums(g)[n] /\ t = s + v
                                                   /\ v = IF n < k THEN 0 ELSE change
        BY <1>4, <3>2
      <4>3. t + b = (s + a) + v
        BY <4>1, <4>2
      <4> QED
        BY <3>3, <3>4, <4>1, <4>2, <4>3
    <3> QED
      BY <3>5, <3>6
  <2> QED
    BY <2>1
<1>7. Len(f) \in S
  <2> HIDE DEF S
  <2> QED
    BY <1>1, <1>5, <1>6, Induction
<1>8. Sums(g)[Len(f)] = Sums(f)[Len(f)] + change
  BY <1>1, <1>7
<1> QED
  BY <1>3, <1>8 DEF change

-----------------------------------------------------------------------------
(* What a seal and a harmed byte do.                                       *)

SumMoved(f, g, k, b) == Sum(g) = Sum(f) + (b - f[k]) * Weight(k)

\* A byte put in a frame leaves a frame, as long.
LEMMA Put ==
  ASSUME NEW f \in Seq(Byte), NEW k \in 1 .. Len(f), NEW b \in Byte, NEW g, g = [f EXCEPT ![k] = b]
  PROVE  /\ g \in Seq(Byte) /\ Len(g) = Len(f)
         /\ g[k] = b /\ \A n \in 1 .. Len(f) : n # k => g[n] = f[n]
         /\ SumMoved(f, g, k, b)
<1>1. g \in Seq(Byte) /\ Len(g) = Len(f)
  BY ExceptSeq
<1>2. g[k] = b /\ \A n \in 1 .. Len(f) : n # k => g[n] = f[n]
  BY LenProperties
<1>3. Sum(g) = Sum(f) + (g[k] - f[k]) * Weight(k)
  BY <1>1, <1>2, SumChanged
<1>4. SumMoved(f, g, k, b)
  BY <1>2, <1>3 DEF SumMoved
<1> QED
  BY <1>1, <1>2, <1>4

\* A word is two bytes.
LEMMA TwoBytes ==
  ASSUME NEW w \in 0 .. LargestWord
  PROVE  w \div Base \in Byte /\ w % Base \in Byte /\ w = Base * (w \div Base) + (w % Base)
<1>0. Base \in Nat /\ Base >= 1 /\ LargestWord \in Nat /\ w \in Nat
  BY BaseIs, WordIs
<1>1. w \div Base \in Nat /\ w % Base \in 0 .. Base - 1 /\ w = Base * (w \div Base) + (w % Base)
  BY <1>0, DivMod, Zenon
<1>2. PICK q \in Nat, r \in Nat : q = w \div Base /\ r = w % Base /\ w = Base * q + r
  <2>1. w % Base \in Nat
    BY <1>0, <1>1
  <2> QED
    BY <1>1, <2>1
<1>3. q < Base
  <2>1. ASSUME q >= Base
        PROVE  FALSE
    <3>1. PICK p \in Nat : q = Base + p
      <4>1. q - Base \in Nat /\ q = Base + (q - Base)
        BY <1>0, <2>1
      <4> QED
        BY <4>1
    <3>2. Base * q = Base * Base + Base * p /\ Base * p \in Nat /\ Base * Base \in Nat
      BY <1>0, <3>1
    <3>3. w < Base * Base
      BY <1>0, <3>2 DEF LargestWord
    <3> QED
      BY <1>0, <1>2, <3>2, <3>3
  <2> QED
    BY <1>0, <2>1
<1>4. q \in Byte
  BY <1>0, <1>3 DEF Byte
<1> QED
  BY <1>1, <1>2, <1>4 DEF Byte

LEMMA SealedIs ==
  ASSUME NEW f, NEW bare, bare = [f EXCEPT ![6] = 0, ![7] = 0]
  PROVE  Sealed(f) = [bare EXCEPT ![6] = GenerateChecksum(bare) \div Base, ![7] = GenerateChecksum(bare) % Base]
<1>1. ChecksumAt = 6 /\ 6 + 1 = 7
  BY DEF ChecksumAt
<1> QED
  BY <1>1 DEF Sealed

\* A sealed frame is valid.
LEMMA SealedValid ==
  ASSUME NEW f \in Seq(Byte), Len(f) >= HeaderSize
  PROVE  Sealed(f) \in Seq(Byte) /\ ChecksumIsValid(Sealed(f))
<1>0. Base \in Nat /\ Base >= 2 /\ LargestWord \in Nat /\ LargestWord >= 3 /\ 0 \in Byte /\ Byte \subseteq Nat
  BY BaseIs, WordIs DEF Byte
<1>1. Len(f) \in Nat /\ 6 \in 1 .. Len(f) /\ 7 \in 1 .. Len(f)
  BY DEF HeaderSize
<1>2. PICK half : half = [f EXCEPT ![6] = 0]
  OBVIOUS
<1>3. half \in Seq(Byte) /\ Len(half) = Len(f) /\ half[6] = 0
  BY <1>0, <1>1, <1>2, Put
<1>4. PICK bare : bare = [half EXCEPT ![7] = 0]
  OBVIOUS
<1>5. bare \in Seq(Byte) /\ Len(bare) = Len(f) /\ bare[6] = 0 /\ bare[7] = 0
  BY <1>0, <1>1, <1>3, <1>4, Put
<1>6. bare = [f EXCEPT ![6] = 0, ![7] = 0]
  BY <1>2, <1>4
<1>7. PICK s \in Nat, c \in 0 .. LargestWord : s = Sum(bare) /\ c = Carried(s) /\ Multiple(s - c)
  <2>1. Sum(bare) \in Nat
    BY <1>5, SumTyped
  <2> QED
    BY <2>1, CarriedIs
<1>8. PICK w \in 0 .. LargestWord : w = GenerateChecksum(bare) /\ w = LargestWord - c
  BY <1>0, <1>7 DEF GenerateChecksum
<1>9. PICK h \in Byte, l \in Byte : h = w \div Base /\ l = w % Base /\ w = Base * h + l
  BY TwoBytes
<1>10. PICK high : high = [bare EXCEPT ![6] = h]
  OBVIOUS
<1>11. /\ high \in Seq(Byte) /\ Len(high) = Len(f) /\ high[7] = 0
       /\ Sum(high) = s + h * Base
  <2>0. 6 \in 1 .. Len(bare) /\ 7 \in 1 .. Len(bare)
    BY <1>1, <1>5
  <2>4. /\ high \in Seq(Byte) /\ Len(high) = Len(bare) /\ high[7] = bare[7]
        /\ SumMoved(bare, high, 6, h)
    <3>1. PICK k \in 1 .. Len(bare) : k = 6
      BY <2>0
    <3>2. high = [bare EXCEPT ![k] = h]
      BY <1>10, <3>1
    <3>3. SumMoved(bare, high, k, h)
      BY <1>5, <3>2, Put
    <3>4. high \in Seq(Byte) /\ Len(high) = Len(bare) /\ high[7] = bare[7]
      BY <1>5, <2>0, <3>1, <3>2, Put
    <3> QED
      BY <3>1, <3>3, <3>4
  <2>1. /\ high \in Seq(Byte) /\ Len(high) = Len(f) /\ high[7] = 0
        /\ Sum(high) = s + (h - 0) * Weight(6)
    BY <1>5, <1>7, <2>0, <2>4 DEF SumMoved
  <2>2. Weight(6) = Base /\ h - 0 = h
    BY <1>0 DEF Weight
  <2> QED
    BY <2>1, <2>2
<1>12. PICK full : full = [high EXCEPT ![7] = l]
  OBVIOUS
<1>13. /\ full \in Seq(Byte)
       /\ Sum(full) = Sum(high) + l
  <2>0. 7 \in 1 .. Len(high)
    BY <1>1, <1>11
  <2>3. full \in Seq(Byte) /\ SumMoved(high, full, 7, l)
    <3>1. PICK k \in 1 .. Len(high) : k = 7
      BY <2>0
    <3>2. full = [high EXCEPT ![k] = l]
      BY <1>12, <3>1
    <3>3. full \in Seq(Byte) /\ SumMoved(high, full, k, l)
      BY <1>11, <3>2, Put
    <3> QED
      BY <3>1, <3>3
  <2>1. full \in Seq(Byte) /\ Sum(full) = Sum(high) + (l - 0) * Weight(7)
    BY <1>11, <2>3 DEF SumMoved
  <2>2. (l - 0) * Weight(7) = l
    BY <1>0 DEF Weight
  <2> QED
    BY <2>1, <2>2
<1>14. full = Sealed(f)
  <2>1. full = [bare EXCEPT ![6] = h, ![7] = l]
    BY <1>10, <1>12
  <2> QED
    BY <1>6, <1>8, <1>9, <2>1, SealedIs, Zenon
<1>15. Sum(full) = (s - c) + LargestWord
  <2>1. PICK p \in Nat : p = h * Base /\ p = Base * h
    <3>1. h * Base = Base * h /\ h * Base \in Nat
      BY <1>0
    <3> QED
      BY <3>1
  <2>2. LargestWord - c = p + l /\ Sum(full) = (s + p) + l /\ l \in Nat
    BY <1>0, <1>8, <1>9, <1>11, <1>13, <2>1
  <2>3. c \in Int
    BY <1>0
  <2> QED
    BY <1>0, <2>2, <2>3
<1>16. Multiple(Sum(full)) /\ Sum(full) \in Nat
  <2>1. Multiple(LargestWord)
    <3>1. 1 \in Int /\ LargestWord = 1 * LargestWord
      BY <1>0
    <3> QED
      BY <3>1 DEF Multiple
  <2>2. s - c \in Int
    BY <1>0, <1>7
  <2> QED
    <3>1. PICK a \in Int : a = s - c /\ Multiple(a)
      BY <1>7, <2>2
    <3>2. Multiple(a) <=> Multiple(LargestWord + a)
      BY <1>0, <2>1, <3>1, MultipleSums
    <3>3. Sum(full) = LargestWord + a
      BY <1>0, <1>15, <3>1
    <3>4. Sum(full) \in Nat
      BY <1>13, SumTyped
    <3> QED
      BY <3>1, <3>2, <3>3, <3>4, Zenon
<1>17. Sum(full) > 0
  <2>1. ASSUME Sum(full) = 0
        PROVE  FALSE
    <3>1. s = 0 /\ c = LargestWord
      <4>1. h * Base \in Nat
        BY <1>0
      <4>2. s = 0 /\ h * Base = 0 /\ l = 0
        <5>1. PICK a \in Nat, b \in Nat, d \in Nat : a = s /\ b = h * Base /\ d = l
          BY <1>0, <4>1
        <5>2. (a + b) + d = 0
          BY <1>11, <1>13, <2>1, <5>1
        <5>3. a = 0 /\ b = 0 /\ d = 0
          BY <5>2
        <5> QED
          BY <5>1, <5>3
      <4> QED
        BY <1>0, <1>7, <1>15, <2>1, <4>2
    <3>2. c = 0
      BY <1>7, <3>1, CarriedIs
    <3> QED
      BY <1>0, <3>1, <3>2
  <2> QED
    BY <1>16, <2>1
<1> QED
  BY <1>13, <1>14, <1>16, <1>17, ValidIs

\* A single harmed byte changes the sum by less than the largest word, and by something.
LEMMA ByteNoticed ==
  ASSUME NEW f \in Seq(Byte), NEW g \in Seq(Byte), Len(g) = Len(f), NEW k \in 1 .. Len(f), g[k] # f[k],
         \A n \in 1 .. Len(f) : n # k => g[n] = f[n], ChecksumIsValid(f)
  PROVE  ~ChecksumIsValid(g)
<1>0. Base \in Nat /\ Base >= 2 /\ LargestWord \in Nat /\ LargestWord >= 3
  BY BaseIs, WordIs
<1>1. PICK d \in Int, w \in Nat : d = g[k] - f[k] /\ w = Weight(k) /\ d # 0 /\ -(Base - 1) <= d /\ d <= Base - 1 /\ w \in {1, Base}
  <2>1. f[k] \in 0 .. Base - 1 /\ g[k] \in 0 .. Base - 1
    <3>1. k \in 1 .. Len(g)
      OBVIOUS
    <3>2. f[k] \in Byte /\ g[k] \in Byte
      BY <3>1, ElementOfSeq
    <3> QED
      BY <3>2 DEF Byte
  <2>2. k \in Nat /\ Weight(k) \in Nat /\ Weight(k) \in {1, Base}
    BY WeightIs
  <2>3. PICK a \in 0 .. Base - 1, b \in 0 .. Base - 1 : a = f[k] /\ b = g[k] /\ a # b
    BY <2>1
  <2>4. b - a \in Int /\ b - a # 0 /\ -(Base - 1) <= b - a /\ b - a <= Base - 1
    BY <1>0, <2>3
  <2> QED
    BY <2>2, <2>3, <2>4
<1>2. d * w # 0 /\ -LargestWord < d * w /\ d * w < LargestWord /\ d * w \in Int
  <2>1. CASE w = 1
    <3>1. Base - 1 < LargestWord /\ LargestWord \in Nat
      BY <1>0, WordIs
    <3>2. PICK top \in Nat : top = Base - 1 /\ top < LargestWord /\ -top <= d /\ d <= top
      BY <1>0, <1>1, <3>1
    <3>3. d # 0 /\ -LargestWord < d /\ d < LargestWord /\ d \in Int
      BY <1>1, <3>1, <3>2
    <3>4. d * 1 = d
      OBVIOUS
    <3> QED
      BY <2>1, <3>3, <3>4, Zenon
  <2>2. CASE w = Base
    <3>1. Base * (Base - 1) < LargestWord
      BY WordIs
    <3>2. PICK top \in Nat : top = Base - 1 /\ Base * top < LargestWord /\ -top <= d /\ d <= top
      BY <1>0, <1>1, <3>1
    <3>3. ASSUME NEW a \in Nat, a >= 1, a <= top
          PROVE  a * Base >= 1 /\ a * Base < LargestWord /\ a * Base \in Nat
      <4>1. PICK r \in Nat : top = a + r
        <5>1. top - a \in Nat /\ top = a + (top - a)
          BY <3>2, <3>3
        <5> QED
          BY <5>1
      <4>2. PICK x \in Nat, y \in Nat : x = a * Base /\ y = r * Base /\ Base * top = x + y
        BY <1>0, <4>1
      <4>3. x >= Base
        BY <1>0, <3>3, <4>2, TimesGrows
      <4> QED
        BY <1>0, <3>2, <4>2, <4>3
    <3>4. CASE d >= 1
      <4>1. PICK a \in Nat : a = d /\ a >= 1 /\ a <= top
        BY <1>1, <3>2, <3>4
      <4>2. PICK x \in Nat : x = a * Base /\ x >= 1 /\ x < LargestWord
        BY <3>3, <4>1
      <4>3. d * w = x
        BY <2>2, <4>1, <4>2
      <4> QED
        BY <1>0, <4>2, <4>3
    <3>5. CASE d <= -1
      <4>1. PICK a \in Nat : a = -d /\ a >= 1 /\ a <= top
        BY <3>2, <3>5
      <4>2. PICK x \in Nat : x = a * Base /\ x >= 1 /\ x < LargestWord
        BY <3>3, <4>1
      <4>3. d * w = -x
        BY <1>0, <2>2, <4>1, <4>2
      <4> QED
        BY <1>0, <4>2, <4>3
    <3> QED
      BY <1>1, <3>4, <3>5
  <2> QED
    BY <1>1, <2>1, <2>2
<1>3. ~Multiple(d * w)
  BY <1>2, MultipleSmall
<1>4. Sum(g) = Sum(f) + d * w /\ Sum(f) \in Nat /\ Sum(g) \in Nat
  BY <1>1, SumChanged, SumTyped
<1>5. Multiple(Sum(f))
  BY <1>4, ValidIs
<1>6. ~Multiple(Sum(f) + d * w)
  BY <1>2, <1>3, <1>4, <1>5, MultipleSums
<1> QED
  BY <1>4, <1>6, ValidIs

-----------------------------------------------------------------------------
\* What was sent is valid, and what has become of it is a frame as long.
DamageInv == /\ sent \in Seq(Byte) /\ frame \in Seq(Byte)
             /\ Len(frame) = Len(sent)
             /\ ChecksumIsValid(sent)

LEMMA DamageInvariant == DamageSpec => []DamageInv
<1>1. DamageInit => DamageInv
  <2> SUFFICES ASSUME DamageInit
               PROVE  DamageInv
    OBVIOUS
  <2>1. PICK f \in Frames : sent = Sealed(f)
    BY DEF DamageInit
  <2>2. f \in Seq(Byte) /\ Len(f) >= HeaderSize
    BY DamageAssumption
  <2>3. frame = sent
    BY DEF DamageInit
  <2> QED
    BY <2>1, <2>2, <2>3, SealedValid DEF DamageInv
<1>2. DamageInv /\ [Harm]_damageVars => DamageInv'
  <2> SUFFICES ASSUME DamageInv, [Harm]_damageVars
               PROVE  DamageInv'
    OBVIOUS
  <2>1. CASE Harm
    <3>1. PICK k \in DOMAIN frame, b \in Byte : frame' = [frame EXCEPT ![k] = b]
      BY <2>1 DEF Harm
    <3>2. sent' = sent
      BY <2>1 DEF Harm
    <3>3. k \in 1 .. Len(frame)
      BY DEF DamageInv
    <3>4. frame' \in Seq(Byte) /\ Len(frame') = Len(frame)
      BY <3>1, <3>3, Put DEF DamageInv
    <3>5. ChecksumIsValid(sent')
      BY <3>2 DEF DamageInv
    <3> QED
      BY <3>2, <3>4, <3>5 DEF DamageInv
  <2>2. CASE UNCHANGED damageVars
    <3>1. sent' = sent /\ frame' = frame
      BY <2>2 DEF damageVars
    <3> QED
      BY <3>1 DEF DamageInv
  <2> QED
    BY <2>1, <2>2
<1> QED
  BY <1>1, <1>2, PTL DEF DamageSpec

\* For bytes of any width and any frames, of any length: a sealed frame is valid, a single
\* damaged byte is noticed, and more damage unless it leaves the sum of the words the
\* same but for a multiple of the largest (DamageIsNoticed).
THEOREM DamageSeen == DamageSpec => []DamageIsNoticed
<1>1. ASSUME DamageInv
      PROVE  DamageIsNoticed
  <2> USE <1>1 DEF DamageInv
  <2>1. Sum(sent) \in Nat /\ Sum(frame) \in Nat /\ Multiple(Sum(sent))
    BY SumTyped, ValidIs
  <2>2. ChecksumIsValid(frame) <=> (Sum(frame) - Sum(sent)) % LargestWord = 0 /\ Sum(frame) > 0
    <3>1. Sum(frame) - Sum(sent) \in Int /\ Sum(sent) + (Sum(frame) - Sum(sent)) = Sum(frame)
      BY <2>1
    <3>4. Sum(sent) \in Int
      BY <2>1
    <3>5. Multiple(Sum(frame) - Sum(sent)) <=> Multiple(Sum(sent) + (Sum(frame) - Sum(sent)))
      BY <2>1, <3>1, <3>4, MultipleSums, Zenon
    <3>2. Multiple(Sum(frame) - Sum(sent)) <=> Multiple(Sum(frame))
      BY <3>1, <3>5, Zenon
    <3>3. (Sum(frame) - Sum(sent)) % LargestWord = 0 <=> Multiple(Sum(frame) - Sum(sent))
      BY <3>1, MultipleMod
    <3> QED
      BY <2>1, <3>2, <3>3, ValidIs
  <2>3. ASSUME Damaged = {}
        PROVE  ChecksumIsValid(frame)
    <3>1. \A k \in 1 .. Len(frame) : frame[k] = sent[k]
      BY <2>3 DEF Damaged
    <3>2. frame = sent
      BY <3>1, SeqEqual
    <3> QED
      BY <3>2
  <2>4. ASSUME Cardinality(Damaged) <= 1, Damaged # {}
        PROVE  ~ChecksumIsValid(frame)
    <3>1. IsFiniteSet(Damaged) /\ Damaged \subseteq 1 .. Len(frame)
      <4>1. DOMAIN frame = 1 .. Len(frame) /\ Len(frame) \in Nat
        OBVIOUS
      <4>2. Damaged \subseteq 1 .. Len(frame)
        BY <4>1 DEF Damaged
      <4>3. IsFiniteSet(1 .. Len(frame))
        BY <4>1, FS_Interval
      <4> QED
        BY <4>2, <4>3, FS_Subset, Zenon
    <3>2. Cardinality(Damaged) = 1
      BY <2>4, <3>1, FS_EmptySet, FS_CardinalityType
    <3>3. PICK k : Damaged = {k}
      BY <3>1, <3>2, FS_Singleton
    <3>4. k \in 1 .. Len(sent) /\ frame[k] # sent[k]
      BY <3>1, <3>3 DEF Damaged
    <3>5. \A n \in 1 .. Len(sent) : n # k => frame[n] = sent[n]
      BY <3>3 DEF Damaged
    <3> QED
      BY <3>4, <3>5, ByteNoticed
  <2> QED
    BY <2>2, <2>3, <2>4 DEF DamageIsNoticed
<1> QED
  BY <1>1, DamageInvariant, PTL

-----------------------------------------------------------------------------
(* The frames on a line that harms nothing, in both directions: Framing    *)
(* and Chunks of the same frames, each with its own state.                 *)

CONSTANTS Outgoing, Capacity, MaxFaults, Noise, Reach

VARIABLES line, buffer, sizePending, handled, refused, faults, hurt,
          coming, port, restPending, answers, harmed, fresh, signals

F == INSTANCE Framing WITH Sent <- Outgoing
C == INSTANCE Chunks WITH Sent <- Outgoing, sizePending <- restPending, received <- answers, faults <- harmed

-----------------------------------------------------------------------------
(* Frames one after the other.                                             *)

FlatStep(s, g, i) == IF i = 1 THEN s[i] ELSE g[i - 1] \o s[i]

\* The bytes of the first frames.
Flats(s) == CHOOSE g : g = [i \in 1 .. Len(s) |-> FlatStep(s, g, i)]

\* How many there are of them.
Before(s, n) == IF n = 0 THEN 0 ELSE Len(Flats(s)[n])

LEMMA FlatsExist ==
  ASSUME NEW s
  PROVE  \A m \in Nat : \E g : g = [i \in 1 .. m |-> FlatStep(s, g, i)]
<1> DEFINE S == {m \in Nat : \E g : g = [i \in 1 .. m |-> FlatStep(s, g, i)]}
<1>1. 0 \in S
  <2> DEFINE g == [i \in 1 .. 0 |-> 0]
  <2>1. \A i \in 1 .. 0 : FlatStep(s, g, i) = 0
    OBVIOUS
  <2>2. g = [i \in 1 .. 0 |-> FlatStep(s, g, i)]
    BY <2>1
  <2> HIDE DEF g
  <2> QED
    BY <2>2
<1>2. ASSUME NEW m \in Nat, m \in S
      PROVE  m + 1 \in S
  <2>1. PICK g : g = [i \in 1 .. m |-> FlatStep(s, g, i)]
    BY <1>2
  <2> DEFINE h == [i \in 1 .. m + 1 |-> FlatStep(s, g, i)]
  <2>2. \A i \in 1 .. m : h[i] = g[i]
    <3>1. \A i \in 1 .. m : g[i] = FlatStep(s, g, i)
      BY <2>1
    <3>2. \A i \in 1 .. m : i \in 1 .. m + 1
      OBVIOUS
    <3> QED
      BY <3>1, <3>2
  <2>3. ASSUME NEW i \in 1 .. m + 1
        PROVE  FlatStep(s, g, i) = FlatStep(s, h, i)
    <3>1. i # 1 => h[i - 1] = g[i - 1]
      <4>1. i # 1 => i - 1 \in 1 .. m
        OBVIOUS
      <4> HIDE DEF h
      <4> QED
        BY <2>2, <4>1
    <3> HIDE DEF h
    <3> QED
      BY <3>1 DEF FlatStep
  <2>4. h = [i \in 1 .. m + 1 |-> FlatStep(s, h, i)]
    BY <2>3
  <2> HIDE DEF h
  <2>5. m + 1 \in Nat
    OBVIOUS
  <2> QED
    BY <2>4, <2>5
<1> HIDE DEF S
<1>3. Nat \subseteq S
  BY <1>1, <1>2, Induction
<1> QED
  BY <1>3 DEF S

LEMMA FlatsAre ==
  ASSUME NEW s \in Seq(Seq(Byte))
  PROVE  /\ C!FlattenSeq(s) = IF Len(s) = 0 THEN s ELSE Flats(s)[Len(s)]
         /\ F!FlattenSeq(s) = C!FlattenSeq(s)
         /\ Len(s) >= 1 => Flats(s)[1] = s[1]
         /\ \A n \in 2 .. Len(s) : Flats(s)[n] = Flats(s)[n - 1] \o s[n]
<1>1. Len(s) \in Nat
  OBVIOUS
<1>2. \E g : g = [i \in 1 .. Len(s) |-> FlatStep(s, g, i)]
  BY <1>1, FlatsExist
<1>3. Flats(s) = [i \in 1 .. Len(s) |-> FlatStep(s, Flats(s), i)]
  BY <1>2 DEF Flats
<1>4. C!FlattenSeq(s) = IF Len(s) = 0 THEN s ELSE Flats(s)[Len(s)]
  BY DEF C!FlattenSeq, Flats, FlatStep
<1>5. F!FlattenSeq(s) = IF Len(s) = 0 THEN s ELSE Flats(s)[Len(s)]
  BY DEF F!FlattenSeq, Flats, FlatStep
<1>6. \A n \in 1 .. Len(s) : Flats(s)[n] = FlatStep(s, Flats(s), n)
  BY <1>3
<1>7. \A n \in 2 .. Len(s) : n \in 1 .. Len(s) /\ n # 1
  OBVIOUS
<1>8. Len(s) >= 1 => 1 \in 1 .. Len(s)
  BY <1>1
<1> QED
  BY <1>4, <1>5, <1>6, <1>7, <1>8 DEF FlatStep

LEMMA BeforeIs ==
  ASSUME NEW s \in Seq(Seq(Byte))
  PROVE  /\ Before(s, 0) = 0
         /\ \A n \in 1 .. Len(s) : Flats(s)[n] \in Seq(Byte)
         /\ \A n \in 1 .. Len(s) : Before(s, n) \in Nat /\ Before(s, n) = Before(s, n - 1) + Len(s[n])
<1>0. Len(s) \in Nat /\ \A n \in 1 .. Len(s) : s[n] \in Seq(Byte) /\ Len(s[n]) \in Nat
  OBVIOUS
<1>1. Before(s, 0) = 0
  BY DEF Before
<1> DEFINE S == {m \in Nat : m + 1 \in 1 .. Len(s) =>
                   /\ Flats(s)[m + 1] \in Seq(Byte)
                   /\ Before(s, m + 1) \in Nat /\ Before(s, m + 1) = Before(s, m) + Len(s[m + 1])}
<1>2. 0 \in S
  <2> SUFFICES ASSUME 0 + 1 \in 1 .. Len(s)
               PROVE  /\ Flats(s)[0 + 1] \in Seq(Byte)
                      /\ Before(s, 0 + 1) \in Nat /\ Before(s, 0 + 1) = Before(s, 0) + Len(s[0 + 1])
    OBVIOUS
  <2>0. 1 \in 1 .. Len(s) /\ Len(s) >= 1
    BY <1>0
  <2>1. Flats(s)[1] = s[1] /\ s[1] \in Seq(Byte) /\ Len(s[1]) \in Nat
    <3>1. Flats(s)[1] = s[1]
      BY <2>0, FlatsAre
    <3> QED
      BY <1>0, <2>0, <3>1
  <2>2. Before(s, 1) = Len(s[1])
    BY <2>1 DEF Before
  <2> QED
    BY <1>1, <2>1, <2>2
<1>3. ASSUME NEW m \in Nat, m \in S
      PROVE  m + 1 \in S
  <2> SUFFICES ASSUME (m + 1) + 1 \in 1 .. Len(s)
               PROVE  /\ Flats(s)[(m + 1) + 1] \in Seq(Byte)
                      /\ Before(s, (m + 1) + 1) \in Nat /\ Before(s, (m + 1) + 1) = Before(s, m + 1) + Len(s[(m + 1) + 1])
    OBVIOUS
  <2>1. m + 1 \in 1 .. Len(s) /\ (m + 1) + 1 \in 2 .. Len(s) /\ ((m + 1) + 1) - 1 = m + 1
    BY <1>0
  <2>2. Flats(s)[m + 1] \in Seq(Byte)
    BY <1>3, <2>1
  <2>3. PICK n \in 2 .. Len(s) : n = (m + 1) + 1 /\ n \in 1 .. Len(s)
    BY <2>1
  <2>4. Flats(s)[n] = Flats(s)[m + 1] \o s[n] /\ s[n] \in Seq(Byte)
    BY <1>0, <2>1, <2>3, FlatsAre
  <2>5. Flats(s)[n] \in Seq(Byte) /\ Len(Flats(s)[n]) \in Nat /\ Len(Flats(s)[n]) = Len(Flats(s)[m + 1]) + Len(s[n])
    <3>1. \A a, b \in Seq(Byte) : a \o b \in Seq(Byte) /\ Len(a \o b) = Len(a) + Len(b) /\ Len(a \o b) \in Nat
      OBVIOUS
    <3> QED
      BY <2>2, <2>4, <3>1
  <2>6. Before(s, n) = Len(Flats(s)[n]) /\ Before(s, m + 1) = Len(Flats(s)[m + 1])
    BY <2>3 DEF Before
  <2> QED
    BY <2>3, <2>5, <2>6
<1> HIDE DEF S
<1>4. Nat \subseteq S
  BY <1>2, <1>3, Induction
<1>5. ASSUME NEW n \in 1 .. Len(s)
      PROVE  /\ Flats(s)[n] \in Seq(Byte)
             /\ Before(s, n) \in Nat /\ Before(s, n) = Before(s, n - 1) + Len(s[n])
  <2>1. n - 1 \in Nat /\ (n - 1) + 1 = n
    OBVIOUS
  <2>2. n - 1 \in S
    BY <1>4, <2>1
  <2> QED
    BY <2>1, <2>2 DEF S
<1> QED
  BY <1>1, <1>5

LEMMA BeforeGrows ==
  ASSUME NEW s \in Seq(Seq(Byte)), NEW n \in 0 .. Len(s)
  PROVE  Before(s, n) \in Nat /\ \A m \in n .. Len(s) : Before(s, m) \in Nat /\ Before(s, n) <= Before(s, m)
<1>0. Len(s) \in Nat /\ \A k \in 1 .. Len(s) : Len(s[k]) \in Nat
  OBVIOUS
<1>1. \A k \in 0 .. Len(s) : Before(s, k) \in Nat
  BY BeforeIs
<1> DEFINE S == {d \in Nat : n + d <= Len(s) => Before(s, n) <= Before(s, n + d)}
<1>2. 0 \in S
  <2>1. n + 0 = n
    OBVIOUS
  <2> QED
    BY <1>1, <2>1
<1>3. ASSUME NEW d \in Nat, d \in S
      PROVE  d + 1 \in S
  <2> SUFFICES ASSUME n + (d + 1) <= Len(s)
               PROVE  Before(s, n) <= Before(s, n + (d + 1))
    OBVIOUS
  <2>1. PICK k \in 1 .. Len(s) : k = n + (d + 1) /\ k - 1 = n + d /\ k - 1 \in 0 .. Len(s)
    BY <1>0
  <2>2. Before(s, n) <= Before(s, k - 1)
    BY <1>3, <2>1
  <2>3. Before(s, k) = Before(s, k - 1) + Len(s[k])
    BY BeforeIs
  <2>4. Before(s, n) \in Nat /\ Before(s, k) \in Nat /\ Before(s, k - 1) \in Nat /\ Len(s[k]) \in Nat
    BY <1>0, <1>1, <2>1
  <2> HIDE DEF S
  <2>5. Before(s, n) <= Before(s, k)
    BY <2>2, <2>3, <2>4
  <2> QED
    BY <2>1, <2>5
<1> HIDE DEF S
<1>4. Nat \subseteq S
  BY <1>2, <1>3, Induction
<1>5. ASSUME NEW m \in n .. Len(s)
      PROVE  Before(s, m) \in Nat /\ Before(s, n) <= Before(s, m)
  <2>1. m - n \in Nat /\ n + (m - n) = m /\ m \in 0 .. Len(s)
    OBVIOUS
  <2>2. m - n \in S
    BY <1>4, <2>1
  <2> QED
    BY <1>1, <2>1, <2>2 DEF S
<1> QED
  BY <1>1, <1>5

\* Where the bytes of each frame are among them.
LEMMA FlatIs ==
  ASSUME NEW s \in Seq(Seq(Byte))
  PROVE  /\ C!FlattenSeq(s) \in Seq(Byte) /\ Len(C!FlattenSeq(s)) = Before(s, Len(s))
         /\ \A n \in 1 .. Len(s) : \A i \in 1 .. Len(s[n]) : C!FlattenSeq(s)[Before(s, n - 1) + i] = s[n][i]
<1>0. Len(s) \in Nat /\ \A n \in 1 .. Len(s) : s[n] \in Seq(Byte) /\ Len(s[n]) \in Nat
  OBVIOUS
<1>1. \A n \in 1 .. Len(s) : Flats(s)[n] \in Seq(Byte) /\ Len(Flats(s)[n]) = Before(s, n)
  <2>1. \A n \in 1 .. Len(s) : n # 0
    OBVIOUS
  <2>2. \A n \in 1 .. Len(s) : Len(Flats(s)[n]) = Before(s, n)
    BY <2>1 DEF Before
  <2> QED
    BY <2>2, BeforeIs
<1> DEFINE Right(m) == \A n \in 1 .. m : \A i \in 1 .. Len(s[n]) : Flats(s)[m][Before(s, n - 1) + i] = s[n][i]
<1> DEFINE S == {m \in Nat : m + 1 \in 1 .. Len(s) => Right(m + 1)}
<1>2. 0 \in S
  <2>1. ASSUME 1 \in 1 .. Len(s), NEW n \in 1 .. 1, NEW i \in 1 .. Len(s[n])
        PROVE  Flats(s)[1][Before(s, n - 1) + i] = s[n][i]
    <3>1. Len(s) >= 1
      BY <1>0, <2>1
    <3>2. Flats(s)[1] = s[1] /\ Before(s, 0) = 0
      BY <3>1, FlatsAre DEF Before
    <3>3. n = 1 /\ n - 1 = 0
      BY <2>1
    <3>4. 0 + i = i
      BY <1>0, <2>1, <3>3
    <3> QED
      BY <3>2, <3>3, <3>4
  <2>2. 1 \in 1 .. Len(s) => Right(1)
    BY <2>1
  <2> HIDE DEF Right
  <2>3. 0 + 1 = 1
    OBVIOUS
  <2> QED
    BY <2>2, <2>3
<1>3. ASSUME NEW m \in Nat, m \in S
      PROVE  m + 1 \in S
  <2> SUFFICES ASSUME (m + 1) + 1 \in 1 .. Len(s)
               PROVE  Right((m + 1) + 1)
    OBVIOUS
  <2>1. PICK k \in 1 .. Len(s) : k = m + 1
    BY <1>0
  <2>2. Right(k)
    BY <1>3, <2>1
  <2>3. PICK l \in 2 .. Len(s) : l = k + 1 /\ l \in 1 .. Len(s) /\ l - 1 = k
    BY <1>0, <2>1
  <2>4. Flats(s)[l] = Flats(s)[k] \o s[l]
    BY <2>3, FlatsAre
  <2>5. Flats(s)[k] \in Seq(Byte) /\ s[l] \in Seq(Byte) /\ Len(Flats(s)[k]) = Before(s, k)
    BY <1>0, <1>1, <2>3
  <2>6. \A a, b \in Seq(Byte) : /\ \A j \in 1 .. Len(a) : (a \o b)[j] = a[j]
                                /\ \A j \in 1 .. Len(b) : (a \o b)[Len(a) + j] = b[j]
    OBVIOUS
  <2> SUFFICES ASSUME NEW n \in 1 .. l, NEW i \in 1 .. Len(s[n])
               PROVE  Flats(s)[l][Before(s, n - 1) + i] = s[n][i]
    BY <2>1, <2>3
  <2>7. CASE n = l
    <3>1. PICK a \in Seq(Byte), b \in Seq(Byte) : a = Flats(s)[k] /\ b = s[l] /\ Flats(s)[l] = a \o b /\ Len(a) = Before(s, k)
      BY <2>4, <2>5
    <3>2. i \in 1 .. Len(b) /\ n - 1 = k
      BY <2>3, <2>7, <3>1
    <3>3. (a \o b)[Len(a) + i] = b[i]
      BY <2>6, <3>2
    <3> QED
      BY <2>7, <3>1, <3>2, <3>3
  <2>8. CASE n # l
    <3>1. n \in 1 .. k /\ n \in 1 .. Len(s) /\ n - 1 \in 0 .. Len(s) /\ k \in n .. Len(s) /\ n \in 0 .. Len(s)
      BY <2>3, <2>8
    <3>2. Before(s, n - 1) \in Nat /\ Before(s, n) = Before(s, n - 1) + Len(s[n]) /\ Before(s, n) <= Before(s, k) /\ Before(s, k) \in Nat
      BY <3>1, BeforeIs, BeforeGrows
    <3>3. Len(s[n]) \in Nat
      BY <1>0, <3>1
    <3>4. Before(s, n - 1) + i \in 1 .. Len(Flats(s)[k])
      <4>1. PICK p \in Nat, q \in Nat, z \in Nat : p = Before(s, n - 1) /\ q = Len(s[n]) /\ z = Before(s, k) /\ p + q <= z
        BY <3>2, <3>3
      <4>2. i \in 1 .. q
        BY <4>1
      <4>3. p + i \in 1 .. z
        <5>1. p + q <= z
          BY <4>1
        <5> QED
          BY <4>2, <5>1
      <4> QED
        BY <2>5, <4>1, <4>3
    <3>5. Flats(s)[l][Before(s, n - 1) + i] = Flats(s)[k][Before(s, n - 1) + i]
      <4>1. PICK a \in Seq(Byte), b \in Seq(Byte) : a = Flats(s)[k] /\ b = s[l] /\ Flats(s)[l] = a \o b
        BY <2>4, <2>5
      <4>2. PICK j \in 1 .. Len(a) : j = Before(s, n - 1) + i
        BY <3>4, <4>1
      <4>3. (a \o b)[j] = a[j]
        BY <2>6
      <4> QED
        BY <4>1, <4>2, <4>3
    <3> QED
      BY <2>2, <3>1, <3>5
  <2> QED
    BY <2>7, <2>8
<1> HIDE DEF S
<1>4. Nat \subseteq S
  BY <1>2, <1>3, Induction
<1>5. ASSUME Len(s) # 0
      PROVE  C!FlattenSeq(s) = Flats(s)[Len(s)] /\ Right(Len(s)) /\ Len(s) \in 1 .. Len(s)
  <2>1. Len(s) - 1 \in Nat /\ (Len(s) - 1) + 1 = Len(s) /\ Len(s) \in 1 .. Len(s)
    BY <1>0, <1>5
  <2>2. Len(s) - 1 \in S
    BY <1>4, <2>1
  <2> QED
    BY <1>5, <2>1, <2>2, FlatsAre DEF S
<1>6. ASSUME Len(s) = 0
      PROVE  C!FlattenSeq(s) = <<>> /\ Before(s, Len(s)) = 0 /\ 1 .. Len(s) = {}
  <2>1. s = <<>>
    BY <1>6
  <2> QED
    <3>1. C!FlattenSeq(s) = s
      BY <1>6, FlatsAre
    <3>2. Before(s, Len(s)) = 0
      BY <1>6 DEF Before
    <3> QED
      BY <1>6, <2>1, <3>1, <3>2
<1>7. CASE Len(s) = 0
  BY <1>6, <1>7
<1>8. CASE Len(s) # 0
  BY <1>1, <1>5, <1>8
<1> QED
  BY <1>7, <1>8

\* The bytes of the frames after the first n.
LEMMA RestLength ==
  ASSUME NEW s \in Seq(Seq(Byte)), NEW n \in 0 .. Len(s)
  PROVE  Len(C!FlattenSeq(SubSeq(s, n + 1, Len(s)))) = Before(s, Len(s)) - Before(s, n)
<1> DEFINE u == SubSeq(s, n + 1, Len(s))
<1>0. Len(s) \in Nat /\ \A k \in 1 .. Len(s) : Len(s[k]) \in Nat
  OBVIOUS
<1>1. u \in Seq(Seq(Byte)) /\ Len(u) = Len(s) - n /\ Len(u) \in Nat /\ \A j \in 1 .. Len(u) : u[j] = s[n + j] /\ n + j \in 1 .. Len(s)
  <2>1. n + 1 \in 1 .. Len(s) + 1
    OBVIOUS
  <2>2. Len(u) = Len(s) - n /\ Len(u) \in Nat
    BY <1>0
  <2>3. \A j \in 1 .. Len(s) - n : u[j] = s[n + j] /\ n + j \in 1 .. Len(s)
    BY <1>0
  <2>4. u \in Seq(Seq(Byte))
    BY <1>0
  <2> QED
    BY <2>2, <2>3, <2>4
<1> HIDE DEF u
<1> DEFINE S == {j \in Nat : j <= Len(u) => Before(u, j) = Before(s, n + j) - Before(s, n)}
<1>2. 0 \in S
  <2>1. Before(u, 0) = 0 /\ n + 0 = n /\ Before(s, n) \in Nat
    BY <1>1, BeforeIs, BeforeGrows
  <2> QED
    BY <2>1
<1>3. ASSUME NEW j \in Nat, j \in S
      PROVE  j + 1 \in S
  <2> SUFFICES ASSUME j + 1 <= Len(u)
               PROVE  Before(u, j + 1) = Before(s, n + (j + 1)) - Before(s, n)
    OBVIOUS
  <2>1. PICK k \in 1 .. Len(u) : k = j + 1 /\ k - 1 = j /\ n + k \in 1 .. Len(s) /\ (n + k) - 1 = n + j /\ n + j \in 0 .. Len(s)
    BY <1>0, <1>1
  <2>2. Before(u, j) = Before(s, n + j) - Before(s, n)
    BY <1>1, <1>3, <2>1
  <2>3. Before(u, k) = Before(u, j) + Len(u[k]) /\ u[k] = s[n + k]
    BY <1>1, <2>1, BeforeIs
  <2>4. Before(s, n + k) = Before(s, n + j) + Len(s[n + k])
    BY <2>1, BeforeIs
  <2>5. Before(s, n) \in Nat /\ Before(s, n + j) \in Nat /\ Len(s[n + k]) \in Nat
    BY <1>0, <2>1, BeforeGrows
  <2> HIDE DEF S
  <2>6. Before(u, k) = Before(s, n + k) - Before(s, n)
    BY <2>2, <2>3, <2>4, <2>5
  <2> QED
    BY <2>1, <2>6
<1> HIDE DEF S
<1>4. Nat \subseteq S
  BY <1>2, <1>3, Induction
<1>5. Len(u) \in S
  BY <1>1, <1>4
<1>6. Before(u, Len(u)) = Before(s, n + Len(u)) - Before(s, n) /\ n + Len(u) = Len(s)
  BY <1>0, <1>1, <1>5 DEF S
<1>7. Len(C!FlattenSeq(u)) = Before(u, Len(u))
  BY <1>1, FlatIs
<1> QED
  BY <1>6, <1>7 DEF u

-----------------------------------------------------------------------------
(* The frames sent, on their way.                                          *)

\* Each of them begins with the signature and its own size.
Framed(largest) == /\ Outgoing \in Seq(Seq(Byte))
                   /\ \A n \in 1 .. Len(Outgoing) : /\ Len(Outgoing[n]) \in 8 .. largest
                                                    /\ Outgoing[n][1] = 66 /\ Outgoing[n][2] = 83 /\ Outgoing[n][3] = Len(Outgoing[n])

Stream == C!FlattenSeq(Outgoing)

\* How many bytes the first n have.
Ends(n) == Before(Outgoing, n)

\* When r bytes are read, p has the next ones and q the rest of them.
At(p, q, r) == /\ p \in Seq(Byte) /\ q \in Seq(Byte) /\ r \in Nat
               /\ (r + Len(p)) + Len(q) = Len(Stream)
               /\ \A i \in 1 .. Len(p) : p[i] = Stream[r + i]
               /\ \A i \in 1 .. Len(q) : q[i] = Stream[(r + Len(p)) + i]

LEMMA EndsAre ==
  ASSUME NEW largest \in Nat, Framed(largest)
  PROVE  /\ Len(Outgoing) \in Nat /\ Stream \in Seq(Byte) /\ Ends(0) = 0 /\ Ends(Len(Outgoing)) = Len(Stream) /\ F!FlattenSeq(Outgoing) = Stream
         /\ \A n \in 0 .. Len(Outgoing) : Ends(n) \in Nat /\ Ends(n) <= Len(Stream)
         /\ \A n \in 0 .. Len(Outgoing) - 1 :
              /\ Outgoing[n + 1] \in Seq(Byte) /\ Len(Outgoing[n + 1]) \in 8 .. largest /\ Ends(n + 1) = Ends(n) + Len(Outgoing[n + 1])
              /\ \A i \in 1 .. Len(Outgoing[n + 1]) : Stream[Ends(n) + i] = Outgoing[n + 1][i]
         /\ \A n \in 0 .. Len(Outgoing), m \in 0 .. Len(Outgoing) : n <= m => Ends(n) <= Ends(m)
<1>0. Outgoing \in Seq(Seq(Byte)) /\ Len(Outgoing) \in Nat
  BY DEF Framed
<1>1. Stream \in Seq(Byte) /\ Ends(0) = 0 /\ Ends(Len(Outgoing)) = Len(Stream) /\ F!FlattenSeq(Outgoing) = Stream
  BY <1>0, BeforeIs, FlatIs, FlatsAre DEF Stream, Ends
<1>2. \A n \in 0 .. Len(Outgoing), m \in 0 .. Len(Outgoing) : n <= m => Ends(n) <= Ends(m)
  <2> SUFFICES ASSUME NEW n \in 0 .. Len(Outgoing), NEW m \in 0 .. Len(Outgoing), n <= m
               PROVE  Ends(n) <= Ends(m)
    OBVIOUS
  <2>1. m \in n .. Len(Outgoing)
    OBVIOUS
  <2> QED
    BY <1>0, <2>1, BeforeGrows DEF Ends
<1>3. \A n \in 0 .. Len(Outgoing) : Ends(n) \in Nat
  BY <1>0, BeforeGrows DEF Ends
<1>4. \A n \in 0 .. Len(Outgoing) : Ends(n) <= Len(Stream)
  <2>1. Len(Outgoing) \in 0 .. Len(Outgoing)
    BY <1>0
  <2> QED
    BY <1>1, <1>2, <2>1
<1>5. ASSUME NEW n \in 0 .. Len(Outgoing) - 1
      PROVE  /\ Outgoing[n + 1] \in Seq(Byte) /\ Len(Outgoing[n + 1]) \in 8 .. largest /\ Ends(n + 1) = Ends(n) + Len(Outgoing[n + 1])
             /\ \A i \in 1 .. Len(Outgoing[n + 1]) : Stream[Ends(n) + i] = Outgoing[n + 1][i]
  <2>1. PICK k \in 1 .. Len(Outgoing) : k = n + 1 /\ k - 1 = n
    BY <1>0
  <2>2. Outgoing[k] \in Seq(Byte) /\ Len(Outgoing[k]) \in 8 .. largest
    BY <1>0, <2>1 DEF Framed
  <2>3. Ends(k) = Ends(n) + Len(Outgoing[k])
    BY <1>0, <2>1, BeforeIs DEF Ends
  <2>4. \A i \in 1 .. Len(Outgoing[k]) : Stream[Ends(n) + i] = Outgoing[k][i]
    BY <1>0, <2>1, FlatIs DEF Ends, Stream
  <2> QED
    BY <2>1, <2>2, <2>3, <2>4
<1> QED
  BY <1>0, <1>1, <1>2, <1>3, <1>4, <1>5

LEMMA TooMany == \A e, m, n \in Nat : ~(((e + 0) + m) + n = e /\ m >= 1)
  OBVIOUS

\* A reader at a frame's beginning, or d bytes into it, finds that frame.
LEMMA FrameAt ==
  ASSUME NEW largest \in Nat, Framed(largest), NEW k \in 0 .. Len(Outgoing), NEW d \in 0 .. 8, NEW p, NEW q, At(p, q, Ends(k) + d), 
         d > 0 => k < Len(Outgoing)
  PROVE  /\ Len(p) >= 1 => k < Len(Outgoing)
         /\ k < Len(Outgoing) => \A i \in 1 .. Len(p) : d + i <= Len(Outgoing[k + 1]) => p[i] = Outgoing[k + 1][d + i]
<1>0. Len(Outgoing) \in Nat /\ Len(p) \in Nat /\ Len(q) \in Nat /\ Ends(k) \in Nat /\ Ends(Len(Outgoing)) = Len(Stream) /\ Stream \in Seq(Byte)
  BY EndsAre DEF At
<1>1. ASSUME Len(p) >= 1
      PROVE  k < Len(Outgoing)
  <2> SUFFICES ASSUME ~(k < Len(Outgoing))
               PROVE  FALSE
    OBVIOUS
  <2>1. k = Len(Outgoing) /\ d = 0
    BY <1>0
  <2>2. ((Ends(k) + d) + Len(p)) + Len(q) = Len(Stream)
    BY DEF At
  <2>3. PICK e \in Nat, m \in Nat, n \in Nat : e = Ends(k) /\ m = Len(p) /\ n = Len(q)
    BY <1>0
  <2>4. ((e + 0) + m) + n = e /\ m >= 1
    BY <1>0, <1>1, <2>1, <2>2, <2>3
  <2> QED
    BY <2>4, TooMany
<1>2. ASSUME k < Len(Outgoing), NEW i \in 1 .. Len(p), d + i <= Len(Outgoing[k + 1])
      PROVE  p[i] = Outgoing[k + 1][d + i]
  <2>1. k \in 0 .. Len(Outgoing) - 1
    BY <1>0, <1>2
  <2>2. Len(Outgoing[k + 1]) \in Nat
    BY <2>1, EndsAre
  <2>3. d + i \in 1 .. Len(Outgoing[k + 1]) /\ Ends(k) + (d + i) = (Ends(k) + d) + i
    <3>1. PICK e \in Nat, j \in Nat : e = Ends(k) /\ j = i /\ j >= 1
      BY <1>0
    <3>2. d + j \in Nat /\ d + j >= 1 /\ e + (d + j) = (e + d) + j
      BY <3>1
    <3> QED
      BY <1>2, <2>2, <3>1, <3>2
  <2>4. Stream[Ends(k) + (d + i)] = Outgoing[k + 1][d + i]
    BY <2>1, <2>3, EndsAre
  <2>5. p[i] = Stream[(Ends(k) + d) + i]
    BY DEF At
  <2> QED
    BY <2>3, <2>4, <2>5
<1> QED
  BY <1>1, <1>2

LEMMA ArriveAt ==
  ASSUME NEW p, NEW q, NEW r, At(p, q, r), q # <<>>
  PROVE  At(Append(p, Head(q)), Tail(q), r) /\ Len(Tail(q)) = Len(q) - 1 /\ Len(q) \in Nat /\ Len(q) >= 1
<1>1. p \in Seq(Byte) /\ q \in Seq(Byte) /\ r \in Nat /\ Len(p) \in Nat
  BY DEF At
<1>2. Len(q) \in Nat /\ Len(q) >= 1 /\ Head(q) \in Byte /\ Head(q) = q[1] /\ Tail(q) \in Seq(Byte) /\ Len(Tail(q)) = Len(q) - 1
  BY <1>1
<1>3. \A i \in 1 .. Len(Tail(q)) : Tail(q)[i] = q[i + 1] /\ i + 1 \in 1 .. Len(q)
  BY <1>1, <1>2
<1>4. PICK a \in Seq(Byte) : a = Append(p, Head(q)) /\ Len(a) = Len(p) + 1 /\ a[Len(p) + 1] = q[1] /\ \A i \in 1 .. Len(p) : a[i] = p[i]
  <2>1. \A b \in Byte : Append(p, b) \in Seq(Byte) /\ Len(Append(p, b)) = Len(p) + 1
    BY <1>1
  <2>2. \A b \in Byte : \A i \in 1 .. Len(p) : Append(p, b)[i] = p[i]
    BY <1>1
  <2>3. \A b \in Byte : Append(p, b)[Len(p) + 1] = b
    BY <1>1
  <2> QED
    BY <1>2, <2>1, <2>2, <2>3
<1>5. (r + Len(a)) + Len(Tail(q)) = Len(Stream)
  BY <1>1, <1>2, <1>4 DEF At
<1>6. ASSUME NEW i \in 1 .. Len(a)
      PROVE  a[i] = Stream[r + i]
  <2>1. CASE i \in 1 .. Len(p)
    BY <1>4, <2>1 DEF At
  <2>2. CASE i \notin 1 .. Len(p)
    <3>1. i = Len(p) + 1 /\ 1 \in 1 .. Len(q) /\ (r + Len(p)) + 1 = r + i
      <4>1. Len(a) = Len(p) + 1
        BY <1>4
      <4>2. PICK m \in Nat, n \in Nat : m = Len(p) /\ n = r
        BY <1>1
      <4>3. i \in 1 .. m + 1 /\ i \notin 1 .. m
        BY <2>2, <4>1, <4>2
      <4>4. i = m + 1 /\ (n + m) + 1 = n + (m + 1)
        BY <4>3
      <4>5. 1 \in 1 .. Len(q)
        BY <1>2
      <4> QED
        BY <4>2, <4>4, <4>5
    <3> QED
      BY <1>4, <3>1 DEF At
  <2> QED
    BY <2>1, <2>2
<1>7. ASSUME NEW i \in 1 .. Len(Tail(q))
      PROVE  Tail(q)[i] = Stream[(r + Len(a)) + i]
  <2>1. (r + Len(a)) + i = (r + Len(p)) + (i + 1)
    BY <1>1, <1>4
  <2>2. q[i + 1] = Stream[(r + Len(p)) + (i + 1)]
    BY <1>3 DEF At
  <2> QED
    BY <1>3, <2>1, <2>2
<1>8. At(a, Tail(q), r)
  BY <1>1, <1>2, <1>4, <1>5, <1>6, <1>7 DEF At
<1> QED
  BY <1>2, <1>4, <1>8

LEMMA Further ==
  \A r, n, p, q, a \in Nat, t \in Int :
    a = p - n /\ (r + p) + q = t => r + n \in Nat /\ ((r + n) + a) + q = t
  OBVIOUS

LEMMA SkipAt ==
  ASSUME NEW p, NEW q, NEW r, At(p, q, r), NEW n \in 0 .. Len(p)
  PROVE  At(SubSeq(p, n + 1, Len(p)), q, r + n) /\ Len(SubSeq(p, n + 1, Len(p))) = Len(p) - n
         /\ \A i \in 1 .. Len(p) - n : SubSeq(p, n + 1, Len(p))[i] = p[n + i]
<1>1. p \in Seq(Byte) /\ q \in Seq(Byte) /\ r \in Nat /\ Len(p) \in Nat /\ Len(q) \in Nat
  BY DEF At
<1>2. PICK a : a = SubSeq(p, n + 1, Len(p))
  OBVIOUS
<1>3. a \in Seq(Byte) /\ Len(a) = Len(p) - n /\ \A i \in 1 .. Len(p) - n : a[i] = p[n + i] /\ n + i \in 1 .. Len(p)
  <2>1. Len(a) = Len(p) - n /\ \A i \in 1 .. Len(p) - n : a[i] = p[n + i] /\ n + i \in 1 .. Len(p)
    BY <1>1, <1>2
  <2>2. a \in Seq(Byte)
    BY <1>1, <1>2
  <2> QED
    BY <2>1, <2>2
<1>4. r + n \in Nat /\ ((r + n) + Len(a)) + Len(q) = Len(Stream)
  <2>1. (r + Len(p)) + Len(q) = Len(Stream)
    BY DEF At
  <2>2. Len(Stream) \in Int
    BY <1>1, <2>1
  <2>3. Len(a) \in Nat /\ n \in Nat /\ Len(a) = Len(p) - n
    BY <1>1, <1>3
  <2> QED
    BY <1>1, <2>1, <2>2, <2>3, Further
<1>5. ASSUME NEW i \in 1 .. Len(a)
      PROVE  a[i] = Stream[(r + n) + i]
  <2>1. n + i \in 1 .. Len(p) /\ a[i] = p[n + i] /\ (r + n) + i = r + (n + i)
    BY <1>1, <1>3
  <2> QED
    BY <2>1 DEF At
<1>6. ASSUME NEW i \in 1 .. Len(q)
      PROVE  q[i] = Stream[((r + n) + Len(a)) + i]
  <2>1. ((r + n) + Len(a)) + i = (r + Len(p)) + i
    BY <1>1, <1>3
  <2> QED
    BY <2>1 DEF At
<1>7. At(a, q, r + n)
  BY <1>1, <1>3, <1>4, <1>5, <1>6 DEF At
<1> QED
  BY <1>2, <1>3, <1>7

\* A frame is its signature, its size and the rest of it.
LEMMA FrameIs ==
  ASSUME NEW f \in Seq(Byte), NEW n \in Nat, n >= 1, Len(f) = n + 3, f[1] = 66, f[2] = 83, f[3] = n + 3,
         NEW p \in Seq(Byte), Len(p) >= n, \A i \in 1 .. n : p[i] = f[3 + i]
  PROVE  <<66, 83>> \o <<n + 3>> \o SubSeq(p, 1, n) = f
<1>1. PICK b : b = SubSeq(p, 1, n)
  OBVIOUS
<1>2. b \in Seq(Byte) /\ Len(b) = n /\ \A i \in 1 .. n : b[i] = p[i]
  <2>1. Len(b) = n /\ \A i \in 1 .. n : b[i] = p[i]
    BY <1>1
  <2>2. b \in Seq(Byte)
    BY <1>1
  <2> QED
    BY <2>1, <2>2
<1>3. PICK x \in Seq(Byte), y \in Seq(Byte) : x = <<66, 83>> /\ y = <<n + 3>> /\ Len(x) = 2 /\ Len(y) = 1 /\ x[1] = 66 /\ x[2] = 83 /\ y[1] = n + 3
  <2>1. 1 \in 1 .. Len(f) /\ 2 \in 1 .. Len(f) /\ 3 \in 1 .. Len(f)
    OBVIOUS
  <2>2. 66 \in Byte /\ 83 \in Byte /\ n + 3 \in Byte
    BY <2>1
  <2>3. <<66, 83>> \in Seq(Byte) /\ <<n + 3>> \in Seq(Byte)
    BY <2>2
  <2>4. Len(<<66, 83>>) = 2 /\ <<66, 83>>[1] = 66 /\ <<66, 83>>[2] = 83
    OBVIOUS
  <2>5. Len(<<n + 3>>) = 1 /\ <<n + 3>>[1] = n + 3
    OBVIOUS
  <2>6. PICK u \in Seq(Byte) : u = <<66, 83>>
    BY <2>3, Zenon
  <2>7. PICK v \in Seq(Byte) : v = <<n + 3>>
    BY <2>3, Zenon
  <2>8. Len(u) = 2 /\ u[1] = 66 /\ u[2] = 83
    BY <2>4, <2>6, Zenon
  <2>9. Len(v) = 1 /\ v[1] = n + 3
    BY <2>5, <2>7, Zenon
  <2> QED
    BY <2>6, <2>7, <2>8, <2>9, Zenon
<1>a. PICK a : a = x \o y
  OBVIOUS
<1>4. a \in Seq(Byte) /\ Len(a) = 3 /\ a[1] = 66 /\ a[2] = 83 /\ a[3] = n + 3
  <2>1. a \in Seq(Byte) /\ Len(a) = Len(x) + Len(y)
    BY <1>a, ConcatProperties
  <2>2. \A i \in 1 .. Len(x) + Len(y) : a[i] = IF i <= Len(x) THEN x[i] ELSE y[i - Len(x)]
    BY <1>a, ConcatProperties
  <2>3. a[1] = x[1] /\ a[2] = x[2] /\ a[3] = y[1]
    BY <1>3, <2>2
  <2> QED
    BY <1>3, <2>1, <2>3
<1>b. PICK c : c = a \o b
  OBVIOUS
<1>5. c \in Seq(Byte) /\ Len(c) = 3 + n /\ \A i \in 1 .. 3 + n : c[i] = IF i <= 3 THEN a[i] ELSE b[i - 3]
  <2>0. a \in Seq(Byte) /\ b \in Seq(Byte)
    BY <1>2, <1>4
  <2>1. c \in Seq(Byte) /\ Len(c) = Len(a) + Len(b)
    BY <1>b, <2>0, ConcatProperties
  <2>2. \A i \in 1 .. Len(a) + Len(b) : c[i] = IF i <= Len(a) THEN a[i] ELSE b[i - Len(a)]
    BY <1>b, <2>0, ConcatProperties
  <2> QED
    BY <1>2, <1>4, <2>1, <2>2
<1>6. ASSUME NEW i \in 1 .. 3 + n
      PROVE  c[i] = f[i]
  <2>1. CASE i <= 3
    <3>1. i = 1 \/ i = 2 \/ i = 3
      BY <2>1
    <3>2. c[i] = a[i]
      BY <1>5, <2>1
    <3> QED
      BY <1>4, <3>1, <3>2
  <2>2. CASE ~(i <= 3)
    <3>1. PICK j \in 1 .. n : j = i - 3 /\ i = 3 + j
      BY <2>2
    <3>2. c[i] = b[j]
      BY <1>5, <2>2, <3>1
    <3>3. b[j] = f[3 + j]
      BY <1>2
    <3> QED
      BY <3>1, <3>2, <3>3
  <2> QED
    BY <2>1, <2>2
<1>7. Len(c) = Len(f) /\ Len(f) = 3 + n
  BY <1>5
<1>8. c = f
  BY <1>5, <1>6, <1>7, SeqEqual
<1> QED
  BY <1>a, <1>b, <1>1, <1>3, <1>8

-----------------------------------------------------------------------------
(* Chunks.                                                                 *)

\* Where slotReadyRead is in the stream.
Place == Ends(Len(answers)) + (IF restPending = 0 THEN 0 ELSE 3)

AnswersAre == /\ answers \in Seq(Seq(Byte)) /\ Len(answers) <= Len(Outgoing)
              /\ \A j \in 1 .. Len(answers) : answers[j] = Outgoing[j]

PendingIs == restPending # 0 => Len(answers) < Len(Outgoing) /\ restPending = Len(Outgoing[Len(answers) + 1]) - 3

\* Each signal for a chunk that completes a frame gives one.
SignalsAre == /\ signals \in Nat /\ fresh \in Nat \cup {-1}
              /\ signals <= Len(answers)
              /\ C!Complete(Len(coming)) \in Nat
              /\ Len(answers) <= C!Complete(Len(coming))
              /\ fresh > 0 => Len(answers) + fresh <= C!Complete(Len(coming))

ChunksInv == AnswersAre /\ PendingIs /\ At(port, coming, Place) /\ SignalsAre

\* The frames that have come whole are the first ones.
LEMMA CompleteIs ==
  ASSUME NEW largest \in Nat, Framed(largest), NEW left \in Nat
  PROVE  /\ C!Complete(left) \in Nat
         /\ \A k \in 0 .. Len(Outgoing) : Ends(k) + left <= Len(Stream) => k <= C!Complete(left)
         /\ \A k \in 0 .. Len(Outgoing) - 1 : Ends(k + 1) + left > Len(Stream) => C!Complete(left) <= k
         /\ C!Complete(left) <= Len(Outgoing)
         /\ left >= 1 => C!Complete(left) <= C!Complete(left - 1)
<1>0. Len(Outgoing) \in Nat /\ Outgoing \in Seq(Seq(Byte)) /\ Ends(Len(Outgoing)) = Len(Stream) /\ \A n \in 0 .. Len(Outgoing) : Ends(n) \in Nat
  BY EndsAre DEF Framed
<1> DEFINE Came(l) == {n \in 1 .. Len(Outgoing) : Len(Stream) - Ends(n) >= l}
<1>1. \A l \in Nat : C!Complete(l) = Cardinality(Came(l))
  <2>1. \A n \in 1 .. Len(Outgoing) : Len(C!FlattenSeq(SubSeq(Outgoing, n + 1, Len(Outgoing)))) = Len(Stream) - Ends(n)
    <3> SUFFICES ASSUME NEW n \in 1 .. Len(Outgoing)
                 PROVE  Len(C!FlattenSeq(SubSeq(Outgoing, n + 1, Len(Outgoing)))) = Len(Stream) - Ends(n)
      OBVIOUS
    <3>1. n \in 0 .. Len(Outgoing)
      OBVIOUS
    <3>2. Len(C!FlattenSeq(SubSeq(Outgoing, n + 1, Len(Outgoing)))) = Ends(Len(Outgoing)) - Ends(n)
      BY <1>0, <3>1, RestLength DEF Ends
    <3> QED
      BY <1>0, <3>2
  <2>2. DOMAIN Outgoing = 1 .. Len(Outgoing)
    BY <1>0
  <2>3. \A l \in Nat : {n \in DOMAIN Outgoing : Len(C!FlattenSeq(SubSeq(Outgoing, n + 1, Len(Outgoing)))) >= l} = Came(l)
    BY <2>1, <2>2
  <2> HIDE DEF Came
  <2>4. \A l \in Nat : C!Complete(l) = C!Cardinality(Came(l))
    BY <2>3 DEF C!Complete
  <2> QED
    BY <2>4 DEF C!Cardinality, Cardinality
<1>2. \A k \in 0 .. Len(Outgoing) : IsFiniteSet(1 .. k) /\ Cardinality(1 .. k) = k
  <2> SUFFICES ASSUME NEW k \in 0 .. Len(Outgoing)
               PROVE  IsFiniteSet(1 .. k) /\ Cardinality(1 .. k) = k
    OBVIOUS
  <2>1. IsFiniteSet(1 .. k) /\ Cardinality(1 .. k) = IF 1 > k THEN 0 ELSE (k - 1) + 1
    BY <1>0, FS_Interval
  <2> QED
    BY <1>0, <2>1
<1>3. \A l \in Nat : IsFiniteSet(Came(l)) /\ Cardinality(Came(l)) \in Nat /\ Cardinality(Came(l)) <= Len(Outgoing)
  <2> SUFFICES ASSUME NEW l \in Nat
               PROVE  IsFiniteSet(Came(l)) /\ Cardinality(Came(l)) \in Nat /\ Cardinality(Came(l)) <= Len(Outgoing)
    OBVIOUS
  <2>1. Came(l) \subseteq 1 .. Len(Outgoing) /\ Len(Outgoing) \in 0 .. Len(Outgoing)
    BY <1>0
  <2> HIDE DEF Came
  <2>2. IsFiniteSet(Came(l)) /\ Cardinality(Came(l)) <= Cardinality(1 .. Len(Outgoing))
    BY <1>2, <2>1, FS_Subset
  <2> QED
    BY <1>2, <2>1, <2>2, FS_CardinalityType
<1>4. ASSUME NEW k \in 0 .. Len(Outgoing), Ends(k) + left <= Len(Stream)
      PROVE  k <= Cardinality(Came(left))
  <2>1. 1 .. k \subseteq Came(left)
    <3> SUFFICES ASSUME NEW n \in 1 .. k
                 PROVE  n \in Came(left)
      OBVIOUS
    <3>1. n \in 0 .. Len(Outgoing) /\ n \in 1 .. Len(Outgoing) /\ n <= k
      BY <1>0
    <3>2. Ends(n) \in Nat /\ Ends(k) \in Nat /\ Ends(n) <= Ends(k) /\ Len(Stream) \in Nat
      BY <1>0, <3>1, EndsAre
    <3> QED
      BY <1>4, <3>1, <3>2
  <2> HIDE DEF Came
  <2>2. Cardinality(1 .. k) <= Cardinality(Came(left))
    BY <1>3, <2>1, FS_Subset
  <2> QED
    BY <1>2, <2>2
<1>5. ASSUME NEW k \in 0 .. Len(Outgoing) - 1, Ends(k + 1) + left > Len(Stream)
      PROVE  Cardinality(Came(left)) <= k
  <2>1. Came(left) \subseteq 1 .. k
    <3> SUFFICES ASSUME NEW n \in Came(left), ~(n <= k)
                 PROVE  FALSE
      BY <1>0
    <3>1. n \in 1 .. Len(Outgoing) /\ Len(Stream) - Ends(n) >= left
      OBVIOUS
    <3>2. n \in 0 .. Len(Outgoing) /\ k + 1 \in 0 .. Len(Outgoing) /\ k + 1 <= n
      BY <1>0, <3>1
    <3>3. Ends(n) \in Nat /\ Ends(k + 1) \in Nat /\ Ends(k + 1) <= Ends(n) /\ Len(Stream) \in Nat
      BY <1>0, <3>2, EndsAre
    <3> QED
      BY <1>5, <3>1, <3>3
  <2> HIDE DEF Came
  <2>2. k \in 0 .. Len(Outgoing)
    BY <1>0
  <2>3. Cardinality(Came(left)) <= Cardinality(1 .. k)
    BY <1>2, <2>1, <2>2, FS_Subset
  <2> QED
    BY <1>2, <2>2, <2>3
<1>6. ASSUME left >= 1
      PROVE  left - 1 \in Nat /\ Cardinality(Came(left)) <= Cardinality(Came(left - 1))
  <2>0. left - 1 \in Nat
    BY <1>6
  <2>1. Came(left) \subseteq Came(left - 1)
    <3> SUFFICES ASSUME NEW n \in 1 .. Len(Outgoing), Len(Stream) - Ends(n) >= left
                 PROVE  Len(Stream) - Ends(n) >= left - 1
      OBVIOUS
    <3>1. n \in 0 .. Len(Outgoing)
      OBVIOUS
    <3>2. Ends(n) \in Nat /\ Len(Stream) \in Nat
      BY <1>0, <3>1
    <3> QED
      BY <3>2
  <2> HIDE DEF Came
  <2> QED
    BY <1>3, <2>0, <2>1, FS_Subset
<1> HIDE DEF Came
<1> QED
  BY <1>1, <1>3, <1>4, <1>5, <1>6

LEMMA TooFew == \A a \in Nat, b \in Nat, c \in 8 .. 64 : ~(a + c <= a + b /\ b < 3)
OBVIOUS

LEMMA Regrouped == \A e, n \in Nat : (e + 3) + n = e + (n + 3)
  OBVIOUS

\* The rest of a frame is read, or waits.
LEMMA RestReads ==
  ASSUME Framed(64), AnswersAre, Len(answers) < Len(Outgoing), coming' = coming,
         NEW p, At(p, coming, Ends(Len(answers)) + 3), NEW size, size = Len(Outgoing[Len(answers) + 1]) - 3, C!Rest(p, size)
  PROVE  /\ AnswersAre' /\ PendingIs' /\ At(port', coming', Place')
         /\ Len(answers') = IF Len(p) < size THEN Len(answers) ELSE Len(answers) + 1
<1>1. PICK k \in 0 .. Len(Outgoing) - 1 : k = Len(answers) /\ k + 1 \in 1 .. Len(Outgoing)
  BY EndsAre DEF AnswersAre
<1>2. PICK f \in Seq(Byte) : /\ f = Outgoing[k + 1] /\ Len(f) \in 8 .. 64 /\ f[1] = 66 /\ f[2] = 83 /\ f[3] = Len(f)
                             /\ Ends(k + 1) = Ends(k) + Len(f) /\ Ends(k) \in Nat
  <2>1. Outgoing[k + 1] \in Seq(Byte) /\ Ends(k + 1) = Ends(k) + Len(Outgoing[k + 1]) /\ Ends(k) \in Nat
    BY <1>1, EndsAre
  <2>2. PICK n \in 1 .. Len(Outgoing) : n = k + 1
    BY <1>1
  <2>3. Len(Outgoing[n]) \in 8 .. 64 /\ Outgoing[n][1] = 66 /\ Outgoing[n][2] = 83 /\ Outgoing[n][3] = Len(Outgoing[n])
    BY DEF Framed
  <2> QED
    BY <2>1, <2>2, <2>3
<1>3. size \in Nat /\ size >= 1 /\ size # 0 /\ Len(f) = size + 3
  <2>1. PICK n \in 8 .. 64 : n = Len(f)
    BY <1>2
  <2>2. size = n - 3
    BY <1>1, <1>2, <2>1
  <2>3. n - 3 \in Nat /\ n - 3 >= 1 /\ n - 3 # 0 /\ n = (n - 3) + 3
    OBVIOUS
  <2> QED
    BY <2>1, <2>2, <2>3
<1>4. p \in Seq(Byte) /\ Len(p) \in Nat
  BY DEF At
<1>5. \A i \in 1 .. Len(p) : 3 + i <= Len(f) => p[i] = f[3 + i]
  <2>1. k \in 0 .. Len(Outgoing) /\ 3 \in 0 .. 8 /\ k < Len(Outgoing)
    BY <1>1, EndsAre
  <2>2. k < Len(Outgoing) => \A i \in 1 .. Len(p) : 3 + i <= Len(Outgoing[k + 1]) => p[i] = Outgoing[k + 1][3 + i]
    BY <1>1, <2>1, FrameAt
  <2> QED
    BY <1>2, <2>1, <2>2
<1>6. CASE Len(p) < size
  <2>1. restPending' = size /\ port' = p /\ answers' = answers
    <3>1. ~(Len(p) >= size)
      BY <1>3, <1>4, <1>6
    <3> QED
      BY <3>1, Zenon DEF C!Rest
  <2>2. Place' = Ends(Len(answers)) + 3
    <3>0. size # 0
      BY <1>3
    <3>1. ~(restPending' = 0)
      BY <2>1, <3>0, Zenon
    <3> QED
      BY <2>1, <3>1, Zenon DEF Place
  <2>3. AnswersAre' /\ PendingIs'
    BY <2>1 DEF AnswersAre, PendingIs
  <2> QED
    BY <1>6, <2>1, <2>2, <2>3
<1>7. CASE ~(Len(p) < size)
  <2>0. Len(p) >= size /\ size \in 0 .. Len(p)
    BY <1>3, <1>4, <1>7
  <2>1. restPending' = 0 /\ port' = C!Skip(p, size)
        /\ answers' = Append(answers, C!Signature \o <<size + 3>> \o SubSeq(p, 1, size))
    BY <1>7 DEF C!Rest
  <2>2. C!Signature \o <<size + 3>> \o SubSeq(p, 1, size) = f
    <3>1. \A i \in 1 .. size : p[i] = f[3 + i]
      BY <1>3, <1>4, <1>5, <2>0
    <3>2. f[3] = size + 3
      BY <1>2, <1>3
    <3>3. <<66, 83>> \o <<size + 3>> \o SubSeq(p, 1, size) = f
      <4>1. size \in Nat /\ size >= 1 /\ Len(f) = size + 3 /\ f[1] = 66 /\ f[2] = 83 /\ p \in Seq(Byte) /\ Len(p) >= size
        BY <1>2, <1>3, <1>4, <2>0
      <4> QED
        BY <3>1, <3>2, <4>1, FrameIs
    <3> QED
      BY <3>3 DEF C!Signature
  <2>3. answers' = Append(answers, f)
    BY <2>1, <2>2
  <2>4. answers \in Seq(Seq(Byte)) /\ \A j \in 1 .. k : answers[j] = Outgoing[j]
    BY <1>1 DEF AnswersAre
  <2>5. answers' \in Seq(Seq(Byte)) /\ Len(answers') = k + 1 /\ answers'[k + 1] = f /\ \A j \in 1 .. k : answers'[j] = answers[j]
    BY <1>1, <2>3, <2>4, AppendProperties
  <2>6. AnswersAre'
    <3>1. \A j \in 1 .. k + 1 : answers'[j] = Outgoing[j]
      <4> SUFFICES ASSUME NEW j \in 1 .. k + 1
                   PROVE  answers'[j] = Outgoing[j]
        OBVIOUS
      <4>1. j = k + 1 \/ j \in 1 .. k
        BY <1>1
      <4> QED
        BY <1>2, <2>4, <2>5, <4>1
    <3>2. Len(answers') <= Len(Outgoing)
      BY <1>1, <2>5
    <3> QED
      BY <2>5, <3>1, <3>2 DEF AnswersAre
  <2>7. PendingIs'
    BY <2>1 DEF PendingIs
  <2>8. Place' = Ends(k + 1)
    BY <1>2, <2>1, <2>5 DEF Place
  <2>9. At(C!Skip(p, size), coming, (Ends(k) + 3) + size)
    BY <1>1, <2>0, SkipAt DEF C!Skip
  <2>10. (Ends(k) + 3) + size = Ends(k + 1)
    <3>1. PICK e \in Nat : e = Ends(k)
      BY <1>2
    <3>2. (e + 3) + size = e + (size + 3)
      BY <1>3, Regrouped
    <3> QED
      BY <1>2, <1>3, <3>1, <3>2
  <2> QED
    BY <1>1, <1>7, <2>1, <2>5, <2>6, <2>7, <2>8, <2>9, <2>10
<1> QED
  BY <1>6, <1>7

LEMMA Enough ==
  /\ \A e \in Nat, b \in Nat, m \in 8 .. 64 : e + m <= (e + 3) + b => ~(b < m - 3)
  /\ \A m \in 8 .. 64 : 1 <= m /\ 2 <= m /\ 3 <= m
  OBVIOUS

\* slotReadyRead goes on in the stream, and reads the frame that a signal made complete.
LEMMA SlotReads ==
  ASSUME Framed(64), ChunksInv, C!SlotReadyRead(port), coming' = coming
  PROVE  /\ AnswersAre' /\ PendingIs' /\ At(port', coming', Place')
         /\ Len(answers') \in Nat /\ Len(answers') >= Len(answers)
         /\ fresh > 0 => Len(answers') >= Len(answers) + 1
<1>0. Len(answers) \in 0 .. Len(Outgoing) /\ Len(Outgoing) \in Nat
  BY EndsAre DEF ChunksInv, AnswersAre
<1>1. PICK k \in 0 .. Len(Outgoing) : k = Len(answers)
  BY <1>0
<1>2. port \in Seq(Byte) /\ Len(port) \in Nat /\ Len(coming) \in Nat /\ Place \in Nat /\ (Place + Len(port)) + Len(coming) = Len(Stream)
  BY DEF ChunksInv, At
<1>3. ASSUME fresh > 0
      PROVE  k < Len(Outgoing) /\ Ends(k + 1) <= Place + Len(port)
  <2>1. k + 1 <= C!Complete(Len(coming)) /\ C!Complete(Len(coming)) \in Nat
    BY <1>1, <1>3 DEF ChunksInv, SignalsAre
  <2>2. C!Complete(Len(coming)) <= Len(Outgoing)
    BY <1>2, CompleteIs
  <2>3. k \in 0 .. Len(Outgoing) - 1 /\ k + 1 \in 0 .. Len(Outgoing)
    BY <1>0, <2>1, <2>2
  <2>4. ~(Ends(k + 1) + Len(coming) > Len(Stream))
    BY <1>2, <2>1, <2>3, CompleteIs
  <2>5. Ends(k + 1) \in Nat /\ Stream \in Seq(Byte)
    BY <2>3, EndsAre
  <2> QED
    BY <1>2, <2>3, <2>4, <2>5
<1>4. CASE restPending # 0
  <2>1. k < Len(Outgoing) /\ restPending = Len(Outgoing[k + 1]) - 3 /\ Place = Ends(k) + 3
    BY <1>1, <1>4 DEF ChunksInv, PendingIs, Place
  <2>2. k \in 0 .. Len(Outgoing) - 1
    BY <1>0, <2>1
  <2>3. Len(Outgoing[k + 1]) \in 8 .. 64 /\ Ends(k + 1) = Ends(k) + Len(Outgoing[k + 1]) /\ Ends(k) \in Nat
    BY <2>2, EndsAre
  <2>4. C!Rest(port, restPending)
    BY <1>4 DEF C!SlotReadyRead, C!NoFrame
  <2>5. At(port, coming, Ends(Len(answers)) + 3) /\ AnswersAre
    BY <1>1, <2>1 DEF ChunksInv
  <2>6. /\ AnswersAre' /\ PendingIs' /\ At(port', coming', Place')
        /\ Len(answers') = IF Len(port) < restPending THEN Len(answers) ELSE Len(answers) + 1
    BY <1>1, <2>1, <2>4, <2>5, RestReads
  <2>7. fresh > 0 => ~(Len(port) < restPending)
    <3> SUFFICES ASSUME fresh > 0
                 PROVE  ~(Len(port) < restPending)
      OBVIOUS
    <3>1. Ends(k + 1) <= (Ends(k) + 3) + Len(port)
      BY <1>3, <2>1
    <3>2. Ends(k) + Len(Outgoing[k + 1]) <= (Ends(k) + 3) + Len(port)
      BY <2>3, <3>1
    <3> QED
      BY <1>2, <2>1, <2>3, <3>2, Enough
  <2> QED
    BY <1>1, <2>6, <2>7
<1>5. CASE restPending = 0
  <2>1. Place = Ends(k) /\ Ends(k) + 0 = Ends(k) /\ Ends(k) \in Nat
    BY <1>1, <1>5, EndsAre DEF Place
  <2>2. At(port, coming, Ends(k) + 0)
    BY <2>1 DEF ChunksInv
  <2>3. CASE Len(port) < 3
    <3>1. port' = port /\ restPending' = restPending /\ answers' = answers
      BY <1>2, <1>5, <2>3 DEF C!SlotReadyRead, C!NoFrame
    <3>2. ~(fresh > 0)
      <4> SUFFICES ASSUME fresh > 0
                   PROVE  FALSE
        OBVIOUS
      <4>1. k \in 0 .. Len(Outgoing) - 1 /\ Ends(k + 1) <= Ends(k) + Len(port)
        BY <1>0, <1>3, <2>1
      <4>2. Len(Outgoing[k + 1]) \in 8 .. 64 /\ Ends(k + 1) = Ends(k) + Len(Outgoing[k + 1])
        BY <4>1, EndsAre
      <4>3. PICK a \in Nat, b \in Nat, c \in 8 .. 64 : a = Ends(k) /\ b = Len(port) /\ c = Len(Outgoing[k + 1])
        BY <1>2, <2>1, <4>2
      <4>4. a + c <= a + b /\ b < 3
        BY <2>3, <4>1, <4>2, <4>3
      <4> QED
        BY <4>4, TooFew
    <3>3. AnswersAre' /\ PendingIs' /\ Place' = Place
      BY <3>1 DEF ChunksInv, AnswersAre, PendingIs, Place
    <3>4. At(port', coming', Place')
      BY <3>1, <3>3 DEF ChunksInv
    <3> QED
      BY <1>1, <3>1, <3>2, <3>3, <3>4
  <2>4. CASE ~(Len(port) < 3)
    <3>1. Len(port) >= 3
      BY <1>2, <2>4
    <3>2. k < Len(Outgoing) /\ \A i \in 1 .. Len(port) : 0 + i <= Len(Outgoing[k + 1]) => port[i] = Outgoing[k + 1][0 + i]
      <4>1. Len(port) >= 1 /\ 0 \in 0 .. 8 /\ ~(0 > 0)
        BY <1>2, <3>1
      <4> QED
        BY <2>2, <4>1, FrameAt
    <3>3. PICK f \in Seq(Byte) : f = Outgoing[k + 1] /\ Len(f) \in 8 .. 64 /\ f[1] = 66 /\ f[2] = 83 /\ f[3] = Len(f)
      <4>1. k \in 0 .. Len(Outgoing) - 1 /\ k + 1 \in 1 .. Len(Outgoing)
        BY <1>0, <3>2
      <4>2. Outgoing[k + 1] \in Seq(Byte)
        BY <4>1, EndsAre
      <4> QED
        BY <4>1, <4>2 DEF Framed
    <3>4. port[1] = 66 /\ port[2] = 83 /\ port[3] = Len(f)
      <4>1. 1 \in 1 .. Len(port) /\ 2 \in 1 .. Len(port) /\ 3 \in 1 .. Len(port)
        BY <1>2, <3>1
      <4>2. 1 <= Len(f) /\ 2 <= Len(f) /\ 3 <= Len(f)
        BY <3>3, Enough
      <4>3. 0 + 1 = 1 /\ 0 + 2 = 2 /\ 0 + 3 = 3
        OBVIOUS
      <4> QED
        BY <3>2, <3>3, <4>1, <4>2, <4>3
    <3>5. C!Signature[1] = 66 /\ C!Signature[2] = 83 /\ C!Fits(port[3])
      <4>1. C!Signature[1] = 66 /\ C!Signature[2] = 83
        BY DEF C!Signature
      <4> QED
        BY <3>3, <3>4, <4>1 DEF C!Fits, C!HeaderSize
    <3>6. SubSeq(port, 1, 2) = C!Signature
      <4>1. PICK a : a = SubSeq(port, 1, 2)
        OBVIOUS
      <4>2. a \in Seq(Byte) /\ Len(a) = 2 /\ a[1] = 66 /\ a[2] = 83
        BY <1>2, <3>1, <3>4, <4>1
      <4>3. <<66, 83>> \in Seq(Byte)
        <5>1. \A i \in 1 .. Len(f) : f[i] \in Byte
          OBVIOUS
        <5>2. 66 \in Byte /\ 83 \in Byte
          BY <3>3, <5>1
        <5> QED
          BY <5>2
      <4>4. \A i \in 1 .. 2 : a[i] = <<66, 83>>[i]
        <5>1. \A i \in 1 .. 2 : i = 1 \/ i = 2
          OBVIOUS
        <5> QED
          BY <4>2, <5>1
      <4>5. a = <<66, 83>>
        BY <4>2, <4>3, <4>4, SeqEqual
      <4> QED
        BY <4>1, <4>5 DEF C!Signature
    <3>7. C!Rest(C!Skip(port, 3), C!Body(port[3]))
      BY <1>2, <1>5, <3>1, <3>4, <3>5, <3>6 DEF C!SlotReadyRead, C!NoFrame
    <3>8. C!Body(port[3]) = Len(Outgoing[k + 1]) - 3
      BY <3>3, <3>4 DEF C!Body
    <3>9. At(C!Skip(port, 3), coming, (Ends(k) + 0) + 3) /\ Len(C!Skip(port, 3)) = Len(port) - 3
      <4>1. 3 \in 0 .. Len(port)
        BY <1>2, <3>1
      <4> QED
        BY <2>2, <4>1, SkipAt DEF C!Skip
    <3>10. At(C!Skip(port, 3), coming, Ends(Len(answers)) + 3) /\ AnswersAre /\ Len(answers) < Len(Outgoing)
      BY <1>1, <2>1, <3>2, <3>9 DEF ChunksInv
    <3>11. PICK z : z = C!Body(port[3]) /\ z = Len(Outgoing[Len(answers) + 1]) - 3
      BY <1>1, <3>8
    <3>12. /\ AnswersAre' /\ PendingIs' /\ At(port', coming', Place')
           /\ Len(answers') = IF Len(C!Skip(port, 3)) < z THEN Len(answers) ELSE Len(answers) + 1
      BY <3>7, <3>10, <3>11, RestReads
    <3>13. fresh > 0 => ~(Len(C!Skip(port, 3)) < z)
      <4> SUFFICES ASSUME fresh > 0
                   PROVE  ~(Len(C!Skip(port, 3)) < z)
        OBVIOUS
      <4>1. Ends(k + 1) <= Ends(k) + Len(port) /\ k \in 0 .. Len(Outgoing) - 1
        BY <1>0, <1>3, <2>1
      <4>2. Ends(k + 1) = Ends(k) + Len(f)
        BY <3>3, <4>1, EndsAre
      <4>3. z = Len(f) - 3
        BY <1>1, <3>3, <3>11
      <4>4. PICK a \in Nat, b \in Nat, c \in 8 .. 64 : a = Ends(k) /\ b = Len(port) /\ c = Len(f)
        BY <1>2, <2>1, <3>3
      <4>5. a + c <= a + b /\ z = c - 3 /\ Len(C!Skip(port, 3)) = b - 3
        BY <3>9, <4>1, <4>2, <4>3, <4>4
      <4> QED
        BY <4>4, <4>5
    <3> QED
      BY <1>1, <3>12, <3>13
  <2> QED
    BY <2>3, <2>4
<1> QED
  BY <1>4, <1>5

\* Nothing is said once a byte has been damaged or lost.
Unharmed == harmed \in Nat /\ (harmed = 0 => ChunksInv)

LEMMA ChunksStart == ASSUME Framed(64), C!Init PROVE Unharmed
<1>1. /\ coming = Stream /\ port = <<>> /\ restPending = 0 /\ answers = <<>> /\ harmed = 0 /\ fresh = -1 /\ signals = 0
  BY DEF C!Init, Stream
<1>2. Len(Outgoing) \in Nat /\ Stream \in Seq(Byte) /\ Ends(0) = 0 /\ Len(Stream) \in Nat
  BY EndsAre
<1>3. Len(answers) = 0 /\ Place = 0
  BY <1>1, <1>2 DEF Place
<1>4. AnswersAre /\ PendingIs
  BY <1>1, <1>2, <1>3 DEF AnswersAre, PendingIs
<1>5. At(port, coming, Place)
  <2>1. port \in Seq(Byte) /\ Len(port) = 0
    BY <1>1
  <2>2. \A i \in 1 .. Len(Stream) : (0 + 0) + i = i
    BY <1>2
  <2> QED
    BY <1>1, <1>2, <1>3, <2>1, <2>2 DEF At
<1>6. SignalsAre
  <2>1. C!Complete(Len(coming)) \in Nat
    BY <1>1, <1>2, CompleteIs
  <2> QED
    BY <1>1, <1>3, <2>1 DEF SignalsAre
<1> QED
  BY <1>1, <1>4, <1>5, <1>6 DEF Unharmed, ChunksInv

LEMMA ChunksArrive == ASSUME Framed(64), ChunksInv, C!Arrive PROVE ChunksInv'
<1>1. /\ coming # <<>> /\ coming' = Tail(coming) /\ port' = Append(port, Head(coming))
      /\ restPending' = restPending /\ answers' = answers /\ signals' = signals
      /\ fresh' = C!Max({fresh, 0}) + (C!Complete(Len(coming) - 1) - C!Complete(Len(coming)))
  BY DEF C!Arrive
<1>2. AnswersAre' /\ PendingIs' /\ Place' = Place
  BY <1>1 DEF ChunksInv, AnswersAre, PendingIs, Place
<1>3. At(port', coming', Place') /\ Len(coming') = Len(coming) - 1 /\ Len(coming) \in Nat /\ Len(coming) >= 1
  BY <1>1, <1>2, ArriveAt DEF ChunksInv
<1>4. PICK a \in Nat, b \in Nat : a = C!Complete(Len(coming)) /\ b = C!Complete(Len(coming')) /\ a <= b
  <2>1. Len(coming) - 1 \in Nat
    BY <1>3
  <2>2. C!Complete(Len(coming)) \in Nat /\ C!Complete(Len(coming) - 1) \in Nat /\ C!Complete(Len(coming)) <= C!Complete(Len(coming) - 1)
    BY <1>3, <2>1, CompleteIs
  <2> QED
    BY <1>3, <2>2
<1>5. PICK n \in Nat : n = C!Max({fresh, 0}) /\ Len(answers) + n <= a
  <2>1. fresh \in Nat \cup {-1} /\ Len(answers) <= a /\ (fresh > 0 => Len(answers) + fresh <= a) /\ Len(answers) \in Nat
    BY <1>4 DEF ChunksInv, SignalsAre, AnswersAre
  <2>2. CASE fresh > 0
    <3>1. PICK m \in Nat : m = fresh /\ m > 0
      BY <2>1, <2>2
    <3>2. C!Max({fresh, 0}) = m
      BY <3>1 DEF C!Max
    <3> QED
      BY <2>1, <2>2, <3>1, <3>2
  <2>3. CASE ~(fresh > 0)
    <3>1. fresh = 0 \/ fresh = -1
      BY <2>1, <2>3
    <3>2. C!Max({fresh, 0}) = 0
      BY <3>1 DEF C!Max
    <3> QED
      BY <2>1, <3>2
  <2> QED
    BY <2>2, <2>3
<1>6. fresh' = n + (b - a)
  BY <1>1, <1>3, <1>4, <1>5
<1>7. SignalsAre'
  <2>1. Len(answers') \in Nat /\ Len(answers') = Len(answers) /\ signals' \in Nat /\ signals' <= Len(answers')
    BY <1>1 DEF ChunksInv, SignalsAre, AnswersAre
  <2>2. PICK l \in Nat : l = Len(answers')
    BY <2>1
  <2>3. l + n <= a
    BY <1>5, <2>1, <2>2
  <2>4. fresh' \in Nat /\ l <= b /\ l + fresh' <= b
    <3>1. a <= b
      BY <1>4
    <3>2. n + (b - a) \in Nat /\ l <= b /\ l + (n + (b - a)) <= b
      BY <2>3, <3>1
    <3> QED
      BY <1>6, <3>2
  <2> QED
    BY <1>4, <2>1, <2>2, <2>4 DEF SignalsAre
<1> QED
  BY <1>2, <1>3, <1>7 DEF ChunksInv

LEMMA ChunksRead == ASSUME Framed(64), ChunksInv, C!ReadyRead PROVE ChunksInv'
<1>1. /\ C!SlotReadyRead(port) /\ coming' = coming /\ fresh' = -1
      /\ signals' = signals + (IF fresh > 0 THEN 1 ELSE 0)
  BY DEF C!ReadyRead
<1>2. /\ AnswersAre' /\ PendingIs' /\ At(port', coming', Place')
      /\ Len(answers') \in Nat /\ Len(answers') >= Len(answers)
      /\ fresh > 0 => Len(answers') >= Len(answers) + 1
  BY <1>1, SlotReads
<1>3. Len(answers) \in Nat /\ signals \in Nat /\ signals <= Len(answers)
  BY DEF ChunksInv, SignalsAre, AnswersAre
<1>4. signals' \in Nat /\ signals' <= Len(answers')
  BY <1>1, <1>2, <1>3
<1>5. PICK k \in 0 .. Len(Outgoing) : k = Len(answers') /\ k + 0 = k /\ Len(Outgoing) \in Nat
  BY <1>2, EndsAre DEF AnswersAre
<1>6. k <= C!Complete(Len(coming')) /\ C!Complete(Len(coming')) \in Nat
  <2>1. Len(port') \in Nat /\ Len(coming') \in Nat /\ Place' \in Nat /\ (Place' + Len(port')) + Len(coming') = Len(Stream)
    BY <1>2 DEF At
  <2>2. Ends(k) \in Nat /\ Ends(k) <= Place'
    BY <1>5, EndsAre DEF Place
  <2>3. Ends(k) + Len(coming') <= Len(Stream)
    BY <2>1, <2>2
  <2> QED
    BY <1>5, <2>1, <2>3, CompleteIs
<1>7. SignalsAre'
  BY <1>1, <1>4, <1>5, <1>6 DEF SignalsAre
<1> QED
  BY <1>2, <1>7 DEF ChunksInv

LEMMA ChunksStep == ASSUME Framed(64), Unharmed, [C!Next]_(C!chunksVars) PROVE Unharmed'
<1>1. CASE C!Arrive
  <2>1. harmed' = harmed
    BY <1>1 DEF C!Arrive
  <2>2. harmed = 0 => ChunksInv'
    BY <1>1, ChunksArrive DEF Unharmed
  <2> QED
    BY <2>1, <2>2 DEF Unharmed
<1>2. CASE C!Fault
  <2>1. harmed' = harmed + 1
    BY <1>2 DEF C!Fault
  <2> QED
    BY <2>1 DEF Unharmed
<1>3. CASE C!ReadyRead
  <2>1. harmed' = harmed
    BY <1>3 DEF C!ReadyRead
  <2>2. harmed = 0 => ChunksInv'
    BY <1>3, ChunksRead DEF Unharmed
  <2> QED
    BY <2>1, <2>2 DEF Unharmed
<1>4. CASE UNCHANGED C!chunksVars
  BY <1>4 DEF C!chunksVars, Unharmed, ChunksInv, AnswersAre, PendingIs, SignalsAre, Place, At
<1> QED
  BY <1>1, <1>2, <1>3, <1>4 DEF C!Next

LEMMA ChunksInOrder == ASSUME Framed(64), ChunksInv, harmed = 0 PROVE C!AnswersInOrder
<1>0. /\ answers \in Seq(Seq(Byte)) /\ Len(answers) \in Nat /\ Len(Outgoing) \in Nat /\ Len(answers) <= Len(Outgoing)
      /\ \A j \in 1 .. Len(answers) : answers[j] = Outgoing[j]
      /\ Outgoing \in Seq(Seq(Byte))
  BY DEF ChunksInv, AnswersAre, Framed
<1>1. DOMAIN answers = 1 .. Len(answers) /\ DOMAIN Outgoing = 1 .. Len(Outgoing) /\ 1 .. Len(answers) \subseteq 1 .. Len(Outgoing)
  BY <1>0
<1>2. C!IsPrefix(answers, Outgoing)
  <2>1. PICK a, b : a = SubSeq(answers, 1, Len(answers)) /\ b = SubSeq(Outgoing, 1, Len(answers))
    OBVIOUS
  <2>2. a \in Seq(Seq(Byte)) /\ Len(a) = Len(answers) /\ \A i \in 1 .. Len(answers) : a[i] = answers[i]
    BY <1>0, <2>1
  <2>3. b \in Seq(Seq(Byte)) /\ Len(b) = Len(answers) /\ \A i \in 1 .. Len(answers) : b[i] = Outgoing[i]
    BY <1>0, <2>1
  <2>4. a = b
    BY <1>0, <2>2, <2>3, SeqEqual
  <2> QED
    BY <1>0, <2>1, <2>4 DEF C!IsPrefix
<1>3. Len(answers) >= signals
  BY <1>0 DEF ChunksInv, SignalsAre
<1>4. C!Altered = {}
  <2>1. \A k \in DOMAIN answers : answers[k] \in C!ToSet(Outgoing)
    BY <1>0, <1>1 DEF C!ToSet
  <2> QED
    BY <2>1 DEF C!Altered
<1>5. C!Cardinality(C!Altered) = 0
  <2>1. C!Cardinality({}) = Cardinality({})
    BY DEF C!Cardinality, Cardinality
  <2> QED
    BY <1>4, <2>1, FS_EmptySet
<1>6. C!Cardinality(C!Altered) <= harmed
  BY <1>5
<1>7. \A j, k \in DOMAIN answers \ C!Altered :
        j < k => \E a, b \in DOMAIN Outgoing : a < b /\ Outgoing[a] = answers[j] /\ Outgoing[b] = answers[k]
  BY <1>0, <1>1
<1> QED
  BY <1>2, <1>3, <1>6, <1>7 DEF C!AnswersInOrder

\* On a line that has harmed nothing, for any number of frames of up to 64 bytes and however
\* their bytes come in chunks: the answers are read as they were sent, in their order, and
\* there is one at least for each signal that completed one, though slotReadyRead reads one
\* at most per signal and leaves the rest in the port (alkomanager.cpp:133-166).
THEOREM AnswersRead == ASSUME Framed(64) PROVE C!Spec => [](harmed = 0 => C!AnswersInOrder)
<1>1. C!Init => Unharmed
  BY ChunksStart
<1>2. Unharmed /\ [C!Next]_(C!chunksVars) => Unharmed'
  BY ChunksStep
<1>3. Unharmed => (harmed = 0 => C!AnswersInOrder)
  BY ChunksInOrder DEF Unharmed
<1> QED
  BY <1>1, <1>2, <1>3, PTL DEF C!Spec

-----------------------------------------------------------------------------
(* Byte by byte.                                                           *)

\* Where datagramIsPending is in the stream.
Spot == Ends(Len(handled)) + (IF sizePending = 0 THEN 0 ELSE 3)

HandledAre == /\ handled \in Seq(Seq(Byte)) /\ Len(handled) <= Len(Outgoing)
              /\ \A j \in 1 .. Len(handled) : handled[j] = Outgoing[j]

BegunIs == sizePending # 0 => Len(handled) < Len(Outgoing) /\ sizePending = Len(Outgoing[Len(handled) + 1]) - 3

FramingInv == HandledAre /\ BegunIs /\ At(buffer, line, Spot) /\ refused = 0

Unhurt == hurt = {} => FramingInv

LEMMA FramingStart == ASSUME Framed(32), F!Init PROVE Unhurt
<1>1. line = Stream /\ buffer = <<>> /\ sizePending = 0 /\ handled = <<>> /\ refused = 0
  <2>1. F!FlattenSeq(Outgoing) = Stream
    BY EndsAre
  <2> QED
    BY <2>1 DEF F!Init
<1>2. Len(Outgoing) \in Nat /\ Stream \in Seq(Byte) /\ Ends(0) = 0 /\ Len(Stream) \in Nat
  BY EndsAre
<1>3. Len(handled) = 0 /\ Spot = 0
  BY <1>1, <1>2 DEF Spot
<1>4. HandledAre /\ BegunIs
  BY <1>1, <1>2, <1>3 DEF HandledAre, BegunIs
<1>5. At(buffer, line, Spot)
  <2>1. buffer \in Seq(Byte) /\ Len(buffer) = 0
    BY <1>1
  <2>2. \A i \in 1 .. Len(Stream) : (0 + 0) + i = i
    BY <1>2
  <2> QED
    BY <1>1, <1>2, <1>3, <2>1, <2>2 DEF At
<1> QED
  BY <1>1, <1>4, <1>5 DEF Unhurt, FramingInv

\* The frame the reader is in.
LEMMA FrameDue ==
  ASSUME Framed(32), FramingInv
  PROVE  /\ Len(handled) \in 0 .. Len(Outgoing) /\ Len(Outgoing) \in Nat /\ Len(buffer) \in Nat /\ Len(line) \in Nat /\ buffer \in Seq(Byte)
         /\ Len(buffer) >= 1 => Len(handled) < Len(Outgoing)
         /\ Len(handled) < Len(Outgoing) =>
              \E f \in Seq(Byte) :
                /\ f = Outgoing[Len(handled) + 1] /\ Len(f) \in 8 .. 32 /\ f[1] = 66 /\ f[2] = 83 /\ f[3] = Len(f)
                /\ Ends(Len(handled)) \in Nat /\ Ends(Len(handled) + 1) = Ends(Len(handled)) + Len(f)
                /\ Ends(Len(handled) + 1) <= Len(Stream) /\ Len(Stream) \in Nat
                /\ Len(handled) + 1 \in 1 .. Len(Outgoing)
                /\ \A i \in 1 .. Len(buffer) : /\ sizePending = 0 /\ i <= Len(f) => buffer[i] = f[i]
                                               /\ sizePending # 0 /\ 3 + i <= Len(f) => buffer[i] = f[3 + i]
<1>0. Len(handled) \in 0 .. Len(Outgoing) /\ Len(Outgoing) \in Nat /\ Len(buffer) \in Nat /\ Len(line) \in Nat /\ buffer \in Seq(Byte)
  BY EndsAre DEF FramingInv, HandledAre, At
<1>1. PICK k \in 0 .. Len(Outgoing) : k = Len(handled) /\ Ends(k) \in Nat /\ Ends(k) + 0 = Ends(k)
  BY <1>0, EndsAre
<1>2. ASSUME sizePending = 0
      PROVE  /\ Len(buffer) >= 1 => k < Len(Outgoing)
             /\ k < Len(Outgoing) => \A i \in 1 .. Len(buffer) : 0 + i <= Len(Outgoing[k + 1]) => buffer[i] = Outgoing[k + 1][0 + i]
  <2>1. At(buffer, line, Ends(k) + 0) /\ 0 \in 0 .. 8 /\ ~(0 > 0)
    BY <1>1, <1>2 DEF FramingInv, Spot
  <2> QED
    BY <2>1, FrameAt
<1>3. ASSUME sizePending # 0
      PROVE  /\ k < Len(Outgoing)
             /\ \A i \in 1 .. Len(buffer) : 3 + i <= Len(Outgoing[k + 1]) => buffer[i] = Outgoing[k + 1][3 + i]
  <2>1. At(buffer, line, Ends(k) + 3) /\ 3 \in 0 .. 8 /\ k < Len(Outgoing)
    BY <1>1, <1>3 DEF FramingInv, Spot, BegunIs
  <2> QED
    BY <2>1, FrameAt
<1>4. ASSUME k < Len(Outgoing)
      PROVE  \E f \in Seq(Byte) :
                /\ f = Outgoing[k + 1] /\ Len(f) \in 8 .. 32 /\ f[1] = 66 /\ f[2] = 83 /\ f[3] = Len(f)
                /\ Ends(k) \in Nat /\ Ends(k + 1) = Ends(k) + Len(f)
                /\ Ends(k + 1) <= Len(Stream) /\ Len(Stream) \in Nat
                /\ k + 1 \in 1 .. Len(Outgoing)
                /\ \A i \in 1 .. Len(buffer) : /\ sizePending = 0 /\ i <= Len(f) => buffer[i] = f[i]
                                               /\ sizePending # 0 /\ 3 + i <= Len(f) => buffer[i] = f[3 + i]
  <2>1. k \in 0 .. Len(Outgoing) - 1 /\ k + 1 \in 1 .. Len(Outgoing) /\ k + 1 \in 0 .. Len(Outgoing)
    BY <1>0, <1>4
  <2>2. PICK f \in Seq(Byte) : f = Outgoing[k + 1] /\ Ends(k + 1) = Ends(k) + Len(f) /\ Ends(k + 1) <= Len(Stream) /\ Stream \in Seq(Byte)
    BY <2>1, EndsAre
  <2>3. Len(f) \in 8 .. 32 /\ f[1] = 66 /\ f[2] = 83 /\ f[3] = Len(f)
    BY <2>1, <2>2 DEF Framed
  <2>4. \A i \in 1 .. Len(buffer) : 0 + i = i
    BY <1>0
  <2>5. \A i \in 1 .. Len(buffer) : /\ sizePending = 0 /\ i <= Len(f) => buffer[i] = f[i]
                                    /\ sizePending # 0 /\ 3 + i <= Len(f) => buffer[i] = f[3 + i]
    BY <1>2, <1>3, <1>4, <2>2, <2>4
  <2>6. Len(Stream) \in Nat
    BY <2>2
  <2> QED
    BY <1>1, <2>1, <2>2, <2>3, <2>5, <2>6
<1> QED
  BY <1>0, <1>1, <1>2, <1>3, <1>4

\* A whole frame is handled.
LEMMA FrameTaken ==
  ASSUME Framed(32), F!FramingAssumption, FramingInv, Len(handled) < Len(Outgoing), line' = line,
         NEW n \in 0 .. Len(buffer), Spot + n = Ends(Len(handled) + 1), F!Take(Outgoing[Len(handled) + 1], n)
  PROVE  FramingInv'
<1>1. PICK k \in 0 .. Len(Outgoing) - 1 : k = Len(handled) /\ k + 1 \in 1 .. Len(Outgoing) /\ Len(Outgoing) \in Nat
  BY EndsAre DEF FramingInv, HandledAre
<1>2. Outgoing[k + 1] \in Seq(Byte)
  BY <1>1, EndsAre
<1>3. F!ChecksumIsValid(Outgoing[k + 1])
  <2>1. DOMAIN Outgoing = 1 .. Len(Outgoing)
    BY DEF Framed
  <2> QED
    BY <1>1, <2>1 DEF F!FramingAssumption
<1>4. handled' = Append(handled, Outgoing[k + 1]) /\ refused' = refused /\ sizePending' = 0 /\ buffer' = F!Skip(n)
  BY <1>1, <1>3 DEF F!Take, F!Judged, F!Reset
<1>5. handled \in Seq(Seq(Byte)) /\ \A j \in 1 .. k : handled[j] = Outgoing[j]
  BY <1>1 DEF FramingInv, HandledAre
<1>6. handled' \in Seq(Seq(Byte)) /\ Len(handled') = k + 1 /\ handled'[k + 1] = Outgoing[k + 1] /\ \A j \in 1 .. k : handled'[j] = handled[j]
  BY <1>1, <1>2, <1>4, <1>5, AppendProperties
<1>7. HandledAre'
  <2>1. \A j \in 1 .. k + 1 : handled'[j] = Outgoing[j]
    <3> SUFFICES ASSUME NEW j \in 1 .. k + 1
                 PROVE  handled'[j] = Outgoing[j]
      OBVIOUS
    <3>1. j = k + 1 \/ j \in 1 .. k
      BY <1>1
    <3> QED
      BY <1>5, <1>6, <3>1
  <2>2. Len(handled') <= Len(Outgoing)
    BY <1>1, <1>6
  <2> QED
    BY <1>6, <2>1, <2>2 DEF HandledAre
<1>8. BegunIs'
  BY <1>4 DEF BegunIs
<1>9. Spot' = Spot + n
  <2>1. Ends(k + 1) \in Nat
    BY <1>1, EndsAre
  <2>2. Spot' = Ends(k + 1)
    BY <1>4, <1>6, <2>1 DEF Spot
  <2> QED
    BY <1>1, <2>2
<1>10. At(F!Skip(n), line, Spot + n)
  BY SkipAt DEF F!Skip, FramingInv
<1> QED
  BY <1>4, <1>7, <1>8, <1>9, <1>10 DEF FramingInv

LEMMA FramingArrive == ASSUME Framed(32), FramingInv, F!Arrive, hurt = {}, hurt' = {} PROVE FramingInv'
<1>1. /\ line # <<>> /\ line' = Tail(line) /\ F!Receive(Head(line))
      /\ sizePending' = sizePending /\ handled' = handled /\ refused' = refused
  BY DEF F!Arrive
<1>2. hurt \cup {F!Arriving} # {}
  OBVIOUS
<1>3. buffer' = Append(buffer, Head(line))
  BY <1>1, <1>2, Zenon DEF F!Receive
<1>4. HandledAre' /\ BegunIs' /\ Spot' = Spot
  BY <1>1 DEF FramingInv, HandledAre, BegunIs, Spot
<1>5. At(buffer', line', Spot')
  BY <1>1, <1>3, <1>4, ArriveAt DEF FramingInv
<1> QED
  BY <1>1, <1>4, <1>5 DEF FramingInv

\* What there is in the buffer, and from where a frame is read, is never taken for no frame.
LEMMA FrameSeen ==
  ASSUME Framed(32), FramingInv, sizePending = 0, Len(buffer) >= 8
  PROVE  /\ Len(handled) < Len(Outgoing) /\ buffer[1] = 66 /\ buffer[2] = 83 /\ buffer[3] = Len(Outgoing[Len(handled) + 1])
         /\ buffer[3] \in 8 .. 32 /\ F!Fits(buffer[3]) /\ F!Signature[1] = 66 /\ F!Signature[2] = 83
         /\ SubSeq(buffer, 1, 2) = F!Signature
<1>1. Len(buffer) \in Nat /\ buffer \in Seq(Byte) /\ Len(buffer) >= 1
  BY FrameDue
<1>2. Len(handled) < Len(Outgoing)
  BY <1>1, FrameDue
<1>3. PICK f \in Seq(Byte) : /\ f = Outgoing[Len(handled) + 1] /\ Len(f) \in 8 .. 32 /\ f[1] = 66 /\ f[2] = 83 /\ f[3] = Len(f)
                             /\ \A i \in 1 .. Len(buffer) : i <= Len(f) => buffer[i] = f[i]
  BY <1>2, FrameDue
<1>4. buffer[1] = 66 /\ buffer[2] = 83 /\ buffer[3] = Len(f)
  <2>1. 1 \in 1 .. Len(buffer) /\ 2 \in 1 .. Len(buffer) /\ 3 \in 1 .. Len(buffer)
    BY <1>1
  <2>2. 1 <= Len(f) /\ 2 <= Len(f) /\ 3 <= Len(f)
    BY <1>3
  <2> QED
    BY <1>3, <2>1, <2>2
<1>5. F!Signature[1] = 66 /\ F!Signature[2] = 83
  BY DEF F!Signature
<1>6. F!Fits(buffer[3])
  BY <1>3, <1>4 DEF F!Fits, F!Smallest, F!Largest, F!HeaderSize
<1>7. SubSeq(buffer, 1, 2) = F!Signature
  <2>1. PICK a : a = SubSeq(buffer, 1, 2)
    OBVIOUS
  <2>2. a \in Seq(Byte) /\ Len(a) = 2 /\ a[1] = 66 /\ a[2] = 83
    BY <1>1, <1>4, <2>1
  <2>3. <<66, 83>> \in Seq(Byte)
    <3>1. \A i \in 1 .. Len(f) : f[i] \in Byte
      OBVIOUS
    <3>2. 1 \in 1 .. Len(f) /\ 2 \in 1 .. Len(f)
      BY <1>3
    <3>3. 66 \in Byte /\ 83 \in Byte
      BY <1>3, <3>1, <3>2
    <3> QED
      BY <3>3
  <2>4. \A i \in 1 .. 2 : a[i] = <<66, 83>>[i]
    <3>1. \A i \in 1 .. 2 : i = 1 \/ i = 2
      OBVIOUS
    <3> QED
      BY <2>2, <3>1
  <2>5. a = <<66, 83>>
    BY <2>2, <2>3, <2>4, SeqEqual
  <2> QED
    BY <2>1, <2>5 DEF F!Signature
<1> QED
  BY <1>2, <1>3, <1>4, <1>5, <1>6, <1>7

LEMMA Headless == \A m \in 8 .. 32 : \E n \in Nat : n = m - 3 /\ n >= 1 /\ m = n + 3
<1> TAKE m \in 8 .. 32
<1> WITNESS m - 3 \in Nat
<1> QED
  OBVIOUS

LEMMA FramingRead == ASSUME Framed(32), F!FramingAssumption, FramingInv, F!DatagramIsPending PROVE FramingInv' /\ hurt' = hurt
<1>1. CASE F!NoFrame
  <2>1. sizePending = 0 /\ Len(buffer) >= 8
    BY <1>1 DEF F!NoFrame
  <2> QED
    BY <1>1, <2>1, FrameSeen DEF F!NoFrame
<1>2. CASE F!Begin
  <2>1. /\ sizePending = 0 /\ Len(buffer) >= 8 /\ sizePending' = buffer[3] - 3 /\ buffer' = F!Skip(3)
        /\ line' = line /\ handled' = handled /\ refused' = refused /\ hurt' = hurt
    BY <1>2 DEF F!Begin
  <2>2. Len(handled) < Len(Outgoing) /\ buffer[3] = Len(Outgoing[Len(handled) + 1]) /\ buffer[3] \in 8 .. 32
    BY <2>1, FrameSeen
  <2>3. PICK n \in 8 .. 32 : n = buffer[3] /\ sizePending' = n - 3
    BY <2>1, <2>2
  <2>4. ~(sizePending' = 0)
    BY <2>3
  <2>5. HandledAre'
    BY <2>1 DEF FramingInv, HandledAre
  <2>6. BegunIs'
    BY <2>1, <2>2, <2>3 DEF BegunIs
  <2>7. Len(handled) \in 0 .. Len(Outgoing) /\ Len(buffer) \in Nat
    BY FrameDue
  <2>8. Ends(Len(handled)) \in Nat
    BY <2>7, EndsAre
  <2>9. Spot' = Spot + 3
    <3>1. Spot = Ends(Len(handled)) /\ Spot' = Ends(Len(handled)) + 3
      BY <2>1, <2>4, <2>8 DEF Spot
    <3> QED
      BY <3>1
  <2>10. 3 \in 0 .. Len(buffer)
    BY <2>1, <2>7
  <2>11. At(F!Skip(3), line, Spot + 3)
    BY <2>10, SkipAt DEF F!Skip, FramingInv
  <2> QED
    BY <2>1, <2>5, <2>6, <2>9, <2>11 DEF FramingInv
<1>3. CASE F!Whole
  <2>0. line' = line /\ hurt' = hurt /\ Len(buffer) \in Nat /\ buffer \in Seq(Byte)
    BY <1>3, FrameDue DEF F!Whole
  <2>1. CASE sizePending = 0
    <3>1. Len(buffer) >= 8 /\ Len(buffer) >= buffer[3] /\ F!Take(SubSeq(buffer, 1, buffer[3]), buffer[3])
      BY <1>3, <2>1 DEF F!Whole
    <3>2. Len(handled) < Len(Outgoing) /\ buffer[3] = Len(Outgoing[Len(handled) + 1]) /\ buffer[3] \in 8 .. 32
      BY <2>1, <3>1, FrameSeen
    <3>3. PICK f \in Seq(Byte) :
            /\ f = Outgoing[Len(handled) + 1] /\ Ends(Len(handled)) \in Nat /\ Ends(Len(handled) + 1) = Ends(Len(handled)) + Len(f)
            /\ \A i \in 1 .. Len(buffer) : i <= Len(f) => buffer[i] = f[i]
      BY <2>1, <3>2, FrameDue
    <3>4. PICK n \in 8 .. 32 : n = buffer[3] /\ n = Len(f) /\ n <= Len(buffer)
      BY <3>1, <3>2, <3>3
    <3>5. SubSeq(buffer, 1, n) = f
      <4>1. PICK a : a = SubSeq(buffer, 1, n)
        OBVIOUS
      <4>2. a \in Seq(Byte) /\ Len(a) = n /\ \A i \in 1 .. n : a[i] = buffer[i] /\ i \in 1 .. Len(buffer)
        BY <2>0, <3>4, <4>1
      <4>3. \A i \in 1 .. n : a[i] = f[i]
        BY <3>3, <3>4, <4>2
      <4>4. Len(a) = Len(f) /\ \A i \in 1 .. Len(a) : a[i] = f[i]
        BY <3>4, <4>2, <4>3
      <4> QED
        BY <4>1, <4>2, <4>4, SeqEqual
    <3>6. F!Take(Outgoing[Len(handled) + 1], n)
      BY <3>1, <3>3, <3>4, <3>5
    <3>7. n \in 0 .. Len(buffer) /\ Spot + n = Ends(Len(handled) + 1)
      <4>1. Spot = Ends(Len(handled))
        BY <2>1, <3>3 DEF Spot
      <4> QED
        BY <2>0, <3>3, <3>4, <4>1
    <3> QED
      BY <2>0, <3>2, <3>6, <3>7, FrameTaken
  <2>2. CASE sizePending # 0
    <3>1. Len(buffer) >= sizePending
          /\ F!Take(F!Signature \o <<sizePending + 3>> \o SubSeq(buffer, 1, sizePending), sizePending)
      BY <1>3, <2>2 DEF F!Whole
    <3>2. Len(handled) < Len(Outgoing) /\ sizePending = Len(Outgoing[Len(handled) + 1]) - 3
      BY <2>2 DEF FramingInv, BegunIs
    <3>3. PICK f \in Seq(Byte) :
            /\ f = Outgoing[Len(handled) + 1] /\ Ends(Len(handled)) \in Nat /\ Ends(Len(handled) + 1) = Ends(Len(handled)) + Len(f)
            /\ Len(f) \in 8 .. 32 /\ f[1] = 66 /\ f[2] = 83 /\ f[3] = Len(f)
            /\ \A i \in 1 .. Len(buffer) : 3 + i <= Len(f) => buffer[i] = f[3 + i]
      BY <2>2, <3>2, FrameDue
    <3>4. PICK n \in Nat : n = sizePending /\ n >= 1 /\ Len(f) = n + 3 /\ n <= Len(buffer)
      <4>1. PICK m \in 8 .. 32 : m = Len(f)
        BY <3>3
      <4>2. sizePending = m - 3
        BY <3>2, <3>3, <4>1
      <4>3. PICK n \in Nat : n = m - 3 /\ n >= 1 /\ m = n + 3
        BY <4>1, Headless
      <4> QED
        BY <3>1, <4>1, <4>2, <4>3
    <3>5. \A i \in 1 .. n : buffer[i] = f[3 + i]
      <4>1. \A i \in 1 .. n : i \in 1 .. Len(buffer) /\ 3 + i <= n + 3
        BY <2>0, <3>4
      <4> QED
        BY <3>3, <3>4, <4>1
    <3>6. <<66, 83>> \o <<n + 3>> \o SubSeq(buffer, 1, n) = f
      <4>1. f[3] = n + 3 /\ Len(buffer) >= n
        BY <2>0, <3>3, <3>4
      <4>2. n >= 1 /\ Len(f) = n + 3 /\ f[1] = 66 /\ f[2] = 83 /\ buffer \in Seq(Byte)
        BY <2>0, <3>3, <3>4
      <4> QED
        BY <3>5, <4>1, <4>2, FrameIs
    <3>7. F!Take(Outgoing[Len(handled) + 1], n)
      BY <3>1, <3>3, <3>4, <3>6 DEF F!Signature
    <3>8. n \in 0 .. Len(buffer) /\ Spot + n = Ends(Len(handled) + 1)
      <4>1. Spot = Ends(Len(handled)) + 3
        BY <2>2 DEF Spot
      <4>2. n \in 0 .. Len(buffer)
        BY <2>0, <3>4
      <4>3. PICK e \in Nat : e = Ends(Len(handled))
        BY <3>3
      <4>4. (e + 3) + n = e + (n + 3)
        OBVIOUS
      <4> QED
        BY <3>3, <3>4, <4>1, <4>2, <4>3, <4>4
    <3> QED
      BY <2>0, <3>2, <3>7, <3>8, FrameTaken
  <2> QED
    BY <2>1, <2>2
<1> QED
  BY <1>1, <1>2, <1>3 DEF F!DatagramIsPending

LEMMA FramingStep == ASSUME Framed(32), F!FramingAssumption, Unhurt, [F!Next]_(F!framingVars) PROVE Unhurt'
<1>1. CASE F!Arrive
  <2>1. hurt' = {} => hurt = {}
    <3>1. hurt' = hurt \/ hurt' = hurt \cup {F!Arriving}
      BY <1>1, Zenon DEF F!Arrive, F!Receive
    <3> QED
      BY <3>1
  <2> QED
    BY <1>1, <2>1, FramingArrive DEF Unhurt
<1>2. CASE F!Fault
  <2>1. hurt' = hurt \cup {F!Arriving}
    BY <1>2, Zenon DEF F!Fault
  <2>2. hurt' # {}
    BY <2>1
  <2> QED
    BY <2>2 DEF Unhurt
<1>3. CASE F!DatagramIsPending
  <2>1. hurt' = hurt
    BY <1>3, Zenon DEF F!DatagramIsPending, F!NoFrame, F!Begin, F!Whole
  <2> QED
    BY <1>3, <2>1, FramingRead DEF Unhurt
<1>4. CASE UNCHANGED F!framingVars
  BY <1>4 DEF F!framingVars, Unhurt, FramingInv, HandledAre, BegunIs, Spot, At
<1> QED
  BY <1>1, <1>2, <1>3, <1>4 DEF F!Next

LEMMA Unfinished ==
  \A e, b, t \in Nat, m \in 8 .. 32 :
    e + m <= t => ~(b < 8 /\ e + b = t) /\ ~(b < m - 3 /\ (e + 3) + b = t)
  OBVIOUS

\* Nothing stays unread.
LEMMA RestIsEnd ==
  ASSUME Framed(32), FramingInv, F!AtRest
  PROVE  Len(handled) = Len(Outgoing)
<1> SUFFICES ASSUME Len(handled) # Len(Outgoing)
             PROVE  FALSE
  OBVIOUS
<1>1. Len(handled) \in 0 .. Len(Outgoing) /\ Len(Outgoing) \in Nat /\ Len(buffer) \in Nat
  BY FrameDue
<1>2. Len(handled) < Len(Outgoing)
  BY <1>1
<1>3. PICK f \in Seq(Byte) :
        /\ f = Outgoing[Len(handled) + 1] /\ Len(f) \in 8 .. 32
        /\ Ends(Len(handled)) \in Nat /\ Ends(Len(handled) + 1) = Ends(Len(handled)) + Len(f)
        /\ Ends(Len(handled) + 1) <= Len(Stream) /\ Len(Stream) \in Nat
  BY <1>2, FrameDue
<1>4. Len(line) = 0 /\ Spot + Len(buffer) = Len(Stream) /\ Spot \in Nat
  <2>1. line = <<>> /\ At(buffer, line, Spot)
    BY DEF F!AtRest, FramingInv
  <2>2. Len(line) = 0
    BY <2>1
  <2>3. Spot \in Nat /\ (Spot + Len(buffer)) + Len(line) = Len(Stream)
    BY <2>1 DEF At
  <2> QED
    BY <1>1, <2>2, <2>3
<1>5. PICK e \in Nat, m \in 8 .. 32, b \in Nat, t \in Nat : e = Ends(Len(handled)) /\ m = Len(f) /\ b = Len(buffer) /\ t = Len(Stream) /\ e + m <= t
  BY <1>1, <1>3
<1>6. CASE sizePending = 0
  <2>1. b < 8 /\ e + b = t
    BY <1>4, <1>5, <1>6 DEF F!AtRest, Spot
  <2> QED
    BY <1>5, <2>1, Unfinished
<1>7. CASE sizePending # 0
  <2>1. sizePending = m - 3
    BY <1>3, <1>5, <1>7 DEF FramingInv, BegunIs
  <2>2. b < m - 3 /\ (e + 3) + b = t
    BY <1>4, <1>5, <1>7, <2>1 DEF F!AtRest, Spot
  <2> QED
    BY <1>5, <2>2, Unfinished
<1> QED
  BY <1>6, <1>7

LEMMA FramingDelivers ==
  ASSUME Framed(32), F!FramingAssumption, FramingInv, hurt = {}
  PROVE  F!IsPrefix(handled, Outgoing) /\ F!HandledAsSent /\ F!Recovers
<1>0. /\ handled \in Seq(Seq(Byte)) /\ Len(handled) \in Nat /\ Len(Outgoing) \in Nat /\ Len(handled) <= Len(Outgoing)
      /\ \A j \in 1 .. Len(handled) : handled[j] = Outgoing[j]
      /\ Outgoing \in Seq(Seq(Byte))
  BY DEF FramingInv, HandledAre, Framed
<1>1. DOMAIN handled = 1 .. Len(handled) /\ DOMAIN Outgoing = 1 .. Len(Outgoing) /\ 1 .. Len(handled) \subseteq 1 .. Len(Outgoing)
  BY <1>0
<1>2. F!IsPrefix(handled, Outgoing)
  <2>1. PICK a, b : a = SubSeq(handled, 1, Len(handled)) /\ b = SubSeq(Outgoing, 1, Len(handled))
    OBVIOUS
  <2>2. a \in Seq(Seq(Byte)) /\ Len(a) = Len(handled) /\ \A i \in 1 .. Len(handled) : a[i] = handled[i]
    BY <1>0, <2>1
  <2>3. b \in Seq(Seq(Byte)) /\ Len(b) = Len(handled) /\ \A i \in 1 .. Len(handled) : b[i] = Outgoing[i]
    BY <1>0, <2>1
  <2>4. a = b
    BY <1>0, <2>2, <2>3, SeqEqual
  <2> QED
    BY <1>0, <2>1, <2>4 DEF F!IsPrefix
<1>3. \A k \in 1 .. Len(handled) : F!Position(handled[k]) = k
  <2> SUFFICES ASSUME NEW k \in 1 .. Len(handled)
               PROVE  F!Position(handled[k]) = k
    OBVIOUS
  <2>1. handled[k] = Outgoing[k] /\ k \in DOMAIN Outgoing /\ Outgoing[k] \in F!ToSet(Outgoing)
    BY <1>0, <1>1 DEF F!ToSet
  <2>2. \A n \in DOMAIN Outgoing : Outgoing[n] = Outgoing[k] => n = k
    BY <2>1 DEF F!FramingAssumption
  <2>3. (CHOOSE n \in DOMAIN Outgoing : Outgoing[n] = Outgoing[k]) = k
    BY <2>1, <2>2
  <2> QED
    BY <2>1, <2>3 DEF F!Position
<1>4. F!HandledAsSent
  <2> SUFFICES ASSUME NEW k \in 1 .. Len(handled)
               PROVE  F!Position(handled[k]) > (IF k = 1 THEN 0 ELSE F!Position(handled[k - 1]))
    BY <1>1 DEF F!HandledAsSent
  <2>1. F!Position(handled[k]) = k
    BY <1>3
  <2>2. k # 1 => F!Position(handled[k - 1]) = k - 1
    <3>1. k # 1 => k - 1 \in 1 .. Len(handled)
      BY <1>0
    <3> QED
      BY <1>3, <3>1
  <2> QED
    BY <1>0, <2>1, <2>2
<1>5. F!Receivable = DOMAIN Outgoing
  <2>1. \A n \in DOMAIN Outgoing : F!Fits(Len(Outgoing[n]))
    BY <1>1 DEF Framed, F!Fits, F!Smallest, F!Largest, F!HeaderSize
  <2> QED
    BY <2>1 DEF F!Receivable
<1>6. F!Trouble = {}
  BY <1>5 DEF F!Trouble
<1>7. F!Cardinality(F!Trouble) = 0
  <2>1. F!Cardinality({}) = Cardinality({})
    BY DEF F!Cardinality, Cardinality
  <2> QED
    BY <1>6, <2>1, FS_EmptySet
<1>8. refused <= F!Cardinality(F!Trouble)
  BY <1>7 DEF FramingInv
<1>9. F!AtRest => {n \in F!Receivable : ~\E k \in DOMAIN handled : handled[k] = Outgoing[n]} = {}
  <2> SUFFICES ASSUME F!AtRest, NEW n \in DOMAIN Outgoing
               PROVE  \E k \in DOMAIN handled : handled[k] = Outgoing[n]
    BY <1>5
  <2>1. DOMAIN handled = DOMAIN Outgoing
    BY <1>1, RestIsEnd
  <2> QED
    BY <1>0, <1>1, <2>1
<1>10. F!Recovers
  BY <1>8, <1>9 DEF F!Recovers
<1> QED
  BY <1>2, <1>4, <1>10

\* While no byte was harmed by the line or dropped at a full buffer, for any number of
\* frames of up to 32 bytes and whenever loop() looks: the machine handles them as they were
\* sent, in their order and none twice, refuses none, and when nothing more arrives it has
\* handled all of them (network.cpp:20-76).
THEOREM RequestsDelivered ==
  ASSUME Framed(32), F!FramingAssumption
  PROVE  F!Spec => [](hurt = {} => F!IsPrefix(handled, Outgoing) /\ F!HandledAsSent /\ F!Recovers)
<1>1. F!Init => Unhurt
  BY FramingStart
<1>2. Unhurt /\ [F!Next]_(F!framingVars) => Unhurt'
  BY FramingStep
<1>3. Unhurt => (hurt = {} => F!IsPrefix(handled, Outgoing) /\ F!HandledAsSent /\ F!Recovers)
  BY FramingDelivers DEF Unhurt
<1> QED
  BY <1>1, <1>2, <1>3, PTL DEF F!Spec
=============================================================================
