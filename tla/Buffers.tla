------------------------------ MODULE Buffers -------------------------------
(***************************************************************************)
(* The datagrams of the firmware as objects: every Datagram (src/arduino/  *)
(* datagram.cpp) is a handle on a buffer of the heap that counts its       *)
(* handles. A handle lives in a variable: of datagramIsPending ("pending"),*)
(* handleDatagram ("param") and sendCommand ("command"), m_datagram        *)
(* ("member"), of datagramHandler ("handler"), the answers it or the       *)
(* machine makes ("outer", "inner") and sendDatagram's copy ("sent").      *)
(***************************************************************************)
EXTENDS Integers, FiniteSets

CONSTANTS Buffer,               \* what malloc can return; it never fails
          NoBuffer,             \* the null pointer
          Frame                 \* what arrives on the line

ASSUME BuffersAssumption == NoBuffer \notin Buffer

Variable == {"pending", "param", "command", "member", "handler", "outer", "inner", "sent"}

VARIABLES heap,                 \* buffers allocated and not freed
          refs,                 \* the reference count in each buffer, a byte
          holds,                \* the frame that was written into each buffer
          handle,               \* the buffer of each variable, or NoBuffer
          at,                   \* where the processor is in network.cpp
          received              \* the frame datagramIsPending has read last

buffersVars == <<heap, refs, holds, handle, at, received>>

Position == {"wait", "check", "nak", "drop", "handle", "keep", "unparam", "unpending",
             "get", "handler"}

Own == "own"                    \* the contents of an answer

BuffersTypeOK == /\ heap \subseteq Buffer
                 /\ refs \in [Buffer -> 0 .. 255]
                 /\ holds \in [Buffer -> Frame \cup {Own}]
                 /\ handle \in [Variable -> Buffer \cup {NoBuffer}]
                 /\ at \in Position
                 /\ received \in Frame \cup {Own}

Init == /\ heap = {}
        /\ refs = [b \in Buffer |-> 0]
        /\ holds = [b \in Buffer |-> Own]
        /\ handle = [v \in Variable |-> NoBuffer]
        /\ at = "wait" /\ received = Own
-----------------------------------------------------------------------------
(***************************************************************************)
(* The constructors and the destructor.                                    *)
(***************************************************************************)
Empty(v) == handle[v] = NoBuffer

Allocate(v, contents) ==
  \E b \in Buffer \ heap : /\ Empty(v)
                           /\ heap' = heap \cup {b}
                           /\ refs' = [refs EXCEPT ![b] = 1]
                           /\ holds' = [holds EXCEPT ![b] = contents]
                           /\ handle' = [handle EXCEPT ![v] = b]

\* Mutant: the copy is not counted.
CopyUncounted(v, from) == /\ Empty(v) /\ ~Empty(from)
                          /\ handle' = [handle EXCEPT ![v] = handle[from]]
                          /\ UNCHANGED <<heap, refs, holds>>

Copy(v, from) == /\ Empty(v) /\ ~Empty(from)
                 /\ refs' = [refs EXCEPT ![handle[from]] = (@ + 1) % 256]
                 /\ handle' = [handle EXCEPT ![v] = handle[from]]
                 /\ UNCHANGED <<heap, holds>>

Release(v) == /\ ~Empty(v)
              /\ \/ /\ refs[handle[v]] = 1
                    /\ heap' = heap \ {handle[v]}
                    /\ UNCHANGED refs
                 \/ /\ refs[handle[v]] # 1
                    /\ refs' = [refs EXCEPT ![handle[v]] = (@ - 1) % 256]
                    /\ UNCHANGED heap
              /\ handle' = [handle EXCEPT ![v] = NoBuffer]
              /\ UNCHANGED holds
-----------------------------------------------------------------------------
(***************************************************************************)
(* datagramIsPending, handleDatagram and getPendingDatagram.               *)
(***************************************************************************)
Go(from, to) == at = from /\ at' = to

Arrive(f) == /\ Go("wait", "check") /\ Empty("outer")
             /\ Allocate("pending", f)
             /\ received' = f

Refuse == /\ Go("check", "nak") /\ Allocate("command", Own) /\ UNCHANGED received

Refused == \/ Go("nak", "drop") /\ Release("command") /\ UNCHANGED received
           \/ Go("drop", "wait") /\ Release("pending") /\ UNCHANGED received

Accept == Go("check", "handle") /\ Copy("param", "pending") /\ UNCHANGED received

\* Mutant: the previous datagram is overwritten and not deleted.
Abandon == /\ Go("handle", "keep")
           /\ handle' = [handle EXCEPT !["member"] = NoBuffer]
           /\ UNCHANGED <<heap, refs, holds, received>>

\* The previous datagram, if there is one.
Delete == /\ Go("handle", "keep") /\ UNCHANGED received
          /\ \/ Release("member")
             \/ Empty("member") /\ UNCHANGED <<heap, refs, holds, handle>>

Keep == Go("keep", "unparam") /\ Copy("member", "param") /\ UNCHANGED received

Leave == \/ Go("unparam", "unpending") /\ Release("param") /\ UNCHANGED received
         \/ Go("unpending", "get") /\ Release("pending") /\ UNCHANGED received

GetPending == Go("get", "handler") /\ Copy("handler", "member") /\ UNCHANGED received
-----------------------------------------------------------------------------
(***************************************************************************)
(* datagramHandler, and the messages of the machine itself. An answer is   *)
(* sent, or the datagram received; two answers may be in scope at once,    *)
(* that of SET_STATE, say, and emitCurrentState's.                         *)
(***************************************************************************)
Answering == at \in {"wait", "handler"} /\ UNCHANGED <<at, received>>

Answer == /\ Answering
          /\ \/ Allocate("outer", Own)
             \/ at = "handler" /\ ~Empty("outer") /\ Empty("sent") /\ Allocate("inner", Own)

SendDatagram(v) == Answering /\ Copy("sent", v)

Sent == Answering /\ Release("sent")

AnswerDone == /\ Answering /\ Empty("sent")
              /\ Release("inner") \/ (Empty("inner") /\ Release("outer"))

HandlerDone == /\ Go("handler", "wait") /\ Empty("outer")
               /\ Empty("sent")
               /\ Release("handler")
               /\ UNCHANGED received

\* The heap is set up anew, and m_datagram is null again.
Reset == /\ heap' = {}
         /\ handle' = [v \in Variable |-> NoBuffer]
         /\ at' = "wait"
         /\ UNCHANGED <<refs, holds, received>>

Next == \/ \E f \in Frame : Arrive(f)
        \/ Refuse \/ Refused \/ Accept \/ Delete \/ Keep \/ Leave \/ GetPending
        \/ Answer \/ (\E v \in {"handler", "outer", "inner"} : SendDatagram(v))
        \/ Sent \/ AnswerDone \/ HandlerDone
        \/ Reset

Spec == Init /\ [][Next]_buffersVars
-----------------------------------------------------------------------------
Handles(b) == {v \in Variable : handle[v] = b}

\* The count in a buffer (datagram.cpp:27-53) is the number of its handles: no buffer is freed
\* while a variable still uses it, none is lost, and the byte never overflows.
CountsAreHandles == \A b \in Buffer : /\ b \in heap <=> Handles(b) # {}
                                      /\ b \in heap => refs[b] = Cardinality(Handles(b))

\* While a datagram is handled its buffer, which m_datagram shares, holds the frame
\* that was received, whatever answers are made meanwhile.
HandlerSeesReceived == at = "handler" => holds[handle["handler"]] = received

=============================================================================
