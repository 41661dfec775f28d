---------------------------- MODULE DaemonProofs ----------------------------
(***************************************************************************)
(* Proofs about the daemon's request table, for any number of customers    *)
(* and ids. The inductive invariant is the conjunction of the three        *)
(* invariants. Steps that give no customer a new reply go through          *)
(* QuietStep, the two that do through AskingStep.                          *)
(***************************************************************************)
EXTENDS Daemon, TLAPS

Frame == [id : ReqId, cmd : Question, by : Customer \cup {Nobody}]

LEMMA NobodyIsNoCustomer == Nobody \notin Customer /\ Deleted \notin Customer /\ Absent \notin Customer
  BY DaemonAssumption

\* getID never returns 0 or 1, nor an id past the last one.
LEMMA IdInRange ==
  ASSUME NEW m \in ReqId \cup {0}, NEW k \in Nat \ {0}
  PROVE  IdAfter(m, k) \in ReqId
<1>1. LastId \in Int /\ LastId >= 3
  BY DaemonAssumption
<1> DEFINE x == (IF m < 2 THEN 1 ELSE m) - 2 + k
           d == LastId - 1
<1>2. x \in Int /\ d \in Int /\ d > 0
  BY <1>1 DEF ReqId
<1>3. x % d \in 0 .. d - 1
  BY <1>2
<1> QED
  BY <1>1, <1>3 DEF IdAfter, ReqId

LEMMA NewIdsType ==
  ASSUME DaemonTypeOK, NEW n \in Nat
  PROVE  NewIds(n) \subseteq ReqId
  BY IdInRange DEF NewIds, DaemonTypeOK

\* What get() sends is well typed, and is registered under one of the new ids.
LEMMA SentType ==
  ASSUME DaemonTypeOK, NEW cmds, Len(cmds) \in Nat \ {0}, NEW by \in Customer \cup {Nobody},
         NEW asked \in SUBSET outstanding, Sent(cmds, by, asked)
  PROVE  /\ outstanding' \subseteq Frame
         /\ \A f \in outstanding' : \/ f \in asked /\ f.id \notin NewIds(Len(cmds))
                                    \/ f.id \in NewIds(Len(cmds)) /\ f.by = by
         /\ lastId' \in ReqId \cup {0}
<1> DEFINE fresh == {[id |-> IdAfter(lastId, k), cmd |-> cmds[k], by |-> by] :
                       k \in {k \in 1 .. Len(cmds) : cmds[k] \in Question}}
<1>2. outstanding' = {f \in asked : f.id \notin NewIds(Len(cmds))} \cup fresh
  BY DEF Sent
<1>3. ASSUME NEW f \in fresh
      PROVE  f \in Frame /\ f.id \in NewIds(Len(cmds)) /\ f.by = by
  <2>1. PICK k \in 1 .. Len(cmds) : /\ cmds[k] \in Question
                                    /\ f = [id |-> IdAfter(lastId, k), cmd |-> cmds[k], by |-> by]
    BY <1>3
  <2>2. IdAfter(lastId, k) \in NewIds(Len(cmds)) /\ NewIds(Len(cmds)) \subseteq ReqId
    BY NewIdsType DEF NewIds
  <2> QED
    BY <2>1, <2>2 DEF Frame
<1>4. asked \subseteq Frame
  BY DEF DaemonTypeOK, Frame
<1>5. lastId' \in ReqId \cup {0}
  BY IdInRange DEF Sent, DaemonTypeOK
<1> QED
  BY <1>2, <1>3, <1>4, <1>5

\* The tables get() and the destructors leave.
LEMMA RegisteredFacts ==
  ASSUME NEW n \in Nat, NEW by, NEW table
  PROVE  /\ Registered(n, by, table) = [i \in ReqId |-> Registered(n, by, table)[i]]
         /\ \A i \in ReqId : Registered(n, by, table)[i] = IF i \in NewIds(n) THEN by ELSE table[i]
  BY DEF Registered

LEMMA ReleasedFacts ==
  ASSUME DaemonTypeOK, NEW c \in Customer
  PROVE  /\ Released(c) \in [ReqId -> Customer \cup {Nobody, Deleted, Absent}]
         /\ \A i \in ReqId : Released(c)[i] = IF requests[i] = c THEN Deleted ELSE requests[i]
  BY DEF Released, DaemonTypeOK

\* What is left to customers after the release of c's is as it was, and not c's.
LEMMA ReleasedCustomers ==
  ASSUME DaemonTypeOK, NEW c \in Customer, NEW i \in ReqId, Released(c)[i] \in Customer
  PROVE  Released(c)[i] = requests[i] /\ requests[i] # c
<1>1. Released(c)[i] = IF requests[i] = c THEN Deleted ELSE requests[i]
  BY ReleasedFacts
<1>2. requests[i] # c
  BY <1>1, NobodyIsNoCustomer
<1> QED
  BY <1>1, <1>2

LEMMA StaleDeleteFacts ==
  ASSUME NEW table \in [ReqId -> Customer \cup {Nobody, Deleted, Absent}],
         NEW after \in StaleDelete(table)
  PROVE  /\ after \in [ReqId -> Customer \cup {Nobody, Deleted, Absent}]
         /\ \A i \in ReqId : after[i] \in {table[i], Deleted}
<1>1. CASE after = table
  BY <1>1
<1>2. CASE \E j \in ReqId : after = [i \in ReqId |-> IF i = j THEN Deleted ELSE table[i]]
  BY <1>2
<1> QED
  BY <1>1, <1>2 DEF StaleDelete

\* A step that connects no reply to a customer.
LEMMA QuietStep ==
  ASSUME DaemonTypeOK, OwnerWaits, AnswerFindsAsker,
         requests' \in [ReqId -> Customer \cup {Nobody, Deleted, Absent}],
         outstanding' \subseteq Frame,
         \A i \in ReqId : requests'[i] \in Customer =>
            requests'[i] = requests[i] /\ state'[requests[i]] = state[requests[i]],
         \A f \in outstanding' : f \in outstanding \/ requests'[f.id] \notin Customer
  PROVE  OwnerWaits' /\ AnswerFindsAsker'
<1>1. OwnerWaits'
  BY DEF OwnerWaits
<1>2. ASSUME NEW f \in outstanding', requests'[f.id] \in Customer
      PROVE  /\ f.by = requests'[f.id]
             /\ f.cmd = IF state'[f.by] = "StateCheckDone" THEN "PING" ELSE "CHECK_AVAIL"
  <2>1. f \in outstanding /\ f.id \in ReqId
    BY <1>2 DEF Frame
  <2>2. requests'[f.id] = requests[f.id] /\ state'[requests[f.id]] = state[requests[f.id]]
    BY <1>2, <2>1
  <2> QED
    BY <1>2, <2>1, <2>2 DEF AnswerFindsAsker
<1> QED
  BY <1>1, <1>2 DEF AnswerFindsAsker

\* The step that asks for c: "table" holds no other reply of c.
LEMMA AskingStep ==
  ASSUME DaemonTypeOK, OwnerWaits, AnswerFindsAsker,
         NEW c \in Customer, NEW cmd \in {"PING", "CHECK_AVAIL"},
         NEW asked \in SUBSET outstanding,
         NEW table \in [ReqId -> Customer \cup {Nobody, Deleted, Absent}],
         \A i \in ReqId : table[i] \in Customer => table[i] = requests[i] /\ table[i] # c,
         Get(<<cmd>>, c, table, asked),
         Become(c, IF cmd = "PING" THEN "StateCheckDone" ELSE "SupplyCheckDone")
  PROVE  /\ requests' \in [ReqId -> Customer \cup {Nobody, Deleted, Absent}]
         /\ outstanding' \subseteq Frame
         /\ lastId' \in ReqId \cup {0}
         /\ OwnerWaits' /\ AnswerFindsAsker'
<1> DEFINE x == IdAfter(lastId, 1)
<1>1. x \in ReqId /\ NewIds(1) = {x} /\ Len(<<cmd>>) = 1
  BY IdInRange DEF NewIds, DaemonTypeOK
<1>2. /\ requests' \in [ReqId -> Customer \cup {Nobody, Deleted, Absent}]
      /\ requests'[x] = c
      /\ \A i \in ReqId \ {x} : requests'[i] = table[i]
  BY <1>1 DEF Get, Registered
<1>3. /\ outstanding' \subseteq Frame
      /\ lastId' \in ReqId \cup {0}
      /\ \A f \in outstanding' : \/ f \in asked /\ f.id # x
                                 \/ f.id = x /\ f.by = c
  <2>1. PICK cmds : cmds = <<cmd>>
    OBVIOUS
  <2>2. Sent(cmds, c, asked) /\ Len(cmds) = 1
    BY <1>1, <2>1 DEF Get
  <2>3. /\ outstanding' \subseteq Frame
        /\ \A f \in outstanding' : \/ f \in asked /\ f.id \notin NewIds(Len(cmds))
                                   \/ f.id \in NewIds(Len(cmds)) /\ f.by = c
        /\ lastId' \in ReqId \cup {0}
    <3>1. Len(cmds) \in Nat \ {0} /\ c \in Customer \cup {Nobody}
      BY <2>2
    <3> QED
      BY <2>2, <3>1, SentType, Zenon
  <2> QED
    BY <1>1, <2>2, <2>3
<1>4. \A f \in outstanding' : f.id = x => f.cmd = cmd
  <2>1. outstanding' = {f \in asked : f.id # x} \cup
          {[id |-> IdAfter(lastId, k), cmd |-> <<cmd>>[k], by |-> c] :
             k \in {k \in 1 .. 1 : <<cmd>>[k] \in Question}}
    BY <1>1 DEF Get, Sent
  <2>2. ASSUME NEW f \in outstanding', f.id = x
        PROVE  f.cmd = cmd
    <3>1. PICK k \in 1 .. 1 : f = [id |-> IdAfter(lastId, k), cmd |-> <<cmd>>[k], by |-> c]
      BY <2>1, <2>2
    <3> QED
      BY <3>1
  <2> QED
    BY <2>2
<1>5. /\ state'[c] = IF cmd = "PING" THEN "StateCheckDone" ELSE "SupplyCheckDone"
      /\ \A d \in Customer \ {c} : state'[d] = state[d]
  BY DEF Become
<1>6. OwnerWaits'
  <2> SUFFICES ASSUME NEW i \in ReqId, NEW d \in Customer, requests'[i] = d
               PROVE  /\ state'[d] \in {"StateCheckDone", "SupplyCheckDone"}
                      /\ \A j \in ReqId : requests'[j] = d => j = i
    BY DEF OwnerWaits
  <2>1. CASE d = c
    <3>1. \A j \in ReqId : requests'[j] = c => j = x
      BY <1>2
    <3> QED
      BY <2>1, <3>1, <1>5
  <2>2. CASE d # c
    <3>1. \A j \in ReqId : requests'[j] = d => requests[j] = d
      BY <1>2, <2>2
    <3> QED
      BY <2>2, <3>1, <1>5 DEF OwnerWaits
  <2> QED
    BY <2>1, <2>2
<1>7. ASSUME NEW f \in outstanding', requests'[f.id] \in Customer
      PROVE  /\ f.by = requests'[f.id]
             /\ f.cmd = IF state'[f.by] = "StateCheckDone" THEN "PING" ELSE "CHECK_AVAIL"
  <2>1. CASE f.id = x
    BY <1>2, <1>3, <1>4, <1>5, <2>1, <1>7
  <2>2. CASE f.id # x
    <3>1. f \in outstanding /\ f.id \in ReqId /\ requests'[f.id] = table[f.id]
      BY <1>2, <1>3, <2>2 DEF Frame
    <3>2. requests'[f.id] = requests[f.id] /\ requests[f.id] \in Customer \ {c}
      BY <1>7, <3>1
    <3> QED
      BY <3>1, <3>2, <1>5, <1>7 DEF AnswerFindsAsker
  <2> QED
    BY <2>1, <2>2
<1> QED
  BY <1>2, <1>3, <1>6, <1>7 DEF AnswerFindsAsker

IInv == DaemonTypeOK /\ OwnerWaits /\ AnswerFindsAsker

\* Undefined accesses that end the process change nothing else.
LEMMA CrashStep ==
  ASSUME IInv, Crash
  PROVE  IInv'
<1>1. /\ running' \in BOOLEAN /\ lastId' = lastId /\ requests' = requests
      /\ outstanding' = outstanding /\ state' = state
  BY DEF Crash
<1>2. DaemonTypeOK'
  BY <1>1 DEF IInv, DaemonTypeOK
<1>3. OwnerWaits' /\ AnswerFindsAsker'
  BY <1>1 DEF IInv, OwnerWaits, AnswerFindsAsker
<1> QED
  BY <1>2, <1>3 DEF IInv

LEMMA BecomeType ==
  ASSUME DaemonTypeOK, NEW c \in Customer,
         NEW s \in {"StateCheckDone", "SupplyCheckDone", "PaymentCheckDone",
                    "none", "NewCustomer"},
         Become(c, s)
  PROVE  /\ state' \in [Customer -> {"StateCheckDone", "SupplyCheckDone", "PaymentCheckDone",
                                     "none", "NewCustomer"}]
         /\ \A d \in Customer \ {c} : state'[d] = state[d]
         /\ state'[c] = s
  BY DEF Become, DaemonTypeOK

\* A customer that goes on or ends with no new reply, its old one gone from the
\* table, and maybe display requests sent.
LEMMA LeavingStep ==
  ASSUME IInv, NEW c \in Customer, NEW s \in {"PaymentCheckDone", "none"}, Become(c, s),
         running' \in BOOLEAN, lastId' \in ReqId \cup {0},
         requests' \in [ReqId -> Customer \cup {Nobody, Deleted, Absent}],
         outstanding' \subseteq Frame,
         \A i \in ReqId : requests'[i] \in Customer => requests'[i] = requests[i] /\ requests[i] # c,
         \A f \in outstanding' : f \in outstanding \/ requests'[f.id] \notin Customer
  PROVE  IInv'
<1>1. DaemonTypeOK'
  BY BecomeType DEF IInv, DaemonTypeOK, Frame
<1>2. \A i \in ReqId : requests'[i] \in Customer =>
        requests'[i] = requests[i] /\ state'[requests[i]] = state[requests[i]]
  BY BecomeType DEF IInv
<1>3. OwnerWaits' /\ AnswerFindsAsker'
  BY <1>2, QuietStep DEF IInv
<1> QED
  BY <1>1, <1>3 DEF IInv

\* The answer to PING.
LEMMA StateCheckedStep ==
  ASSUME IInv, NEW c \in Customer, NEW answer, NEW asked \in SUBSET outstanding,
         StateChecked(c, answer, asked)
  PROVE  IInv'
<1> USE DEF IInv
<1>1. /\ Released(c) \in [ReqId -> Customer \cup {Nobody, Deleted, Absent}]
      /\ \A i \in ReqId : Released(c)[i] = IF requests[i] = c THEN Deleted ELSE requests[i]
  BY ReleasedFacts
<1>2. \A i \in ReqId : Released(c)[i] \in Customer =>
        Released(c)[i] = requests[i] /\ requests[i] # c
  BY ReleasedCustomers
<1>3. asked \subseteq Frame
  BY DEF DaemonTypeOK, Frame
<1>4. CASE /\ Get(<<"CHECK_AVAIL">>, c, Released(c), asked)
           /\ Become(c, "SupplyCheckDone")
           /\ UNCHANGED running
  <2>1. /\ requests' \in [ReqId -> Customer \cup {Nobody, Deleted, Absent}]
        /\ outstanding' \subseteq Frame
        /\ lastId' \in ReqId \cup {0}
        /\ OwnerWaits' /\ AnswerFindsAsker'
    BY <1>1, <1>2, <1>4, AskingStep
  <2> QED
    BY <1>4, <2>1, BecomeType DEF DaemonTypeOK, Frame
<1>5. CASE /\ requests' = Released(c)
           /\ Become(c, "none")
           /\ outstanding' = asked
           /\ UNCHANGED <<running, lastId>>
  <2>1. running' \in BOOLEAN /\ lastId' \in ReqId \cup {0}
    BY <1>5 DEF DaemonTypeOK
  <2> QED
    BY <1>1, <1>2, <1>3, <1>5, <2>1, LeavingStep
<1>6. CASE /\ Sent(<<"SET_TEXT", "LCD_UPDATE">>, Nobody, asked)
           /\ requests' = Registered(2, Nobody, Released(c))
           /\ Become(c, "none")
           /\ UNCHANGED running
  <2>1. /\ requests' \in [ReqId -> Customer \cup {Nobody, Deleted, Absent}]
        /\ \A i \in ReqId : requests'[i] = IF i \in NewIds(2) THEN Nobody ELSE Released(c)[i]
    BY <1>1, <1>6 DEF Registered
  <2>2. ASSUME NEW i \in ReqId, requests'[i] \in Customer
        PROVE  requests'[i] = requests[i] /\ requests[i] # c
    <3>1. requests'[i] = Released(c)[i]
      BY <2>1, <2>2, NobodyIsNoCustomer
    <3> QED
      BY <1>2, <2>2, <3>1
  <2>4. /\ outstanding' \subseteq Frame
        /\ \A f \in outstanding' : f \in asked \/ f.id \in NewIds(2)
        /\ lastId' \in ReqId \cup {0}
    <3>1. PICK cmds : cmds = <<"SET_TEXT", "LCD_UPDATE">>
      OBVIOUS
    <3>2. Sent(cmds, Nobody, asked) /\ Len(cmds) = 2
      BY <1>6, <3>1
    <3>3. Len(cmds) \in Nat \ {0} /\ Nobody \in Customer \cup {Nobody}
      BY <3>2
    <3>4. /\ outstanding' \subseteq Frame
          /\ \A f \in outstanding' : \/ f \in asked /\ f.id \notin NewIds(Len(cmds))
                                     \/ f.id \in NewIds(Len(cmds)) /\ f.by = Nobody
          /\ lastId' \in ReqId \cup {0}
      BY <3>2, <3>3, SentType, Zenon
    <3> QED
      BY <3>2, <3>4
  <2>5. ASSUME NEW f \in outstanding', f \notin outstanding
        PROVE  requests'[f.id] \notin Customer
    <3>1. f.id \in NewIds(2)
      BY <2>4, <2>5
    <3>2. f.id \in ReqId
      <4>1. f \in Frame
        BY <2>4
      <4> QED
        BY <4>1 DEF Frame
    <3>3. requests'[f.id] = Nobody
      BY <2>1, <3>1, <3>2
    <3> QED
      BY <3>3, NobodyIsNoCustomer
  <2>6. running' \in BOOLEAN
    BY <1>6 DEF DaemonTypeOK
  <2> QED
    BY <1>6, <2>1, <2>2, <2>4, <2>5, <2>6, LeavingStep
<1>7. CASE Crash
  BY <1>7, CrashStep
<1> QED
  BY <1>4, <1>5, <1>6, <1>7 DEF StateChecked

\* The answer to CHECK_AVAIL.
LEMMA SupplyCheckedStep ==
  ASSUME IInv, NEW c \in Customer, NEW answer, NEW asked \in SUBSET outstanding,
         SupplyChecked(c, answer, asked)
  PROVE  IInv'
<1> USE DEF IInv
<1>1. /\ Released(c) \in [ReqId -> Customer \cup {Nobody, Deleted, Absent}]
      /\ \A i \in ReqId : Released(c)[i] = IF requests[i] = c THEN Deleted ELSE requests[i]
  BY ReleasedFacts
<1>2. asked \subseteq Frame
  BY DEF DaemonTypeOK, Frame
<1>3. CASE Crash
  BY <1>3, CrashStep
<1>4. ASSUME NEW s \in {"PaymentCheckDone", "none"}, Become(c, s),
             requests' = Released(c),
             outstanding' = asked, UNCHANGED <<running, lastId>>
      PROVE  IInv'
  <2>1. \A i \in ReqId : Released(c)[i] \in Customer =>
          Released(c)[i] = requests[i] /\ requests[i] # c
    BY ReleasedCustomers
  <2>2. running' \in BOOLEAN /\ lastId' \in ReqId \cup {0}
    BY <1>4 DEF DaemonTypeOK
  <2> QED
    BY <1>1, <1>2, <1>4, <2>1, <2>2, LeavingStep
<1> QED
  BY <1>3, <1>4 DEF SupplyChecked

\* slotReadyRead, whatever it finds under the id.
LEMMA DeliverStep ==
  ASSUME IInv, NEW i \in ReqId, NEW answer, NEW asked \in SUBSET outstanding,
         Deliver(i, answer, asked)
  PROVE  IInv'
<1>1. CASE \E c \in Customer : Handle(c, answer, asked)
  BY <1>1, StateCheckedStep, SupplyCheckedStep DEF Handle
<1>2. CASE outstanding' = asked /\ UNCHANGED <<running, lastId, requests, state>>
  <2>1. DaemonTypeOK'
    BY <1>2 DEF IInv, DaemonTypeOK
  <2>2. OwnerWaits'
    BY <1>2 DEF IInv, OwnerWaits
  <2>3. AnswerFindsAsker'
    BY <1>2 DEF IInv, AnswerFindsAsker
  <2> QED
    BY <2>1, <2>2, <2>3 DEF IInv
<1>3. CASE Crash
  BY <1>3, CrashStep
<1> QED
  BY <1>1, <1>2, <1>3 DEF Deliver

\* Requests that nobody waits for: PONG, and those of the administration page.
LEMMA NobodysStep ==
  ASSUME IInv, NEW cmds, Len(cmds) \in Nat \ {0}, Get(cmds, Nobody, requests, outstanding),
         UNCHANGED <<running, state>>
  PROVE  IInv'
<1> USE DEF IInv
<1>1. Sent(cmds, Nobody, outstanding) /\ Nobody \in Customer \cup {Nobody}
      /\ outstanding \in SUBSET outstanding
  BY DEF Get
<1>2. /\ outstanding' \subseteq Frame
      /\ \A f \in outstanding' : \/ f \in outstanding /\ f.id \notin NewIds(Len(cmds))
                                 \/ f.id \in NewIds(Len(cmds)) /\ f.by = Nobody
      /\ lastId' \in ReqId \cup {0}
  BY <1>1, SentType, Zenon
<1>3. /\ requests' \in [ReqId -> Customer \cup {Nobody, Deleted, Absent}]
      /\ \A i \in ReqId : requests'[i] = IF i \in NewIds(Len(cmds)) THEN Nobody ELSE requests[i]
  BY DEF Get, Registered, DaemonTypeOK
<1>4. ASSUME NEW f \in outstanding', f \notin outstanding
      PROVE  requests'[f.id] \notin Customer
  <2>1. f.id \in ReqId /\ f.id \in NewIds(Len(cmds))
    BY <1>2, <1>4 DEF Frame
  <2> QED
    BY <2>1, <1>3, NobodyIsNoCustomer
<1>5. ASSUME NEW i \in ReqId, requests'[i] \in Customer
      PROVE  requests'[i] = requests[i] /\ state'[requests[i]] = state[requests[i]]
  <2>1. requests'[i] = requests[i]
    BY <1>3, <1>5, NobodyIsNoCustomer
  <2>2. state' = state
    OBVIOUS
  <2> QED
    BY <2>1, <2>2
<1>6. OwnerWaits' /\ AnswerFindsAsker'
  BY <1>2, <1>3, <1>4, <1>5, QuietStep
<1>7. DaemonTypeOK'
  BY <1>2, <1>3 DEF DaemonTypeOK, Frame
<1> QED
  BY <1>6, <1>7

\* The customer's first question.
LEMMA StartStep ==
  ASSUME IInv, NEW c \in Customer, Start(c)
  PROVE  IInv'
<1> USE DEF IInv
<1>1. /\ Get(<<"PING">>, c, requests, outstanding)
      /\ Become(c, "StateCheckDone")
      /\ UNCHANGED running
  BY DEF Start
<1>2. /\ requests \in [ReqId -> Customer \cup {Nobody, Deleted, Absent}]
      /\ \A i \in ReqId : requests[i] # c
  BY DEF Start, DaemonTypeOK, OwnerWaits
<1>3. /\ requests' \in [ReqId -> Customer \cup {Nobody, Deleted, Absent}]
      /\ outstanding' \subseteq Frame
      /\ lastId' \in ReqId \cup {0}
      /\ OwnerWaits' /\ AnswerFindsAsker'
  BY <1>1, <1>2, AskingStep
<1> QED
  BY <1>1, <1>3, BecomeType DEF DaemonTypeOK, Frame

\* The customer server's answer.
LEMMA PaidStep ==
  ASSUME IInv, NEW c \in Customer, Paid(c)
  PROVE  IInv'
<1> USE DEF IInv
<1>1. /\ requests \in [ReqId -> Customer \cup {Nobody, Deleted, Absent}]
      /\ \A i \in ReqId : requests[i] # c
  BY DEF Paid, DaemonTypeOK, OwnerWaits
<1>2. CASE Crash
  BY <1>2, CrashStep
<1>3. ASSUME NEW table \in [ReqId -> Customer \cup {Nobody, Deleted, Absent}],
             \A i \in ReqId : table[i] \in {requests[i], Nobody},
             requests' \in StaleDelete(table), Become(c, "none"), UNCHANGED running,
             lastId' \in ReqId \cup {0}, outstanding' \subseteq Frame,
             \A f \in outstanding' : f \in outstanding \/ table[f.id] = Nobody
      PROVE  IInv'
  <2>1. /\ requests' \in [ReqId -> Customer \cup {Nobody, Deleted, Absent}]
        /\ \A i \in ReqId : requests'[i] \in {table[i], Deleted}
    BY <1>3, StaleDeleteFacts
  <2>2. ASSUME NEW i \in ReqId, requests'[i] \in Customer
        PROVE  requests'[i] = requests[i] /\ requests[i] # c
    <3>1. requests'[i] \in {table[i], Deleted} /\ table[i] \in {requests[i], Nobody}
      BY <1>3, <2>1
    <3>2. requests'[i] = requests[i]
      BY <2>2, <3>1, NobodyIsNoCustomer
    <3> QED
      BY <1>1, <3>2
  <2>3. ASSUME NEW f \in outstanding', f \notin outstanding
        PROVE  requests'[f.id] \notin Customer
    <3>1. f.id \in ReqId /\ table[f.id] = Nobody
      BY <1>3, <2>3 DEF Frame
    <3>2. requests'[f.id] \in {Nobody, Deleted}
      BY <2>1, <3>1
    <3> QED
      BY <3>2, NobodyIsNoCustomer
  <2>4. running' \in BOOLEAN
    BY <1>3 DEF DaemonTypeOK
  <2> QED
    BY <1>3, <2>1, <2>2, <2>3, <2>4, LeavingStep
<1>4. CASE /\ \E cmds \in Payment :
                /\ Sent(cmds, Nobody, outstanding)
                /\ requests' \in StaleDelete(Registered(Len(cmds), Nobody, requests))
           /\ Become(c, "none")
           /\ UNCHANGED running
  <2>1. PICK cmds \in Payment :
               /\ Sent(cmds, Nobody, outstanding)
               /\ requests' \in StaleDelete(Registered(Len(cmds), Nobody, requests))
    BY <1>4
  <2>2. Len(cmds) \in Nat \ {0} /\ Nobody \in Customer \cup {Nobody}
    BY <2>1 DEF Payment
  <2>3. /\ outstanding' \subseteq Frame
        /\ \A f \in outstanding' : \/ f \in outstanding /\ f.id \notin NewIds(Len(cmds))
                                   \/ f.id \in NewIds(Len(cmds)) /\ f.by = Nobody
        /\ lastId' \in ReqId \cup {0}
    <3>1. outstanding \in SUBSET outstanding
      OBVIOUS
    <3> QED
      BY <2>1, <2>2, <3>1, SentType, Zenon
  <2> DEFINE t == Registered(Len(cmds), Nobody, requests)
  <2>4. /\ t \in [ReqId -> Customer \cup {Nobody, Deleted, Absent}]
        /\ \A i \in ReqId : t[i] = IF i \in NewIds(Len(cmds)) THEN Nobody ELSE requests[i]
    BY <1>1 DEF Registered
  <2>5. \A f \in outstanding' : f \in outstanding \/ t[f.id] = Nobody
    BY <2>3, <2>4 DEF Frame
  <2>6. \A i \in ReqId : t[i] \in {requests[i], Nobody}
    BY <2>4
  <2> HIDE DEF t
  <2> QED
    BY <1>3, <1>4, <2>1, <2>3, <2>4, <2>5, <2>6 DEF t
<1>5. CASE /\ requests' \in StaleDelete(requests)
           /\ Become(c, "none")
           /\ UNCHANGED <<running, lastId, outstanding>>
  <2>1. lastId' \in ReqId \cup {0} /\ outstanding' \subseteq Frame /\ outstanding' = outstanding
    BY <1>5 DEF DaemonTypeOK, Frame
  <2> QED
    BY <1>1, <1>3, <1>5, <2>1
<1> QED
  BY <1>2, <1>4, <1>5 DEF Paid

\* m_timer.
LEMMA TimeoutStep ==
  ASSUME IInv, NEW c \in Customer, Timeout(c)
  PROVE  IInv'
<1> USE DEF IInv
<1>1. CASE Crash
  BY <1>1, CrashStep
<1>2. CASE /\ requests' \in IF \E i \in ReqId : requests[i] = c
                            THEN {Released(c)} ELSE StaleDelete(requests)
           /\ Become(c, "none")
           /\ UNCHANGED <<running, lastId, outstanding>>
  <2>1. /\ requests' \in [ReqId -> Customer \cup {Nobody, Deleted, Absent}]
        /\ \A i \in ReqId : /\ requests'[i] \in {requests[i], Deleted}
                            /\ requests[i] = c => requests'[i] = Deleted
    <3>1. CASE \E i \in ReqId : requests[i] = c
      <4>1. requests' = Released(c)
        BY <1>2, <3>1
      <4> QED
        BY <4>1, ReleasedFacts
    <3>2. CASE ~ \E i \in ReqId : requests[i] = c
      <4>1. requests' \in StaleDelete(requests)
        BY <1>2, <3>2
      <4>2. requests \in [ReqId -> Customer \cup {Nobody, Deleted, Absent}]
        BY DEF DaemonTypeOK
      <4> QED
        BY <3>2, <4>1, <4>2, StaleDeleteFacts
    <3> QED
      BY <3>1, <3>2
  <2>2. ASSUME NEW i \in ReqId, requests'[i] \in Customer
        PROVE  requests'[i] = requests[i] /\ requests[i] # c
    <3>1. requests'[i] \in {requests[i], Deleted} /\ (requests[i] = c => requests'[i] = Deleted)
      BY <2>1
    <3> QED
      BY <2>2, <3>1, NobodyIsNoCustomer
  <2>3. running' \in BOOLEAN /\ lastId' \in ReqId \cup {0} /\ outstanding' = outstanding
    BY <1>2 DEF DaemonTypeOK
  <2>4. outstanding' \subseteq Frame
    BY <2>3 DEF DaemonTypeOK, Frame
  <2> QED
    BY <1>2, <2>1, <2>2, <2>3, <2>4, LeavingStep
<1> QED
  BY <1>1, <1>2 DEF Timeout

\* A card is read.
LEMMA NewCustomerStep ==
  ASSUME IInv, NEW c \in Customer, NewCustomer(c)
  PROVE  IInv'
<1> USE DEF IInv
<1>1. /\ Become(c, "NewCustomer")
      /\ running' = running /\ lastId' = lastId
      /\ requests' = requests /\ outstanding' = outstanding
      /\ state[c] = "none"
  BY DEF NewCustomer
<1>2. DaemonTypeOK'
  BY <1>1, BecomeType DEF DaemonTypeOK
<1>3. \A i \in ReqId : requests[i] \in Customer => state'[requests[i]] = state[requests[i]]
  BY <1>1, BecomeType DEF OwnerWaits
<1>4. outstanding' \subseteq Frame /\ requests' \in [ReqId -> Customer \cup {Nobody, Deleted, Absent}]
  BY <1>1 DEF DaemonTypeOK, Frame
<1>5. OwnerWaits' /\ AnswerFindsAsker'
  BY <1>1, <1>3, <1>4, QuietStep
<1> QED
  BY <1>2, <1>5

LEMMA Inductive == IInv /\ [Next]_vars => IInv'
<1> SUFFICES ASSUME IInv, [Next]_vars
             PROVE  IInv'
  OBVIOUS
<1>1. ASSUME NEW c \in Customer, NewCustomer(c) \/ Start(c) \/ Paid(c) \/ Timeout(c)
      PROVE  IInv'
  BY <1>1, NewCustomerStep, StartStep, PaidStep, TimeoutStep
<1>2. ASSUME NEW f \in outstanding, Answered(f)
      PROVE  IInv'
  <2>1. f.id \in ReqId /\ outstanding \ {f} \in SUBSET outstanding
    BY DEF IInv, DaemonTypeOK
  <2> QED
    BY <1>2, <2>1, DeliverStep DEF Answered
<1>3. ASSUME NEW i \in ReqId, NEW answer \in Answer, Damaged(i, answer)
      PROVE  IInv'
  <2>1. outstanding \in SUBSET outstanding
    OBVIOUS
  <2> QED
    BY <1>3, <2>1, DeliverStep DEF Damaged
<1>4. CASE Pinged
  <2>1. PICK cmds : cmds = <<"PONG">>
    OBVIOUS
  <2>2. /\ Len(cmds) \in Nat \ {0} /\ Get(cmds, Nobody, requests, outstanding)
        /\ UNCHANGED <<running, state>>
    BY <1>4, <2>1 DEF Pinged
  <2> QED
    BY <2>2, NobodysStep
<1>5. ASSUME NEW cmds \in Page, Ask(cmds)
      PROVE  IInv'
  <2>1. Len(cmds) \in Nat \ {0}
    BY DEF Page
  <2>2. Get(cmds, Nobody, requests, outstanding) /\ UNCHANGED <<running, state>>
    BY <1>5 DEF Ask
  <2> QED
    BY <2>1, <2>2, NobodysStep
<1>6. CASE UNCHANGED vars
  <2>1. DaemonTypeOK'
    BY <1>6 DEF IInv, DaemonTypeOK, vars
  <2>2. OwnerWaits'
    BY <1>6 DEF IInv, OwnerWaits, vars
  <2>3. AnswerFindsAsker'
    BY <1>6 DEF IInv, AnswerFindsAsker, vars
  <2> QED
    BY <2>1, <2>2, <2>3 DEF IInv
<1> QED
  BY <1>1, <1>2, <1>3, <1>4, <1>5, <1>6 DEF Next

LEMMA Initially == Init => IInv
<1> SUFFICES ASSUME Init
             PROVE  IInv
  OBVIOUS
<1>1. DaemonTypeOK
  BY DEF Init, DaemonTypeOK
<1>2. OwnerWaits
  BY NobodyIsNoCustomer DEF Init, OwnerWaits
<1>3. AnswerFindsAsker
  BY DEF Init, AnswerFindsAsker
<1> QED
  BY <1>1, <1>2, <1>3 DEF IInv

\* THEOREM 1: ids stay clear of the reserved 0 and 1, and every table entry and
\* customer of a known kind.
THEOREM DaemonTypeCorrect == Spec => []DaemonTypeOK
<1>1. IInv => DaemonTypeOK
  BY DEF IInv
<1> QED
  BY <1>1, Initially, Inductive, PTL DEF Spec

\* THEOREM 2: the table names a customer only while it waits on that reply.
THEOREM TableSound == Spec => []OwnerWaits
<1>1. IInv => OwnerWaits
  BY DEF IInv
<1> QED
  BY <1>1, Initially, Inductive, PTL DEF Spec

\* THEOREM 3: an answer that finds a customer finds the one that asked, in the
\* state it asked in.
THEOREM AnswerMatched == Spec => []AnswerFindsAsker
<1>1. IInv => AnswerFindsAsker
  BY DEF IInv
<1> QED
  BY <1>1, Initially, Inductive, PTL DEF Spec
=============================================================================
