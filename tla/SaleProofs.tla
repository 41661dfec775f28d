----------------------------- MODULE SaleProofs -----------------------------
(***************************************************************************)
(* Theorems about Sale, for any number of columns, customers, intervals    *)
(* and lost frames: in the whole system the firmware behaves as Dixie says *)
(* it does, no drink falls that was not granted, and whoever is granted    *)
(* one gets a try.                                                         *)
(***************************************************************************)
EXTENDS Sale, DixieProofs

\* What is on the line to the machine the daemon has asked.
LineOK == toMachine \in Seq(Asked)

\* Frames that are asked for lie behind those on the line.
LEMMA AskAppends ==
  ASSUME LineOK, NEW cmds \in Seq(Question), NEW id \in Asker, Ask(cmds, id)
  PROVE  /\ LineOK'
         /\ Len(toMachine') = Len(toMachine) + Len(cmds)
         /\ \A k \in 1 .. Len(toMachine) : toMachine'[k] = toMachine[k]
         /\ \A k \in 1 .. Len(cmds) : toMachine'[Len(toMachine) + k] = Datagram(cmds[k], id, <<>>)
<1> DEFINE frames == [k \in DOMAIN cmds |-> Datagram(cmds[k], id, <<>>)]
<1>1. frames \in Seq(Asked) /\ Len(frames) = Len(cmds)
  <2>1. \A k \in 1 .. Len(cmds) : cmds[k] \in Question
    OBVIOUS
  <2>2. \A k \in 1 .. Len(cmds) : frames[k] \in Asked
    <3>1. ASSUME NEW cmd \in Question PROVE Datagram(cmd, id, <<>>) \in Asked
      BY <3>1 DEF Asked
    <3> QED
      BY <2>1, <3>1
  <2>3. PICK m \in Nat : m = Len(cmds)
    OBVIOUS
  <2>4. DOMAIN cmds = 1 .. m
    BY <2>3
  <2>5. frames \in [1 .. m -> Asked]
    BY <2>2, <2>3, <2>4, Zenon
  <2> QED
    BY <2>3, <2>5
<1>2. toMachine' = toMachine \o frames
  BY DEF Ask
<1>3. \A k \in 1 .. Len(cmds) : frames[k] = Datagram(cmds[k], id, <<>>)
  OBVIOUS
<1> HIDE DEF frames
<1>4. toMachine \in Seq(Asked)
  BY DEF LineOK
<1>5. /\ toMachine \o frames \in Seq(Asked)
      /\ Len(toMachine \o frames) = Len(toMachine) + Len(frames)
      /\ \A k \in 1 .. Len(toMachine) : (toMachine \o frames)[k] = toMachine[k]
      /\ \A k \in 1 .. Len(frames) : (toMachine \o frames)[Len(toMachine) + k] = frames[k]
  <2>1. ASSUME NEW t \in Seq(Asked), NEW u \in Seq(Asked)
        PROVE  /\ t \o u \in Seq(Asked) /\ Len(t \o u) = Len(t) + Len(u)
               /\ \A k \in 1 .. Len(t) : (t \o u)[k] = t[k]
               /\ \A k \in 1 .. Len(u) : (t \o u)[Len(t) + k] = u[k]
    OBVIOUS
  <2> QED
    BY <1>1, <1>4, <2>1
<1> QED
  BY <1>1, <1>2, <1>3, <1>5 DEF LineOK

\* Those of the page's are no customer's and no FETCH.
LEMMA PageFrames ==
  ASSUME NEW frames \in Page
  PROVE  /\ frames \in Seq(Asked)
         /\ \A k \in 1 .. Len(frames) : /\ frames[k].id = 0 /\ frames[k].cmd # "FETCH"
                                        /\ frames[k].cmd \in {"SHOW_INFO", "SET_STATE"} => frames[1].cmd = "SET_STATE"
<1>0. 0 \in Asker
  BY DEF Asker
<1>1. ASSUME NEW s \in {PREPARE_READY, SERVICE}, frames = SetState(s)
      PROVE  frames = <<Datagram("SET_STATE", 0, <<s>>)>> /\ Datagram("SET_STATE", 0, <<s>>) \in Asked
  BY <1>1 DEF SetState, Asked
<1>2. ASSUME NEW cmd \in {"CHECK_AVAIL", "GET_STATE", "HOME_BEGIN", "HOME_ABORT", "PING"},
             frames = <<Datagram(cmd, 0, <<>>)>>
      PROVE  Datagram(cmd, 0, <<>>) \in Asked
  BY <1>0, <1>2 DEF Question, Asked
<1>3. Datagram("GET_CONFIG", 0, <<>>) \in Asked /\ Datagram("GET_STATE", 0, <<>>) \in Asked
  BY <1>0 DEF Question, Asked
<1>4. ASSUME NEW x \in Asked, frames = <<x>>
      PROVE  frames \in Seq(Asked) /\ Len(frames) = 1 /\ frames[1] = x
  BY <1>4
<1>5. \A cmd, data : Datagram(cmd, 0, data).cmd = cmd /\ Datagram(cmd, 0, data).id = 0
  BY DEF Datagram
<1>6. CASE \E s \in {PREPARE_READY, SERVICE} : frames = SetState(s)
  <2>1. PICK s \in {PREPARE_READY, SERVICE} : frames = SetState(s)
    BY <1>6
  <2>2. frames \in Seq(Asked) /\ Len(frames) = 1 /\ frames[1] = Datagram("SET_STATE", 0, <<s>>)
    BY <1>1, <1>4, <2>1
  <2> QED
    BY <1>5, <2>2
<1>7. CASE \E cmd \in {"CHECK_AVAIL", "GET_STATE", "HOME_BEGIN", "HOME_ABORT", "PING"} : frames = <<Datagram(cmd, 0, <<>>)>>
  <2>1. PICK cmd \in {"CHECK_AVAIL", "GET_STATE", "HOME_BEGIN", "HOME_ABORT", "PING"} : frames = <<Datagram(cmd, 0, <<>>)>>
    BY <1>7
  <2>2. frames \in Seq(Asked) /\ Len(frames) = 1 /\ frames[1] = Datagram(cmd, 0, <<>>)
    BY <1>2, <1>4, <2>1
  <2> QED
    BY <1>5, <2>2
<1>8. CASE frames = <<Datagram("GET_CONFIG", 0, <<>>), Datagram("GET_STATE", 0, <<>>)>>
  <2>1. ASSUME NEW x \in Asked, NEW y \in Asked, frames = <<x, y>>
        PROVE  frames \in Seq(Asked) /\ Len(frames) = 2 /\ frames[1] = x /\ frames[2] = y
    BY <2>1
  <2>2. /\ frames \in Seq(Asked) /\ Len(frames) = 2
        /\ frames[1] = Datagram("GET_CONFIG", 0, <<>>) /\ frames[2] = Datagram("GET_STATE", 0, <<>>)
    BY <1>3, <1>8, <2>1
  <2>3. \A k \in 1 .. 2 : frames[k].id = 0 /\ frames[k].cmd \in {"GET_CONFIG", "GET_STATE"}
    BY <1>5, <2>2
  <2> QED
    BY <2>2, <2>3
<1> QED
  BY <1>6, <1>7, <1>8 DEF Page

LEMMA PageAppends ==
  ASSUME LineOK, NEW frames \in Page, toMachine' = toMachine \o frames
  PROVE  /\ LineOK' /\ Len(toMachine) \in Nat
         /\ \A k \in 1 .. Len(toMachine) : k \in 1 .. Len(toMachine') /\ toMachine'[k] = toMachine[k]
         /\ \A k \in 1 .. Len(toMachine') :
              \/ k \in 1 .. Len(toMachine) /\ toMachine'[k] = toMachine[k]
              \/ /\ k > Len(toMachine) /\ toMachine'[k].id = 0 /\ toMachine'[k].cmd # "FETCH"
                 /\ toMachine'[k].cmd \in {"SHOW_INFO", "SET_STATE"} => frames[1].cmd = "SET_STATE"
<1>1. frames \in Seq(Asked) /\ toMachine \in Seq(Asked)
  BY PageFrames DEF LineOK
<1>2. ASSUME NEW t \in Seq(Asked), NEW u \in Seq(Asked)
      PROVE  /\ t \o u \in Seq(Asked) /\ Len(t) \in Nat
             /\ \A k \in 1 .. Len(t) : k \in 1 .. Len(t \o u) /\ (t \o u)[k] = t[k]
             /\ \A k \in 1 .. Len(t \o u) : \/ k \in 1 .. Len(t)
                                            \/ k > Len(t) /\ \E j \in 1 .. Len(u) : (t \o u)[k] = u[j]
  <2>1. /\ t \o u \in Seq(Asked) /\ Len(t) \in Nat /\ Len(u) \in Nat /\ Len(t \o u) = Len(t) + Len(u)
        /\ \A k \in 1 .. Len(t \o u) : (t \o u)[k] = IF k <= Len(t) THEN t[k] ELSE u[k - Len(t)]
    OBVIOUS
  <2>2. ASSUME NEW k \in 1 .. Len(t \o u), k \notin 1 .. Len(t)
        PROVE  k > Len(t) /\ k - Len(t) \in 1 .. Len(u) /\ (t \o u)[k] = u[k - Len(t)]
    BY <2>1, <2>2
  <2>3. \A k \in 1 .. Len(t) : k \in 1 .. Len(t \o u) /\ (t \o u)[k] = t[k]
    BY <2>1
  <2> QED
    BY <2>1, <2>2, <2>3
<1> DEFINE long == toMachine \o frames
<1>3. /\ long \in Seq(Asked) /\ Len(toMachine) \in Nat
      /\ \A k \in 1 .. Len(toMachine) : k \in 1 .. Len(long) /\ long[k] = toMachine[k]
      /\ \A k \in 1 .. Len(long) : \/ k \in 1 .. Len(toMachine)
                                   \/ k > Len(toMachine) /\ \E j \in 1 .. Len(frames) : long[k] = frames[j]
  BY <1>1, <1>2
<1> HIDE DEF long
<1>4. ASSUME NEW k \in 1 .. Len(long), k \notin 1 .. Len(toMachine)
      PROVE  /\ k > Len(toMachine) /\ long[k].id = 0 /\ long[k].cmd # "FETCH"
             /\ long[k].cmd \in {"SHOW_INFO", "SET_STATE"} => frames[1].cmd = "SET_STATE"
  <2>1. PICK j \in 1 .. Len(frames) : k > Len(toMachine) /\ long[k] = frames[j]
    BY <1>3, <1>4
  <2>2. /\ frames[j].id = 0 /\ frames[j].cmd # "FETCH"
        /\ frames[j].cmd \in {"SHOW_INFO", "SET_STATE"} => frames[1].cmd = "SET_STATE"
    BY PageFrames
  <2> QED
    BY <2>1, <2>2
<1>5. toMachine' = long
  BY DEF long
<1> QED
  BY <1>3, <1>4, <1>5 DEF LineOK

\* What a customer asks for at the end: a drink after some texts, something else, or nothing.
Wants(cmds) == /\ Len(cmds) \in Nat \ {0} /\ cmds[Len(cmds)] = "FETCH"
               /\ \A j \in 1 .. Len(cmds) : j = Len(cmds) \/ cmds[j] = "LCD"

LEMMA PaidAsks ==
  ASSUME NEW c \in Customer, Paid(c)
  PROVE  \/ \E cmds \in Seq(Question) : /\ Ask(cmds, c) /\ Wants(cmds) /\ Become(c, "AllDone")
                                        /\ server[c] \in {"1", "6"} /\ untried' = untried \cup {c}
         \/ \E cmds \in Seq(Question \ {"FETCH"}) : Ask(cmds, c) /\ Become(c, "AllDone") /\ UNCHANGED untried
         \/ UNCHANGED <<toMachine, untried>> /\ (Become(c, "AllDone") \/ UNCHANGED stage)
<1> DEFINE T1 == <<"LCD", "LCD", "LCD", "FETCH">>
           T6 == <<"LCD", "LCD", "LCD", "LCD", "FETCH">>
           T2 == <<"LCD", "LCD", "LCD", "LCD", "SHOW_INFO", "LCD">>
           T3 == <<"LCD", "LCD", "SHOW_INFO", "LCD">>
<1>1. T1 \in Seq(Question) /\ Wants(T1)
  BY DEF Question, Wants
<1>2. T6 \in Seq(Question) /\ Wants(T6)
  BY DEF Question, Wants
<1>3. T2 \in Seq(Question \ {"FETCH"}) /\ T3 \in Seq(Question \ {"FETCH"})
  BY DEF Question
<1>4. \/ /\ Ask(T1, c) \/ Ask(T6, c)
         /\ server[c] \in {"1", "6"} /\ Become(c, "AllDone") /\ untried' = untried \cup {c}
      \/ (Ask(T2, c) \/ Ask(T3, c)) /\ Become(c, "AllDone") /\ UNCHANGED untried
      \/ UNCHANGED <<toMachine, untried>> /\ (Become(c, "AllDone") \/ UNCHANGED stage)
  <2>1. CASE server[c] \in {"1", "6"}
    BY <2>1, Zenon DEF Paid, Sells
  <2>2. CASE server[c] = "2"
    BY <2>2 DEF Paid, Sells
  <2>3. CASE server[c] = "3"
    BY <2>3 DEF Paid, Sells
  <2>4. CASE server[c] \notin {"1", "6", "2", "3"}
    BY <2>4 DEF Paid, Sells
  <2> QED
    BY <2>1, <2>2, <2>3, <2>4
<1> HIDE DEF T1, T2, T3, T6
<1> QED
  BY <1>1, <1>2, <1>3, <1>4

LEMMA HeadLeaves ==
  ASSUME LineOK, toMachine # <<>>, toMachine' = Tail(toMachine)
  PROVE  /\ LineOK'
         /\ Head(toMachine) = toMachine[1] /\ 1 \in 1 .. Len(toMachine)
         /\ Len(toMachine') = Len(toMachine) - 1
         /\ \A k \in 1 .. Len(toMachine') : toMachine'[k] = toMachine[k + 1]
  BY DEF LineOK

\* Every step of the customers' leaves the machine alone and asks as it should.
LEMMA LineStep ==
  ASSUME LineOK, SaleNext
  PROVE  LineOK'
<1>1. CASE Machine
  <2>1. CASE Hear
    BY <2>1, HeadLeaves DEF Hear
  <2>2. CASE Work \/ Interrupted
    BY <2>2 DEF Work, Interrupted, LineOK
  <2> QED
    BY <1>1, <2>1, <2>2 DEF Machine
<1>2. CASE Lose
  BY <1>2, HeadLeaves DEF Lose, LineOK
<1>3. CASE Press
  BY <1>3, PageAppends DEF Press
<1>4. CASE Answered
  <2>1. ASSUME NEW c \in Customer, NEW answer, StateChecked(c, answer) \/ SupplyChecked(c, answer)
        PROVE  LineOK'
    <3>1. <<"CHECK_AVAIL">> \in Seq(Question) /\ <<"LCD", "LCD">> \in Seq(Question) /\ c \in Asker
      BY DEF Question, Asker
    <3> QED
      BY <2>1, <3>1, AskAppends DEF StateChecked, SupplyChecked, LineOK
  <2>2. <<"PONG">> \in Seq(Question) /\ 0 \in Asker
    BY DEF Question, Asker
  <2> QED
    BY <1>4, <2>1, <2>2, AskAppends DEF Answered, LineOK
<1>5. ASSUME NEW c \in Customer, NewCustomer(c) \/ Decide(c) \/ Timeout(c)
      PROVE  LineOK'
  <2>1. <<"PING">> \in Seq(Question) /\ c \in Asker
    BY DEF Question, Asker
  <2> QED
    BY <1>5, <2>1, AskAppends DEF NewCustomer, Decide, Timeout, LineOK, lineVars
<1>6. ASSUME NEW c \in Customer, Paid(c)
      PROVE  LineOK'
  <2>1. UNCHANGED toMachine \/ \E cmds \in Seq(Question) : Ask(cmds, c)
    BY <1>6, PaidAsks
  <2> QED
    BY <2>1, AskAppends DEF LineOK, Asker
<1>7. ASSUME NEW v \in Visit, PressFetch(v)
      PROVE  LineOK'
  <2>1. <<"FETCH">> \in Seq(Question) /\ v \in Asker
    BY DEF Question, Asker
  <2> QED
    BY <1>7, <2>1, AskAppends DEF PressFetch
<1> QED
  BY <1>1, <1>2, <1>3, <1>4, <1>5, <1>6, <1>7 DEF SaleNext

LEMMA LineStays == LineOK /\ [SaleNext]_saleVars => LineOK'
<1>1. LineOK /\ UNCHANGED saleVars => LineOK'
  BY DEF LineOK, saleVars, lineVars
<1> QED
  BY <1>1, LineStep

LEMMA SaleStepIsDixies == LineOK /\ [SaleNext]_saleVars => [Next]_vars
<1> SUFFICES ASSUME LineOK, SaleNext
             PROVE  [Next]_vars
  BY DEF saleVars
<1>1. CASE Machine
  <2>1. CASE Hear
    <3>1. Head(toMachine) \in Request
      BY <2>1, SaleAssumption DEF Hear, LineOK
    <3> QED
      BY <2>1, <3>1 DEF Hear, Next, Environment
  <2>2. CASE Work
    BY <2>2 DEF Work, Next, Loop, Environment
  <2>3. CASE Interrupted
    BY <2>3 DEF Interrupted, Next, Environment
  <2> QED
    BY <1>1, <2>1, <2>2, <2>3 DEF Machine
<1>2. CASE ~Machine
  BY <1>2 DEF SaleNext, Lose, Press, PressFetch, Answered, NewCustomer, Decide, Paid, Timeout
<1> QED
  BY <1>1, <1>2

\* Whatever the customers, the operator and the line do, the machine's part of a behaviour is
\* one of Dixie's: each theorem about the firmware holds of the whole.
THEOREM SaleIsDixie == SaleSpec => Spec
<1>1. SaleInit => Init /\ LineOK
  BY DEF SaleInit, LineOK
<1> QED
  BY <1>1, LineStays, SaleStepIsDixies, PTL DEF SaleSpec, Spec
-----------------------------------------------------------------------------
(***************************************************************************)
(* No drink without its grant. A FETCH on the line is that of a customer   *)
(* who was granted a drink and is done, or of a press of the page's Fetch; *)
(* it has neither a drink nor the machine's attention, and is the only one *)
(* for its grant; so whom the machine works for was granted a drink and    *)
(* had none, until the column has turned.                                  *)
(***************************************************************************)

Stage == {"none", "StateCheckDone", "SupplyCheckDone", "PaymentCheckDone", "AllDone", "Expired"}

\* One for whom a column may turn.
Good(i) == i \in granted \ served

\* One whose FETCH may be on the line.
Due(i) == Good(i) /\ i # serving /\ (i \in Customer => stage[i] = "AllDone")

IsFetch(k) == k \in 1 .. Len(toMachine) /\ toMachine[k].cmd = "FETCH"

FetchesDue == /\ \A k \in 1 .. Len(toMachine) : IsFetch(k) => Due(toMachine[k].id)
              /\ \A j, k \in 1 .. Len(toMachine) :
                   IsFetch(j) /\ IsFetch(k) /\ toMachine[j].id = toMachine[k].id => j = k

\* The machine is on its way to a full turn.
Working == \/ nextState = DEPLOY
           \/ /\ currentState \in {DEPLOY, DEPLOY_ERROR}
              /\ ~(phase = "switch" /\ nextState = PREPARE_READY)

ServedDone == \A c \in Customer \cap (served \cup {serving}) : stage[c] = "AllDone"

\* What the server has granted is in its line until the customer reads it.
Promised == \A c \in Customer : server[c] \in {"1", "6"} => c \in granted

Counted == served \cup {serving} \subseteq granted \cup {0}

Line == {"none", "1", "2", "3", "6", "other", "text"}

SaleTypeOK == /\ LineOK
              /\ stage \in [Customer -> Stage]
              /\ server \in [Customer -> Line]
              /\ granted \subseteq Customer \cup Visit

SaleInv == SaleTypeOK /\ FetchesDue /\ ServedDone /\ Promised /\ Counted /\ (Working => Good(serving))

\* A datagram makes the machine start to work only if it is a FETCH it accepts.
LEMMA HeardWork ==
  ASSUME NEW d \in Request, Receive(d), Working'
  PROVE  Working \/ (d.cmd = "FETCH" /\ currentState = READY /\ tx' = <<>>)
<1> USE DEF SERVICE, PREPARE_READY, READY, DEPLOY, DEPLOY_ERROR, PREPARE_AUTO_HOME, AUTO_HOME, INFO
<1>1. /\ phase = "idle" /\ UNCHANGED currentState
      /\ nextState' = DEPLOY => \/ nextState = DEPLOY
                                \/ d.cmd = "FETCH" /\ currentState = READY /\ tx' = <<>>
  BY DEF Receive, Answer, Woken, Send, OnPing, OnPong, OnConfig, OnGetState, OnSetState,
         OnHomeAbort, OnHomeBegin, OnCheckAvail, OnFetch, OnShowInfo, OnLcd, OnOther
<1> QED
  BY <1>1 DEF Working

\* Left to itself the machine goes on with work only, and a full turn ends it.
LEMMA WorkGoesOn ==
  ASSUME TypeOK, SwitchPlan, Working',
         \/ Loop \/ Tick \/ Reset
         \/ \E r \in Reading : ForceServiceState(r)
  PROVE  ~Turn /\ Working
<1> USE DEF SERVICE, PREPARE_READY, READY, READY_WAIT, DEPLOY, DEPLOY_ERROR,
            PREPARE_AUTO_HOME, AUTO_HOME, INFO
<1>1. ~Turn
  BY DEF Turn, Working
<1> SUFFICES Working
  BY <1>1
<1>2. ASSUME NEW r0 \in Reading, NEW r \in Reading, Begin(r0, r)
      PROVE  Working
  BY <1>2 DEF Begin, stateVars, Working
<1>3. CASE NoDatagram \/ Tick
  BY <1>3 DEF NoDatagram, Tick, stateVars, Working
<1>4. CASE Update
  <2>1. phase = "update" /\ UNCHANGED currentState
    BY <1>4 DEF Update
  <2>2. CASE UpdateWaiting
    BY <2>1, <2>2 DEF UpdateWaiting, Working
  <2>3. CASE UpdatePrepareAutoHome
    BY <2>1, <2>3 DEF UpdatePrepareAutoHome, Working
  <2>4. ASSUME NEW r \in Reading, UpdateService(r) \/ UpdateReady(r) \/ UpdateReadyWait(r) \/ UpdateDeploy(r)
        PROVE  Working
    BY <2>1, <2>4 DEF UpdateService, UpdateReady, UpdateReadyWait, UpdateDeploy, Working
  <2>5. ASSUME NEW r \in Reading, UpdateAutoHome(r)
        PROVE  Working
    BY <2>1, <2>5 DEF UpdateAutoHome, StartHoming, Working
  <2> QED
    BY <1>4, <2>2, <2>3, <2>4, <2>5 DEF Update
<1>5. CASE Switch
  <2>1. CASE UNCHANGED stateVars /\ currentState = nextState
    BY <2>1, <1>5 DEF Working, stateVars, Switch
  <2>2. CASE SwitchState
    <3>1. currentState' = nextState /\ Follows(currentState, nextState) /\ phase = "switch"
      BY <2>2, <1>5 DEF SwitchState, SwitchPlan, SwitchFollows, Switch
    <3>2. CASE nextState \in {DEPLOY, DEPLOY_ERROR}
      BY <3>1, <3>2 DEF Working, Follows
    <3>3. CASE nextState \notin {DEPLOY, DEPLOY_ERROR}
      <4>1. nextState' \in {nextState, SERVICE}
        BY <2>2, <3>3 DEF SwitchState, EnterPrepareReady, EnterReady, EnterReadyWait,
                          EnterPrepareAutoHome, EnterAutoHome, StartHoming, EnterInfo
      <4> QED
        BY <4>1, <3>1, <3>3 DEF Working
    <3> QED
      BY <3>2, <3>3
  <2> QED
    BY <1>5, <2>1, <2>2 DEF Switch
<1>6. ASSUME NEW r \in Reading, ForceServiceState(r)
      PROVE  Working
  BY <1>6 DEF ForceServiceState, Working
<1>7. CASE Reset
  BY <1>7 DEF Reset, Working
<1> QED
  BY <1>2, <1>3, <1>4, <1>5, <1>6, <1>7 DEF Loop

\* Moves that ask for no FETCH and keep a customer due leave the line in order.
LEMMA FetchesStay ==
  ASSUME LineOK, FetchesDue, \A c \in granted : Due(c) => Due(c)',
         \/ UNCHANGED toMachine
         \/ toMachine # <<>> /\ toMachine' = Tail(toMachine)
         \/ \E frames \in Page : toMachine' = toMachine \o frames
         \/ \E cmds \in Seq(Question \ {"FETCH"}), id \in Asker : Ask(cmds, id)
  PROVE  FetchesDue'
<1>1. CASE UNCHANGED toMachine
  BY <1>1 DEF FetchesDue, IsFetch, Due, Good
<1>2. CASE toMachine # <<>> /\ toMachine' = Tail(toMachine)
  <2>1. /\ Len(toMachine) \in Nat
        /\ \A k \in 1 .. Len(toMachine') : toMachine'[k] = toMachine[k + 1] /\ k + 1 \in 1 .. Len(toMachine)
    <3>1. Len(toMachine) \in Nat
      BY DEF LineOK
    <3>2. /\ Len(toMachine') = Len(toMachine) - 1
          /\ \A k \in 1 .. Len(toMachine') : toMachine'[k] = toMachine[k + 1]
      BY <1>2, HeadLeaves
    <3> QED
      BY <3>1, <3>2
  <2>2. \A k \in 1 .. Len(toMachine') : IsFetch(k)' => IsFetch(k + 1)
    BY <2>1 DEF IsFetch
  <2>3. \A k \in 1 .. Len(toMachine') : IsFetch(k)' => Due(toMachine[k].id)'
    <3>1. \A k \in 1 .. Len(toMachine') : IsFetch(k)' => Due(toMachine[k + 1].id) /\ toMachine[k + 1].id \in granted
      BY <2>1, <2>2 DEF FetchesDue, Due, Good
    <3> QED
      BY <2>1, <3>1
  <2>4. ASSUME NEW j \in 1 .. Len(toMachine'), NEW k \in 1 .. Len(toMachine'),
               IsFetch(j)', IsFetch(k)', toMachine'[j].id = toMachine'[k].id
        PROVE  j = k
    <3>1. j + 1 = k + 1
      BY <2>1, <2>2, <2>4 DEF FetchesDue
    <3> QED
      BY <3>1
  <2> QED
    BY <2>3, <2>4 DEF FetchesDue
<1>3. ASSUME NEW cmds \in Seq(Question \ {"FETCH"}), NEW id \in Asker, Ask(cmds, id)
      PROVE  FetchesDue'
  <2>1. cmds \in Seq(Question)
    OBVIOUS
  <2>2. /\ Len(toMachine) \in Nat /\ Len(cmds) \in Nat
        /\ Len(toMachine') = Len(toMachine) + Len(cmds)
        /\ \A k \in 1 .. Len(toMachine) : toMachine'[k] = toMachine[k]
        /\ \A k \in 1 .. Len(cmds) : toMachine'[Len(toMachine) + k].cmd = cmds[k] /\ cmds[k] # "FETCH"
    <3>1. Len(toMachine) \in Nat /\ Len(cmds) \in Nat
      BY DEF LineOK
    <3>2. /\ Len(toMachine') = Len(toMachine) + Len(cmds)
          /\ \A k \in 1 .. Len(toMachine) : toMachine'[k] = toMachine[k]
          /\ \A k \in 1 .. Len(cmds) : toMachine'[Len(toMachine) + k] = Datagram(cmds[k], id, <<>>)
      BY <1>3, <2>1, AskAppends
    <3>3. \A k \in 1 .. Len(cmds) : cmds[k] # "FETCH"
      OBVIOUS
    <3>4. \A cmd : Datagram(cmd, id, <<>>).cmd = cmd
      BY DEF Datagram
    <3> QED
      BY <3>1, <3>2, <3>3, <3>4
  <2>3. ASSUME NEW k \in 1 .. Len(toMachine'), IsFetch(k)'
        PROVE  k \in 1 .. Len(toMachine) /\ IsFetch(k) /\ toMachine'[k] = toMachine[k]
    <3>1. CASE k > Len(toMachine)
      <4>1. k - Len(toMachine) \in 1 .. Len(cmds) /\ k = Len(toMachine) + (k - Len(toMachine))
        BY <3>1, <2>2
      <4> QED
        BY <4>1, <2>2, <2>3 DEF IsFetch
    <3> QED
      BY <3>1, <2>2, <2>3 DEF IsFetch
  <2> QED
    BY <2>3 DEF FetchesDue, Due, Good
<1>4. ASSUME NEW frames \in Page, toMachine' = toMachine \o frames
      PROVE  FetchesDue'
  <2>1. ASSUME NEW k \in 1 .. Len(toMachine'), IsFetch(k)'
        PROVE  k \in 1 .. Len(toMachine) /\ IsFetch(k) /\ toMachine'[k] = toMachine[k]
    BY <1>4, <2>1, PageAppends DEF IsFetch
  <2> QED
    BY <2>1 DEF FetchesDue, Due, Good
<1> QED
  BY <1>1, <1>2, <1>3, <1>4

\* A FETCH that is asked for by one who has none on the line and is due then.
LEMMA FetchAdded ==
  ASSUME LineOK, FetchesDue, \A c \in granted : Due(c) => Due(c)',
         NEW cmds \in Seq(Question), NEW id \in Asker, Ask(cmds, id), Wants(cmds),
         \A k \in 1 .. Len(toMachine) : IsFetch(k) => toMachine[k].id # id,
         Due(id)'
  PROVE  FetchesDue'
<1>1. /\ Len(toMachine) \in Nat /\ Len(cmds) \in Nat
      /\ Len(toMachine') = Len(toMachine) + Len(cmds)
      /\ \A k \in 1 .. Len(toMachine) : toMachine'[k] = toMachine[k]
      /\ \A k \in 1 .. Len(cmds) : toMachine'[Len(toMachine) + k] = Datagram(cmds[k], id, <<>>)
  <2>1. Len(toMachine) \in Nat /\ Len(cmds) \in Nat
    BY DEF LineOK
  <2> QED
    BY <2>1, AskAppends
<1>2. ASSUME NEW k \in 1 .. Len(toMachine'), IsFetch(k)'
      PROVE  \/ k \in 1 .. Len(toMachine) /\ IsFetch(k) /\ toMachine'[k] = toMachine[k]
             \/ k = Len(toMachine) + Len(cmds) /\ toMachine'[k].id = id
  <2>1. CASE k \in 1 .. Len(toMachine)
    BY <2>1, <1>1, <1>2 DEF IsFetch
  <2>2. CASE k \notin 1 .. Len(toMachine)
    <3>1. k - Len(toMachine) \in 1 .. Len(cmds) /\ k = Len(toMachine) + (k - Len(toMachine))
      BY <1>1, <2>2
    <3>2. PICK j \in 1 .. Len(cmds) : k = Len(toMachine) + j
      BY <3>1
    <3>3. toMachine'[k] = Datagram(cmds[j], id, <<>>)
      BY <1>1, <3>2
    <3>4. cmds[j] = "FETCH" /\ toMachine'[k].id = id
      BY <1>2, <3>3 DEF IsFetch, Datagram
    <3>5. j = Len(cmds)
      BY <3>4 DEF Wants
    <3> QED
      BY <3>2, <3>4, <3>5
  <2> QED
    BY <2>1, <2>2
<1>3. ASSUME NEW k \in 1 .. Len(toMachine), IsFetch(k)
      PROVE  Due(toMachine[k].id)' /\ toMachine[k].id # id
  <2>1. Due(toMachine[k].id) /\ toMachine[k].id \in granted
    BY <1>3 DEF FetchesDue, Due, Good
  <2> QED
    BY <1>1, <1>3, <2>1 DEF Due, Good
<1>4. \A k \in 1 .. Len(toMachine') : IsFetch(k)' => Due(toMachine[k].id)'
  <2> SUFFICES ASSUME NEW k \in 1 .. Len(toMachine'), IsFetch(k)'
               PROVE  Due(toMachine[k].id)'
    OBVIOUS
  <2>1. CASE toMachine'[k].id = id
    BY <2>1 DEF Due, Good
  <2>2. CASE k \in 1 .. Len(toMachine) /\ IsFetch(k)
    BY <2>2, <1>3
  <2> QED
    BY <1>2, <2>1, <2>2
<1>5. ASSUME NEW j \in 1 .. Len(toMachine'), NEW k \in 1 .. Len(toMachine'),
             IsFetch(j)', IsFetch(k)', toMachine'[j].id = toMachine'[k].id
      PROVE  j = k
  BY <1>2, <1>3, <1>5 DEF FetchesDue
<1> QED
  BY <1>4, <1>5 DEF FetchesDue

\* What the machine hears: an accepted FETCH makes a due customer the one it works for.
LEMMA HearSale ==
  ASSUME TypeOK, SwitchPlan, SaleInv, Hear, UNCHANGED daemonVars
  PROVE  SaleInv'
<1>0. SaleTypeOK' /\ Promised' /\ UNCHANGED <<stage, server, served, granted>>
  BY HeadLeaves DEF SaleInv, SaleTypeOK, Promised, Hear, daemonVars
<1> DEFINE d == Head(toMachine)
<1>1. /\ toMachine # <<>> /\ toMachine' = Tail(toMachine) /\ d = toMachine[1]
      /\ d \in Request /\ Receive(d)
      /\ Len(toMachine) \in Nat /\ 1 \in 1 .. Len(toMachine)
      /\ \A k \in 1 .. Len(toMachine') : toMachine'[k] = toMachine[k + 1] /\ k + 1 \in 1 .. Len(toMachine)
  <2>1. LineOK
    BY DEF SaleInv, SaleTypeOK
  <2>2. toMachine # <<>> /\ toMachine' = Tail(toMachine) /\ Receive(d)
    BY DEF Hear
  <2>3. Len(toMachine) \in Nat /\ d \in Asked
    BY <2>1, <2>2 DEF LineOK
  <2> QED
    BY <2>1, <2>2, <2>3, HeadLeaves, SaleAssumption
<1>2. CASE d.cmd = "FETCH" /\ currentState = READY /\ tx' = <<>>
  <2>1. serving' = d.id
    BY <1>2 DEF Hear
  <2>2. IsFetch(1) /\ Due(d.id)
    BY <1>1, <1>2 DEF IsFetch, SaleInv, FetchesDue
  <2>3. Good(serving)' /\ ServedDone' /\ Counted'
    BY <1>0, <2>1, <2>2 DEF Due, Good, SaleInv, ServedDone, Counted
  <2>4. FetchesDue'
    <3>1. ASSUME NEW k \in 1 .. Len(toMachine'), IsFetch(k)'
          PROVE  IsFetch(k + 1) /\ Due(toMachine[k + 1].id) /\ toMachine[k + 1].id # d.id
      BY <1>1, <2>2, <3>1 DEF IsFetch, SaleInv, FetchesDue
    <3> QED
      BY <3>1, <1>0, <1>1, <2>1 DEF FetchesDue, Due, Good, SaleInv
  <2> QED
    BY <1>0, <2>3, <2>4 DEF SaleInv
<1>3. CASE ~(d.cmd = "FETCH" /\ currentState = READY /\ tx' = <<>>)
  <2>1. UNCHANGED serving
    BY <1>3 DEF Hear
  <2>2. FetchesDue'
    BY <1>0, <1>1, <2>1, FetchesStay DEF SaleInv, SaleTypeOK, Due, Good
  <2>3. Working' => Working
    BY <1>1, <1>3, HeardWork
  <2> QED
    BY <1>0, <2>1, <2>2, <2>3 DEF SaleInv, ServedDone, Counted, Good
<1> QED
  BY <1>2, <1>3

\* The machine's own steps: a full turn serves whom it works for, and nothing else changes.
LEMMA WorkSale ==
  ASSUME TypeOK, SwitchPlan, SaleInv, Work \/ Interrupted, UNCHANGED daemonVars
  PROVE  SaleInv'
<1>1. Loop \/ Tick \/ Reset \/ \E r \in Reading : ForceServiceState(r)
  BY DEF Work, Interrupted, Loop
<1>2. UNCHANGED <<stage, server, toMachine, granted>>
  BY DEF Work, Interrupted, daemonVars
<1>3. \/ UNCHANGED <<serving, served>>
      \/ Turn /\ Good(serving) /\ serving' = 0 /\ served' = served \cup {serving}
  <2>1. Turn => Working
    BY DEF Turn, Working, DEPLOY, PREPARE_READY
  <2> QED
    BY <2>1 DEF Work, Interrupted, SaleInv
<1>4. SaleTypeOK' /\ Promised' /\ Counted'
  BY <1>2, <1>3 DEF SaleInv, SaleTypeOK, Promised, Counted, LineOK, Good
<1>5. \A c \in granted : Due(c) => Due(c)'
  BY <1>2, <1>3, SaleAssumption DEF Due, Good, SaleInv, SaleTypeOK
<1>6. FetchesDue'
  BY <1>2, <1>5, FetchesStay DEF SaleInv, SaleTypeOK
<1>7. ServedDone'
  BY <1>2, <1>3, SaleAssumption DEF SaleInv, ServedDone
<1>8. Working' => Good(serving)'
  <2>1. Working' => Working /\ ~Turn
    BY <1>1, WorkGoesOn
  <2> QED
    BY <2>1, <1>2, <1>3 DEF SaleInv, Good
<1> QED
  BY <1>4, <1>6, <1>7, <1>8 DEF SaleInv

\* The customers' and the page's steps: a FETCH is asked for by one who has just been granted
\* a drink.
LEMMA CustomersSale ==
  ASSUME SaleInv, UNCHANGED vars,
         \/ Lose \/ Press \/ Answered
         \/ \E c \in Customer : NewCustomer(c) \/ Decide(c) \/ Paid(c) \/ Timeout(c)
         \/ \E v \in Visit : PressFetch(v)
  PROVE  SaleInv'
<1>1. UNCHANGED <<serving, served>>
  BY DEF Lose, Press, PressFetch, Answered, NewCustomer, Decide, Paid, Timeout, ghostVars
<1>2. UNCHANGED Working
  BY DEF Working, vars, stateVars
<1>3. LineOK'
  BY LineStep DEF SaleInv, SaleTypeOK, SaleNext
<1> DEFINE Kept == /\ granted \subseteq granted'
                   /\ \A c \in Customer : stage[c] = "AllDone" => stage'[c] = "AllDone"
           Typed == /\ stage' \in [Customer -> Stage] /\ server' \in [Customer -> Line]
                    /\ granted' \subseteq Customer \cup Visit /\ Promised'
<1>4. ASSUME Typed, Kept, FetchesDue'
      PROVE  SaleInv'
  <2>1. SaleTypeOK' /\ Promised'
    BY <1>3, <1>4 DEF SaleTypeOK
  <2>2. ServedDone' /\ Counted'
    BY <1>1, <1>4 DEF SaleInv, ServedDone, Counted
  <2>3. Good(serving) => Good(serving)'
    BY <1>1, <1>4 DEF Good
  <2> QED
    BY <2>1, <2>2, <2>3, <1>2, <1>4 DEF SaleInv
<1>5. ASSUME Kept, NEW c \in granted, Due(c)
      PROVE  Due(c)'
  BY <1>1, <1>5 DEF Due, Good
<1>6. ASSUME NEW c \in Customer, NEW s \in Stage, Become(c, s), stage[c] # "AllDone",
             server' = server \/ server' = [server EXCEPT ![c] = "none"], UNCHANGED granted
      PROVE  Typed /\ Kept
  <2>1. stage' \in [Customer -> Stage] /\ Kept
    BY <1>6 DEF Become, SaleInv, SaleTypeOK
  <2>2. server' \in [Customer -> Line] /\ \A e \in Customer : server'[e] \in {server[e], "none"}
    BY <1>6 DEF SaleInv, SaleTypeOK, Line
  <2> QED
    BY <1>6, <2>1, <2>2 DEF SaleInv, SaleTypeOK, Promised
<1>7. ASSUME UNCHANGED daemonVars, UNCHANGED granted
      PROVE  Typed /\ Kept
  BY <1>7 DEF daemonVars, SaleInv, SaleTypeOK, Promised
<1> DEFINE Unfetched == Seq(Question \ {"FETCH"})
<1>8. ASSUME Kept,
             \/ UNCHANGED toMachine
             \/ toMachine # <<>> /\ toMachine' = Tail(toMachine)
             \/ \E frames \in Page : toMachine' = toMachine \o frames
             \/ \E cmds \in Unfetched, id \in Asker : Ask(cmds, id)
      PROVE  FetchesDue'
  BY <1>5, <1>8, FetchesStay DEF SaleInv, SaleTypeOK
<1> HIDE DEF Kept, Typed
<1>9. /\ <<"PING">> \in Unfetched /\ <<"PONG">> \in Unfetched /\ <<"CHECK_AVAIL">> \in Unfetched
      /\ <<"LCD", "LCD">> \in Unfetched
      /\ 0 \in Asker /\ \A c \in Customer : c \in Asker
  BY DEF Question, Asker
<1> HIDE DEF Unfetched
<1>10. CASE Lose
  BY <1>10, <1>4, <1>7, <1>8 DEF Lose
<1>11. CASE Press
  BY <1>11, <1>4, <1>7, <1>8 DEF Press
<1>12. CASE Answered
  <2>0. UNCHANGED server /\ UNCHANGED granted
    BY <1>12 DEF Answered, ghostVars
  <2>1. ASSUME NEW c \in Customer, NEW answer, stage[c] = "StateCheckDone", StateChecked(c, answer)
        PROVE  SaleInv'
    <3>1. \E s \in Stage : Become(c, s)
      BY <2>1 DEF StateChecked, Stage
    <3>2. UNCHANGED toMachine \/ \E cmds \in Unfetched, id \in Asker : Ask(cmds, id)
      BY <2>1, <1>9 DEF StateChecked
    <3>3. Typed /\ Kept
      BY <2>0, <2>1, <3>1, <1>6
    <3> QED
      BY <3>2, <3>3, <1>4, <1>8
  <2>2. ASSUME NEW c \in Customer, NEW answer, stage[c] = "SupplyCheckDone", SupplyChecked(c, answer)
        PROVE  SaleInv'
    <3>1. \E s \in Stage : Become(c, s)
      BY <2>2 DEF SupplyChecked, Stage
    <3>2. Typed /\ Kept
      BY <2>0, <2>2, <3>1, <1>6
    <3> QED
      BY <2>2, <3>2, <1>4, <1>8 DEF SupplyChecked
  <2>3. CASE UNCHANGED stage /\ (UNCHANGED toMachine \/ Ask(<<"PONG">>, 0))
    <3>1. Typed /\ Kept
      BY <2>0, <2>3, <1>7 DEF daemonVars
    <3> QED
      BY <2>3, <3>1, <1>4, <1>8, <1>9
  <2> QED
    BY <1>12, <2>1, <2>2, <2>3 DEF Answered
<1>13. ASSUME NEW c \in Customer, NewCustomer(c) \/ Timeout(c)
       PROVE  SaleInv'
  <2>1. /\ \E s \in Stage : Become(c, s)
        /\ stage[c] # "AllDone" /\ UNCHANGED granted
        /\ server' = server \/ server' = [server EXCEPT ![c] = "none"]
        /\ UNCHANGED toMachine \/ Ask(<<"PING">>, c)
    BY <1>13 DEF NewCustomer, Timeout, InProgress, Stage, lineVars, ghostVars
  <2>2. Typed /\ Kept
    BY <2>1, <1>6
  <2> QED
    BY <2>1, <2>2, <1>4, <1>8, <1>9
<1>14. ASSUME NEW c \in Customer, Decide(c)
       PROVE  SaleInv'
  <2>1. PICK answer \in {"1", "2", "3", "6", "other", "text"} :
          /\ server' = [server EXCEPT ![c] = answer]
          /\ granted' = IF answer \in {"1", "6"} THEN granted \cup {c} ELSE granted
    BY <1>14 DEF Decide
  <2>2. UNCHANGED <<stage, toMachine>> /\ server \in [Customer -> Line] /\ stage \in [Customer -> Stage]
    BY <1>14 DEF Decide, lineVars, SaleInv, SaleTypeOK
  <2>3. server' \in [Customer -> Line] /\ server'[c] = answer /\ \A e \in Customer \ {c} : server'[e] = server[e]
    BY <2>1, <2>2 DEF Line
  <2>4. granted \subseteq granted' /\ granted' \subseteq Customer \cup Visit /\ (answer \in {"1", "6"} => c \in granted')
    BY <2>1 DEF SaleInv, SaleTypeOK
  <2>5. Promised'
    BY <2>3, <2>4 DEF Promised, SaleInv
  <2>6. Typed /\ Kept
    BY <2>2, <2>3, <2>4, <2>5 DEF Typed, Kept
  <2> QED
    BY <2>2, <2>6, <1>4, <1>8
<1>15. ASSUME NEW c \in Customer, Paid(c)
       PROVE  SaleInv'
  <2>1. /\ stage[c] = "PaymentCheckDone" /\ UNCHANGED granted
        /\ server' = [server EXCEPT ![c] = "none"] /\ "AllDone" \in Stage
    BY <1>15 DEF Paid, Stage
  <2>2. CASE Become(c, "AllDone") /\ (UNCHANGED toMachine \/ \E cmds \in Unfetched : Ask(cmds, c))
    <3>1. Typed /\ Kept
      BY <2>1, <2>2, <1>6
    <3> QED
      BY <2>2, <3>1, <1>4, <1>8, <1>9
  <2>3. CASE UNCHANGED <<toMachine, stage>>
    <3>1. \A e \in Customer : server'[e] \in {server[e], "none"}
      BY <2>1 DEF SaleInv, SaleTypeOK
    <3>2. server' \in [Customer -> Line]
      BY <2>1 DEF SaleInv, SaleTypeOK, Line
    <3>3. Typed /\ Kept
      BY <2>1, <2>3, <3>1, <3>2 DEF Typed, Kept, SaleInv, SaleTypeOK, Promised
    <3> QED
      BY <2>3, <3>3, <1>4, <1>8
  <2>4. ASSUME NEW cmds \in Seq(Question), Ask(cmds, c), Wants(cmds), Become(c, "AllDone"), server[c] \in {"1", "6"}
        PROVE  SaleInv'
    <3>1. Typed /\ Kept
      BY <2>1, <2>4, <1>6
    <3>2. c \in granted /\ c \notin served \cup {serving} /\ \A k \in 1 .. Len(toMachine) : IsFetch(k) => toMachine[k].id # c
      BY <2>1, <2>4 DEF SaleInv, Promised, ServedDone, FetchesDue, Due
    <3>3. Due(c)'
      <4>1. stage'[c] = "AllDone"
        BY <2>4 DEF Become, SaleInv, SaleTypeOK
      <4> QED
        BY <1>1, <2>1, <3>2, <4>1 DEF Due, Good
    <3>4. \A e \in granted : Due(e) => Due(e)'
      BY <3>1, <1>5
    <3>5. LineOK /\ FetchesDue /\ c \in Asker
      BY <1>9 DEF SaleInv, SaleTypeOK
    <3>6. FetchesDue'
      BY <2>4, <3>2, <3>3, <3>4, <3>5, FetchAdded
    <3> QED
      BY <3>1, <3>6, <1>4
  <2> QED
    BY <1>15, <2>2, <2>3, <2>4, PaidAsks DEF Unfetched
<1>16. ASSUME NEW v \in Visit, PressFetch(v)
       PROVE  SaleInv'
  <2>1. v \notin granted /\ granted' = granted \cup {v} /\ Ask(<<"FETCH">>, v) /\ UNCHANGED daemonVars
    BY <1>16 DEF PressFetch
  <2>2. Typed /\ Kept
    BY <2>1 DEF Typed, Kept, daemonVars, SaleInv, SaleTypeOK, Promised
  <2>3. v \notin served \cup {serving} /\ v \notin Customer /\ \A k \in 1 .. Len(toMachine) : IsFetch(k) => toMachine[k].id # v
    BY <2>1, SaleAssumption DEF SaleInv, Counted, FetchesDue, Due, Good
  <2>4. Due(v)'
    BY <1>1, <2>1, <2>3 DEF Due, Good
  <2>5. <<"FETCH">> \in Seq(Question) /\ Wants(<<"FETCH">>) /\ v \in Asker
    BY DEF Question, Wants, Asker
  <2>6. \A e \in granted : Due(e) => Due(e)'
    BY <2>2, <1>5
  <2>7. FetchesDue'
    BY <2>1, <2>3, <2>4, <2>5, <2>6, FetchAdded DEF SaleInv, SaleTypeOK
  <2> QED
    BY <2>2, <2>7, <1>4
<1> QED
  BY <1>10, <1>11, <1>12, <1>13, <1>14, <1>15, <1>16

\* Whom the machine works for was granted a drink and had none, and each FETCH on the line is the
\* only one of a grant for which no column has turned, whoever presses the page's buttons when.
THEOREM SaleInvariant == SaleSpec => []SaleInv
<1>1. SaleInit => SaleInv
  BY DEF SaleInit, Init, Construct, SaleInv, SaleTypeOK, LineOK, Stage, Line, FetchesDue, IsFetch,
         ServedDone, Promised, Counted, Working, SERVICE, DEPLOY, DEPLOY_ERROR
<1>2. TypeOK /\ SwitchPlan /\ SaleInv /\ [SaleNext]_saleVars => SaleInv'
  <2> SUFFICES ASSUME TypeOK, SwitchPlan, SaleInv, [SaleNext]_saleVars
               PROVE  SaleInv'
    OBVIOUS
  <2>1. CASE Machine
    BY <2>1, HearSale, WorkSale DEF Machine
  <2>2. CASE SaleNext /\ ~Machine
    <3>1. UNCHANGED vars
      BY <2>2 DEF SaleNext, Lose, Press, PressFetch, Answered, NewCustomer, Decide, Paid, Timeout
    <3> QED
      BY <2>2, <3>1, CustomersSale DEF SaleNext
  <2>3. CASE UNCHANGED saleVars
    BY <2>3 DEF saleVars, vars, stateVars, lineVars, daemonVars, ghostVars, SaleInv, SaleTypeOK,
                LineOK, FetchesDue, IsFetch, Due, Good, ServedDone, Promised, Counted, Working
  <2> QED
    BY <2>1, <2>2, <2>3
<1> QED
  BY <1>1, <1>2, SaleIsDixie, TypeCorrect, PlanInvariant, PTL DEF SaleSpec

\* DrinkGranted: however purchases, retries, resets, lost frames and presses mix, a column turns
\* in full only for a grant, the server's or that of a press of the page's Fetch, for which
\* none has turned (dixie.cpp:196-257, customer.cpp:104-193, httphandler.cpp:177-180).
THEOREM EachDrinkGranted == SaleSpec => DrinkGranted
<1>1. SaleInv /\ [SaleNext]_saleVars => [Turn => serving \in granted \ served]_saleVars
  BY DEF SaleInv, Good, Turn, Working, DEPLOY, PREPARE_READY
<1> QED
  BY <1>1, SaleInvariant, PTL DEF SaleSpec, DrinkGranted
-----------------------------------------------------------------------------
(***************************************************************************)
(* No money without a try. Until something comes between, one customer at  *)
(* a time is under way; from the READY of its PING to the end of its       *)
(* FETCH nothing else on the line can make the machine leave READY, for    *)
(* what could was asked for by an earlier one, or by the page when nobody  *)
(* was under way, and lay before the PING.                                 *)
(***************************************************************************)

\* An answer READY is on its way to c.
IsReady(c) == \E k \in 1 .. Len(toDaemon) : toDaemon[k].cmd = "READY" /\ toDaemon[k].id = c

Fetched(c) == \E k \in 1 .. Len(toMachine) : IsFetch(k) /\ toMachine[k].id = c

\* A customer who counts on the machine to stay READY.
Waits(c) == \/ stage[c] \in {"SupplyCheckDone", "PaymentCheckDone"}
            \/ stage[c] = "StateCheckDone" /\ IsReady(c)
            \/ Fetched(c)

\* A frame that can make the machine leave READY.
Turbulent(k) == toMachine[k].cmd \in {"FETCH", "SHOW_INFO", "SET_STATE"}

Calm == Question \ {"FETCH", "SHOW_INFO"}

OneByOne == \A c, d \in Customer : InProgress(c) /\ InProgress(d) => c = d

Stands == \A c \in Customer : Waits(c) => currentState = READY /\ nextState = READY

Alone == \A c \in Customer, k \in 1 .. Len(toMachine) :
           Waits(c) /\ Turbulent(k) => IsFetch(k) /\ toMachine[k].id = c

PingLast == \A c \in Customer, p, k \in 1 .. Len(toMachine) :
              /\ stage[c] = "StateCheckDone" /\ toMachine[p].cmd = "PING" /\ toMachine[p].id = c
              /\ Turbulent(k)
              => k <= p

Known == \A c \in Customer : stage[c] = "none" =>
           /\ \A k \in 1 .. Len(toMachine) : toMachine[k].id # c
           /\ \A k \in 1 .. Len(toDaemon) : toDaemon[k].id # c

\* The FETCH of who is not tried yet is on the line, or in the update() that accepts it.
BeingTried(c) == /\ serving = c /\ phase \in {"update", "switch"}
                 /\ currentState = READY /\ nextState = DEPLOY

Untried == \A c \in untried : c \in Customer /\ (Fetched(c) \/ BeingTried(c))

OrderInv == Stands /\ Alone /\ PingLast /\ Known /\ Untried

HeardCommand == {"PING", "READY", "SERVICE", "BUSY", "DRINK_AVAIL", "EMPTY"}

Reply == {Datagram(cmd, id, data) : cmd \in HeardCommand, id \in Asker, data \in Seq(Nat)}

TryInv == toDaemon \in Seq(Reply) /\ (upset \/ (OneByOne /\ OrderInv))

LEMMA ReplyIs ==
  ASSUME NEW cmd \in HeardCommand, NEW id \in Asker, NEW data \in Seq(Nat)
  PROVE  Datagram(cmd, id, data) \in Reply
  BY DEF Reply

LEMMA DatagramIs ==
  ASSUME NEW cmd, NEW id, NEW data
  PROVE  Datagram(cmd, id, data).cmd = cmd /\ Datagram(cmd, id, data).id = id
  BY DEF Datagram

LEMMA HeardIs ==
  ASSUME NEW cmd, NEW id, NEW data
  PROVE  /\ Heard(<<>>) = <<>>
         /\ Heard(<<Datagram(cmd, id, data)>>) =
              IF cmd \in HeardCommand THEN <<Datagram(cmd, id, data)>> ELSE <<>>
<1>1. Head(<<Datagram(cmd, id, data)>>) = Datagram(cmd, id, data) /\ <<Datagram(cmd, id, data)>> # <<>>
  OBVIOUS
<1> QED
  BY <1>1, DatagramIs DEF Heard, HeardCommand

\* An answer bears the id of its datagram, and READY is that to PING in READY.
LEMMA AnswersHeard ==
  ASSUME NEW d \in Asked, Receive(d)
  PROVE  \/ Heard(tx') = <<>>
         \/ \E x \in Reply : /\ Heard(tx') = <<x>> /\ x.id = d.id
                             /\ x.cmd = "READY" => d.cmd = "PING" /\ currentState = READY
<1>1. PICK cmd \in Question \cup {"SET_STATE"}, id \in Asker, data \in Seq(Nat) :
        d = Datagram(cmd, id, data)
  <2>1. <<>> \in Seq(Nat) /\ 0 \in Asker
    BY DEF Asker
  <2>2. ASSUME NEW s \in {PREPARE_READY, SERVICE}, d = Datagram("SET_STATE", 0, <<s>>)
        PROVE  \E id \in Asker, data \in Seq(Nat) : d = Datagram("SET_STATE", id, data)
    <3>1. <<s>> \in Seq(Nat)
      BY DEF PREPARE_READY, SERVICE
    <3> QED
      BY <2>1, <2>2, <3>1
  <2>3. CASE \E cmd \in Question, id \in Asker : d = Datagram(cmd, id, <<>>)
    BY <2>1, <2>3
  <2>4. \/ \E cmd \in Question, id \in Asker : d = Datagram(cmd, id, <<>>)
        \/ \E s \in {PREPARE_READY, SERVICE} : d = Datagram("SET_STATE", 0, <<s>>)
    BY DEF Asked
  <2> QED
    BY <2>2, <2>3, <2>4
<1>2. d.cmd = cmd /\ d.id = id /\ d.data = data
  BY <1>1 DEF Datagram
<1> DEFINE Sent(c, x) == /\ tx' = <<Datagram(c, id, x)>>
                         /\ c \in HeardCommand => x \in Seq(Nat)
                         /\ c = "READY" => d.cmd = "PING" /\ currentState = READY
<1>3. ASSUME NEW c, NEW x, Sent(c, x)
      PROVE  \/ Heard(tx') = <<>>
             \/ \E y \in Reply : /\ Heard(tx') = <<y>> /\ y.id = d.id
                                 /\ y.cmd = "READY" => d.cmd = "PING" /\ currentState = READY
  <2>1. CASE c \in HeardCommand
    <3>1. Datagram(c, id, x) \in Reply
      BY <1>3, <2>1, ReplyIs
    <3>2. Heard(tx') = <<Datagram(c, id, x)>>
      BY <1>3, <2>1, HeardIs
    <3> QED
      BY <3>1, <3>2, <1>2, <1>3, DatagramIs
  <2>2. CASE c \notin HeardCommand
    BY <1>3, <2>2, HeardIs
  <2> QED
    BY <2>1, <2>2
<1>4. tx' = <<>> \/ \E c, x : Sent(c, x)
  <2>1. CASE OnPing(d)
    <3>1. Status = "READY" => currentState = READY
      BY Zenon DEF Status
    <3>2. tx' = <<Datagram(Status, id, <<>>)>> /\ d.cmd = "PING" /\ <<>> \in Seq(Nat)
      BY <2>1, <1>2 DEF OnPing, Answer, Send
    <3>3. Sent(Status, <<>>)
      BY <3>1, <3>2
    <3> QED
      BY <3>3
  <2>2. CASE OnPong(d) \/ OnLcd(d)
    BY <2>2 DEF OnPong, OnLcd, Answer, Send
  <2>3. CASE OnSetState(d)
    <3>1. \/ tx' = <<Datagram("SET_STATE", id, data)>>
          \/ tx' = <<Datagram("GET_STATE", id, <<currentState>>)>>
      BY <2>3, <1>2 DEF OnSetState, Answer, Send, CurrentState
    <3>2. Sent("SET_STATE", data) \/ Sent("GET_STATE", <<currentState>>)
      BY <3>1 DEF HeardCommand
    <3> QED
      BY <3>2
  <2>4. CASE OnCheckAvail(d)
    <3>1. PICK c \in {"DRINK_AVAIL", "EMPTY"} : tx' = <<Datagram(c, id, <<>>)>>
      BY <2>4, <1>2 DEF OnCheckAvail, Send
    <3>2. Sent(c, <<>>)
      BY <3>1
    <3> QED
      BY <3>2
  <2>5. CASE OnFetch(d)
    <3>1. \/ tx' = <<>>
          \/ tx' = <<Datagram("FETCH", id, data)>>
          \/ tx' = <<Datagram("EMPTY", id, <<>>)>>
      BY <2>5, <1>1, <1>2 DEF OnFetch, Send
    <3>2. tx' = <<>> \/ Sent("FETCH", data) \/ Sent("EMPTY", <<>>)
      BY <3>1 DEF HeardCommand
    <3> QED
      BY <3>2
  <2>6. CASE OnShowInfo(d)
    <3>1. \/ tx' = <<Datagram("SHOW_INFO", id, data)>>
          \/ tx' = <<Datagram("BUSY", id, data)>>
      BY <2>6, <1>1, <1>2 DEF OnShowInfo, Answer, Send
    <3>2. Sent("SHOW_INFO", data) \/ Sent("BUSY", data)
      BY <3>1 DEF HeardCommand
    <3> QED
      BY <3>2
  <2>7. CASE OnConfig(d)
    <3>1. \E x : tx' = <<Datagram("GET_CONFIG", id, x)>>
      BY <2>7, <1>1, <1>2 DEF OnConfig, Answer, Send, Question
    <3>2. \E x : Sent("GET_CONFIG", x)
      BY <3>1 DEF HeardCommand
    <3> QED
      BY <3>2
  <2>8. CASE OnGetState(d) \/ OnHomeAbort(d) \/ OnHomeBegin(d)
    <3>1. \E c \in {"GET_STATE", "HOME_ABORT", "HOME_BEGIN"} : \E x : tx' = <<Datagram(c, id, x)>>
      BY <2>8, <1>1, <1>2 DEF OnGetState, OnHomeAbort, OnHomeBegin, Answer, Send, CurrentState
    <3>2. \E c \in {"GET_STATE", "HOME_ABORT", "HOME_BEGIN"} : \E x : Sent(c, x)
      BY <3>1 DEF HeardCommand
    <3> QED
      BY <3>2
  <2>9. ~OnOther(d)
    BY <1>2 DEF OnOther, Question
  <2> HIDE DEF Sent
  <2> QED
    BY <2>1, <2>2, <2>3, <2>4, <2>5, <2>6, <2>7, <2>8, <2>9 DEF Receive
<1> QED
  BY <1>3, <1>4, HeardIs

\* Of itself the machine sends nothing to hear but its PING.
LEMMA WorkHeard ==
  ASSUME Work
  PROVE  \/ Heard(tx') = <<>>
         \/ \E x \in Reply : Heard(tx') = <<x>> /\ x.id = 0 /\ x.cmd = "PING"
<1> DEFINE Mute == tx' = <<>> \/ \E c \in {"FETCH", "HOMING", "HOME_BEGIN"} : \E id, x : tx' = <<Datagram(c, id, x)>>
<1> DEFINE Pings == tx' = <<Datagram("PING", 0, <<>>)>>
<1> SUFFICES Mute \/ Pings
  <2>1. ASSUME NEW c \in {"FETCH", "HOMING", "HOME_BEGIN"}, NEW id, NEW x, tx' = <<Datagram(c, id, x)>>
        PROVE  Heard(tx') = <<>>
    BY <2>1, HeardIs DEF HeardCommand
  <2>2. ASSUME Pings
        PROVE  \E x \in Reply : Heard(tx') = <<x>> /\ x.id = 0 /\ x.cmd = "PING"
    <3>1. <<>> \in Seq(Nat) /\ "PING" \in HeardCommand /\ 0 \in Asker
      BY DEF HeardCommand, Asker
    <3>2. PICK x \in Reply : x = Datagram("PING", 0, <<>>)
      BY <3>1, ReplyIs
    <3>3. Heard(tx') = <<x>>
      BY <2>2, <3>1, <3>2, HeardIs
    <3> QED
      BY <3>2, <3>3, DatagramIs
  <2>3. tx' = <<>> => Heard(tx') = <<>>
    BY HeardIs
  <2> QED
    BY <2>1, <2>2, <2>3
<1>h. ASSUME NEW came, NEW column, NEW on, NEW t, StartHoming(came, column, on, t)
      PROVE  Mute
  BY <1>h DEF StartHoming, Send
<1>1. ASSUME NEW r0, NEW r, NoDatagram \/ Tick \/ Begin(r0, r)
      PROVE  Mute
  BY <1>1 DEF NoDatagram, Tick, Begin, Send
<1>2. CASE Update
  <2>1. CASE UpdateWaiting \/ UpdatePrepareAutoHome
    BY <2>1 DEF UpdateWaiting, UpdatePrepareAutoHome, Send
  <2>2. ASSUME NEW r, UpdateService(r) \/ UpdateReadyWait(r) \/ UpdateDeploy(r)
        PROVE  Mute
    BY <2>2 DEF UpdateService, UpdateReadyWait, UpdateDeploy, Send
  <2>3. ASSUME NEW r, UpdateReady(r)
        PROVE  Mute \/ Pings
    BY <2>3 DEF UpdateReady, Send
  <2>4. ASSUME NEW r, UpdateAutoHome(r)
        PROVE  Mute
    BY <2>4, <1>h DEF UpdateAutoHome, Send
  <2> HIDE DEF Mute, Pings
  <2> QED
    BY <1>2, <2>1, <2>2, <2>3, <2>4 DEF Update
<1>3. CASE Switch
  <2>1. ASSUME NEW r, \/ EnterPrepareReady \/ EnterReady(r) \/ EnterReadyWait(r) \/ EnterDeploy(r)
                      \/ EnterDeployError \/ EnterPrepareAutoHome \/ EnterInfo
        PROVE  Mute
    BY <2>1 DEF EnterPrepareReady, EnterReady, EnterReadyWait, EnterDeploy, EnterDeployError,
                EnterPrepareAutoHome, EnterInfo, Send
  <2>2. EnterAutoHome => Mute
    BY <1>h DEF EnterAutoHome
  <2>3. Send(<<>>) => Mute
    BY DEF Send
  <2> HIDE DEF Mute
  <2> QED
    BY <1>3, <2>1, <2>2, <2>3 DEF Switch, SwitchState
<1> HIDE DEF Mute, Pings
<1> QED
  BY <1>1, <1>2, <1>3 DEF Work

\* What the machine hears in READY: only a turbulent frame makes it leave.
LEMMA HeardInReady ==
  ASSUME NEW d \in Asked, Receive(d), currentState = READY, nextState = READY
  PROVE  /\ currentState' = READY /\ phase = "idle" /\ phase' = "update"
         /\ d.cmd \notin {"FETCH", "SHOW_INFO", "SET_STATE"} => nextState' = READY
         /\ d.cmd = "FETCH" => tx' # <<>> \/ nextState' = DEPLOY
<1>1. currentState' = READY /\ phase = "idle" /\ phase' = "update"
  BY DEF Receive
<1>2. Woken = READY
  BY DEF Woken, READY, READY_WAIT
<1>3. d.cmd \in Question \cup {"SET_STATE"}
  BY DEF Asked, Datagram
<1>4. d.cmd \in Question \ {"FETCH", "SHOW_INFO"} => nextState' = READY
  <2>1. d.cmd \in {"PING", "PONG", "CHECK_AVAIL", "LCD"} => nextState' = READY
    BY <1>2 DEF Receive, Answer, OnPing, OnPong, OnConfig, OnGetState, OnSetState,
           OnHomeAbort, OnHomeBegin, OnCheckAvail, OnFetch, OnShowInfo, OnLcd, OnOther
  <2>2. d.cmd \in {"GET_CONFIG", "GET_STATE"} => nextState' = READY
    BY <1>2 DEF Receive, Answer, OnPing, OnPong, OnConfig, OnGetState, OnSetState,
           OnHomeAbort, OnHomeBegin, OnCheckAvail, OnFetch, OnShowInfo, OnLcd, OnOther
  <2>3. d.cmd \in {"HOME_ABORT", "HOME_BEGIN"} => nextState' = READY
    BY <1>2 DEF Receive, Answer, OnPing, OnPong, OnConfig, OnGetState, OnSetState,
           OnHomeAbort, OnHomeBegin, OnCheckAvail, OnFetch, OnShowInfo, OnLcd, OnOther,
           READY, SERVICE, PREPARE_AUTO_HOME, AUTO_HOME
  <2> QED
    BY <2>1, <2>2, <2>3 DEF Question
<1>5. d.cmd = "FETCH" => tx' # <<>> \/ nextState' = DEPLOY
  <2>1. d.cmd = "FETCH" => OnFetch(d)
    BY DEF Receive, OnPing, OnPong, OnConfig, OnGetState, OnSetState,
         OnHomeAbort, OnHomeBegin, OnCheckAvail, OnFetch, OnShowInfo, OnLcd, OnOther
  <2>2. \A id : <<Datagram("EMPTY", id, <<>>)>> # <<>>
    OBVIOUS
  <2> QED
    BY <2>1, <2>2 DEF OnFetch, Send
<1> QED
  BY <1>1, <1>3, <1>4, <1>5

\* In READY nothing but a silence undoes what is asked for.
LEMMA WorkInReady ==
  ASSUME Work, currentState = READY, nextState \in {READY, DEPLOY}, ~Silence
  PROVE  \/ /\ currentState' = READY /\ UNCHANGED nextState /\ UNCHANGED <<untried, serving>>
            /\ phase \in {"update", "switch"} /\ nextState = DEPLOY => phase' = "switch"
         \/ nextState = DEPLOY /\ phase = "switch" /\ UNCHANGED serving /\ untried' = untried \ {serving}
<1> USE DEF SERVICE, PREPARE_READY, READY, READY_WAIT, DEPLOY, DEPLOY_ERROR,
            PREPARE_AUTO_HOME, AUTO_HOME, INFO
<1>1. UNCHANGED serving
  BY DEF Work, Turn
<1>2. ASSUME NEW r0, NEW r, NoDatagram \/ Tick \/ Begin(r0, r)
      PROVE  UNCHANGED stateVars /\ phase \in {"idle", "boot"}
  BY <1>2 DEF NoDatagram, Tick, Begin
<1>3. CASE Update
  <2>1. phase = "update" /\ phase' = "switch" /\ UNCHANGED currentState
    BY <1>3 DEF Update
  <2>2. PICK r : UpdateReady(r)
    BY <1>3 DEF Update, UpdateWaiting, UpdatePrepareAutoHome, UpdateService, UpdateReadyWait,
                UpdateDeploy, UpdateAutoHome
  <2>3. UNCHANGED nextState
    BY <2>2 DEF UpdateReady, Silence
  <2>4. UNCHANGED untried
    BY <2>1 DEF Work
  <2> QED
    BY <1>1, <2>1, <2>3, <2>4
<1>4. CASE Switch
  <2>1. phase = "switch"
    BY <1>4 DEF Switch
  <2>2. CASE nextState = DEPLOY
    <3>1. currentState' = DEPLOY
      BY <1>4, <2>2 DEF Switch, SwitchState
    <3> QED
      BY <1>1, <2>1, <2>2, <3>1 DEF Work
  <2>3. CASE nextState = READY
    <3>1. UNCHANGED stateVars
      BY <1>4, <2>3 DEF Switch, SwitchState
    <3> QED
      BY <1>1, <2>3, <3>1 DEF Work, stateVars
  <2> QED
    BY <2>2, <2>3
<1>5. ASSUME UNCHANGED stateVars, phase \in {"idle", "boot"}
      PROVE  currentState' = READY /\ UNCHANGED nextState /\ UNCHANGED untried
  BY <1>5 DEF Work, stateVars
<1> QED
  BY <1>1, <1>2, <1>3, <1>4, <1>5 DEF Work

\* A frame on the longer line was there before or has just been asked for.
LEMMA Appended ==
  ASSUME LineOK, NEW cmds \in Seq(Question), NEW id \in Asker, Ask(cmds, id)
  PROVE  /\ Len(toMachine) \in Nat /\ Len(toMachine') \in Nat /\ Len(toMachine) <= Len(toMachine')
         /\ \A k \in 1 .. Len(toMachine) : k \in 1 .. Len(toMachine') /\ toMachine'[k] = toMachine[k]
         /\ \A k \in 1 .. Len(toMachine') :
              \/ k \in 1 .. Len(toMachine) /\ toMachine'[k] = toMachine[k]
              \/ /\ k > Len(toMachine)
                 /\ \E j \in 1 .. Len(cmds) : /\ k = Len(toMachine) + j
                                              /\ toMachine'[k].cmd = cmds[j] /\ toMachine'[k].id = id
<1>1. /\ Len(toMachine') = Len(toMachine) + Len(cmds)
      /\ \A k \in 1 .. Len(toMachine) : toMachine'[k] = toMachine[k]
      /\ \A k \in 1 .. Len(cmds) : toMachine'[Len(toMachine) + k] = Datagram(cmds[k], id, <<>>)
  BY AskAppends
<1>2. Len(toMachine) \in Nat /\ Len(cmds) \in Nat
  BY DEF LineOK
<1>3. \A k \in 1 .. Len(cmds) : /\ toMachine'[Len(toMachine) + k].cmd = cmds[k]
                                /\ toMachine'[Len(toMachine) + k].id = id
  BY <1>1, DatagramIs
<1>4. ASSUME NEW k \in 1 .. Len(toMachine'), k \notin 1 .. Len(toMachine)
      PROVE  k > Len(toMachine) /\ k - Len(toMachine) \in 1 .. Len(cmds) /\ k = Len(toMachine) + (k - Len(toMachine))
  BY <1>1, <1>2, <1>4
<1>5. ASSUME NEW k \in 1 .. Len(toMachine'), k \notin 1 .. Len(toMachine)
      PROVE  \E j \in 1 .. Len(cmds) : /\ k = Len(toMachine) + j
                                       /\ toMachine'[k].cmd = cmds[j] /\ toMachine'[k].id = id
  <2>1. PICK j \in 1 .. Len(cmds) : k = Len(toMachine) + j
    BY <1>4, <1>5
  <2> QED
    BY <2>1, <1>3
<1>6. /\ Len(toMachine') \in Nat /\ Len(toMachine) <= Len(toMachine')
      /\ \A k \in 1 .. Len(toMachine) : k \in 1 .. Len(toMachine')
  BY <1>1, <1>2
<1> QED
  BY <1>1, <1>2, <1>4, <1>5, <1>6

\* What a customer's step does to its stage, if it asks for nothing turbulent.
Proceeds(c) == \/ stage'[c] = stage[c]
               \/ stage[c] = "none" /\ stage'[c] = "StateCheckDone"
               \/ stage'[c] \in {"AllDone", "Expired"}
               \/ Waits(c) /\ stage'[c] \in {"SupplyCheckDone", "PaymentCheckDone"}

\* The line to the machine stays, or grows by calm frames of customers that have come.
CalmlyGrown ==
  /\ \A k \in 1 .. Len(toMachine) : k \in 1 .. Len(toMachine') /\ toMachine'[k] = toMachine[k]
  /\ \A k \in 1 .. Len(toMachine') :
       \/ k \in 1 .. Len(toMachine) /\ toMachine'[k] = toMachine[k]
       \/ /\ k > Len(toMachine) /\ ~Turbulent(k)'
          /\ \A c \in Customer : toMachine'[k].id = c => stage'[c] # "none"

LEMMA CalmAsk ==
  ASSUME LineOK, NEW cmds \in Seq(Calm), NEW id \in Asker, Ask(cmds, id),
         id \in Customer => stage'[id] # "none"
  PROVE  CalmlyGrown
<1>1. cmds \in Seq(Question) /\ \A j \in 1 .. Len(cmds) : cmds[j] \in Calm
  BY DEF Calm
<1>2. \A c \in Calm : c \notin {"FETCH", "SHOW_INFO", "SET_STATE"}
  BY DEF Calm, Question
<1>3. \A k \in 1 .. Len(toMachine) : k \in 1 .. Len(toMachine') /\ toMachine'[k] = toMachine[k]
  BY <1>1, Appended
<1>4. ASSUME NEW k \in 1 .. Len(toMachine')
      PROVE  \/ k \in 1 .. Len(toMachine) /\ toMachine'[k] = toMachine[k]
             \/ k > Len(toMachine) /\ toMachine'[k].cmd \in Calm /\ toMachine'[k].id = id
  <2>1. CASE ~(k \in 1 .. Len(toMachine) /\ toMachine'[k] = toMachine[k])
    <3>1. k > Len(toMachine) /\ \E j \in 1 .. Len(cmds) : /\ k = Len(toMachine) + j
                                                         /\ toMachine'[k].cmd = cmds[j] /\ toMachine'[k].id = id
      BY <1>1, <2>1, Appended
    <3> QED
      BY <1>1, <3>1
  <2> QED
    BY <2>1
<1> QED
  BY <1>2, <1>3, <1>4 DEF Turbulent, CalmlyGrown

\* Such a step leaves the order on the lines as it is.
LEMMA CalmStep ==
  ASSUME LineOK, toDaemon \in Seq(Reply), OrderInv, UNCHANGED vars, UNCHANGED <<untried, serving>>,
         \A c \in Customer : Proceeds(c),
         UNCHANGED toMachine \/ CalmlyGrown,
         UNCHANGED toDaemon \/ (toDaemon # <<>> /\ toDaemon' = Tail(toDaemon))
  PROVE  OrderInv'
<1>1. CalmlyGrown
  BY DEF LineOK, CalmlyGrown
<1>2. \A k \in 1 .. Len(toDaemon') : \E j \in 1 .. Len(toDaemon) : toDaemon'[k] = toDaemon[j]
  <2>1. CASE toDaemon # <<>> /\ toDaemon' = Tail(toDaemon)
    <3>1. \A k \in 1 .. Len(toDaemon') : k + 1 \in 1 .. Len(toDaemon) /\ toDaemon'[k] = toDaemon[k + 1]
      BY <2>1
    <3> QED
      BY <3>1
  <2> QED
    BY <2>1
<1>3. UNCHANGED <<phase, currentState, nextState>>
  BY DEF vars, stateVars
<1>4. Stands /\ Alone /\ PingLast /\ Known /\ Untried
  BY DEF OrderInv
<1>5. ASSUME NEW k \in 1 .. Len(toMachine'), Turbulent(k)'
      PROVE  k \in 1 .. Len(toMachine) /\ toMachine'[k] = toMachine[k] /\ Turbulent(k)
  BY <1>1, <1>5 DEF CalmlyGrown, Turbulent
<1>6. ASSUME NEW c \in Customer
      PROVE  Fetched(c)' <=> Fetched(c)
  <2>1. Fetched(c)' => Fetched(c)
    BY <1>5 DEF Fetched, IsFetch, Turbulent
  <2>2. Fetched(c) => Fetched(c)'
    BY <1>1 DEF Fetched, IsFetch, CalmlyGrown
  <2> QED
    BY <2>1, <2>2
<1>7. ASSUME NEW c \in Customer, IsReady(c)'
      PROVE  IsReady(c)
  BY <1>2, <1>7 DEF IsReady
<1>8. ASSUME NEW c \in Customer, Waits(c)'
      PROVE  Waits(c)
  <2>1. CASE Fetched(c)'
    BY <2>1, <1>6 DEF Waits
  <2>2. CASE stage'[c] = "StateCheckDone" /\ IsReady(c)'
    <3>1. stage[c] # "none"
      BY <2>2, <1>4, <1>7 DEF Known, IsReady
    <3> QED
      BY <3>1, <2>2, <1>7 DEF Proceeds, Waits
  <2>3. CASE stage'[c] \in {"SupplyCheckDone", "PaymentCheckDone"}
    BY <2>3 DEF Proceeds, Waits
  <2> QED
    BY <1>8, <2>1, <2>2, <2>3 DEF Waits
<1>9. Stands'
  BY <1>3, <1>4, <1>8 DEF Stands
<1>10. Alone'
  BY <1>4, <1>5, <1>8 DEF Alone, IsFetch
<1>11. PingLast'
  <2> SUFFICES ASSUME NEW c \in Customer, NEW p \in 1 .. Len(toMachine'), NEW k \in 1 .. Len(toMachine'),
                      stage'[c] = "StateCheckDone", toMachine'[p].cmd = "PING", toMachine'[p].id = c,
                      Turbulent(k)'
               PROVE  k <= p
    BY DEF PingLast
  <2>1. k \in 1 .. Len(toMachine) /\ Turbulent(k)
    BY <1>5
  <2>2. CASE p \in 1 .. Len(toMachine) /\ toMachine'[p] = toMachine[p]
    <3>1. stage[c] # "none"
      BY <2>2, <1>4 DEF Known
    <3>2. stage[c] = "StateCheckDone"
      BY <3>1 DEF Proceeds
    <3> QED
      BY <2>1, <2>2, <3>2, <1>4 DEF PingLast
  <2>3. CASE p > Len(toMachine)
    BY <2>1, <2>3 DEF LineOK
  <2> QED
    BY <2>2, <2>3, <1>1 DEF CalmlyGrown
<1>12. Known'
  <2> SUFFICES ASSUME NEW c \in Customer, stage'[c] = "none"
               PROVE  /\ \A k \in 1 .. Len(toMachine') : toMachine'[k].id # c
                      /\ \A k \in 1 .. Len(toDaemon') : toDaemon'[k].id # c
    BY DEF Known
  <2>1. stage[c] = "none"
    BY DEF Proceeds
  <2> QED
    BY <2>1, <1>1, <1>2, <1>4 DEF Known, CalmlyGrown
<1>13. Untried'
  BY <1>3, <1>4, <1>6 DEF Untried, BeingTried
<1> QED
  BY <1>9, <1>10, <1>11, <1>12, <1>13 DEF OrderInv

LEMMA OneFrame ==
  ASSUME NEW x
  PROVE  <<x>> # <<>> /\ \A y : <<x>> = <<y>> => x = y
  OBVIOUS

LEMMA ReplyAppended ==
  ASSUME toDaemon \in Seq(Reply), NEW sent, toDaemon' = toDaemon \o sent,
         sent = <<>> \/ \E x \in Reply : sent = <<x>>
  PROVE  /\ toDaemon' \in Seq(Reply)
         /\ \A k \in 1 .. Len(toDaemon') :
              \/ k \in 1 .. Len(toDaemon) /\ toDaemon'[k] = toDaemon[k]
              \/ sent = <<toDaemon'[k]>>
<1>1. CASE sent = <<>>
  <2>1. toDaemon' = toDaemon
    BY <1>1
  <2> QED
    BY <2>1
<1>2. ASSUME NEW x \in Reply, sent = <<x>>
      PROVE  /\ toDaemon' \in Seq(Reply)
             /\ \A k \in 1 .. Len(toDaemon') :
                  \/ k \in 1 .. Len(toDaemon) /\ toDaemon'[k] = toDaemon[k]
                  \/ toDaemon'[k] = x
  <2>1. toDaemon' = Append(toDaemon, x)
    BY <1>2
  <2> QED
    BY <2>1
<1> QED
  BY <1>1, <1>2

\* What is heard: a FETCH is accepted or answered EMPTY, and a PING that is answered READY
\* leaves nothing on the line that could make the machine leave READY.
LEMMA HearTry ==
  ASSUME SwitchPlan, SaleInv, TryInv, ~upset, Hear, UNCHANGED daemonVars, toDaemon' = toDaemon \o Heard(tx')
  PROVE  TryInv'
<1> DEFINE d == Head(toMachine)
<1>1. /\ d \in Asked /\ d = toMachine[1] /\ 1 \in 1 .. Len(toMachine) /\ Receive(d)
      /\ \A k \in 1 .. Len(toMachine') : toMachine'[k] = toMachine[k + 1] /\ k + 1 \in 1 .. Len(toMachine)
      /\ \A k \in 1 .. Len(toMachine) : k = 1 \/ k - 1 \in 1 .. Len(toMachine')
  <2>1. LineOK /\ toMachine # <<>> /\ toMachine' = Tail(toMachine) /\ Receive(d)
    BY DEF SaleInv, SaleTypeOK, Hear
  <2>2. Len(toMachine) \in Nat /\ d \in Asked
    BY <2>1 DEF LineOK
  <2> QED
    BY <2>1, <2>2, HeadLeaves
<1>2. phase = "idle" /\ phase' = "update" /\ UNCHANGED currentState /\ UNCHANGED <<stage, upset>>
  BY <1>1 DEF Receive, Hear, daemonVars
<1>3. toDaemon \in Seq(Reply) /\ OneByOne /\ Stands /\ Alone /\ PingLast /\ Known /\ Untried
  BY DEF TryInv, OrderInv
<1>4. /\ untried' = IF d.cmd = "FETCH" /\ currentState = READY /\ tx' # <<>> THEN untried \ {d.id} ELSE untried
      /\ serving' = IF d.cmd = "FETCH" /\ currentState = READY /\ tx' = <<>> THEN d.id ELSE serving
  BY DEF Hear
<1> HIDE DEF d
<1>5. toDaemon' \in Seq(Reply)
  BY <1>1, <1>3, AnswersHeard, ReplyAppended
<1>6. ASSUME NEW k \in 1 .. Len(toDaemon')
      PROVE  \/ k \in 1 .. Len(toDaemon) /\ toDaemon'[k] = toDaemon[k]
             \/ /\ toDaemon'[k].id = d.id
                /\ toDaemon'[k].cmd = "READY" => d.cmd = "PING" /\ currentState = READY
  <2>1. CASE Heard(tx') = <<toDaemon'[k]>>
    <3>1. PICK x \in Reply : /\ Heard(tx') = <<x>> /\ x.id = d.id
                             /\ x.cmd = "READY" => d.cmd = "PING" /\ currentState = READY
      BY <2>1, <1>1, AnswersHeard, OneFrame
    <3>2. x = toDaemon'[k]
      BY <2>1, <3>1, OneFrame
    <3> QED
      BY <3>1, <3>2
  <2> QED
    BY <2>1, <1>1, <1>3, AnswersHeard, ReplyAppended
<1>7. ASSUME NEW k \in 1 .. Len(toMachine'), Turbulent(k)'
      PROVE  Turbulent(k + 1)
  BY <1>1, <1>7 DEF Turbulent
<1> DEFINE Welcome(c) == /\ stage[c] = "StateCheckDone" /\ d.cmd = "PING" /\ d.id = c
                         /\ currentState = READY
<1>8. ASSUME NEW c \in Customer, Fetched(c)'
      PROVE  Fetched(c) /\ ~(d.cmd = "FETCH" /\ d.id = c)
  <2>1. PICK k \in 1 .. Len(toMachine') : toMachine'[k].cmd = "FETCH" /\ toMachine'[k].id = c
    BY <1>8 DEF Fetched, IsFetch
  <2>2. IsFetch(k + 1) /\ toMachine[k + 1].id = c /\ k + 1 # 1
    BY <1>1, <2>1 DEF IsFetch
  <2> QED
    BY <1>1, <2>2 DEF Fetched, SaleInv, FetchesDue, IsFetch
<1>9. ASSUME NEW c \in Customer, Waits(c)'
      PROVE  Waits(c) \/ Welcome(c)
  BY <1>2, <1>6, <1>8, <1>9 DEF Waits, IsReady
<1>10. ASSUME NEW c \in Customer, Waits(c)', Waits(c), Turbulent(1)
       PROVE  FALSE
  <2>1. d.cmd = "FETCH" /\ d.id = c
    BY <1>1, <1>3, <1>10 DEF Alone, IsFetch
  <2>2. stage[c] = "AllDone"
    BY <1>1, <2>1 DEF SaleInv, FetchesDue, IsFetch, Due
  <2> QED
    BY <1>2, <1>8, <1>10, <2>1, <2>2 DEF Waits
<1>11. Stands'
  <2> SUFFICES ASSUME NEW c \in Customer, Waits(c)'
               PROVE  currentState' = READY /\ nextState' = READY
    BY DEF Stands
  <2>1. currentState = READY /\ nextState = READY
    <3>1. nextState = currentState \/ currentState = DEPLOY
      BY <1>2 DEF SwitchPlan
    <3> QED
      BY <3>1, <1>3, <1>9 DEF Stands, READY, DEPLOY
  <2>2. d.cmd \notin {"FETCH", "SHOW_INFO", "SET_STATE"}
    BY <1>1, <1>9, <1>10 DEF Turbulent
  <2> QED
    BY <1>1, <2>1, <2>2, HeardInReady
<1>12. Alone'
  <2> SUFFICES ASSUME NEW c \in Customer, NEW k \in 1 .. Len(toMachine'), Waits(c)', Turbulent(k)'
               PROVE  IsFetch(k)' /\ toMachine'[k].id = c
    BY DEF Alone
  <2>1. Turbulent(k + 1)
    BY <1>7
  <2>2. CASE Waits(c)
    BY <2>1, <2>2, <1>1, <1>3 DEF Alone, IsFetch
  <2>3. CASE Welcome(c)
    <3>1. k + 1 <= 1
      BY <2>1, <2>3, <1>1, <1>3 DEF PingLast
    <3> QED
      BY <3>1
  <2> QED
    BY <2>2, <2>3, <1>9
<1>13. PingLast'
  <2> SUFFICES ASSUME NEW c \in Customer, NEW p \in 1 .. Len(toMachine'), NEW k \in 1 .. Len(toMachine'),
                      stage'[c] = "StateCheckDone", toMachine'[p].cmd = "PING", toMachine'[p].id = c,
                      Turbulent(k)'
               PROVE  k <= p
    BY DEF PingLast
  <2>1. k + 1 \in 1 .. Len(toMachine) /\ p + 1 \in 1 .. Len(toMachine) /\ Turbulent(k + 1)
    BY <1>1, <1>7
  <2>2. toMachine[p + 1].cmd = "PING" /\ toMachine[p + 1].id = c /\ stage[c] = "StateCheckDone"
    BY <1>1, <1>2
  <2>3. k + 1 <= p + 1
    BY <1>3, <2>1, <2>2 DEF PingLast
  <2> QED
    BY <2>3
<1>14. Known'
  BY <1>1, <1>2, <1>3, <1>6 DEF Known
<1>15. Untried'
  <2> SUFFICES ASSUME NEW c \in untried'
               PROVE  c \in Customer /\ (Fetched(c)' \/ BeingTried(c)')
    BY DEF Untried
  <2>1. c \in untried /\ c \in Customer /\ Fetched(c)
    BY <1>2, <1>3, <1>4 DEF Untried, BeingTried
  <2>2. PICK k \in 1 .. Len(toMachine) : toMachine[k].cmd = "FETCH" /\ toMachine[k].id = c
    BY <2>1 DEF Fetched, IsFetch
  <2>3. CASE k = 1
    <3>1. d.cmd = "FETCH" /\ d.id = c
      BY <1>1, <2>2, <2>3
    <3>2. currentState = READY /\ nextState = READY
      BY <2>1, <1>3 DEF Waits, Stands
    <3>3. tx' = <<>> /\ serving' = c
      BY <1>4, <3>1, <3>2
    <3>4. nextState' = DEPLOY /\ currentState' = READY
      BY <1>1, <3>1, <3>2, <3>3, HeardInReady
    <3> QED
      BY <1>2, <2>1, <3>3, <3>4 DEF BeingTried
  <2>4. CASE k # 1
    <3>1. k - 1 \in 1 .. Len(toMachine') /\ toMachine'[k - 1] = toMachine[k]
      BY <1>1, <2>4
    <3> QED
      BY <2>1, <2>2, <3>1 DEF Fetched, IsFetch
  <2> QED
    BY <2>3, <2>4
<1>16. OneByOne'
  BY <1>2, <1>3 DEF OneByOne, InProgress
<1> QED
  BY <1>5, <1>11, <1>12, <1>13, <1>14, <1>15, <1>16 DEF TryInv, OrderInv

\* The machine's own steps: while somebody waits it stays READY, or a PING goes unanswered.
LEMMA WorkTry ==
  ASSUME SaleInv, TryInv, ~upset, Work, UNCHANGED daemonVars, toDaemon' = toDaemon \o Heard(tx')
  PROVE  TryInv'
<1>1. UNCHANGED <<toMachine, stage>>
  BY DEF Work, daemonVars
<1>2. toDaemon \in Seq(Reply) /\ OneByOne /\ Stands /\ Alone /\ PingLast /\ Known /\ Untried
  BY DEF TryInv, OrderInv
<1>3. toDaemon' \in Seq(Reply)
  BY <1>2, WorkHeard, ReplyAppended
<1>4. ASSUME NEW k \in 1 .. Len(toDaemon')
      PROVE  \/ k \in 1 .. Len(toDaemon) /\ toDaemon'[k] = toDaemon[k]
             \/ toDaemon'[k].id = 0 /\ toDaemon'[k].cmd = "PING"
  <2>1. CASE Heard(tx') = <<toDaemon'[k]>>
    <3>1. PICK x \in Reply : Heard(tx') = <<x>> /\ x.id = 0 /\ x.cmd = "PING"
      BY <2>1, WorkHeard, OneFrame
    <3>2. x = toDaemon'[k]
      BY <2>1, <3>1, OneFrame
    <3> QED
      BY <3>1, <3>2
  <2> QED
    BY <2>1, <1>2, WorkHeard, ReplyAppended
<1>5. ASSUME NEW c \in Customer
      PROVE  /\ Fetched(c)' <=> Fetched(c)
             /\ IsReady(c)' => IsReady(c)
             /\ Waits(c)' => Waits(c)
  <2>1. Fetched(c)' <=> Fetched(c)
    BY <1>1 DEF Fetched, IsFetch
  <2>2. IsReady(c)' => IsReady(c)
    BY <1>4 DEF IsReady
  <2> QED
    BY <2>1, <2>2, <1>1 DEF Waits
<1>6. CASE Silence
  BY <1>3, <1>6 DEF Work, TryInv
<1>7. CASE ~Silence
  <2>1. Stands'
    <3> SUFFICES ASSUME NEW c \in Customer, Waits(c)'
                 PROVE  currentState' = READY /\ nextState' = READY
      BY DEF Stands
    <3>1. currentState = READY /\ nextState = READY
      BY <1>2, <1>5 DEF Stands
    <3> QED
      BY <3>1, <1>7, WorkInReady DEF READY, DEPLOY
  <2>2. Untried'
    <3> SUFFICES ASSUME NEW c \in untried'
                 PROVE  c \in Customer /\ (Fetched(c)' \/ BeingTried(c)')
      BY DEF Untried
    <3>1. c \in untried /\ c \in Customer
      BY <1>2 DEF Work, Untried
    <3>2. CASE Fetched(c)
      BY <3>1, <3>2, <1>5
    <3>3. CASE BeingTried(c)
      BY <3>1, <3>3, <1>7, WorkInReady DEF BeingTried
    <3> QED
      BY <3>1, <3>2, <3>3, <1>2 DEF Untried
  <2>3. Alone' /\ PingLast' /\ OneByOne'
    BY <1>1, <1>2, <1>5 DEF Alone, PingLast, OneByOne, InProgress, Turbulent, IsFetch
  <2>4. Known'
    BY <1>1, <1>2, <1>4, SaleAssumption DEF Known
  <2> QED
    BY <1>3, <2>1, <2>2, <2>3, <2>4 DEF TryInv, OrderInv
<1> QED
  BY <1>6, <1>7

\* A customer that has its answer from the server asks for its drink, or for the
\* information, when nobody else counts on the machine.
LEMMA PaidTry ==
  ASSUME SaleInv, TryInv, ~upset, NEW c \in Customer, Paid(c)
  PROVE  TryInv'
<1>1. toDaemon \in Seq(Reply) /\ OneByOne /\ Stands /\ Alone /\ PingLast /\ Known /\ Untried
  BY DEF TryInv, OrderInv
<1>2. /\ stage[c] = "PaymentCheckDone" /\ LineOK /\ c \in Asker /\ stage \in [Customer -> Stage]
      /\ UNCHANGED <<phase, currentState, nextState, toDaemon, serving, upset>> /\ UNCHANGED vars
  BY DEF Paid, vars, stateVars, SaleInv, SaleTypeOK, Asker
<1>3. Waits(c) /\ ~Fetched(c)
  <2>1. Waits(c)
    BY <1>2 DEF Waits
  <2>2. ~Fetched(c)
    BY <1>2 DEF Fetched, SaleInv, FetchesDue, IsFetch, Due
  <2> QED
    BY <2>1, <2>2
<1>4. currentState = READY /\ nextState = READY /\ \A k \in 1 .. Len(toMachine) : ~Turbulent(k)
  BY <1>1, <1>3 DEF Stands, Alone, Fetched, IsFetch
<1>5. untried = {}
  BY <1>1, <1>4 DEF Untried, Fetched, IsFetch, Turbulent, BeingTried, READY, DEPLOY
<1>6. ASSUME NEW cmds \in Seq(Question), Ask(cmds, c), Become(c, "AllDone"),
             \/ Wants(cmds) /\ untried' = untried \cup {c}
             \/ cmds \in Seq(Question \ {"FETCH"}) /\ UNCHANGED untried
      PROVE  TryInv'
  <2>1. stage'[c] = "AllDone" /\ \A e \in Customer \ {c} : stage'[e] = stage[e]
    BY <1>2, <1>6 DEF Become
  <2>2. /\ \A k \in 1 .. Len(toMachine) : k \in 1 .. Len(toMachine') /\ toMachine'[k] = toMachine[k]
        /\ \A k \in 1 .. Len(toMachine') :
             \/ k \in 1 .. Len(toMachine) /\ toMachine'[k] = toMachine[k]
             \/ /\ k > Len(toMachine)
                /\ \E j \in 1 .. Len(cmds) : /\ k = Len(toMachine) + j
                                             /\ toMachine'[k].cmd = cmds[j] /\ toMachine'[k].id = c
    <3>1. Ask(cmds, c)
      BY <1>6
    <3> QED
      BY <1>2, <3>1, Appended
  <2>3. \A k \in 1 .. Len(toMachine') : Turbulent(k)' => k > Len(toMachine) /\ toMachine'[k].id = c
    BY <1>4, <2>2 DEF Turbulent
  <2>4. ASSUME NEW e \in Customer \ {c}
        PROVE  ~Waits(e)'
    <3>1. ~InProgress(e)
      BY <1>1, <1>2 DEF OneByOne, InProgress
    <3>2. ~Fetched(e)'
      BY <2>3 DEF Fetched, IsFetch, Turbulent
    <3> QED
      BY <2>1, <3>1, <3>2 DEF Waits, InProgress
  <2>5. Waits(c)' => Fetched(c)'
    BY <2>1 DEF Waits
  <2>6. Stands'
    BY <1>2, <1>4 DEF Stands
  <2>7. ASSUME Wants(cmds), untried' = untried \cup {c}
        PROVE  Alone' /\ Untried'
    <3>1. \A k \in 1 .. Len(toMachine') : Turbulent(k)' => toMachine'[k].cmd = "FETCH"
      BY <1>4, <2>2, <2>7 DEF Turbulent, Wants
    <3>2. Alone'
      BY <2>3, <2>4, <3>1 DEF Alone, IsFetch
    <3>3. Fetched(c)'
      <4>1. /\ Len(toMachine') = Len(toMachine) + Len(cmds)
            /\ \A k \in 1 .. Len(cmds) : toMachine'[Len(toMachine) + k] = Datagram(cmds[k], c, <<>>)
        BY <1>2, <1>6, AskAppends
      <4>2. PICK n \in Nat \ {0} : n = Len(cmds) /\ cmds[n] = "FETCH"
        BY <2>7 DEF Wants
      <4>3. PICK m \in Nat : m = Len(toMachine)
        BY <1>2 DEF LineOK
      <4>4. n \in 1 .. Len(cmds)
        BY <4>2
      <4>5. m + n \in 1 .. Len(toMachine')
        BY <4>1, <4>2, <4>3
      <4>6. toMachine'[m + n] = Datagram("FETCH", c, <<>>)
        BY <4>1, <4>2, <4>3, <4>4
      <4> QED
        BY <4>5, <4>6, DatagramIs DEF Fetched, IsFetch
    <3> QED
      BY <2>7, <1>5, <3>2, <3>3 DEF Untried
  <2>8. ASSUME cmds \in Seq(Question \ {"FETCH"}), UNCHANGED untried
        PROVE  Alone' /\ Untried'
    <3>1. \A j \in 1 .. Len(cmds) : cmds[j] # "FETCH"
      BY <2>8
    <3>2. ~Fetched(c)'
      BY <1>4, <2>2, <3>1 DEF Fetched, IsFetch, Turbulent
    <3> QED
      BY <2>8, <2>4, <2>5, <1>5, <3>2 DEF Alone, Untried
  <2>9. Alone' /\ Untried'
    BY <1>6, <2>7, <2>8
  <2>10. PingLast'
    <3> SUFFICES ASSUME NEW e \in Customer, stage'[e] = "StateCheckDone"
                 PROVE  FALSE
      BY DEF PingLast
    <3>1. e # c /\ InProgress(e) /\ InProgress(c)
      BY <1>2, <2>1 DEF InProgress
    <3> QED
      BY <1>1, <3>1 DEF OneByOne
  <2>11. Known'
    <3> SUFFICES ASSUME NEW e \in Customer, stage'[e] = "none"
                 PROVE  /\ \A k \in 1 .. Len(toMachine') : toMachine'[k].id # e
                        /\ \A k \in 1 .. Len(toDaemon') : toDaemon'[k].id # e
      BY DEF Known
    <3>1. e # c /\ stage[e] = "none"
      BY <2>1
    <3>2. \A k \in 1 .. Len(toMachine) : toMachine[k].id # e
      BY <1>1, <3>1 DEF Known
    <3>3. \A k \in 1 .. Len(toDaemon) : toDaemon[k].id # e
      BY <1>1, <3>1 DEF Known
    <3>4. ASSUME NEW k \in 1 .. Len(toMachine')
          PROVE  toMachine'[k].id # e
      BY <2>2, <3>1, <3>2
    <3> QED
      BY <1>2, <3>3, <3>4
  <2>12. OneByOne'
    BY <1>1, <2>1 DEF OneByOne, InProgress
  <2> QED
    BY <1>1, <1>2, <2>6, <2>9, <2>10, <2>11, <2>12 DEF TryInv, OrderInv
<1>7. CASE UNCHANGED <<toMachine, untried>> /\ (Become(c, "AllDone") \/ UNCHANGED stage)
  <2>1. \A e \in Customer : stage'[e] = stage[e] \/ (e = c /\ stage'[e] = "AllDone")
    BY <1>2, <1>7 DEF Become
  <2>2. \A e \in Customer : Proceeds(e)
    BY <2>1 DEF Proceeds
  <2>3. OrderInv'
    BY <1>1, <1>2, <1>7, <2>2, CalmStep DEF OrderInv
  <2>4. OneByOne'
    BY <1>1, <2>1 DEF OneByOne, InProgress
  <2> QED
    BY <1>1, <1>2, <2>3, <2>4 DEF TryInv
<1>8. ASSUME NEW cmds \in Seq(Question \ {"FETCH"})
      PROVE  cmds \in Seq(Question)
  OBVIOUS
<1> QED
  BY <1>6, <1>7, <1>8, PaidAsks

\* What the operator presses on the page is harmless, or finds nobody who counts on the
\* machine.
LEMMA PressTry ==
  ASSUME SaleInv, TryInv, ~upset, ~upset', Press \/ \E v \in Visit : PressFetch(v)
  PROVE  TryInv'
<1>1. /\ toDaemon \in Seq(Reply) /\ OneByOne /\ Stands /\ Alone /\ PingLast /\ Known /\ Untried
      /\ LineOK /\ Len(toMachine) \in Nat
  BY DEF TryInv, OrderInv, SaleInv, SaleTypeOK, LineOK
<1>2. /\ UNCHANGED <<phase, currentState, nextState, toDaemon, stage, untried, serving>>
      /\ UNCHANGED vars
  BY DEF Press, PressFetch, vars, stateVars, daemonVars
<1>3. OneByOne'
  BY <1>1, <1>2 DEF OneByOne, InProgress
<1>4. CASE CalmlyGrown
  <2>1. \A e \in Customer : Proceeds(e)
    BY <1>2 DEF Proceeds
  <2>2. OrderInv'
    BY <1>1, <1>2, <1>4, <2>1, CalmStep DEF OrderInv
  <2> QED
    BY <1>1, <1>2, <1>3, <2>2 DEF TryInv
<1>5. ASSUME ~UnderWay,
             \A k \in 1 .. Len(toMachine') : \/ k \in 1 .. Len(toMachine) /\ toMachine'[k] = toMachine[k]
                                             \/ toMachine'[k].id \notin Customer
      PROVE  TryInv'
  <2>1. ASSUME NEW e \in Customer
        PROVE  ~InProgress(e) /\ ~Fetched(e) /\ ~Fetched(e)'
    <3>1. \A k \in 1 .. Len(toMachine) : ~(toMachine[k].cmd = "FETCH" /\ toMachine[k].id = e)
      <4>1. DOMAIN toMachine = 1 .. Len(toMachine)
        BY <1>1 DEF LineOK
      <4> QED
        BY <1>5, <4>1 DEF UnderWay
    <3>2. ~InProgress(e)
      BY <1>5 DEF UnderWay
    <3> QED
      BY <1>5, <3>1, <3>2 DEF Fetched, IsFetch
  <2>2. \A e \in Customer : ~Waits(e)' /\ stage'[e] # "StateCheckDone"
    BY <1>2, <2>1 DEF Waits, InProgress
  <2>3. Stands' /\ Alone' /\ PingLast'
    BY <2>2 DEF Stands, Alone, PingLast
  <2>4. Known'
    BY <1>1, <1>2, <1>5 DEF Known
  <2>5. Untried'
    BY <1>1, <1>2, <2>1 DEF Untried, BeingTried
  <2> QED
    BY <1>1, <1>2, <1>3, <2>3, <2>4, <2>5 DEF TryInv, OrderInv
<1>6. CASE Press
  <2>1. PICK frames \in Page : /\ toMachine' = toMachine \o frames
                               /\ upset' = (upset \/ (UnderWay /\ frames[1].cmd = "SET_STATE"))
    BY <1>6 DEF Press
  <2>2. 0 \notin Customer
    BY SaleAssumption
  <2>3. CASE frames[1].cmd = "SET_STATE"
    BY <2>1, <2>2, <2>3, <1>1, <1>5, PageAppends
  <2>4. CASE frames[1].cmd # "SET_STATE"
    <3>1. CalmlyGrown
      BY <2>1, <2>2, <2>4, <1>1, PageAppends DEF CalmlyGrown, Turbulent
    <3> QED
      BY <3>1, <1>4
  <2> QED
    BY <2>3, <2>4
<1>7. ASSUME NEW v \in Visit, PressFetch(v)
      PROVE  TryInv'
  <2>1. Ask(<<"FETCH">>, v) /\ ~UnderWay
    BY <1>7 DEF PressFetch
  <2>2. <<"FETCH">> \in Seq(Question) /\ v \in Asker /\ v \notin Customer
    BY SaleAssumption DEF Question, Asker
  <2>3. ASSUME NEW k \in 1 .. Len(toMachine')
        PROVE  (k \in 1 .. Len(toMachine) /\ toMachine'[k] = toMachine[k]) \/ toMachine'[k].id = v
    BY <2>1, <2>2, <1>1, Appended
  <2> QED
    BY <2>1, <2>2, <2>3, <1>5
<1> QED
  BY <1>6, <1>7

\* The other steps of the customers' are calm.
LEMMA CustomersTry ==
  ASSUME SaleInv, TryInv, ~upset, ~upset',
         Answered \/ \E c \in Customer : NewCustomer(c) \/ Decide(c) \/ Timeout(c)
  PROVE  TryInv'
<1>1. toDaemon \in Seq(Reply) /\ OneByOne /\ OrderInv /\ LineOK /\ stage \in [Customer -> Stage]
  BY DEF TryInv, SaleInv, SaleTypeOK
<1>2. UNCHANGED vars /\ UNCHANGED <<untried, serving>>
  BY DEF Answered, NewCustomer, Decide, Timeout, ghostVars
<1>3. \/ UNCHANGED toDaemon
      \/ toDaemon # <<>> /\ toDaemon' = Tail(toDaemon)
  BY DEF Answered, NewCustomer, Decide, Timeout, lineVars
<1>4. toDaemon' \in Seq(Reply)
  BY <1>1, <1>3
<1>5. ASSUME \A c \in Customer : Proceeds(c), UNCHANGED toMachine \/ CalmlyGrown, OneByOne'
      PROVE  TryInv'
  BY <1>1, <1>2, <1>3, <1>4, <1>5, CalmStep DEF TryInv
<1>6. ASSUME NEW c \in Customer, NEW s, Become(c, s)
      PROVE  stage'[c] = s /\ \A e \in Customer \ {c} : stage'[e] = stage[e]
  BY <1>1, <1>6 DEF Become
<1>7. ASSUME \A e \in Customer : InProgress(e)' => InProgress(e)
      PROVE  OneByOne'
  BY <1>1, <1>7 DEF OneByOne
<1>8. <<"PING">> \in Seq(Calm) /\ <<"PONG">> \in Seq(Calm) /\ <<"CHECK_AVAIL">> \in Seq(Calm) /\ <<"LCD", "LCD">> \in Seq(Calm)
  BY DEF Calm, Question
<1>9. CASE Answered
  <2>1. toDaemon # <<>> /\ 1 \in 1 .. Len(toDaemon) /\ Head(toDaemon) = toDaemon[1]
    BY <1>1, <1>9 DEF Answered
  <2>2. ASSUME NEW c \in Customer, Head(toDaemon).id = c,
               stage[c] = "StateCheckDone", StateChecked(c, Head(toDaemon).cmd)
        PROVE  TryInv'
    <3>1. CASE Head(toDaemon).cmd = "READY"
      <4>1. Waits(c)
        BY <2>1, <2>2, <3>1 DEF Waits, IsReady
      <4>2. Become(c, "SupplyCheckDone") /\ Ask(<<"CHECK_AVAIL">>, c)
        BY <2>2, <3>1 DEF StateChecked
      <4>3. CalmlyGrown
        <5>1. stage'[c] # "none"
          BY <1>6, <4>2
        <5> QED
          BY <1>1, <1>8, <4>2, <5>1, CalmAsk DEF Asker
      <4> QED
        BY <2>2, <4>1, <4>2, <4>3, <1>5, <1>6, <1>7 DEF Proceeds, InProgress
    <3>2. CASE Become(c, "AllDone") /\ (UNCHANGED toMachine \/ Ask(<<"LCD", "LCD">>, c))
      <4>1. UNCHANGED toMachine \/ CalmlyGrown
        <5>1. stage'[c] # "none"
          BY <1>6, <3>2
        <5> QED
          BY <1>1, <1>8, <3>2, <5>1, CalmAsk DEF Asker
      <4> QED
        BY <3>2, <4>1, <1>5, <1>6, <1>7 DEF Proceeds, InProgress
    <3> QED
      BY <2>2, <3>1, <3>2 DEF StateChecked
  <2>3. ASSUME NEW c \in Customer, stage[c] = "SupplyCheckDone", SupplyChecked(c, Head(toDaemon).cmd)
        PROVE  TryInv'
    <3>1. Waits(c) /\ UNCHANGED toMachine /\ \E s \in {"PaymentCheckDone", "AllDone"} : Become(c, s)
      BY <2>3 DEF Waits, SupplyChecked
    <3>2. \A e \in Customer : Proceeds(e)
      BY <3>1, <1>6 DEF Proceeds
    <3>3. \A e \in Customer : InProgress(e)' => InProgress(e)
      BY <2>3, <3>1, <1>6 DEF InProgress
    <3> QED
      BY <3>1, <3>2, <3>3, <1>5, <1>7
  <2>4. CASE UNCHANGED stage /\ (UNCHANGED toMachine \/ Ask(<<"PONG">>, 0))
    <3>1. UNCHANGED toMachine \/ CalmlyGrown
      BY <1>1, <1>8, <2>4, CalmAsk, SaleAssumption DEF Asker
    <3> QED
      BY <2>4, <3>1, <1>5, <1>7 DEF Proceeds, InProgress
  <2> QED
    BY <1>9, <2>2, <2>3, <2>4 DEF Answered
<1>10. ASSUME NEW c \in Customer, NewCustomer(c)
       PROVE  TryInv'
  <2>1. /\ stage[c] = "none" /\ Become(c, "StateCheckDone") /\ Ask(<<"PING">>, c)
        /\ \A e \in Customer : ~InProgress(e)
    BY <1>10 DEF NewCustomer
  <2>2. CalmlyGrown
    <3>1. stage'[c] # "none"
      BY <1>6, <2>1
    <3> QED
      BY <1>1, <1>8, <2>1, <3>1, CalmAsk DEF Asker
  <2>3. \A e \in Customer : Proceeds(e)
    BY <2>1, <1>6 DEF Proceeds
  <2>4. OneByOne'
    BY <2>1, <1>6 DEF OneByOne, InProgress
  <2> QED
    BY <2>2, <2>3, <2>4, <1>5
<1>11. ASSUME NEW c \in Customer, Decide(c)
       PROVE  TryInv'
  <2>1. UNCHANGED <<stage, toMachine>>
    BY <1>11 DEF Decide, lineVars
  <2> QED
    BY <2>1, <1>5, <1>7 DEF Proceeds, InProgress
<1>12. ASSUME NEW c \in Customer, Timeout(c)
       PROVE  TryInv'
  <2>1. Become(c, "Expired") /\ UNCHANGED toMachine
    BY <1>12 DEF Timeout, lineVars
  <2> QED
    BY <2>1, <1>5, <1>6, <1>7 DEF Proceeds, InProgress
<1> QED
  BY <1>9, <1>10, <1>11, <1>12

\* Whatever happens, the line to the daemon holds what the machine can say.
LEMMA RepliesStay ==
  ASSUME SaleInv, toDaemon \in Seq(Reply), SaleNext
  PROVE  toDaemon' \in Seq(Reply)
<1>1. CASE Machine
  <2>1. Heard(tx') = <<>> \/ \E x \in Reply : Heard(tx') = <<x>>
    <3>1. CASE Hear
      <4>1. Head(toMachine) \in Asked /\ Receive(Head(toMachine))
        BY <3>1 DEF Hear, SaleInv, SaleTypeOK, LineOK
      <4> QED
        BY <4>1, AnswersHeard
    <3>2. CASE Work
      BY <3>2, WorkHeard
    <3>3. CASE Interrupted
      <4>1. tx' = <<>> \/ \E data : tx' = <<Datagram("SET_STATE", 0, data)>>
        BY <3>3 DEF Interrupted, Reset, ForceServiceState, Send
      <4>2. "SET_STATE" \notin HeardCommand
        BY DEF HeardCommand
      <4>3. \A data : Heard(<<Datagram("SET_STATE", 0, data)>>) = <<>>
        BY <4>2, HeardIs
      <4>4. Heard(tx') = <<>>
        BY <4>1, <4>3, HeardIs
      <4> QED
        BY <4>4
    <3> QED
      BY <1>1, <3>1, <3>2, <3>3 DEF Machine
  <2> QED
    BY <1>1, <2>1, ReplyAppended DEF Machine
<1>2. CASE ~Machine
  <2>1. UNCHANGED toDaemon \/ (toDaemon # <<>> /\ toDaemon' = Tail(toDaemon))
    BY <1>2 DEF SaleNext, Lose, Press, PressFetch, Answered, NewCustomer, Decide, Paid, Timeout, lineVars
  <2> QED
    BY <2>1
<1> QED
  BY <1>1, <1>2

LEMMA TryStep ==
  ASSUME SwitchPlan, SaleInv, TryInv, [SaleNext]_saleVars
  PROVE  TryInv'
<1>1. CASE UNCHANGED saleVars
  BY <1>1 DEF saleVars, vars, stateVars, lineVars, daemonVars, ghostVars, TryInv, OneByOne, InProgress,
              OrderInv, Stands, Alone, PingLast, Known, Untried, BeingTried, Waits, IsReady, Fetched,
              IsFetch, Turbulent
<1>2. CASE SaleNext /\ upset'
  BY <1>2, RepliesStay DEF TryInv
<1>3. CASE SaleNext /\ ~upset'
  <2>1. ~upset
    BY <1>3 DEF SaleNext, Machine, Hear, Work, Interrupted, Lose, Press, PressFetch, Answered, NewCustomer,
                Decide, Paid, Timeout, ghostVars
  <2>2. CASE Machine
    BY <1>3, <2>1, <2>2, HearTry, WorkTry DEF Machine, Interrupted
  <2>3. CASE Press \/ \E v \in Visit : PressFetch(v)
    BY <1>3, <2>1, <2>3, PressTry
  <2>4. CASE Answered \/ \E c \in Customer : NewCustomer(c) \/ Decide(c) \/ Timeout(c)
    BY <1>3, <2>1, <2>4, CustomersTry
  <2>5. CASE \E c \in Customer : Paid(c)
    BY <2>1, <2>5, PaidTry
  <2> QED
    BY <1>3, <2>2, <2>3, <2>4, <2>5 DEF SaleNext, Lose
<1> QED
  BY <1>1, <1>2, <1>3

\* PaidIsTried: who is granted a drink gets a try of the machine or the word EMPTY, unless a
\* reset, the service button, a lost frame, a silence, a second customer or the page's
\* Start, Stop or Fetch comes between (customer.cpp:115-125, dixie.cpp:470-484,
\* httphandler.cpp:161-180).
THEOREM PaidTried == SaleSpec => []PaidIsTried
<1>1. SaleInit => TryInv
  BY DEF SaleInit, Init, Construct, TryInv, OneByOne, InProgress, OrderInv, Stands, Alone, PingLast,
         Known, Untried, Waits, IsReady, Fetched, IsFetch
<1>2. TryInv => PaidIsTried
  BY DEF TryInv, OrderInv, Untried, Fetched, IsFetch, BeingTried, PaidIsTried
<1> QED
  BY <1>1, <1>2, TryStep, SaleInvariant, SaleIsDixie, PlanInvariant, PTL DEF SaleSpec
=============================================================================
