----------------------------- MODULE DixieProofs -----------------------------
(***************************************************************************)
(* The firmware's invariants, for any number of columns, any intervals and *)
(* any datagrams.                                                          *)
(***************************************************************************)
EXTENDS Dixie, WellFoundedInduction, TLAPS
-----------------------------------------------------------------------------
(* The column vender's operators.                                          *)

\* A non-empty set of columns has a least member, the one Min picks.
LEMMA MinOfColumns ==
  ASSUME NEW S, S \subseteq Nat, S # {}
  PROVE  Min(S) \in S /\ \A y \in S : Min(S) <= y
<1>1. \E x \in S : \A y \in S : ~(<<y, x>> \in OpToRel(<, Nat))
  BY NatLessThanWellFounded, WFMin
<1>2. PICK x \in S : \A y \in S : ~(y < x)
  BY <1>1 DEF OpToRel
<1>3. \A y \in S : x <= y
  BY <1>2
<1> QED
  BY <1>3 DEF Min

\* The start of the scan is a column number, even past the last column.
LEMMA StartColumnType ==
  ASSUME NEW bits \in SUBSET (0 .. 3)
  PROVE  StartColumn(bits) \in 1 .. 15
  BY DEF StartColumn

\* getDeployColumn answers 0 exactly when no column is deployable, and a
\* deployable column otherwise, wherever the scan starts.
THEOREM SelectCorrect ==
  ASSUME NEW from \in Int, NEW S \in SUBSET Column
  PROVE  /\ Select(from, S) = 0 <=> S = {}
         /\ S # {} => Select(from, S) \in S
<1> DEFINE ahead == {c \in S : c >= from}
<1>n. S \subseteq Nat /\ ahead \subseteq S
  BY NAssumption DEF Column
<1>z. 0 \notin S
  BY NAssumption DEF Column
<1>1. CASE S = {}
  BY <1>1 DEF Select
<1>2. CASE S # {} /\ ahead # {}
  <2>1. ahead \subseteq Nat
    BY <1>n
  <2> HIDE DEF ahead
  <2>2. Min(ahead) \in ahead
    BY <1>2, <2>1, MinOfColumns
  <2> USE DEF ahead
  <2>3. Select(from, S) = Min(ahead)
    BY <1>2 DEF Select
  <2> HIDE DEF ahead
  <2> QED
    BY <1>2, <1>n, <1>z, <2>2, <2>3
<1>3. CASE S # {} /\ ahead = {}
  <2>1. Min(S) \in S
    BY <1>3, <1>n, MinOfColumns
  <2>2. Select(from, S) = Min(S)
    BY <1>3 DEF Select
  <2> QED
    BY <1>3, <1>z, <2>1, <2>2
<1> QED
  BY <1>1, <1>2, <1>3

\* What a reading leaves in m_narco has the right type.
LEMMA ReadingType ==
  ASSUME NarcoTypeOK, NEW r \in Reading
  PROVE  /\ DeployColumn(r) \in 0 .. N
         /\ DeployColumn(r) = 0 <=> Deployable(r) = {}
         /\ DeployColumn(r) # 0 => DeployColumn(r) \in Deployable(r) /\ DeployColumn(r) \in Column
         /\ UpdateWithJam(r) => full' \subseteq Column /\ jammed' \subseteq Column
         /\ UpdateWithJam(r) => full' \ jammed' = Deployable(r)
<1>1. StartColumn(cursor) \in Int
  BY StartColumnType DEF NarcoTypeOK
<1>2. Deployable(r) \in SUBSET Column
  BY DEF Reading, Deployable
<1>3. /\ Select(StartColumn(cursor), Deployable(r)) = 0 <=> Deployable(r) = {}
      /\ Deployable(r) # {} => Select(StartColumn(cursor), Deployable(r)) \in Deployable(r)
  BY <1>1, <1>2, SelectCorrect
<1>4. UpdateWithJam(r) => /\ full' \subseteq Column /\ jammed' \subseteq Column
                          /\ full' \ jammed' = Deployable(r)
  BY DEF UpdateWithJam, Reading, Deployable
<1> QED
  BY <1>2, <1>3, <1>4, NAssumption DEF DeployColumn, Column

LEMMA GetDeployColumnType ==
  ASSUME NarcoTypeOK, NEW r \in Reading, GetDeployColumn(r)
  PROVE  full' \subseteq Column /\ jammed' \subseteq Column /\ cursor' \subseteq 0 .. 3
  BY ReadingType DEF GetDeployColumn, NarcoTypeOK, Bits

\* powerOff stops every motor; powerOn leaves at most its own column running.
LEMMA RelayFacts ==
  ASSUME NEW on, on \subseteq Column, NEW c
  PROVE  /\ PowerOff(on) = {}
         /\ PowerOn(on, c) = {c} \cap Column
  BY DEF PowerOff, PowerOn
-----------------------------------------------------------------------------
(* The timers, and the homing of a column.                                 *)

LEMMA StartType ==
  ASSUME NEW t, TimerOK(t), NEW S
  PROVE  TimerOK(Start(S, t)) /\ \A x \in S \cap Timer : Start(S, t)[x] # Off
  BY DixieAssumption DEF TimerOK, Start, Off

LEMMA StopType ==
  ASSUME NEW t, TimerOK(t), NEW S
  PROVE  TimerOK(Stop(S, t))
  BY DixieAssumption DEF TimerOK, Stop, Off

LEMMA ExitType ==
  ASSUME TypeOK
  PROVE  /\ TimerOK(ExitTimer)
         /\ ExitMotor \subseteq Column
         /\ Exit => deployId' \in Id \cup {0}
  BY StopType DEF TypeOK, ExitTimer, ExitMotor, Exit, NarcoTypeOK, PowerOff

\* The part of TypeOK that entering a state may disturb.
DisturbedOK == /\ \A i \in DOMAIN tx : tx[i].id \in Id \cup {0}
               /\ nextState \in State
               /\ deployColumn \in 0 .. N + 1
               /\ TimerOK(timer)
               /\ NarcoTypeOK

\* Homing a column keeps the types.
LEMMA StartHomingType ==
  ASSUME TypeOK, NEW came, NEW column, NEW on, on \subseteq Column,
         NEW t, TimerOK(t), StartHoming(came, column, on, t)
  PROVE  /\ \A i \in DOMAIN tx' : tx'[i].id \in Id \cup {0}
         /\ nextState' \in State
         /\ TimerOK(timer')
         /\ motor' \subseteq Column
<1>1. PowerOn(on, column) \subseteq Column
  BY DEF PowerOn, PowerOff
<1>2. TimerOK(Start({"motorRun"}, t))
  BY StartType
<1> QED
  BY <1>1, <1>2 DEF StartHoming, TypeOK, Send, Datagram, State, SERVICE, INFO

\* Entering a state keeps the types.
LEMMA EnterType ==
  ASSUME TypeOK, NEW r \in Reading,
         \/ EnterService(r) /\ Send(<<>>) /\ nextState' \in State
         \/ EnterPrepareReady
         \/ EnterReady(r)
         \/ EnterReadyWait(r)
         \/ EnterDeploy(r)
         \/ EnterDeployError
         \/ EnterPrepareAutoHome
         \/ EnterAutoHome
         \/ EnterInfo
  PROVE  DisturbedOK'
<1> USE DEF TypeOK, DisturbedOK, NarcoTypeOK, Send
<1>t. TimerOK(ExitTimer) /\ \A S : TimerOK(Start(S, ExitTimer))
  BY ExitType, StartType
<1>m. /\ ExitMotor \subseteq Column
      /\ PowerOff(ExitMotor) \subseteq Column
      /\ \A c : PowerOn(ExitMotor, c) \subseteq Column
  BY ExitType DEF PowerOff, PowerOn
<1>r. UpdateWithJam(r) => full' \subseteq Column /\ jammed' \subseteq Column
  BY ReadingType
<1>1. CASE EnterService(r) /\ Send(<<>>) /\ nextState' \in State
  BY <1>1, <1>t, <1>m, <1>r DEF EnterService
<1>2. CASE EnterPrepareReady
  BY <1>2, <1>t, <1>m DEF EnterPrepareReady
<1>3. CASE EnterReady(r)
  BY <1>3, <1>t, <1>m, <1>r DEF EnterReady
<1>4. CASE EnterReadyWait(r)
  BY <1>4, <1>t, <1>m, <1>r DEF EnterReadyWait
<1>5. CASE EnterDeploy(r)
  <2>1. full' \subseteq Column /\ jammed' \subseteq Column /\ cursor' \subseteq 0 .. 3
    BY <1>5, GetDeployColumnType DEF EnterDeploy
  <2>2. deployColumn' \in 0 .. N + 1
    BY <1>5, ReadingType, NAssumption DEF EnterDeploy
  <2>3. nextState' \in State
    BY <1>5 DEF EnterDeploy, State, SERVICE, INFO, PREPARE_READY
  <2>4. \A i \in DOMAIN tx' : tx'[i].id \in Id \cup {0}
    BY <1>5 DEF EnterDeploy, Datagram
  <2>5. TimerOK(timer') /\ motor' \subseteq Column
    BY <1>5, <1>t, <1>m DEF EnterDeploy
  <2> QED
    BY <2>1, <2>2, <2>3, <2>4, <2>5
<1>6. CASE EnterDeployError
  BY <1>6, <1>t, <1>m DEF EnterDeployError, MarkJammed
<1>7. CASE EnterPrepareAutoHome
  BY <1>7, <1>t, <1>m DEF EnterPrepareAutoHome
<1>8. CASE EnterAutoHome
  <2>1. /\ \A i \in DOMAIN tx' : tx'[i].id \in Id \cup {0}
        /\ nextState' \in State /\ TimerOK(timer') /\ motor' \subseteq Column
    BY <1>8, <1>t, <1>m, StartHomingType DEF EnterAutoHome
  <2> QED
    BY <1>8, <2>1 DEF EnterAutoHome
<1>9. CASE EnterInfo
  BY <1>9, <1>t, <1>m DEF EnterInfo
<1> QED
  BY <1>1, <1>2, <1>3, <1>4, <1>5, <1>6, <1>7, <1>8, <1>9

\* The part of TypeOK that handling a datagram may disturb.
HandledOK == /\ \A i \in DOMAIN tx : tx[i].id \in Id \cup {0}
             /\ nextState \in State
             /\ gotPong \in BOOLEAN
             /\ deployId \in Id \cup {0}
             /\ full \subseteq Column /\ jammed \subseteq Column
             /\ cursor \subseteq 0 .. 3

LEMMA SentType ==
  ASSUME NEW cmd, NEW id \in Id \cup {0}, NEW data
  PROVE  \A i \in DOMAIN <<Datagram(cmd, id, data)>> :
            <<Datagram(cmd, id, data)>>[i].id \in Id \cup {0}
  BY DEF Datagram

LEMMA AnswerType ==
  ASSUME TypeOK, NEW cmd, NEW id \in Id \cup {0}, NEW data, NEW next \in State,
         \/ Answer(<<Datagram(cmd, id, data)>>, next)
         \/ Answer(<<>>, next)
  PROVE  HandledOK'
<1>1. tx' = <<>> \/ tx' = <<Datagram(cmd, id, data)>>
  BY DEF Answer, Send
<1>2. \A i \in DOMAIN tx' : tx'[i].id \in Id \cup {0}
  BY <1>1, SentType
<1>3. nextState' \in State /\ UNCHANGED <<gotPong, deployId, full, jammed, cursor>>
  BY DEF Answer
<1> QED
  BY <1>2, <1>3 DEF TypeOK, NarcoTypeOK, HandledOK

\* The handlers of the datagrams keep the types.
LEMMA ReceiveType ==
  ASSUME TypeOK, NEW d \in Request, Receive(d)
  PROVE  TypeOK'
<1>d. d.cmd \in Command /\ d.id \in Id \cup {0} /\ d.data \in Seq(Nat)
  BY DixieAssumption
<1>w. Woken \in State
  BY DEF Woken, TypeOK, State, SERVICE, INFO, READY
<1>s. /\ {SERVICE, INFO, PREPARE_READY, PREPARE_AUTO_HOME, DEPLOY} \subseteq State
  BY DEF State, SERVICE, INFO, PREPARE_READY, PREPARE_AUTO_HOME, DEPLOY
<1>f. /\ phase' \in Phase /\ previousState' \in State /\ currentState' \in State
      /\ deployColumn' \in 0 .. N + 1 /\ TimerOK(timer') /\ motor' \subseteq Column
  BY DEF Receive, TypeOK, NarcoTypeOK, Phase
<1> SUFFICES HandledOK'
  BY <1>f DEF HandledOK, TypeOK, NarcoTypeOK
<1>e. CASE Answer(CurrentState(d.id), Woken)
  BY <1>e, <1>d, <1>w, AnswerType DEF CurrentState
<1>1. CASE OnPing(d)
  BY <1>1, <1>d, <1>w, AnswerType DEF OnPing
<1>2. CASE OnPong(d)
  BY <1>2, <1>w DEF OnPong, HandledOK, TypeOK, NarcoTypeOK, Send
<1>3. CASE OnConfig(d)
  <2>1. \E data : \/ Answer(<<Datagram("GET_CONFIG", d.id, data)>>, Woken)
                  \/ Answer(<<>>, Woken)
    BY <1>3 DEF OnConfig
  <2> QED
    BY <2>1, <1>d, <1>w, AnswerType
<1>4. CASE OnGetState(d)
  BY <1>4, <1>e DEF OnGetState
<1>5. CASE OnSetState(d)
  <2>1. CASE Answer(CurrentState(d.id), Woken)
    BY <2>1, <1>e
  <2>2. CASE ~Answer(CurrentState(d.id), Woken)
    <3>1. PICK s \in {SERVICE, PREPARE_READY, READY} : d.data = <<s>>
      BY <1>5, <2>2 DEF OnSetState
    <3>2. \E next \in State : Answer(<<Datagram("SET_STATE", d.id, d.data)>>, next)
      <4>1. d.data[1] = s
        BY <3>1
      <4>2. (IF d.data = <<READY>> THEN PREPARE_READY ELSE d.data[1]) \in State
        BY <4>1, <1>s, <3>1
      <4> QED
        BY <4>2, <1>5, <2>2 DEF OnSetState
    <3> QED
      BY <3>2, <1>d, AnswerType
  <2> QED
    BY <2>1, <2>2
<1>6. CASE OnHomeAbort(d)
  <2>1. \/ Answer(<<Datagram("HOME_ABORT", d.id, <<>>)>>, SERVICE)
        \/ Answer(CurrentState(d.id), Woken)
    BY <1>6 DEF OnHomeAbort
  <2> QED
    BY <2>1, <1>e, <1>d, <1>s, AnswerType
<1>7. CASE OnHomeBegin(d)
  <2>1. \/ Answer(<<Datagram("HOME_BEGIN", d.id, <<>>)>>, PREPARE_AUTO_HOME)
        \/ Answer(CurrentState(d.id), Woken)
    BY <1>7 DEF OnHomeBegin
  <2> QED
    BY <2>1, <1>e, <1>d, <1>s, AnswerType
<1>8. CASE OnCheckAvail(d)
  <2>1. PICK r \in Reading, cmd \in {"DRINK_AVAIL", "EMPTY"} :
          GetDeployColumn(r) /\ Send(<<Datagram(cmd, d.id, <<>>)>>)
    BY <1>8 DEF OnCheckAvail
  <2>2. full' \subseteq Column /\ jammed' \subseteq Column /\ cursor' \subseteq 0 .. 3
    BY <2>1, GetDeployColumnType DEF TypeOK
  <2>3. nextState' = Woken /\ UNCHANGED <<gotPong, deployId>>
    BY <1>8 DEF OnCheckAvail
  <2> QED
    BY <2>1, <2>2, <2>3, <1>d, <1>w, SentType DEF HandledOK, TypeOK, Send
<1>9. CASE OnFetch(d)
  <2>1. CASE currentState # READY
    BY <1>9, <2>1, <1>d, <1>w DEF OnFetch, HandledOK, TypeOK, NarcoTypeOK, Send
  <2>2. CASE currentState = READY
    <3>1. PICK r \in Reading :
            /\ GetDeployColumn(r)
            /\ \/ deployId' = d.id /\ nextState' = DEPLOY /\ Send(<<>>)
               \/ Send(<<Datagram("EMPTY", d.id, <<>>)>>) /\ UNCHANGED <<deployId, nextState>>
      BY <1>9, <2>2 DEF OnFetch
    <3>2. full' \subseteq Column /\ jammed' \subseteq Column /\ cursor' \subseteq 0 .. 3
      BY <3>1, GetDeployColumnType DEF TypeOK
    <3>3. gotPong' \in BOOLEAN
      BY <1>9 DEF OnFetch, TypeOK
    <3> QED
      BY <3>1, <3>2, <3>3, <1>d, <1>s, SentType DEF HandledOK, TypeOK, Send
  <2> QED
    BY <2>1, <2>2
<1>10. CASE OnShowInfo(d)
  <2>1. CASE currentState = READY
    <3>1. Answer(<<d>>, INFO)
      BY <1>10, <2>1 DEF OnShowInfo
    <3> QED
      BY <3>1, <1>d, <1>s DEF Answer, HandledOK, TypeOK, NarcoTypeOK, Send
  <2>2. CASE currentState # READY
    <3>1. Answer(<<Datagram("BUSY", d.id, d.data)>>, Woken)
      BY <1>10, <2>2 DEF OnShowInfo
    <3> QED
      BY <3>1, <1>d, <1>w, AnswerType
  <2> QED
    BY <2>1, <2>2
<1>11. CASE OnLcd(d)
  BY <1>11, <1>d, <1>w, AnswerType DEF OnLcd
<1>12. CASE OnOther(d)
  BY <1>12, <1>d, <1>w, AnswerType DEF OnOther
<1> QED
  BY <1>1, <1>2, <1>3, <1>4, <1>5, <1>6, <1>7, <1>8, <1>9, <1>10, <1>11, <1>12 DEF Receive

\* The update functions keep the types.
LEMMA UpdateType ==
  ASSUME TypeOK, Update
  PROVE  TypeOK'
<1> USE DEF TypeOK, NarcoTypeOK, Send
<1> DEFINE Rest == /\ \A i \in DOMAIN tx' : tx'[i].id \in Id \cup {0}
                   /\ nextState' \in State
                   /\ gotPong' \in BOOLEAN
                   /\ deployColumn' \in 0 .. N + 1
                   /\ TimerOK(timer')
                   /\ full' \subseteq Column /\ jammed' \subseteq Column
                   /\ motor' \subseteq Column
<1>f. /\ phase' \in Phase /\ previousState' \in State /\ currentState' \in State
      /\ deployId' \in Id \cup {0} /\ cursor' \subseteq 0 .. 3
  BY DEF Update, Phase
<1> SUFFICES Rest
  BY <1>f
<1>s. \A S : TimerOK(Start(S, timer))
  BY StartType
<1>1. CASE UpdateWaiting
  BY <1>1 DEF UpdateWaiting, State, SERVICE, INFO, READY, DEPLOY, PREPARE_READY, DEPLOY_ERROR
<1>2. CASE UpdatePrepareAutoHome
  BY <1>2, NAssumption DEF UpdatePrepareAutoHome, Datagram, State, SERVICE, INFO, AUTO_HOME
<1>3. ASSUME NEW r \in Reading,
             \/ UpdateService(r) \/ UpdateReady(r) \/ UpdateReadyWait(r)
             \/ UpdateDeploy(r) \/ UpdateAutoHome(r)
      PROVE  Rest
  <2>r. Refresh(r) => full' \subseteq Column /\ jammed' \subseteq Column
    BY ReadingType DEF Refresh
  <2>1. CASE UpdateService(r)
    BY <2>1, <2>r, <1>s DEF UpdateService
  <2>2. CASE UpdateReady(r)
    <3>1. /\ \A i \in DOMAIN tx' : tx'[i].id \in Id \cup {0}
          /\ nextState' \in State
          /\ gotPong' \in BOOLEAN
      <4>1. READY_WAIT \in State
        BY DEF State, SERVICE, INFO, READY_WAIT
      <4>2. Send(<<>>) \/ Send(<<Datagram("PING", 0, <<>>)>>)
        BY <2>2 DEF UpdateReady
      <4>3. \A i \in DOMAIN tx' : tx'[i].id \in Id \cup {0}
        BY <4>2, SentType
      <4> QED
        BY <2>2, <4>1, <4>3 DEF UpdateReady
    <3> QED
      BY <2>2, <2>r, <1>s, <3>1 DEF UpdateReady
  <2>3. CASE UpdateReadyWait(r)
    BY <2>3, <2>r, <1>s DEF UpdateReadyWait
  <2>4. CASE UpdateDeploy(r)
    BY <2>4 DEF UpdateDeploy, State, SERVICE, INFO, PREPARE_READY, DEPLOY_ERROR
  <2>5. CASE UpdateAutoHome(r)
    <3> DEFINE GoOn == /\ deployColumn' = deployColumn + 1
                       /\ StartHoming(previousState, deployColumn + 1, PowerOff(motor), timer)
    <3>1. ASSUME ~PastLast(deployColumn), GoOn
          PROVE  /\ \A i \in DOMAIN tx' : tx'[i].id \in Id \cup {0}
                 /\ nextState' \in State /\ TimerOK(timer') /\ motor' \subseteq Column
                 /\ deployColumn' \in 0 .. N + 1
      <4>1. PowerOff(motor) \subseteq Column
        BY DEF PowerOff
      <4>2. deployColumn' \in 0 .. N + 1
        BY <3>1, NAssumption DEF PastLast
      <4> QED
        BY <3>1, <4>1, <4>2, StartHomingType
    <3>2. PastLast(deployColumn) \/ GoOn \/ UNCHANGED <<deployColumn, timer, motor>>
      BY <2>5 DEF UpdateAutoHome
    <3>3. full' \subseteq Column /\ jammed' \subseteq Column /\ gotPong' \in BOOLEAN
      BY <2>5 DEF UpdateAutoHome, MarkJammed
    <3>4. CASE ~PastLast(deployColumn) /\ GoOn
      BY <3>1, <3>3, <3>4
    <3>5. CASE PastLast(deployColumn) \/ ~GoOn
      BY <2>5, <3>3, <3>5 DEF UpdateAutoHome, State, SERVICE, INFO
    <3> QED
      BY <3>4, <3>5
  <2> QED
    BY <1>3, <2>1, <2>2, <2>3, <2>4, <2>5
<1> QED
  BY <1>1, <1>2, <1>3 DEF Update

\* switchState, the service button and a restart keep the types.
LEMMA SwitchType ==
  ASSUME TypeOK, SwitchState
  PROVE  DisturbedOK' /\ deployId' \in Id \cup {0} /\ currentState' \in State
<1>1. \E r \in Reading : 
         \/ EnterService(r) /\ Send(<<>>) /\ nextState' \in State
         \/ EnterPrepareReady
         \/ EnterReady(r)
         \/ EnterReadyWait(r)
         \/ EnterDeploy(r)
         \/ EnterDeployError
         \/ EnterPrepareAutoHome
         \/ EnterAutoHome
         \/ EnterInfo
  <2>1. Reading # {}
    <3>1. [full |-> {}, home |-> {}] \in Reading
      BY DEF Reading
    <3> QED
      BY <3>1
  <2> QED
    BY <2>1 DEF SwitchState, TypeOK
<1>2. DisturbedOK'
  BY <1>1, EnterType
<1> QED
  BY <1>2, ExitType DEF SwitchState, TypeOK

\* THEOREM 1: every variable keeps its type, for every value of the constants.
THEOREM TypeCorrect == Spec => []TypeOK
<1>1. Init => TypeOK
  BY NAssumption, DixieAssumption
     DEF Init, Construct, NarcoInit, TypeOK, NarcoTypeOK, TimerOK, Phase, State,
         SERVICE, INFO, Off
<1>2. TypeOK /\ [Next]_vars => TypeOK'
  <2> SUFFICES ASSUME TypeOK, [Next]_vars
               PROVE  TypeOK'
    OBVIOUS
  <2> USE DEF Send
  <2>1. ASSUME NEW r0 \in Reading, NEW r \in Reading, Begin(r0, r)
        PROVE  TypeOK'
    <3>1. /\ full' \subseteq Column /\ jammed' \subseteq Column
          /\ deployColumn' \in 0 .. N + 1
          /\ cursor' \subseteq 0 .. 3
      <4>1. /\ full' \subseteq Column /\ jammed' \subseteq Column
            /\ DeployColumn(r0) \in 0 .. N + 1
        BY <2>1, ReadingType, NAssumption DEF Begin, TypeOK
      <4>2. Bits(DeployColumn(r0)) \subseteq 0 .. 3
        BY DEF Bits
      <4> QED
        BY <2>1, <4>1, <4>2 DEF Begin, TypeOK, NarcoTypeOK
    <3>2. TimerOK(timer')
      BY <2>1, StartType DEF Begin, TypeOK
    <3>3. motor' \subseteq Column
      BY <2>1 DEF Begin, TypeOK, NarcoTypeOK, PowerOff
    <3> QED
      BY <2>1, <3>1, <3>2, <3>3 DEF Begin, TypeOK, NarcoTypeOK, Phase, stateVars
  <2>2. CASE NoDatagram
    BY <2>2 DEF NoDatagram, TypeOK, NarcoTypeOK, Phase, stateVars, dixieVars, narcoVars
  <2>3. CASE Update
    BY <2>3, UpdateType
  <2>4. CASE Switch
    <3>1. CASE SwitchState
      <4>1. DisturbedOK' /\ deployId' \in Id \cup {0} /\ currentState' \in State
        BY <3>1, SwitchType
      <4>2. gotPong' \in BOOLEAN /\ previousState' \in State /\ phase' \in Phase
        BY <2>4, <3>1 DEF Switch, SwitchState, TypeOK, Phase
      <4> QED
        BY <4>1, <4>2 DEF DisturbedOK, TypeOK
    <3>2. CASE ~SwitchState
      BY <2>4, <3>2 DEF Switch, TypeOK, NarcoTypeOK, Phase, stateVars, dixieVars, narcoVars
    <3> QED
      BY <3>1, <3>2
  <2>5. ASSUME NEW d \in Request, Receive(d)
        PROVE  TypeOK'
    BY <2>5, ReceiveType
  <2>6. ASSUME NEW r \in Reading, ForceServiceState(r)
        PROVE  TypeOK'
    <3>1. /\ TimerOK(timer') /\ motor' \subseteq Column /\ deployId' \in Id \cup {0}
          /\ full' \subseteq Column /\ jammed' \subseteq Column
      <4>1. EnterService(r) /\ Exit
        BY <2>6 DEF ForceServiceState
      <4> QED
        BY <4>1, ExitType, StartType, ReadingType DEF EnterService, PowerOff, TypeOK
    <3>2. \A i \in DOMAIN tx' : tx'[i].id \in Id \cup {0}
      BY <2>6, SentType DEF ForceServiceState
    <3>3. SERVICE \in State
      BY DEF State, SERVICE, INFO
    <3>4. gotPong' \in BOOLEAN
      BY <2>6 DEF ForceServiceState, TypeOK
    <3> QED
      BY <2>6, <3>1, <3>2, <3>3, <3>4
         DEF ForceServiceState, EnterService, TypeOK, NarcoTypeOK
  <2>7. CASE Tick
    <3>1. TimerOK(timer')
      BY <2>7, DixieAssumption DEF Tick, TypeOK, TimerOK, Off
    <3> QED
      BY <2>7, <3>1 DEF Tick, TypeOK, NarcoTypeOK, stateVars, narcoVars
  <2>8. CASE Reset
    <3>1. TimerOK(timer')
      BY <2>8, DixieAssumption DEF Reset, TimerOK, Off
    <3> QED
      BY <2>8, <3>1, NAssumption DEF Reset, TypeOK, NarcoTypeOK, Phase, State, SERVICE, INFO
  <2>9. CASE UNCHANGED vars
    BY <2>9 DEF vars, TypeOK, NarcoTypeOK, stateVars, dixieVars, narcoVars
  <2> QED
    BY <2>1, <2>2, <2>3, <2>4, <2>5, <2>6, <2>7, <2>8, <2>9 DEF Next, Loop, Environment
<1> QED
  BY <1>1, <1>2, PTL DEF Spec
-----------------------------------------------------------------------------
(***************************************************************************)
(* The relays. Every function that leaves DEPLOY or AUTO_HOME, and every   *)
(* one that starts a motor, is looked at; TypeOK alone is needed beside.   *)
(***************************************************************************)

\* Leaving a state stops its motor, whatever the state.
LEMMA ExitStops ==
  ASSUME TypeOK, MotorUnderControl, phase # "boot"
  PROVE  ExitMotor = {} /\ PowerOff(ExitMotor) = {}
  BY RelayFacts DEF ExitMotor, MotorUnderControl, TypeOK, NarcoTypeOK

\* Entering a state leaves the relays under control.
LEMMA EnterControl ==
  ASSUME TypeOK, MotorUnderControl, phase = "switch", SwitchState
  PROVE  MotorUnderControl'
<1>0. ExitMotor = {} /\ PowerOff(ExitMotor) = {}
  BY ExitStops
<1>t. TimerOK(ExitTimer)
  BY ExitType
<1>1. CASE motor' = {}
  BY <1>1 DEF MotorUnderControl
<1>2. CASE nextState = DEPLOY /\ \E r \in Reading : EnterDeploy(r)
  <2>1. PICK r \in Reading : EnterDeploy(r)
    BY <1>2
  <2>2. CASE DeployColumn(r) = 0
    BY <2>1, <2>2, <1>0, <1>1 DEF EnterDeploy
  <2>3. CASE DeployColumn(r) # 0
    <3>1. motor' = {deployColumn'}
      BY <2>1, <2>3, <1>0, RelayFacts, ReadingType DEF EnterDeploy, TypeOK
    <3>2. timer'["motorRun"] # Off /\ timer'["motorStart"] # Off
      BY <2>1, <2>3, <1>t, StartType DEF EnterDeploy, Timer
    <3>3. currentState' = DEPLOY
      BY <1>2 DEF SwitchState
    <3> QED
      BY <3>1, <3>2, <3>3 DEF MotorUnderControl
  <2> QED
    BY <2>2, <2>3
<1>3. CASE nextState = AUTO_HOME /\ EnterAutoHome
  <2>1. motor' = {} \/ motor' = {deployColumn} \cap Column
    BY <1>3, <1>0, RelayFacts DEF EnterAutoHome, StartHoming
  <2>2. motor' # {} => timer'["motorRun"] # Off
    BY <1>3, <1>0, <1>t, StartType DEF EnterAutoHome, StartHoming, Timer
  <2>3. currentState' = AUTO_HOME /\ deployColumn' = deployColumn
    BY <1>3 DEF SwitchState, EnterAutoHome
  <2> QED
    BY <2>1, <2>2, <2>3 DEF MotorUnderControl, AUTO_HOME, DEPLOY
<1> QED
  BY <1>0, <1>1, <1>2, <1>3
     DEF SwitchState, EnterPrepareReady, EnterDeployError, EnterPrepareAutoHome,
         EnterInfo, EnterService, EnterReady, EnterReadyWait

\* An update function that steps from column to column keeps control.
LEMMA UpdateControl ==
  ASSUME TypeOK, MotorUnderControl, Update
  PROVE  MotorUnderControl'
<1>0. phase = "update" /\ phase' # "boot" /\ currentState' = currentState
  BY DEF Update
<1>s. /\ \A S : TimerOK(Start(S, timer))
      /\ \A S : \A x \in Timer :
           Start(S, timer)[x] = IF x \in S THEN Interval[x] ELSE timer[x]
      /\ \A x \in Timer : Interval[x] # Off
  BY StartType, DixieAssumption DEF TypeOK, Start, Off
<1>k. CASE /\ UNCHANGED <<motor, deployColumn>>
           /\ \A x \in {"motorRun", "motorStart"} : timer[x] # Off => timer'[x] # Off
  BY <1>k, <1>0 DEF MotorUnderControl
<1>1. CASE UpdateWaiting
  BY <1>1, <1>k DEF UpdateWaiting
<1>2. CASE UpdatePrepareAutoHome
  <2>1. motor' = {}
    BY <1>2, <1>0 DEF UpdatePrepareAutoHome, MotorUnderControl,
       PREPARE_AUTO_HOME, AUTO_HOME, DEPLOY
  <2> QED
    BY <2>1 DEF MotorUnderControl
<1>3. ASSUME NEW r \in Reading,
             \/ UpdateService(r) \/ UpdateReady(r) \/ UpdateReadyWait(r) \/ UpdateDeploy(r)
      PROVE  MotorUnderControl'
  BY <1>3, <1>s, <1>k DEF UpdateService, UpdateReady, UpdateReadyWait, UpdateDeploy, Timer
<1>4. ASSUME NEW r \in Reading, UpdateAutoHome(r)
      PROVE  MotorUnderControl'
  <2> DEFINE GoOn == /\ deployColumn' = deployColumn + 1
                     /\ StartHoming(previousState, deployColumn + 1, PowerOff(motor), timer)
  <2>1. CASE UNCHANGED <<deployColumn, timer, motor>>
    BY <2>1, <1>k
  <2>2. CASE GoOn
    <3>1. PowerOff(motor) = {} 
      BY RelayFacts DEF TypeOK, NarcoTypeOK
    <3>2. motor' = {} \/ motor' = {deployColumn'} \cap Column
      BY <2>2, <3>1, RelayFacts DEF StartHoming
    <3>3. motor' # {} => timer'["motorRun"] # Off
      BY <2>2, <3>1, <1>s DEF StartHoming, Timer
    <3>4. currentState' = AUTO_HOME
      BY <1>4, <1>0 DEF UpdateAutoHome
    <3> QED
      BY <3>2, <3>3, <3>4 DEF MotorUnderControl, AUTO_HOME, DEPLOY
  <2> QED
    BY <1>4, <2>1, <2>2 DEF UpdateAutoHome
<1> QED
  BY <1>1, <1>2, <1>3, <1>4 DEF Update

\* THEOREM 2: once begin() has run, a motor runs only in DEPLOY and AUTO_HOME,
\* one at a time, the one in m_deployColumn, with the timers that stop it active.
THEOREM MotorSafe == Spec => []MotorUnderControl
<1>1. Init => MotorUnderControl
  BY DEF Init, NarcoInit, MotorUnderControl
<1>2. TypeOK /\ MotorUnderControl /\ [Next]_vars => MotorUnderControl'
  <2> SUFFICES ASSUME TypeOK, MotorUnderControl, [Next]_vars
               PROVE  MotorUnderControl'
    OBVIOUS
  <2>1. ASSUME NEW r0 \in Reading, NEW r \in Reading, Begin(r0, r)
        PROVE  MotorUnderControl'
    BY <2>1, RelayFacts DEF Begin, TypeOK, NarcoTypeOK, MotorUnderControl
  <2>2. CASE NoDatagram
    BY <2>2 DEF NoDatagram, MotorUnderControl, stateVars, dixieVars, narcoVars
  <2>3. CASE Update
    BY <2>3, UpdateControl
  <2>4. CASE Switch
    <3>1. CASE SwitchState
      BY <2>4, <3>1, EnterControl DEF Switch
    <3>2. CASE ~SwitchState
      BY <2>4, <3>2 DEF Switch, MotorUnderControl, stateVars, dixieVars, narcoVars
    <3> QED
      BY <3>1, <3>2
  <2>5. ASSUME NEW d \in Request, Receive(d)
        PROVE  MotorUnderControl'
    BY <2>5 DEF Receive, MotorUnderControl
  <2>6. ASSUME NEW r \in Reading, ForceServiceState(r)
        PROVE  MotorUnderControl'
    <3>1. PowerOff(ExitMotor) = {}
      BY <2>6, ExitStops DEF ForceServiceState
    <3> QED
      BY <2>6, <3>1 DEF ForceServiceState, EnterService, MotorUnderControl
  <2>7. CASE Tick
    <3>1. \A x \in Timer : timer[x] # Off => timer'[x] # Off
      BY <2>7 DEF Tick, TypeOK, TimerOK, Off
    <3> QED
      BY <2>7, <3>1 DEF Tick, MotorUnderControl, stateVars, narcoVars, Timer
  <2>8. CASE Reset
    BY <2>8 DEF Reset, MotorUnderControl
  <2>9. CASE UNCHANGED vars
    BY <2>9 DEF vars, MotorUnderControl, stateVars, dixieVars, narcoVars
  <2> QED
    BY <2>1, <2>2, <2>3, <2>4, <2>5, <2>6, <2>7, <2>8, <2>9 DEF Next, Loop, Environment
<1> QED
  BY <1>1, <1>2, TypeCorrect, PTL DEF Spec
-----------------------------------------------------------------------------
(***************************************************************************)
(* The order of the states.                                                *)
(***************************************************************************)

\* The handlers ask only for a state that may follow.
LEMMA ReceivePlan ==
  ASSUME TypeOK, SwitchPlan, NEW d \in Request, Receive(d)
  PROVE  SwitchPlan'
<1> USE DEF SERVICE, PREPARE_READY, READY, READY_WAIT, DEPLOY, DEPLOY_ERROR,
            PREPARE_AUTO_HOME, AUTO_HOME, INFO
<1>0. /\ phase = "idle" /\ phase' = "update"
      /\ UNCHANGED <<previousState, currentState, deployColumn, motor>>
  BY DEF Receive
<1>1. \/ nextState' = nextState /\ currentState # READY_WAIT
      \/ nextState' = READY /\ currentState = READY_WAIT
      \/ nextState' \in {PREPARE_READY, SERVICE} /\ currentState # SERVICE
      \/ nextState' = PREPARE_READY /\ currentState = SERVICE
      \/ nextState' = SERVICE /\ currentState = SERVICE
      \/ nextState' = PREPARE_AUTO_HOME /\ currentState = SERVICE
      \/ nextState' \in {DEPLOY, INFO} /\ currentState = READY
  <2>w. \/ Woken = nextState /\ currentState # READY_WAIT
        \/ Woken = READY /\ currentState = READY_WAIT
    BY DEF Woken
  <2>1. CASE nextState' = Woken
    BY <2>1, <2>w
  <2>2. CASE nextState' # Woken
    <3>1. CASE OnSetState(d)
      <4>1. PICK s \in {SERVICE, PREPARE_READY, READY} :
               /\ d.data = <<s>>
               /\ nextState' = IF d.data = <<READY>> THEN PREPARE_READY ELSE d.data[1]
        BY <3>1, <2>2 DEF OnSetState, Answer
      <4>2. d.data[1] = s /\ nextState' \in {PREPARE_READY, SERVICE}
        BY <4>1
      <4> QED
        BY <4>2
    <3>2. CASE OnHomeAbort(d) \/ OnHomeBegin(d) \/ OnShowInfo(d) \/ OnFetch(d)
      BY <3>2, <2>2, <2>w DEF OnHomeAbort, OnHomeBegin, OnShowInfo, OnFetch, Answer
    <3>3. ~(\/ OnPing(d) \/ OnPong(d) \/ OnConfig(d) \/ OnGetState(d)
            \/ OnCheckAvail(d) \/ OnLcd(d) \/ OnOther(d))
      BY <2>2 DEF OnPing, OnPong, OnConfig, OnGetState, OnCheckAvail, OnLcd, OnOther, Answer
    <3> QED
      BY <3>1, <3>2, <3>3 DEF Receive
  <2> QED
    BY <2>1, <2>2
<1>2. gotPong' = gotPong \/ nextState' = Woken
  BY DEF Receive, OnPing, OnPong, OnConfig, OnGetState, OnSetState, OnHomeAbort, OnHomeBegin,
         OnCheckAvail, OnFetch, OnShowInfo, OnLcd, OnOther, Answer
<1>3. deployId' = deployId \/ currentState = READY
  BY DEF Receive, OnPing, OnPong, OnConfig, OnGetState, OnSetState, OnHomeAbort, OnHomeBegin,
         OnCheckAvail, OnFetch, OnShowInfo, OnLcd, OnOther, Answer
<1>4. nextState' # currentState => Follows(currentState, nextState')
  BY <1>0, <1>1 DEF SwitchPlan, Follows
<1>5. nextState' = READY_WAIT => ~gotPong'
  BY <1>0, <1>1, <1>2 DEF SwitchPlan, Woken
<1> QED
  BY <1>0, <1>1, <1>3, <1>4, <1>5 DEF SwitchPlan, SwitchFollows, Follows

\* The update functions ask only for a state that may follow.
LEMMA UpdatePlan ==
  ASSUME TypeOK, SwitchPlan, Update
  PROVE  SwitchPlan'
<1> USE DEF SERVICE, PREPARE_READY, READY, READY_WAIT, DEPLOY, DEPLOY_ERROR,
            PREPARE_AUTO_HOME, AUTO_HOME, INFO
<1>0. /\ phase = "update" /\ phase' = "switch"
      /\ UNCHANGED <<previousState, currentState, deployId>>
  BY DEF Update
<1>1. CASE UpdateWaiting
  BY <1>0, <1>1 DEF UpdateWaiting, SwitchPlan, SwitchFollows, Follows
<1>2. CASE UpdatePrepareAutoHome
  BY <1>0, <1>2 DEF UpdatePrepareAutoHome, SwitchPlan, SwitchFollows, Follows
<1>3. ASSUME NEW r \in Reading, UpdateService(r) \/ UpdateReadyWait(r) \/ UpdateDeploy(r)
      PROVE  SwitchPlan'
  BY <1>0, <1>3 DEF UpdateService, UpdateReadyWait, UpdateDeploy, SwitchPlan,
                    SwitchFollows, Follows
<1>4. ASSUME NEW r \in Reading, UpdateReady(r)
      PROVE  SwitchPlan'
  <2>1. /\ currentState = READY /\ UNCHANGED <<deployColumn, motor>>
        /\ nextState' = nextState \/ nextState' = READY_WAIT
    BY <1>4 DEF UpdateReady
  <2>2. nextState' = READY_WAIT => ~gotPong'
    BY <1>4 DEF UpdateReady, SwitchPlan
  <2> QED
    BY <1>0, <2>1, <2>2 DEF SwitchPlan, SwitchFollows, Follows
<1>5. ASSUME NEW r \in Reading, UpdateAutoHome(r)
      PROVE  SwitchPlan'
  <2>1. /\ currentState = AUTO_HOME /\ previousState = PREPARE_AUTO_HOME
        /\ deployColumn \in Nat \ {0} /\ motor = {deployColumn} \cap Column
        /\ UNCHANGED gotPong
    BY <1>5, NAssumption DEF UpdateAutoHome, SwitchPlan, TypeOK
  <2>2. nextState' \in {nextState, SERVICE}
    BY <1>5 DEF UpdateAutoHome, StartHoming
  <2>3. deployColumn' >= 1 /\ motor' = {deployColumn'} \cap Column
    <3>1. CASE UNCHANGED <<deployColumn, motor>>
      BY <3>1, <2>1
    <3>2. CASE ~UNCHANGED <<deployColumn, motor>>
      <4>1. /\ deployColumn' = deployColumn + 1
            /\ StartHoming(previousState, deployColumn + 1, PowerOff(motor), timer)
        BY <1>5, <3>2 DEF UpdateAutoHome
      <4>2. motor' = PowerOn(PowerOff(motor), deployColumn + 1)
        BY <4>1, <2>1 DEF StartHoming
      <4>3. PowerOff(motor) \subseteq Column
        BY DEF PowerOff, TypeOK, NarcoTypeOK
      <4> QED
        BY <2>1, <4>1, <4>2, <4>3, RelayFacts
    <3> QED
      BY <3>1, <3>2
  <2> QED
    BY <1>0, <2>1, <2>2, <2>3 DEF SwitchPlan, SwitchFollows, Follows
<1> QED
  BY <1>1, <1>2, <1>3, <1>4, <1>5 DEF Update

\* After switchState the pending switch is the one it allows.
LEMMA EnterPlan ==
  ASSUME TypeOK, MotorUnderControl, SwitchPlan, phase = "switch", phase' = "idle", SwitchState
  PROVE  SwitchPlan'
<1> USE DEF SERVICE, PREPARE_READY, READY, READY_WAIT, DEPLOY, DEPLOY_ERROR,
            PREPARE_AUTO_HOME, AUTO_HOME, INFO
<1>0. /\ currentState # nextState /\ Follows(currentState, nextState)
      /\ previousState' = currentState /\ currentState' = nextState
      /\ UNCHANGED gotPong
  BY DEF SwitchState, SwitchPlan, SwitchFollows
<1>1. \/ nextState' = nextState
      \/ nextState = DEPLOY /\ nextState' = PREPARE_READY
  <2>1. nextState = AUTO_HOME => currentState = PREPARE_AUTO_HOME
    BY <1>0 DEF Follows
  <2> QED
    BY <2>1 DEF SwitchState, EnterPrepareReady, EnterReady, EnterReadyWait, EnterDeploy,
       EnterDeployError, EnterPrepareAutoHome, EnterAutoHome, StartHoming, EnterInfo
<1>2. nextState = DEPLOY_ERROR => deployId' = 0
  BY <1>0 DEF Follows, SwitchState, Exit
<1>3. nextState = AUTO_HOME => /\ currentState = PREPARE_AUTO_HOME
                               /\ deployColumn' = 1
                               /\ motor' = {1} \cap Column
  <2> SUFFICES ASSUME nextState = AUTO_HOME
               PROVE  /\ currentState = PREPARE_AUTO_HOME
                      /\ deployColumn' = 1
                      /\ motor' = {1} \cap Column
    OBVIOUS
  <2>1. EnterAutoHome /\ currentState = PREPARE_AUTO_HOME /\ deployColumn = 1
    BY <1>0 DEF Follows, SwitchState, SwitchPlan
  <2>2. motor' = PowerOn(ExitMotor, 1) /\ deployColumn' = 1
    BY <2>1 DEF EnterAutoHome, StartHoming
  <2> QED
    BY <2>1, <2>2, ExitType, RelayFacts
<1> QED
  BY <1>0, <1>1, <1>2, <1>3 DEF SwitchPlan, SwitchFollows, Follows

\* THEOREM 3: the order of the states, whatever datagrams and timers come.
THEOREM PlanInvariant == Spec => []SwitchPlan
<1> USE DEF SERVICE, PREPARE_READY, READY, READY_WAIT, DEPLOY, DEPLOY_ERROR,
            PREPARE_AUTO_HOME, AUTO_HOME, INFO
<1>1. Init => SwitchPlan
  BY DEF Init, Construct, SwitchPlan, SwitchFollows
<1>2. TypeOK /\ MotorUnderControl /\ SwitchPlan /\ [Next]_vars => SwitchPlan'
  <2> SUFFICES ASSUME TypeOK, MotorUnderControl, SwitchPlan, [Next]_vars
               PROVE  SwitchPlan'
    OBVIOUS
  <2>1. ASSUME NEW r0 \in Reading, NEW r \in Reading, Begin(r0, r)
        PROVE  SwitchPlan'
    BY <2>1 DEF Begin, SwitchPlan, SwitchFollows, stateVars
  <2>2. CASE NoDatagram
    BY <2>2 DEF NoDatagram, SwitchPlan, SwitchFollows, Follows, stateVars, dixieVars, narcoVars
  <2>3. CASE Update
    BY <2>3, UpdatePlan
  <2>4. CASE Switch
    <3>1. CASE SwitchState
      BY <2>4, <3>1, EnterPlan DEF Switch
    <3>2. CASE ~SwitchState
      BY <2>4, <3>2 DEF Switch, SwitchPlan, SwitchFollows, Follows,
                        stateVars, dixieVars, narcoVars
    <3> QED
      BY <3>1, <3>2
  <2>5. ASSUME NEW d \in Request, Receive(d)
        PROVE  SwitchPlan'
    BY <2>5, ReceivePlan
  <2>6. ASSUME NEW r \in Reading, ForceServiceState(r)
        PROVE  SwitchPlan'
    BY <2>6 DEF ForceServiceState, SwitchPlan, SwitchFollows
  <2>7. CASE Tick
    BY <2>7 DEF Tick, SwitchPlan, SwitchFollows, Follows, stateVars, narcoVars
  <2>8. CASE Reset
    BY <2>8 DEF Reset, SwitchPlan, SwitchFollows
  <2>9. CASE UNCHANGED vars
    BY <2>9 DEF vars, SwitchPlan, SwitchFollows, Follows, stateVars, dixieVars, narcoVars
  <2> QED
    BY <2>1, <2>2, <2>3, <2>4, <2>5, <2>6, <2>7, <2>8, <2>9 DEF Next, Loop, Environment
<1> QED
  BY <1>1, <1>2, TypeCorrect, MotorSafe, PTL DEF Spec

\* Every switch asked for is an edge of the state graph.
THEOREM StatesFollow == Spec => []SwitchFollows
<1>1. SwitchPlan => SwitchFollows
  BY DEF SwitchPlan
<1> QED
  BY <1>1, PlanInvariant, PTL

\* READY_WAIT lasts only while the last PING is unanswered.
THEOREM WaitingIsSilence == Spec => []WaitingMeansSilence
<1>1. SwitchPlan => WaitingMeansSilence
  BY DEF SwitchPlan, WaitingMeansSilence
<1> QED
  BY <1>1, PlanInvariant, PTL
-----------------------------------------------------------------------------
(***************************************************************************)
(* The firmware implements the abstract vender.                            *)
(***************************************************************************)

\* A switch of states is a step of the abstract vender.
LEMMA SwitchIsVender ==
  ASSUME TypeOK, MotorUnderControl, SwitchPlan, SwitchPlan',
         phase = "switch", phase' = "idle", SwitchState
  PROVE  V!Next
<1> USE DEF SERVICE, PREPARE_READY, READY, READY_WAIT, DEPLOY, DEPLOY_ERROR,
            PREPARE_AUTO_HOME, AUTO_HOME, INFO, V!SERVICE, V!PREPARE_READY, V!READY,
            V!READY_WAIT, V!DEPLOY, V!DEPLOY_ERROR, V!PREPARE_AUTO_HOME, V!AUTO_HOME,
            V!INFO, V!State, State, V!BOOT
<1>0. /\ currentState # nextState /\ Follows(currentState, nextState)
      /\ mode = currentState /\ mode' = nextState /\ currentState' = nextState
      /\ mode \in State /\ mode' \in State
  BY DEF SwitchState, SwitchPlan, SwitchFollows, mode, TypeOK
<1>1. ExitMotor = {} /\ PowerOff(ExitMotor) = {}
  BY ExitStops
<1>2. CASE nextState = DEPLOY
  <2>1. mode \in {READY, DEPLOY_ERROR}
    BY <1>0, <1>2 DEF Follows
  <2>2. PICK r \in Reading : EnterDeploy(r)
    BY <1>2 DEF SwitchState
  <2>3. motor' = {} \/ motor' = {DeployColumn(r)} \cap Column
    BY <2>2, <1>1, RelayFacts DEF EnterDeploy
  <2>4. motor' \in {{}} \cup {{c} : c \in Column}
    <3>1. CASE DeployColumn(r) \in Column
      BY <2>3, <3>1
    <3>2. CASE DeployColumn(r) \notin Column
      BY <2>3, <3>2
    <3> QED
      BY <3>1, <3>2
  <2> QED
    BY <1>0, <1>2, <2>1, <2>4 DEF V!Next, V!Vend, V!Column, Column
<1>3. CASE nextState = AUTO_HOME
  <2>1. motor' = {1}
    BY <1>0, <1>3, NAssumption DEF SwitchPlan, EnterAutoHome, SwitchState, Column
  <2>2. mode = PREPARE_AUTO_HOME
    BY <1>0, <1>3 DEF Follows
  <2> QED
    BY <1>0, <1>3, <2>1, <2>2 DEF V!Next, V!HomeFirst
<1>4. CASE nextState \notin {DEPLOY, AUTO_HOME}
  <2>1. motor' = {}
    BY <1>1, <1>4 DEF SwitchState, EnterService, EnterPrepareReady, EnterReady,
       EnterReadyWait, EnterDeployError, EnterPrepareAutoHome, EnterInfo
  <2> QED
    BY <1>0, <1>4, <2>1 DEF Follows, V!Next, V!Rest
<1> QED
  BY <1>2, <1>3, <1>4

\* An update function is a step from column to column, or changes no motor.
LEMMA UpdateIsVender ==
  ASSUME TypeOK, SwitchPlan, SwitchPlan', Update
  PROVE  V!HomeNext \/ UNCHANGED <<mode, motor>>
<1>0. mode = currentState /\ mode' = mode
  BY DEF Update, mode
<1>1. CASE UNCHANGED motor
  BY <1>0, <1>1
<1>2. CASE motor' # motor
  <2>1. PICK r \in Reading : UpdateAutoHome(r)
    BY <1>2 DEF Update, UpdateWaiting, UpdatePrepareAutoHome, UpdateService, UpdateReady,
                UpdateReadyWait, UpdateDeploy
  <2>2. /\ deployColumn' = deployColumn + 1 /\ ~PastLast(deployColumn)
        /\ currentState = AUTO_HOME /\ currentState' = AUTO_HOME
    BY <1>0, <1>2, <2>1 DEF UpdateAutoHome, Update
  <2>3. deployColumn \in Column
    BY <2>2, NAssumption DEF SwitchPlan, TypeOK, PastLast, Column
  <2>4. motor = {deployColumn} /\ motor' = {deployColumn + 1} \cap Column
    BY <2>2, <2>3 DEF SwitchPlan
  <2> QED
    BY <1>0, <2>2, <2>3, <2>4 DEF V!HomeNext, V!AUTO_HOME, V!Column, Column, AUTO_HOME
<1> QED
  BY <1>1, <1>2

\* THEOREM 4: every behaviour of the firmware is one of the abstract vender.
THEOREM Refinement == Spec => ImplementsVender
<1>1. Init => V!Init
  BY DEF Init, NarcoInit, V!Init, V!BOOT, mode
<1>2. /\ TypeOK /\ MotorUnderControl /\ SwitchPlan /\ SwitchPlan' /\ [Next]_vars
      => [V!Next]_(V!venderVars)
  <2> SUFFICES ASSUME TypeOK, MotorUnderControl, SwitchPlan, SwitchPlan', [Next]_vars
               PROVE  V!Next \/ UNCHANGED <<mode, motor>>
    BY DEF V!venderVars
  <2>1. ASSUME NEW r0 \in Reading, NEW r \in Reading, Begin(r0, r)
        PROVE  V!Boot
    BY <2>1, RelayFacts
       DEF Begin, V!Boot, V!BOOT, V!SERVICE, SERVICE, mode, SwitchPlan, stateVars, TypeOK,
           NarcoTypeOK
  <2>2. CASE NoDatagram
    BY <2>2 DEF NoDatagram, mode, stateVars, narcoVars
  <2>3. CASE Update
    BY <2>3, UpdateIsVender DEF V!Next
  <2>4. CASE Switch
    <3>1. CASE SwitchState
      BY <2>4, <3>1, SwitchIsVender DEF Switch
    <3>2. CASE ~SwitchState
      BY <2>4, <3>2 DEF Switch, mode, stateVars, narcoVars
    <3> QED
      BY <3>1, <3>2
  <2>5. ASSUME NEW d \in Request, Receive(d)
        PROVE  UNCHANGED <<mode, motor>>
    BY <2>5 DEF Receive, mode
  <2>6. ASSUME NEW r \in Reading, ForceServiceState(r)
        PROVE  V!Rest
    <3>1. PowerOff(ExitMotor) = {}
      BY <2>6, ExitStops DEF ForceServiceState
    <3> QED
      BY <2>6, <3>1 DEF ForceServiceState, EnterService, V!Rest, V!State, V!SERVICE, V!INFO,
         State, SERVICE, INFO, mode, TypeOK
  <2>7. CASE Tick
    BY <2>7 DEF Tick, mode, stateVars, narcoVars
  <2>8. CASE Reset
    BY <2>8 DEF Reset, V!Next, V!Reset, V!BOOT, mode, TypeOK, State, SERVICE, INFO
  <2>9. CASE UNCHANGED vars
    BY <2>9 DEF vars, mode, stateVars, narcoVars
  <2> QED
    BY <2>1, <2>2, <2>3, <2>4, <2>5, <2>6, <2>7, <2>8, <2>9
       DEF Next, Loop, Environment, V!Next
<1> QED
  BY <1>1, <1>2, TypeCorrect, MotorSafe, PlanInvariant, PTL
     DEF Spec, ImplementsVender, V!Spec
-----------------------------------------------------------------------------
(***************************************************************************)
(* The answers to FETCH and CHECK_AVAIL.                                   *)
(***************************************************************************)

\* What a sequence of one datagram says, read back.
LEMMA SentIs ==
  ASSUME NEW c1, NEW i1, NEW d1, NEW c2, NEW i2, NEW d2,
         <<Datagram(c1, i1, d1)>> = <<Datagram(c2, i2, d2)>>
  PROVE  c1 = c2 /\ i1 = i2 /\ d1 = d2
<1>1. Datagram(c1, i1, d1) = Datagram(c2, i2, d2)
  OBVIOUS
<1> QED
  BY <1>1 DEF Datagram

\* THEOREM 5: a FETCH is confirmed with its own id once, never by a retry.
THEOREM FetchConfirmedOnce == Spec => ConfirmedOnce
<1> DEFINE Confirmed ==
      \A i \in Id \ {0}, k \in Column :
        phase = "switch" /\ tx' = <<Datagram("FETCH", i, <<k>>)>> =>
          currentState = READY /\ nextState = DEPLOY /\ deployId = i
<1>1. TypeOK /\ SwitchPlan /\ [Next]_vars => [Confirmed]_vars
  <2> SUFFICES ASSUME TypeOK, SwitchPlan, Next, NEW i \in Id \ {0}, NEW k \in Column,
                      phase = "switch", tx' = <<Datagram("FETCH", i, <<k>>)>>
               PROVE  currentState = READY /\ nextState = DEPLOY /\ deployId = i
    OBVIOUS
  <2>1. Switch
    <3>1. ~NoDatagram /\ ~Update /\ ~Tick /\ ~(\E d \in Request : Receive(d))
      BY DEF NoDatagram, Update, Tick, Receive
    <3>2. /\ ~(\E r0, r \in Reading : Begin(r0, r))
          /\ ~(\E r \in Reading : ForceServiceState(r))
      BY DEF Begin, ForceServiceState
    <3>3. ~Reset
      BY DEF Reset, Send
    <3> QED
      BY <3>1, <3>2, <3>3 DEF Next, Loop, Environment
  <2>2. SwitchState /\ currentState # nextState /\ Follows(currentState, nextState)
    BY <2>1 DEF Switch, Send, SwitchState, SwitchPlan, SwitchFollows
  <2>3. ~EnterAutoHome
    <3> SUFFICES ASSUME EnterAutoHome PROVE FALSE
      OBVIOUS
    <3>1. tx' = <<Datagram("HOMING", deployId, <<deployColumn>>)>>
      BY DEF EnterAutoHome, StartHoming, Send
    <3> QED
      BY <3>1, SentIs
  <2>4. PICK r \in Reading : nextState = DEPLOY /\ EnterDeploy(r)
    BY <2>2, <2>3 DEF SwitchState, EnterPrepareReady, EnterReady, EnterReadyWait,
       EnterDeployError, EnterPrepareAutoHome, EnterInfo, Send
  <2>5. tx' = <<Datagram("FETCH", deployId, <<DeployColumn(r)>>)>>
    BY <2>4 DEF EnterDeploy, Send
  <2>6. deployId = i
    BY <2>5, SentIs
  <2>7. currentState \in {READY, DEPLOY_ERROR}
    BY <2>2, <2>4 DEF Follows, SERVICE, PREPARE_READY, READY, READY_WAIT, DEPLOY,
       DEPLOY_ERROR, PREPARE_AUTO_HOME, AUTO_HOME, INFO
  <2>8. currentState # DEPLOY_ERROR
    BY <2>6 DEF SwitchPlan
  <2> QED
    BY <2>4, <2>6, <2>7, <2>8
<1> QED
  BY <1>1, TypeCorrect, PlanInvariant, PTL DEF Spec, ConfirmedOnce

\* Only CHECK_AVAIL, and FETCH in READY, are answered with the stock.
LEMMA StockAnswer ==
  ASSUME TypeOK, Next, NEW i, NEW cmd \in {"DRINK_AVAIL", "EMPTY"},
         tx' = <<Datagram(cmd, i, <<>>)>>
  PROVE  \E r \in Reading : /\ GetDeployColumn(r)
                            /\ cmd = "DRINK_AVAIL" <=> DeployColumn(r) # 0
<1>0. tx' # <<>> /\ \A c, j, x : tx' = <<Datagram(c, j, x)>> => c = cmd
  BY SentIs
<1>1. PICK d \in Request : Receive(d)
  <2>1. ~NoDatagram /\ ~Tick /\ ~Reset /\ ~(\E r0, r \in Reading : Begin(r0, r))
    BY <1>0 DEF NoDatagram, Tick, Reset, Begin, Send
  <2>2. ~(\E r \in Reading : ForceServiceState(r))
    BY <1>0 DEF ForceServiceState, Send
  <2>h. \A came, column, on, t :
          StartHoming(came, column, on, t) =>
            tx' = <<>> \/ tx' = <<Datagram("HOMING", deployId, <<column>>)>>
    BY DEF StartHoming, Send
  <2>3. ~Update
    <3>1. \A r \in Reading : ~UpdateAutoHome(r)
      BY <1>0, <2>h DEF UpdateAutoHome, Send
    <3>2. \A r \in Reading : ~UpdateReady(r)
      BY <1>0 DEF UpdateReady, Send
    <3> QED
      BY <1>0, <3>1, <3>2 DEF Update, UpdateWaiting, UpdatePrepareAutoHome, UpdateService,
                              UpdateReadyWait, UpdateDeploy, Send
  <2>4. ~Switch
    <3>1. \A r \in Reading : ~EnterDeploy(r)
      BY <1>0 DEF EnterDeploy, Send
    <3>2. ~EnterAutoHome
      BY <1>0, <2>h DEF EnterAutoHome
    <3> QED
      BY <1>0, <3>1, <3>2 DEF Switch, SwitchState, EnterPrepareReady, EnterReady,
         EnterReadyWait, EnterDeployError, EnterPrepareAutoHome, EnterInfo, Send
  <2> QED
    BY <2>1, <2>2, <2>3, <2>4 DEF Next, Loop, Environment
<1>2. ~Answer(CurrentState(d.id), Woken)
  BY <1>0 DEF Answer, CurrentState, Send
<1>3. ~(OnConfig(d) \/ OnGetState(d) \/ OnSetState(d) \/ OnHomeAbort(d) \/ OnHomeBegin(d))
  BY <1>0, <1>2 DEF OnConfig, OnGetState, OnSetState, OnHomeAbort, OnHomeBegin, Answer, Send
<1>4. ~(OnPong(d) \/ OnLcd(d) \/ OnOther(d))
  BY <1>0 DEF OnPong, OnLcd, OnOther, Answer, Send
<1>5. ~OnPing(d)
  <2>1. Status \in {"READY", "SERVICE", "BUSY"}
    BY Zenon DEF Status
  <2> QED
    BY <1>0, <2>1 DEF OnPing, Answer, Send
<1>6. tx' = <<d>> => d.cmd = cmd
  <2> SUFFICES ASSUME tx' = <<d>> PROVE d.cmd = cmd
    OBVIOUS
  <2>1. d = Datagram(cmd, i, <<>>)
    OBVIOUS
  <2> QED
    BY <2>1 DEF Datagram
<1>7. ~OnShowInfo(d)
  BY <1>0, <1>6 DEF OnShowInfo, Answer, Send
<1>8. CASE OnCheckAvail(d)
  <2>1. PICK r \in Reading :
          /\ GetDeployColumn(r)
          /\ tx' = <<Datagram(IF DeployColumn(r) # 0 THEN "DRINK_AVAIL" ELSE "EMPTY", d.id, <<>>)>>
    BY <1>8 DEF OnCheckAvail, Send
  <2>2. cmd = IF DeployColumn(r) # 0 THEN "DRINK_AVAIL" ELSE "EMPTY"
    BY <2>1, SentIs
  <2> QED
    BY <2>1, <2>2
<1>9. CASE OnFetch(d)
  <2>1. PICK r \in Reading :
          /\ GetDeployColumn(r)
          /\ DeployColumn(r) = 0 /\ tx' = <<Datagram("EMPTY", d.id, <<>>)>>
    BY <1>9, <1>0, <1>6 DEF OnFetch, Send
  <2>2. cmd = "EMPTY"
    BY <2>1, SentIs
  <2> QED
    BY <2>1, <2>2
<1> QED
  BY <1>1, <1>3, <1>4, <1>5, <1>7, <1>8, <1>9 DEF Receive

\* THEOREM 6: the answers about the stock are those the switches give, and the
\* column that starts to turn is full and not jammed.
THEOREM StockTold == Spec => StockHonest
<1> DEFINE Honest ==
      /\ \A i \in Id :
           /\ tx' = <<Datagram("DRINK_AVAIL", i, <<>>)>> => full' \ jammed' # {}
           /\ tx' = <<Datagram("EMPTY", i, <<>>)>> => full' \ jammed' = {}
      /\ currentState # DEPLOY /\ currentState' = DEPLOY => motor' \subseteq full' \ jammed'
<1>1. TypeOK /\ MotorUnderControl /\ SwitchPlan /\ [Next]_vars => [Honest]_vars
  <2> SUFFICES ASSUME TypeOK, MotorUnderControl, SwitchPlan, Next
               PROVE  Honest
    OBVIOUS
  <2>1. ASSUME NEW r \in Reading, GetDeployColumn(r)
        PROVE  /\ DeployColumn(r) # 0 <=> full' \ jammed' # {}
               /\ DeployColumn(r) # 0 => DeployColumn(r) \in full' \ jammed'
    BY <2>1, ReadingType DEF GetDeployColumn, TypeOK
  <2>2. ASSUME NEW i \in Id
        PROVE  /\ tx' = <<Datagram("DRINK_AVAIL", i, <<>>)>> => full' \ jammed' # {}
               /\ tx' = <<Datagram("EMPTY", i, <<>>)>> => full' \ jammed' = {}
    <3>1. tx' = <<Datagram("DRINK_AVAIL", i, <<>>)>> =>
            \E r \in Reading : GetDeployColumn(r) /\ DeployColumn(r) # 0
      BY StockAnswer
    <3>2. tx' = <<Datagram("EMPTY", i, <<>>)>> =>
            \E r \in Reading : GetDeployColumn(r) /\ DeployColumn(r) = 0
      BY StockAnswer
    <3> QED
      BY <3>1, <3>2, <2>1
  <2>3. ASSUME currentState # DEPLOY, currentState' = DEPLOY
        PROVE  motor' \subseteq full' \ jammed'
    <3>1. Switch
      BY <2>3 DEF Next, Loop, Environment, NoDatagram, Update, Begin, Receive, Tick, Reset,
                  ForceServiceState, stateVars, DEPLOY, SERVICE
    <3>2. SwitchState /\ nextState = DEPLOY
      BY <2>3, <3>1 DEF Switch, SwitchState, stateVars
    <3>3. PICK r \in Reading : EnterDeploy(r)
      BY <3>2 DEF SwitchState, SERVICE, PREPARE_READY, READY, READY_WAIT, DEPLOY,
         DEPLOY_ERROR, PREPARE_AUTO_HOME, AUTO_HOME, INFO
    <3>4. ExitMotor = {}
      BY <3>1, ExitStops DEF Switch
    <3>5. motor' = {} \/ (DeployColumn(r) # 0 /\ motor' \subseteq {DeployColumn(r)})
      <4>1. CASE DeployColumn(r) = 0
        BY <3>3, <3>4, <4>1 DEF EnterDeploy
      <4>2. CASE DeployColumn(r) # 0
        <5>1. motor' = PowerOn(ExitMotor, DeployColumn(r))
          BY <3>3, <4>2 DEF EnterDeploy
        <5>2. PowerOn(ExitMotor, DeployColumn(r)) \subseteq {DeployColumn(r)}
          BY <3>4 DEF PowerOn, PowerOff
        <5> QED
          BY <4>2, <5>1, <5>2
      <4> QED
        BY <4>1, <4>2
    <3>6. GetDeployColumn(r)
      BY <3>3 DEF EnterDeploy
    <3> QED
      BY <3>5, <3>6, <2>1
  <2> QED
    BY <2>2, <2>3
<1> QED
  BY <1>1, TypeCorrect, MotorSafe, PlanInvariant, PTL DEF Spec, StockHonest
-----------------------------------------------------------------------------
(***************************************************************************)
(* What an update function makes of the handler's wish.                    *)
(***************************************************************************)

\* A switch the handler asked for is undone in the same update() only by an expired timer of
\* the current state or by the end of homing: in particular StartHoming never turns an
\* AUTO_HOME away, as that is entered from PREPARE_AUTO_HOME alone.
THEOREM HandlerUndoneByTimer == Spec => UndoneByTimerOnly
<1> DEFINE Expired == \E w \in {<<PREPARE_READY, "prepareReady">>, <<READY, "ping">>,
                                <<DEPLOY, "motorStart">>, <<DEPLOY_ERROR, "deployError">>,
                                <<PREPARE_AUTO_HOME, "prepareAutoHome">>, <<INFO, "info">>} :
                        currentState = w[1] /\ TimedOut(w[2])
           Undone == phase' = "switch" /\ nextState # currentState /\ nextState' # nextState
           Excused == (currentState = AUTO_HOME /\ deployColumn > N) \/ Expired
<1>1. SwitchPlan /\ [Next]_vars => [Undone => Excused]_vars
  <2> SUFFICES ASSUME SwitchPlan, Next, Undone
               PROVE  Excused
    OBVIOUS
  <2>1. Update
    BY DEF Next, Loop, Environment, NoDatagram, Switch, Begin, Receive, Tick, Reset, ForceServiceState, stateVars
  <2>2. CASE UpdateWaiting
    BY <2>2 DEF UpdateWaiting, TimedOut
  <2>3. CASE UpdatePrepareAutoHome
    BY <2>3 DEF UpdatePrepareAutoHome, TimedOut
  <2>4. ASSUME NEW r \in Reading, UpdateService(r)
        PROVE  Excused
    BY <2>4 DEF UpdateService
  <2>5. ASSUME NEW r \in Reading, UpdateReady(r)
        PROVE  Excused
    BY <2>5 DEF UpdateReady, TimedOut
  <2>6. ASSUME NEW r \in Reading, UpdateReadyWait(r)
        PROVE  Excused
    BY <2>6 DEF UpdateReadyWait
  <2>7. ASSUME NEW r \in Reading, UpdateDeploy(r)
        PROVE  Excused
    BY <2>7 DEF UpdateDeploy, Turned, TimedOut
  <2>8. ASSUME NEW r \in Reading, UpdateAutoHome(r)
        PROVE  Excused
    <3>1. previousState = PREPARE_AUTO_HOME
      BY <2>8 DEF UpdateAutoHome, SwitchPlan
    <3> QED
      BY <2>8, <3>1 DEF UpdateAutoHome, StartHoming, PastLast
  <2> QED
    BY <2>1, <2>2, <2>3, <2>4, <2>5, <2>6, <2>7, <2>8 DEF Update
<1> QED
  BY <1>1, PlanInvariant, PTL DEF Spec, UndoneByTimerOnly
=============================================================================
