------------------------------- MODULE Dixie --------------------------------
(***************************************************************************)
(* The firmware of the vending machine (src/arduino/dixie.cpp): a state    *)
(* machine stepped by update(), fed by the daemon's datagrams, the column  *)
(* switches, eight timers and the service button.                          *)
(*                                                                         *)
(* One update() is three steps: handle a pending datagram, if any; run the *)
(* update function of the current state; switch if m_nextState differs.    *)
(* The first two both write m_nextState, and the last write wins.          *)
(***************************************************************************)
EXTENDS Alko, Narco

CONSTANTS Id,                   \* datagram ids the daemon uses
          Request,              \* datagrams the daemon sends
          Interval              \* interval of each timer, in ticks

Timer == {"ping", "narco", "prepareReady", "motorStart", "motorRun",
          "deployError", "prepareAutoHome", "info"}

ASSUME DixieAssumption == /\ Id \subseteq Nat
                          /\ Request \subseteq [cmd : Command, id : Id, data : Seq(Nat)]
                          /\ Interval \in [Timer -> Nat \ {0}]

VARIABLES phase,                \* where the processor is, see Phase
          tx,                   \* datagrams this step has sent
          previousState, currentState, nextState,
          gotPong, deployId, deployColumn,
          timer                 \* ticks to go, 0 when timed out, Off when not active

stateVars == <<previousState, currentState, nextState>>
dixieVars == <<gotPong, deployId, deployColumn, timer>>
vars == <<phase, tx, stateVars, dixieVars, narcoVars>>

\* "boot" before begin(), then "idle" (between two update() calls), "update"
\* (datagram handled) and "switch" (update function done), round and round.
Phase == {"boot", "idle", "update", "switch"}

Off == -1

TimerOK(t) == /\ t \in [Timer -> Int]
              /\ \A x \in Timer : t[x] \in Off .. Interval[x]

TypeOK == /\ NarcoTypeOK
          /\ phase \in Phase
          /\ \A i \in DOMAIN tx : tx[i].id \in Id \cup {0}
          /\ previousState \in State /\ currentState \in State /\ nextState \in State
          /\ gotPong \in BOOLEAN
          /\ deployId \in Id \cup {0}
          /\ deployColumn \in 0 .. N + 1
          /\ TimerOK(timer)

Send(sent) == tx' = sent

TimedOut(t) == timer[t] = 0

Start(started, t) == [x \in Timer |-> IF x \in started THEN Interval[x] ELSE t[x]]
Stop(stopped, t)  == [x \in Timer |-> IF x \in stopped THEN Off ELSE t[x]]

\* The members as the constructor leaves them.
Construct == /\ previousState = SERVICE /\ currentState = SERVICE /\ nextState = SERVICE
             /\ gotPong = TRUE /\ deployId = 0 /\ deployColumn = 0
             /\ timer = [t \in Timer |-> Off]

Init == Construct /\ NarcoInit /\ phase = "boot" /\ tx = <<>>
-----------------------------------------------------------------------------
(***************************************************************************)
(* Leaving the current state: what its exit function does to the timers,   *)
(* the relays and m_deployId.                                              *)
(***************************************************************************)
ExitTimer == Stop(CASE currentState = SERVICE       -> {"narco"}
                    [] currentState = PREPARE_READY -> {"prepareReady"}
                    [] OTHER                        -> {}, timer)

ExitMotor == IF currentState \in {DEPLOY, AUTO_HOME} THEN PowerOff(motor) ELSE motor

\* Mutant: the id of the request is kept.
ExitKeepingId == UNCHANGED deployId

Exit == deployId' = IF currentState = DEPLOY THEN 0 ELSE deployId
-----------------------------------------------------------------------------
(***************************************************************************)
(* Entering a state, as the last thing switchState does.                   *)
(***************************************************************************)
EnterService(r) ==
  /\ motor' = PowerOff(ExitMotor)
  /\ UpdateWithJam(r)                       \* getInfoText
  /\ timer' = Start({"narco"}, ExitTimer)
  /\ UNCHANGED <<cursor, deployColumn>>

EnterPrepareReady ==
  /\ motor' = PowerOff(ExitMotor)
  /\ timer' = Start({"prepareReady"}, ExitTimer)
  /\ UNCHANGED <<full, jammed, cursor, deployColumn, nextState>> /\ Send(<<>>)

EnterReady(r) ==
  /\ motor' = ExitMotor
  /\ UpdateWithJam(r)
  /\ timer' = Start({"ping", "narco"}, ExitTimer)
  /\ UNCHANGED <<cursor, deployColumn, nextState>> /\ Send(<<>>)

EnterReadyWait(r) ==
  /\ motor' = ExitMotor
  /\ UpdateWithJam(r)                       \* getInfoText
  /\ timer' = ExitTimer
  /\ UNCHANGED <<cursor, deployColumn, nextState>> /\ Send(<<>>)

\* The column is chosen anew: the switches may have moved since FETCH came.
EnterDeploy(r) ==
  LET column == DeployColumn(r)
  IN  /\ GetDeployColumn(r)
      /\ deployColumn' = column
      /\ \/ /\ column = 0
            /\ nextState' = PREPARE_READY
            /\ motor' = ExitMotor
            /\ timer' = ExitTimer
            /\ Send(<<>>)
         \/ /\ column # 0
            /\ Send(<<Datagram("FETCH", deployId, <<column>>)>>)
            /\ timer' = Start({"motorStart", "motorRun"}, ExitTimer)
            /\ motor' = PowerOn(ExitMotor, column)
            /\ UNCHANGED nextState

EnterDeployError ==
  /\ motor' = PowerOff(ExitMotor)
  /\ MarkJammed(deployColumn)
  /\ timer' = Start({"deployError"}, ExitTimer)
  /\ UNCHANGED <<full, cursor, deployColumn, nextState>> /\ Send(<<>>)

EnterPrepareAutoHome ==
  /\ motor' = ExitMotor
  /\ timer' = Start({"prepareAutoHome"}, ExitTimer)
  /\ UNCHANGED <<full, jammed, cursor, deployColumn, nextState>> /\ Send(<<>>)

\* Mutant: the run timer is not started.
StartHomingUntimed(came, column, on, t) ==
  IF came \notin {PREPARE_AUTO_HOME, AUTO_HOME}
  THEN nextState' = SERVICE /\ motor' = on /\ timer' = t /\ Send(<<>>)
  ELSE /\ Send(<<Datagram("HOMING", deployId, <<column>>)>>)
       /\ timer' = t
       /\ motor' = PowerOn(on, column)
       /\ UNCHANGED nextState

\* enterAutoHomeState, for a column one past the last one too; "came" is
\* m_previousState, "on" and "t" the relays and timers it finds.
StartHoming(came, column, on, t) ==
  IF came \notin {PREPARE_AUTO_HOME, AUTO_HOME}
  THEN nextState' = SERVICE /\ motor' = on /\ timer' = t /\ Send(<<>>)
  ELSE /\ Send(<<Datagram("HOMING", deployId, <<column>>)>>)
       /\ timer' = Start({"motorRun"}, t)
       /\ motor' = PowerOn(on, column)
       /\ UNCHANGED nextState

EnterAutoHome ==
  /\ StartHoming(currentState, deployColumn, ExitMotor, ExitTimer)
  /\ UNCHANGED <<full, jammed, cursor, deployColumn>>

\* Mutant: the timer is not started.
EnterInfoUntimed ==
  /\ motor' = ExitMotor
  /\ timer' = ExitTimer
  /\ UNCHANGED <<full, jammed, cursor, deployColumn, nextState>> /\ Send(<<>>)

EnterInfo ==
  /\ motor' = ExitMotor
  /\ timer' = Start({"info"}, ExitTimer)
  /\ UNCHANGED <<full, jammed, cursor, deployColumn, nextState>> /\ Send(<<>>)
-----------------------------------------------------------------------------
(***************************************************************************)
(* The steps of the main loop.                                             *)
(***************************************************************************)

\* begin(), from setup(): a first column is chosen and SERVICE is entered.
Begin(r0, r) ==
  /\ phase = "boot" /\ phase' = "idle"
  /\ motor' = PowerOff(motor)
  /\ deployColumn' = DeployColumn(r0)
  /\ cursor' = cursor \cup Bits(DeployColumn(r0))
  /\ UpdateWithJam(r)
  /\ timer' = Start({"narco"}, timer)
  /\ Send(<<>>)
  /\ UNCHANGED <<stateVars, gotPong, deployId>>

\* Mutant: the handler does not leave READY_WAIT.
WokenNever == nextState

\* datagramHandler starts by leaving READY_WAIT, whatever the datagram is.
Woken == IF currentState = READY_WAIT THEN READY ELSE nextState

CurrentState(id) == <<Datagram("GET_STATE", id, <<currentState>>)>>

\* A handler that answers with "sent" and changes nothing but the next state.
Answer(sent, next) == /\ Send(sent)
                      /\ nextState' = next
                      /\ UNCHANGED <<gotPong, deployId, full, jammed, cursor>>

\* The machine is BUSY in any state but two.
Status == CASE currentState = READY   -> "READY"
            [] currentState = SERVICE -> "SERVICE"
            [] OTHER                  -> "BUSY"

OnPing(d) == d.cmd = "PING" /\ Answer(<<Datagram(Status, d.id, <<>>)>>, Woken)

OnPong(d) ==
  /\ d.cmd = "PONG"
  /\ gotPong' = TRUE
  /\ nextState' = Woken
  /\ Send(<<>>)
  /\ UNCHANGED <<deployId, full, jammed, cursor>>

\* GET_CONFIG answers with the fields of m_narco as they stand: no switch is read.
OnConfig(d) ==
  \/ /\ d.cmd = "GET_CONFIG"
     /\ Answer(<<Datagram("GET_CONFIG", d.id, <<full, jammed, cursor>>)>>, Woken)
  \/ /\ d.cmd = "SET_CONFIG"
     /\ Answer(<<>>, Woken)

OnGetState(d) == d.cmd = "GET_STATE" /\ Answer(CurrentState(d.id), Woken)

\* READY may be asked for, and becomes PREPARE_READY; the current state may not.
OnSetState(d) ==
  LET granted == /\ d.data \in {<<s>> : s \in {SERVICE, PREPARE_READY, READY}}
                 /\ d.data # <<currentState>>
  IN  /\ d.cmd = "SET_STATE"
      /\ \/ granted /\ Answer(<<Datagram("SET_STATE", d.id, d.data)>>,
                              IF d.data = <<READY>> THEN PREPARE_READY ELSE d.data[1])
         \/ ~granted /\ Answer(CurrentState(d.id), Woken)

OnHomeAbort(d) ==
  /\ d.cmd = "HOME_ABORT"
  /\ IF currentState \in {PREPARE_AUTO_HOME, AUTO_HOME}
     THEN Answer(<<Datagram("HOME_ABORT", d.id, <<>>)>>, SERVICE)
     ELSE Answer(CurrentState(d.id), Woken)

\* Mutant: the state is not looked at.
OnHomeBeginAnywhere(d) ==
  d.cmd = "HOME_BEGIN" /\ Answer(<<Datagram("HOME_BEGIN", d.id, <<>>)>>, PREPARE_AUTO_HOME)

OnHomeBegin(d) ==
  /\ d.cmd = "HOME_BEGIN"
  /\ IF currentState = SERVICE
     THEN Answer(<<Datagram("HOME_BEGIN", d.id, <<>>)>>, PREPARE_AUTO_HOME)
     ELSE Answer(CurrentState(d.id), Woken)

OnCheckAvail(d) ==
  /\ d.cmd = "CHECK_AVAIL"
  /\ \E r \in Reading :
       /\ GetDeployColumn(r)
       /\ Send(<<Datagram(IF DeployColumn(r) # 0 THEN "DRINK_AVAIL" ELSE "EMPTY", d.id, <<>>)>>)
  /\ nextState' = Woken
  /\ UNCHANGED <<gotPong, deployId>>

\* Out of READY the request itself is sent back, not the BUSY that was built.
OnFetch(d) ==
  /\ d.cmd = "FETCH"
  /\ UNCHANGED gotPong
  /\ \/ /\ currentState # READY
        /\ Send(<<d>>) /\ nextState' = Woken
        /\ UNCHANGED <<deployId, full, jammed, cursor>>
     \/ /\ currentState = READY
        /\ \E r \in Reading :
             /\ GetDeployColumn(r)
             /\ \/ /\ DeployColumn(r) # 0
                   /\ deployId' = d.id /\ nextState' = DEPLOY /\ Send(<<>>)
                \/ /\ DeployColumn(r) = 0
                   /\ Send(<<Datagram("EMPTY", d.id, <<>>)>>)
                   /\ UNCHANGED <<deployId, nextState>>

OnShowInfo(d) ==
  /\ d.cmd = "SHOW_INFO"
  /\ IF currentState = READY
     THEN Answer(<<d>>, INFO)
     ELSE Answer(<<Datagram("BUSY", d.id, d.data)>>, Woken)

OnLcd(d) == d.cmd = "LCD" /\ Answer(<<>>, Woken)

OnOther(d) == d.cmd = "OTHER" /\ Answer(<<Datagram("UNKNOWN_CMD", d.id, <<>>)>>, Woken)

Receive(d) ==
  /\ phase = "idle" /\ phase' = "update"
  /\ UNCHANGED <<previousState, currentState, deployColumn, timer, motor>>
  /\ \/ OnPing(d) \/ OnPong(d) \/ OnConfig(d) \/ OnGetState(d) \/ OnSetState(d)
     \/ OnHomeAbort(d) \/ OnHomeBegin(d) \/ OnCheckAvail(d) \/ OnFetch(d)
     \/ OnShowInfo(d) \/ OnLcd(d) \/ OnOther(d)

NoDatagram == /\ phase = "idle" /\ phase' = "update"
              /\ Send(<<>>)
              /\ UNCHANGED <<stateVars, dixieVars, narcoVars>>
-----------------------------------------------------------------------------
(***************************************************************************)
(* The update function of each state. Whatever m_nextState the handler has *)
(* just set, an expired timer overwrites it.                               *)
(***************************************************************************)

\* A fresh look at the switches for the display, once a NARCO interval.
Refresh(r) == IF TimedOut("narco") THEN UpdateWithJam(r) ELSE UNCHANGED <<full, jammed>>

UpdateService(r) ==
  /\ currentState = SERVICE
  /\ Refresh(r)
  /\ timer' = Start({t \in {"narco"} : TimedOut(t)}, timer)
  /\ Send(<<>>)
  /\ UNCHANGED <<nextState, gotPong, deployColumn, motor>>

\* doPingPong: a PING unanswered when the next one is due ends READY.
UpdateReady(r) ==
  /\ currentState = READY
  /\ Refresh(r)
  /\ \/ /\ TimedOut("ping") /\ gotPong
        /\ gotPong' = FALSE
        /\ Send(<<Datagram("PING", 0, <<>>)>>)
        /\ UNCHANGED nextState
     \/ /\ TimedOut("ping") /\ ~gotPong
        /\ nextState' = READY_WAIT
        /\ Send(<<>>) /\ UNCHANGED gotPong
     \/ /\ ~TimedOut("ping")
        /\ Send(<<>>) /\ UNCHANGED <<gotPong, nextState>>
  /\ timer' = Start({t \in {"narco", "ping"} : TimedOut(t) /\ (t = "ping" => gotPong)}, timer)
  /\ UNCHANGED <<deployColumn, motor>>

UpdateReadyWait(r) ==
  /\ currentState = READY_WAIT
  /\ Refresh(r)
  /\ timer' = Start({t \in {"narco"} : TimedOut(t)}, timer)
  /\ Send(<<>>)
  /\ UNCHANGED <<nextState, gotPong, deployColumn, motor>>

\* Mutant: the home switch counts before the motor has left it.
TurnedAtOnce(r) == deployColumn \in r.home

\* A full turn; isHome(0) is false.
Turned(r) == TimedOut("motorStart") /\ deployColumn \in r.home

\* The timers are those last started, maybe for an earlier column.
UpdateDeploy(r) ==
  /\ currentState = DEPLOY
  /\ nextState' = IF Turned(r) THEN PREPARE_READY
                  ELSE IF TimedOut("motorStart") /\ TimedOut("motorRun") THEN DEPLOY_ERROR
                  ELSE nextState
  /\ Send(<<>>)
  /\ UNCHANGED <<gotPong, deployColumn, timer, full, jammed, motor>>

\* The states that only wait for a timer and then move on.
UpdateWaiting ==
  /\ \E w \in {<<PREPARE_READY, "prepareReady", READY>>,
               <<DEPLOY_ERROR, "deployError", DEPLOY>>,
               <<INFO, "info", READY>>} :
        /\ currentState = w[1]
        /\ nextState' = IF TimedOut(w[2]) THEN w[3] ELSE nextState
  /\ Send(<<>>)
  /\ UNCHANGED <<gotPong, deployColumn, timer, full, jammed, motor>>

\* Mutant: homing goes on from the last column vended.
UpdatePrepareAutoHomeInPlace ==
  /\ currentState = PREPARE_AUTO_HOME
  /\ \/ /\ TimedOut("prepareAutoHome")
        /\ Send(<<Datagram("HOME_BEGIN", deployId, <<>>)>>)
        /\ nextState' = AUTO_HOME
     \/ ~TimedOut("prepareAutoHome") /\ Send(<<>>) /\ UNCHANGED nextState
  /\ UNCHANGED <<gotPong, deployColumn, timer, full, jammed, motor>>

UpdatePrepareAutoHome ==
  /\ currentState = PREPARE_AUTO_HOME
  /\ \/ /\ TimedOut("prepareAutoHome")
        /\ Send(<<Datagram("HOME_BEGIN", deployId, <<>>)>>)
        /\ deployColumn' = 1
        /\ nextState' = AUTO_HOME
     \/ /\ ~TimedOut("prepareAutoHome")
        /\ Send(<<>>)
        /\ UNCHANGED <<deployColumn, nextState>>
  /\ UNCHANGED <<gotPong, timer, full, jammed, motor>>

\* Mutant: off by one.
PastLastTooLate(c) == c > N + 1

PastLast(c) == c > N

\* A column is done when home, or jammed when its time is up; then the next.
UpdateAutoHome(r) ==
  LET c      == deployColumn
      GoOn   == /\ deployColumn' = c + 1
                /\ StartHoming(previousState, c + 1, PowerOff(motor), timer)
  IN  /\ currentState = AUTO_HOME
      /\ UNCHANGED <<gotPong, full>>
      /\ \/ PastLast(c) /\ nextState' = SERVICE
            /\ Send(<<>>) /\ UNCHANGED <<deployColumn, timer, jammed, motor>>
         \/ ~PastLast(c) /\ c \in r.home
            /\ GoOn /\ UNCHANGED jammed
         \/ ~PastLast(c) /\ c \notin r.home /\ TimedOut("motorRun")
            /\ GoOn /\ MarkJammed(c)
         \/ ~PastLast(c) /\ c \notin r.home /\ ~TimedOut("motorRun")
            /\ Send(<<>>) /\ UNCHANGED <<nextState, deployColumn, timer, jammed, motor>>

Update ==
  /\ phase = "update" /\ phase' = "switch"
  /\ UNCHANGED <<previousState, currentState, deployId, cursor>>
  /\ \/ UpdateWaiting
     \/ UpdatePrepareAutoHome
     \/ \E r \in Reading : \/ UpdateService(r) \/ UpdateReady(r) \/ UpdateReadyWait(r)
                            \/ UpdateDeploy(r) \/ UpdateAutoHome(r)
-----------------------------------------------------------------------------
\* switchState, when the next state is another one.
SwitchState ==
  /\ currentState # nextState
  /\ previousState' = currentState /\ currentState' = nextState
  /\ Exit
  /\ UNCHANGED gotPong
  /\ \/ nextState = PREPARE_READY /\ EnterPrepareReady
     \/ nextState = DEPLOY_ERROR /\ EnterDeployError
     \/ nextState = PREPARE_AUTO_HOME /\ EnterPrepareAutoHome
     \/ nextState = AUTO_HOME /\ EnterAutoHome
     \/ nextState = INFO /\ EnterInfo
     \/ \E r \in Reading :
          \/ nextState = SERVICE /\ EnterService(r) /\ Send(<<>>) /\ UNCHANGED nextState
          \/ nextState = READY /\ EnterReady(r)
          \/ nextState = READY_WAIT /\ EnterReadyWait(r)
          \/ nextState = DEPLOY /\ EnterDeploy(r)

Switch ==
  /\ phase = "switch" /\ phase' = "idle"
  /\ \/ SwitchState
     \/ /\ currentState = nextState
        /\ Send(<<>>)
        /\ UNCHANGED <<stateVars, dixieVars, narcoVars>>

\* The service button, held long enough, is looked at after update().
ForceServiceState(r) ==
  /\ phase = "idle" /\ UNCHANGED phase
  /\ currentState # SERVICE
  /\ Send(<<Datagram("SET_STATE", 0, <<SERVICE, 206>>)>>)
  /\ nextState' = SERVICE
  /\ previousState' = currentState /\ currentState' = SERVICE
  /\ Exit
  /\ EnterService(r)
  /\ UNCHANGED gotPong

\* millis() advances; only timedOut(), in update(), looks at it.
Tick ==
  /\ phase = "idle"
  /\ \E t \in Timer : timer[t] > 0
  /\ timer' = [t \in Timer |-> IF timer[t] > 0 THEN timer[t] - 1 ELSE timer[t]]
  /\ Send(<<>>)
  /\ UNCHANGED <<phase, stateVars, gotPong, deployId, deployColumn, narcoVars>>

\* The watchdog, or the reset line: the memory is lost, the relays are latched
\* in the expanders.
Reset ==
  /\ phase # "boot" /\ phase' = "boot"
  /\ previousState' = SERVICE /\ currentState' = SERVICE /\ nextState' = SERVICE
  /\ gotPong' = TRUE /\ deployId' = 0 /\ deployColumn' = 0
  /\ timer' = [t \in Timer |-> Off]
  /\ full' = {} /\ jammed' = {} /\ cursor' = {}
  /\ Send(<<>>)
  /\ UNCHANGED motor

\* What update() and begin() do: the steps the processor keeps taking.
Loop == NoDatagram \/ Update \/ Switch \/ \E r0, r \in Reading : Begin(r0, r)

Environment == \/ \E d \in Request : Receive(d)
               \/ \E r \in Reading : ForceServiceState(r)
               \/ Tick
               \/ Reset

Next == Loop \/ Environment

Spec == Init /\ [][Next]_vars

\* The loop goes round, and time passes while it does.
FairSpec == Spec /\ WF_vars(Loop \/ \E d \in Request : Receive(d))
                 /\ SF_vars(Tick)
-----------------------------------------------------------------------------
(***************************************************************************)
(* Properties.                                                             *)
(***************************************************************************)

\* Once begin() has run, a motor runs only while a drink is vended or the
\* machine homes; only the column in m_deployColumn runs; and the timers that
\* will stop it are active. Every switch out of those two states, every retry
\* and the step from column to column in AUTO_HOME have to see to it.
MotorUnderControl ==
  phase # "boot" /\ motor # {} =>
    /\ currentState \in {DEPLOY, AUTO_HOME}
    /\ motor = {deployColumn}
    /\ timer["motorRun"] # Off
    /\ currentState = DEPLOY => timer["motorStart"] # Off

\* The switch the handlers and update functions ask for is one of the state
\* graph: a datagram can never send the machine to DEPLOY or AUTO_HOME from a
\* state these do not follow, in whatever order datagrams and timers come.
Follows(s, t) ==
  \/ s = SERVICE /\ t \in {PREPARE_READY, PREPARE_AUTO_HOME}
  \/ s \in {PREPARE_READY, READY_WAIT, INFO} /\ t = READY
  \/ s = READY /\ t \in {READY_WAIT, DEPLOY, INFO}
  \/ s = DEPLOY /\ t = DEPLOY_ERROR
  \/ s = DEPLOY_ERROR /\ t = DEPLOY
  \/ s = PREPARE_AUTO_HOME /\ t = AUTO_HOME
  \/ s # SERVICE /\ t \in {PREPARE_READY, SERVICE}

SwitchFollows == nextState # currentState => Follows(currentState, nextState)

\* What makes SwitchFollows last: between two update() calls no switch is
\* pending but that of a DEPLOY without a column; AUTO_HOME is entered by its
\* own timer only, at column 1, and homes the column it says; READY_WAIT is asked
\* for without a PONG; a retry has no datagram to answer.
SwitchPlan ==
  /\ SwitchFollows
  /\ phase = "boot" => currentState = SERVICE /\ nextState = SERVICE
  /\ phase = "idle" => \/ nextState = currentState
                       \/ currentState = DEPLOY /\ nextState = PREPARE_READY
  /\ nextState = AUTO_HOME /\ currentState # AUTO_HOME => phase = "switch" /\ deployColumn = 1
  /\ currentState = AUTO_HOME => /\ previousState = PREPARE_AUTO_HOME
                                 /\ deployColumn >= 1
                                 /\ motor = {deployColumn} \cap Column
  /\ nextState = READY_WAIT => ~gotPong
  /\ currentState = DEPLOY_ERROR => deployId = 0

\* The machine shows a lost connection (READY_WAIT) only while the last PING
\* it sent is unanswered: a PONG always ends that state.
WaitingMeansSilence ==
  currentState = READY_WAIT /\ nextState = READY_WAIT => ~gotPong

\* A FETCH is confirmed with its own id at most once: the column re-chosen by
\* a retry after DEPLOY_ERROR is announced with id 0, never with the id of a
\* request that was confirmed before.
ConfirmedOnce ==
  [][\A i \in Id \ {0}, k \in Column :
       phase = "switch" /\ tx' = <<Datagram("FETCH", i, <<k>>)>> =>
         currentState = READY /\ nextState = DEPLOY /\ deployId = i]_vars

\* DRINK_AVAIL and EMPTY tell the stock the switches show, and the column that
\* starts to turn in DEPLOY is full and not jammed, wherever the OR-ed
\* next-column field points, past the last column included.
StockHonest ==
  [][/\ \A i \in Id : /\ tx' = <<Datagram("DRINK_AVAIL", i, <<>>)>> => full' \ jammed' # {}
                      /\ tx' = <<Datagram("EMPTY", i, <<>>)>> => full' \ jammed' = {}
     /\ currentState # DEPLOY /\ currentState' = DEPLOY => motor' \subseteq full' \ jammed']_vars

\* What datagramHandler has asked for is undone in the same update() only by
\* an expired timer of the current state, or by the end of homing.
UndoneByTimerOnly ==
  [][phase' = "switch" /\ nextState # currentState /\ nextState' # nextState =>
       \/ currentState = AUTO_HOME /\ deployColumn > N
       \/ \E w \in {<<PREPARE_READY, "prepareReady">>, <<READY, "ping">>,
                    <<DEPLOY, "motorStart">>, <<DEPLOY_ERROR, "deployError">>,
                    <<PREPARE_AUTO_HOME, "prepareAutoHome">>, <<INFO, "info">>} :
            currentState = w[1] /\ TimedOut(w[2])]_vars

\* Every motor that runs is stopped: at its home position, or by a timer.
EveryMotorStops == \A c \in Column : motor = {c} ~> motor # {c}

\* Every state that is not meant to last ends, whatever the daemon sends.
TransientStatesEnd ==
  \A s \in State \ {SERVICE, READY, READY_WAIT} : currentState = s ~> currentState # s

\* The handler acknowledges HOME_ABORT ("ACK abort", dixie.cpp:436) and the
\* display says homing can still be aborted (config.h:43-46): an acknowledged
\* abort leads to SERVICE. It does not when a timer expires in that update().
AckedAbortHonoured ==
  [][phase = "update" /\ (\E i \in Id : tx = <<Datagram("HOME_ABORT", i, <<>>)>>)
       => nextState' = SERVICE]_vars

\* DEPLOY_ERROR tells the customer that an error happened and that the machine
\* tries once more (config.h:33-35): a try ran a motor. It did not when no
\* column could be chosen and the timers of an earlier vend have expired.
ErrorMeansAttempt ==
  [][nextState # DEPLOY_ERROR /\ nextState' = DEPLOY_ERROR => motor # {}]_vars
-----------------------------------------------------------------------------
\* The machine as its surroundings see it.
mode == IF phase = "boot" THEN 0 ELSE currentState

V == INSTANCE Vender WITH running <- motor

\* Every step of the firmware is a step of the abstract vender or none: the
\* order of the states, one motor at a time and only while vending or homing,
\* columns homed in order, every motor stopped by begin().
ImplementsVender == V!Spec
=============================================================================
