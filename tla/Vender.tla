------------------------------- MODULE Vender -------------------------------
(***************************************************************************)
(* What the firmware promises about the machine, without datagrams and     *)
(* timers: the order of its states, and which motor may run in which. The  *)
(* refinement in Dixie maps its processor, reset included, to "mode".      *)
(***************************************************************************)
EXTENDS Integers, Alko

CONSTANT N

VARIABLES mode,                 \* a state, or BOOT until begin() has run
          running               \* columns whose motor runs

venderVars == <<mode, running>>

BOOT == 0

Column == 1 .. N

Init == mode = BOOT /\ running = {}

\* Starting up stops every motor.
Boot == mode = BOOT /\ mode' = SERVICE /\ running' = {}

\* A state that runs no motor is entered with every motor stopped.
Rest == /\ \/ mode = SERVICE /\ mode' \in {PREPARE_READY, PREPARE_AUTO_HOME}
           \/ mode = PREPARE_READY /\ mode' = READY
           \/ mode = READY /\ mode' \in {READY_WAIT, INFO}
           \/ mode \in {READY_WAIT, INFO} /\ mode' = READY
           \/ mode = DEPLOY /\ mode' = DEPLOY_ERROR
           \/ mode \in State \ {SERVICE, PREPARE_READY} /\ mode' = PREPARE_READY
           \/ mode \in State \ {SERVICE} /\ mode' = SERVICE
        /\ running' = {}

\* One column turns, or none if none can.
Vend == /\ mode \in {READY, DEPLOY_ERROR} /\ mode' = DEPLOY
        /\ running' \in {{}} \cup {{c} : c \in Column}

HomeFirst == mode = PREPARE_AUTO_HOME /\ mode' = AUTO_HOME /\ running' = {1}

\* Homing goes through the columns in order, one at a time.
HomeNext == /\ mode = AUTO_HOME /\ UNCHANGED mode
            /\ \E c \in Column : running = {c} /\ running' = {c + 1} \cap Column

\* A reset stops the processor, not the motor: the relays are latched.
Reset == mode # BOOT /\ mode' = BOOT /\ UNCHANGED running

Next == Boot \/ Rest \/ Vend \/ HomeFirst \/ HomeNext \/ Reset

Spec == Init /\ [][Next]_venderVars
=============================================================================
