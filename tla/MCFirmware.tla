----------------------------- MODULE MCFirmware ------------------------------
(***************************************************************************)
(* Four parts of the firmware that share nothing but the clock: a timer    *)
(* (Clock), the main loop with its button and watchdog (Loop), the text    *)
(* made of Narco's columns (InfoText), and Narco's word of bits            *)
(* (NarcoBits). Each runs by itself, the others at rest, so that their     *)
(* states add up and do not multiply; "part" says which one.               *)
(***************************************************************************)
EXTENDS Clock, Loop, InfoText, NarcoBits

VARIABLE part

loopOnly == <<step, pin, reading, lastServiceButtonState, lastDebounceTime, dog, held, rested>>
timerOnly == <<startTime, interval, isActive, answer, age>>
firmwareVars == <<part, clockVars, loopOnly, textVars, bitsVars>>

\* The nine columns of the machine, with readings that leave the fields of the word all
\* ones, all zeros, and single ones at both of their ends.
SomeReadings == {[full |-> {}, home |-> 1 .. 9], [full |-> 1 .. 9, home |-> {1}],
                 [full |-> {1, 9}, home |-> 1 .. 9], [full |-> {5, 6}, home |-> 2 .. 9]}

FirmwareInit == /\ part \in {"timer", "loop", "text", "bits"}
                /\ Init /\ LoopInit /\ TextInit /\ BitsInit
                /\ part # "timer" => interval = 1
                /\ part # "loop" => pin = HIGH

TimerTurn == part = "timer" /\ UNCHANGED <<part, loopOnly, textVars, bitsVars>>
LoopTurn  == part = "loop" /\ UNCHANGED <<part, timerOnly, textVars, bitsVars>>
TextTurn  == part = "text" /\ UNCHANGED <<part, clockVars, loopOnly, bitsVars>>
BitsTurn  == part = "bits" /\ UNCHANGED <<part, clockVars, loopOnly, textVars>>

FirmwareNext == \/ TimerTurn /\ Next
                \/ LoopTurn /\ LoopNext
                \/ TextTurn /\ TextNext
                \/ BitsTurn /\ BitsNext

\* Time passes and the watchdog bites; of the program only setup() is
\* trusted to return.
FirmwareSpec == /\ FirmwareInit /\ [][FirmwareNext]_firmwareVars
                /\ WF_firmwareVars(LoopTurn /\ LoopTick)
                /\ WF_firmwareVars(LoopTurn /\ Bite)
                /\ WF_firmwareVars(LoopTurn /\ Setup)
=============================================================================
