----------------------------- MODULE Countdown ------------------------------
(***************************************************************************)
(* What its users expect of a Timer: once started it counts down and stays *)
(* timed out until it is started again or stopped.                         *)
(***************************************************************************)
EXTENDS Integers

CONSTANT Interval               \* the intervals a timer is started with, in ms

VARIABLES left,                 \* ms to go, 0 when timed out, Off when not active
          answer                \* what timedOut() said last

Off == -1

countdownVars == <<left, answer>>

Init == left = Off /\ answer = FALSE

Start == (\E i \in Interval : left' = i) /\ UNCHANGED answer

Stop == left' = Off /\ UNCHANGED answer

Look == answer' = (left = 0) /\ UNCHANGED left

Pass == left > 0 /\ left' = left - 1 /\ UNCHANGED answer

Next == Start \/ Stop \/ Look \/ Pass

Spec == Init /\ [][Next]_countdownVars
=============================================================================
