------------------------------- MODULE Clock --------------------------------
(***************************************************************************)
(* A Timer (src/arduino/timer.cpp) on the word that millis() counts in,    *)
(* which wraps: every 49 days where unsigned long has 32 bits. An interval *)
(* is kept with the timer, so it can be started again without one.         *)
(***************************************************************************)
EXTENDS Integers, Millis

CONSTANT Interval               \* the intervals timers are started with

ASSUME ClockAssumption == /\ Word \in Nat \ {0}
                          /\ Interval \subseteq 1 .. Word - 1

VARIABLES startTime, interval, isActive,
          answer,               \* what timedOut() said last
          age                   \* ms since the timer was last started, Word at most

clockVars == <<millis, startTime, interval, isActive, answer, age>>

ClockTypeOK == /\ millis \in 0 .. Word - 1
               /\ startTime \in 0 .. Word - 1
               /\ interval \in Interval
               /\ isActive \in BOOLEAN
               /\ answer \in BOOLEAN
               /\ age \in 0 .. Word

\* setInterval is called by the owner's constructor only.
Init == /\ millis = 0 /\ startTime = 0 /\ isActive = FALSE
        /\ interval \in Interval
        /\ answer = FALSE /\ age = 0
-----------------------------------------------------------------------------
\* Mutant: a timer that is active keeps its start time.
StartOnce == /\ startTime' = IF isActive THEN startTime ELSE millis
             /\ isActive' = TRUE /\ age' = 0
             /\ UNCHANGED <<millis, answer>>

Start == /\ startTime' = millis /\ isActive' = TRUE /\ age' = 0
         /\ UNCHANGED <<millis, answer>>

Restart == Start /\ UNCHANGED interval

StartWith(i) == interval' = i /\ Start

Stop == isActive' = FALSE /\ UNCHANGED <<millis, startTime, interval, answer, age>>

\* Mutant: the interval must have passed entirely, and one more.
TimedOutLate == isActive /\ millis > (startTime + interval) % Word

\* timedOut(): the sum wraps, and so does millis().
TimedOut == isActive /\ millis >= (startTime + interval) % Word

Look == answer' = TimedOut /\ UNCHANGED <<millis, startTime, interval, isActive, age>>

Tick == /\ millis' = (millis + 1) % Word
        /\ age' = IF age < Word THEN age + 1 ELSE age
        /\ UNCHANGED <<startTime, interval, isActive, answer>>

Next == Restart \/ (\E i \in Interval : StartWith(i)) \/ Stop \/ Look \/ Tick

Spec == Init /\ [][Next]_clockVars
-----------------------------------------------------------------------------
\* A timer is not timed out before its interval has passed: MOTOR_RUN_TIMER is "13 sec"
\* (config.h:16), MOTOR_START_TIMER "3 sec" (config.h:15). Near the wrap it is.
NeverEarly == TimedOut => age >= interval

\* How far NeverEarly fails: a timer is early only if it was started less than its
\* interval before the wrap, and late only if nobody looked at it between its
\* end and the wrap. A timer started after the wrap is exact again.
WrongOnlyAtWrap ==
  isActive => /\ TimedOut /\ age < interval => startTime + interval >= Word
              /\ ~TimedOut /\ age >= interval => startTime + age >= Word

\* The counter of ticks as which Dixie sees a timer.
left == IF ~isActive THEN -1 ELSE IF age >= interval THEN 0 ELSE interval - age

C == INSTANCE Countdown

\* The timer was started in this lap of the clock, and its interval ends in it.
InLap == isActive => age <= millis /\ millis - age + interval < Word

\* In any lap of the clock (timer.cpp:17-37) a timer that is started, and whose interval
\* ends, before the next wrap is a countdown: each step of its owner's and of the
\* clock is one of the countdown's, and timedOut() tells when it has ended.
ImplementsCountdown == C!Init /\ [][InLap /\ InLap' => [C!Next]_(C!countdownVars)]_clockVars
=============================================================================
