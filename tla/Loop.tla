-------------------------------- MODULE Loop --------------------------------
(***************************************************************************)
(* setup() and loop() (src/arduino/main.cpp): the order in which the       *)
(* processor updates the machine, feeds the watchdog and looks at the      *)
(* service button, on the word that millis() counts in. The button is      *)
(* HIGH when released. Any of these steps may take any time, or hang.      *)
(***************************************************************************)
EXTENDS Integers, Millis

CONSTANTS Delay,                \* debounceDelay, FORCE_SERVICE_TIME
          Dog,                  \* the watchdog's eight seconds, WDTO_8S
          Boot                  \* how long setup(), which is not watched, may take

\* Two readings of the clock that are compared are less than a lap apart.
ASSUME LoopAssumption == /\ Word \in Nat /\ Delay \in Nat /\ Dog \in Nat \ {0} /\ Boot \in Nat
                         /\ Word > Boot + 2 * Dog /\ Word > Delay + 2 * Dog

VARIABLES step,                 \* what runs: "setup", then "update", "read", "judge", "force"
          pin,                  \* the level of the button
          reading, lastServiceButtonState, lastDebounceTime,
          dog,                  \* ms the watchdog has not been fed, Off when disabled
          held,                 \* ms since the first of the looks, in a row up to the last one,
                                \* that saw the button down, or since power-up if all did
          rested                \* ms since the last forceServiceState() or power-up

loopVars == <<step, millis, pin, reading, lastServiceButtonState, lastDebounceTime,
              dog, held, rested>>

Off == -1
LOW == 0
HIGH == 1

\* The ghosts stop counting here.
Cap == Delay + 1

LoopInit == /\ step = "setup" /\ millis = 0 /\ pin \in {LOW, HIGH}
            /\ reading = HIGH /\ lastServiceButtonState = LOW /\ lastDebounceTime = 0
            /\ dog = Off /\ held = 0 /\ rested = 0
-----------------------------------------------------------------------------
\* Mutant: the watchdog is not switched on.
WatchNothing == dog' = Off

\* wdt_enable, the last thing setup() does.
Watch == dog' = 0

Setup == /\ step = "setup" /\ step' = "update"
         /\ Watch
         /\ UNCHANGED <<millis, pin, reading, lastServiceButtonState, lastDebounceTime, held, rested>>

\* dixie.update() returns and the watchdog is fed.
Update == /\ step = "update" /\ step' = "read"
          /\ dog' = IF dog = Off THEN Off ELSE 0
          /\ UNCHANGED <<millis, pin, reading, lastServiceButtonState, lastDebounceTime, held, rested>>

\* Mutant: a button that is down is taken for one that has just changed.
ChangedOrDown == pin # lastServiceButtonState \/ pin = LOW

Changed == pin # lastServiceButtonState

Read == /\ step = "read" /\ step' = "judge"
        /\ reading' = pin
        /\ lastDebounceTime' = IF Changed THEN millis ELSE lastDebounceTime
        /\ held' = IF pin = HIGH \/ lastServiceButtonState = HIGH THEN 0 ELSE held
        /\ UNCHANGED <<millis, pin, lastServiceButtonState, dog, rested>>

\* Mutant: compared with a sum that wraps.
DebouncedBySum == millis > (lastDebounceTime + Delay) % Word

\* The difference is unsigned.
Debounced == (millis - lastDebounceTime) % Word > Delay

Judge == /\ step = "judge"
         /\ \/ /\ Debounced /\ reading = LOW
               /\ step' = "force"
               /\ UNCHANGED <<reading, lastServiceButtonState>>
            \/ /\ ~(Debounced /\ reading = LOW)
               /\ step' = "update"
               /\ reading' = IF Debounced THEN HIGH ELSE reading
               /\ lastServiceButtonState' = reading'
         /\ UNCHANGED <<millis, pin, lastDebounceTime, dog, held, rested>>

\* forceServiceState() returns; the button counts as released.
ForceService == /\ step = "force" /\ step' = "update"
                /\ lastDebounceTime' = millis
                /\ reading' = HIGH /\ lastServiceButtonState' = HIGH
                /\ rested' = 0
                /\ UNCHANGED <<millis, pin, dog, held>>

Capped(n) == IF n < Cap THEN n + 1 ELSE n

\* Time passes within any step, until the watchdog bites.
LoopTick == /\ dog # Dog
            /\ step = "setup" => millis < Boot
            /\ millis' = (millis + 1) % Word
            /\ dog' = IF dog = Off THEN Off ELSE dog + 1
            /\ held' = Capped(held) /\ rested' = Capped(rested)
            /\ UNCHANGED <<step, pin, reading, lastServiceButtonState, lastDebounceTime>>

\* The reset starts the program again; the level of the button is not its.
Bite == /\ dog = Dog
        /\ step' = "setup" /\ millis' = 0
        /\ reading' = HIGH /\ lastServiceButtonState' = LOW /\ lastDebounceTime' = 0
        /\ dog' = Off /\ held' = 0 /\ rested' = 0
        /\ UNCHANGED pin

Button == /\ pin' \in {LOW, HIGH} \ {pin}
          /\ UNCHANGED <<step, millis, reading, lastServiceButtonState, lastDebounceTime,
                         dog, held, rested>>

Processor == Setup \/ Update \/ Read \/ Judge \/ ForceService

LoopNext == Processor \/ LoopTick \/ Bite \/ Button

LoopSpec == LoopInit /\ [][LoopNext]_loopVars

\* Time passes and the watchdog bites; of the program only setup() is
\* trusted to return.
DogSpec == LoopSpec /\ WF_loopVars(LoopTick) /\ WF_loopVars(Bite) /\ WF_loopVars(Setup)
-----------------------------------------------------------------------------
\* The service state is forced (main.cpp:43-48) exactly when the button has been
\* down at every look for longer than FORCE_SERVICE_TIME, "8 sec" (config.h:32), and
\* as long after the last time it was forced or the power came, on either side
\* of a wrap of the clock.
ForcedWhenHeld ==
  [][step = "judge" /\ step' \in {"force", "update"} =>
       (step' = "force" <=> reading = LOW /\ held > Delay /\ rested > Delay)]_loopVars

\* A program that hangs anywhere in loop() leaves that step all the same: the
\* watchdog, fed once a round (main.cpp:29, 36), starts it again.
LoopNeverHangs == \A s \in {"update", "read", "judge", "force"} : step = s ~> step # s

\* While no step of the program hangs, a button held down for good forces the service
\* state again and again (main.cpp:45-50), unless the watchdog keeps biting.
HeldForcesAgain == /\ WF_loopVars(Processor)
                   /\ <>[](pin = LOW)
                   => []<>(step \in {"force", "setup"})
=============================================================================
