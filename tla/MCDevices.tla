------------------------------ MODULE MCDevices ------------------------------
(***************************************************************************)
(* The devices behind the I2C bus: the relays and switches (Relays), the   *)
(* interface of the display (Backpack) and what it shows (Display). They   *)
(* share no register. Each runs by itself, the others at rest, so that     *)
(* their states add up and do not multiply; "part" says which one.         *)
(***************************************************************************)
EXTENDS Relays, Backpack, Display

VARIABLE part

devicesVars == <<part, relaysVars, backpackVars, displayVars>>

\* What another register may hold: nothing, or the pins that are high.
SomePins == {{}, {1, 2, 5, 9, 15}}

\* A command and two characters; read out of step, their nibbles are also the commands that
\* change the mode.
SomeBytes == {<<{}, {6}, {}>>,           \* to the first column of the first row
              <<{1}, {3, 4}, {3, 4}>>,   \* the character 3
              <<{1}, {5}, {4}>>}         \* the character B

\* A text that fills more than a line, a short one that ends with letters of its own, and one
\* that ends before its length.
SomeTexts == {[k \in 1 .. 21 |-> IF k = 20 THEN 216 ELSE 60 + k], <<97, 230, 229>>, <<98, 0, 98>>}

\* The display's text and memory are large to carry along where nothing is said of them.
NoDisplay == /\ text = <<>> /\ todo = <<>> /\ ddram = <<>> /\ cgram = <<>> /\ counter = <<>>
             /\ forward = FALSE /\ lit = FALSE /\ healthy = FALSE /\ dirty = FALSE

DevicesInit == /\ part \in {"relays", "backpack", "display"}
               /\ Init /\ BackpackInit
               /\ IF part = "display" THEN DisplayInit ELSE NoDisplay
               /\ part # "backpack" => enable = LOW

DevicesNext == \/ part = "relays" /\ Next /\ UNCHANGED <<part, backpackVars, displayVars>>
               \/ part = "backpack" /\ BackpackNext /\ UNCHANGED <<part, relaysVars, displayVars>>
               \/ part = "display" /\ DisplayNext /\ UNCHANGED <<part, relaysVars, backpackVars>>

DevicesSpec == DevicesInit /\ [][DevicesNext]_devicesVars
=============================================================================
