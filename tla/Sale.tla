-------------------------------- MODULE Sale --------------------------------
(***************************************************************************)
(* The whole of a purchase: the firmware (Dixie), the serial line both     *)
(* ways, the daemon's customers (src/alkod/customer.cpp) and the server    *)
(* that takes their money; and the administration page (src/alkod/         *)
(* httphandler.cpp), which sends the machine what its buttons say at any   *)
(* time. Each customer buys once, and its number stands for the ids of its *)
(* requests, as that of a press of Fetch does for its own: that an answer  *)
(* finds its asker is Daemon's matter, what a frame is made of Framing's   *)
(* and Chunks'.                                                            *)
(***************************************************************************)
EXTENDS Dixie

CONSTANTS Customer,             \* the customers, as numbers
          Visit,                \* presses of the page's Fetch, as numbers
          MaxLost               \* frames lost at most

Asker == Customer \cup Visit \cup {0}

Question == {"PING", "PONG", "CHECK_AVAIL", "FETCH", "SHOW_INFO", "LCD",
             "GET_CONFIG", "GET_STATE", "HOME_BEGIN", "HOME_ABORT"}

\* What the daemon asks the machine.
Asked == {Datagram(cmd, id, <<>>) : cmd \in Question, id \in Asker}
           \cup {Datagram("SET_STATE", 0, <<s>>) : s \in {PREPARE_READY, SERVICE}}

ASSUME SaleAssumption == /\ Customer \subseteq Nat \ {0}
                         /\ Visit \subseteq Nat \ {0} /\ Visit \cap Customer = {}
                         /\ Asked \subseteq Request
                         /\ MaxLost \in Nat

VARIABLES toMachine,            \* frames on the line to the machine
          toDaemon,             \* frames on the line to the daemon that it reads
          stage,                \* m_state of each customer
          server,               \* the server's line that each has not read yet, or "none"
          lost,                 \* frames lost so far
          granted,              \* those who were granted a drink, presses of Fetch among them
          untried,              \* customers whose FETCH began no DEPLOY yet and was not answered EMPTY
          serving,              \* whose FETCH was last accepted, 0 once a column has turned
          served,               \* those for whom a column has turned in full
          upset                 \* something came between a customer and its drink, see PaidIsTried

lineVars == <<toMachine, toDaemon>>
daemonVars == <<stage, server>>
ghostVars == <<granted, untried, serving, served, upset>>
saleVars == <<vars, lineVars, daemonVars, lost, ghostVars>>

SaleInit == /\ Init
            /\ toMachine = <<>> /\ toDaemon = <<>>
            /\ stage = [c \in Customer |-> "none"]
            /\ server = [c \in Customer |-> "none"]
            /\ lost = 0
            /\ granted = {} /\ untried = {} /\ serving = 0 /\ served = {} /\ upset = FALSE

Ask(cmds, id) == toMachine' = toMachine \o [k \in DOMAIN cmds |-> Datagram(cmds[k], id, <<>>)]
-----------------------------------------------------------------------------
(* The machine: its steps, and what they send.                             *)

\* The answers the daemon does something about; a step sends one datagram at most.
Heard(sent) == IF sent # <<>> /\ Head(sent).cmd \in {"PING", "READY", "SERVICE", "BUSY", "DRINK_AVAIL", "EMPTY"}
               THEN sent ELSE <<>>

\* A PING was not answered in time.
Silence == nextState # READY_WAIT /\ nextState' = READY_WAIT

Hear == /\ toMachine # <<>>
        /\ Receive(Head(toMachine))
        /\ toMachine' = Tail(toMachine)
        /\ LET d == Head(toMachine)
               found == d.cmd = "FETCH" /\ currentState = READY
           IN  /\ untried' = IF found /\ tx' # <<>> THEN untried \ {d.id} ELSE untried
               /\ serving' = IF found /\ tx' = <<>> THEN d.id ELSE serving
        /\ UNCHANGED <<granted, served, upset>>

\* The home switch ends DEPLOY: a column has turned, and a drink fallen.
Turn == phase = "update" /\ phase' = "switch" /\ currentState = DEPLOY /\ nextState # PREPARE_READY /\ nextState' = PREPARE_READY

Work == /\ NoDatagram \/ Update \/ Switch \/ Tick \/ \E r0, r \in Reading : Begin(r0, r)
        /\ untried' = IF phase = "switch" /\ currentState = READY /\ currentState' = DEPLOY THEN untried \ {serving} ELSE untried
        /\ served' = IF Turn THEN served \cup {serving} ELSE served
        /\ serving' = IF Turn THEN 0 ELSE serving
        /\ upset' = (upset \/ Silence)
        /\ UNCHANGED <<toMachine, granted>>

Interrupted == /\ Reset \/ \E r \in Reading : ForceServiceState(r)
               /\ upset' = TRUE
               /\ UNCHANGED <<toMachine, granted, untried, serving, served>>

Machine == /\ Hear \/ Work \/ Interrupted
           /\ toDaemon' = toDaemon \o Heard(tx')
           /\ UNCHANGED <<daemonVars, lost>>

Lose == /\ lost < MaxLost /\ lost' = lost + 1
        /\ \/ toMachine # <<>> /\ toMachine' = Tail(toMachine) /\ UNCHANGED toDaemon
           \/ toDaemon # <<>> /\ toDaemon' = Tail(toDaemon) /\ UNCHANGED toMachine
        /\ upset' = TRUE
        /\ UNCHANGED <<vars, daemonVars, granted, untried, serving, served>>

-----------------------------------------------------------------------------
(* The customers.                                                          *)

Become(c, s) == stage' = [stage EXCEPT ![c] = s]

InProgress(c) == stage[c] \in {"StateCheckDone", "SupplyCheckDone", "PaymentCheckDone"}

\* A customer is on its way to a drink.
UnderWay == \E c \in Customer : \/ InProgress(c)
                                \/ \E k \in DOMAIN toMachine : toMachine[k].cmd = "FETCH" /\ toMachine[k].id = c

\* A card was read: the constructor's timer asks for the machine's state at once. Customers
\* are numbered as they come.
NewCustomer(c) == /\ stage[c] = "none" /\ \A d \in Customer : d < c => stage[d] # "none"
                  /\ Ask(<<"PING">>, c) /\ Become(c, "StateCheckDone")
                  /\ upset' = (upset \/ \E d \in Customer : InProgress(d))
                  /\ UNCHANGED <<vars, toDaemon, server, lost, granted, untried, serving, served>>

\* Mutant: only a machine in service turns customers away.
StateCheckedLightly(c, answer) ==
  \/ answer # "SERVICE" /\ Ask(<<"CHECK_AVAIL">>, c) /\ Become(c, "SupplyCheckDone")
  \/ answer = "SERVICE" /\ Become(c, "AllDone") /\ UNCHANGED toMachine

StateChecked(c, answer) ==
  \/ answer = "READY" /\ Ask(<<"CHECK_AVAIL">>, c) /\ Become(c, "SupplyCheckDone")
  \/ answer = "SERVICE" /\ Become(c, "AllDone") /\ UNCHANGED toMachine
  \/ answer \notin {"READY", "SERVICE"} /\ Ask(<<"LCD", "LCD">>, c) /\ Become(c, "AllDone")

\* The server is asked next.
SupplyChecked(c, answer) == /\ Become(c, IF answer = "DRINK_AVAIL" THEN "PaymentCheckDone" ELSE "AllDone")
                            /\ UNCHANGED toMachine

\* A frame comes from the machine: its own PING, an answer someone waits for, or one nobody does.
Answered == /\ toDaemon # <<>> /\ toDaemon' = Tail(toDaemon)
            /\ LET d == Head(toDaemon)
               IN  \/ d.cmd = "PING" /\ Ask(<<"PONG">>, 0) /\ UNCHANGED stage
                   \/ d.id \in Customer /\ stage[d.id] = "StateCheckDone" /\ StateChecked(d.id, d.cmd)
                   \/ d.id \in Customer /\ stage[d.id] = "SupplyCheckDone" /\ SupplyChecked(d.id, d.cmd)
                   \/ /\ d.cmd # "PING"
                      /\ d.id \in Customer => stage[d.id] \notin {"StateCheckDone", "SupplyCheckDone"}
                      /\ UNCHANGED <<toMachine, stage>>
            /\ UNCHANGED <<vars, server, lost, ghostVars>>

\* The server takes the money ("1"), finds too little ("2") or no account ("3"), lets the debug
\* card make a test purchase ("6"), or sends another number or a line without one. Money it
\* takes after the customer has gone is money without a drink like that of a Timeout after it.
Decide(c) == /\ stage[c] = "PaymentCheckDone" /\ server[c] = "none"
             /\ \E answer \in {"1", "2", "3", "6", "other", "text"} :
                  /\ server' = [server EXCEPT ![c] = answer]
                  /\ granted' = IF answer \in {"1", "6"} THEN granted \cup {c} ELSE granted
             /\ UNCHANGED <<vars, lineVars, stage, lost, untried, serving, served, upset>>

\* Mutant: "not enough money" goes on to the purchase.
SellsAnyway(answer) == answer \in {"1", "2", "6"}

\* A test purchase, which takes no money, is a purchase otherwise.
Sells(answer) == answer \in {"1", "6"}

\* A line without a number starts the timer again; a number that is not known ends the purchase.
Paid(c) ==
  /\ stage[c] = "PaymentCheckDone" /\ server[c] # "none"
  /\ LET answer == server[c]
     IN  \/ /\ Sells(answer) /\ Become(c, "AllDone")
            /\ Ask(IF answer = "6" THEN <<"LCD", "LCD", "LCD", "LCD", "FETCH">> ELSE <<"LCD", "LCD", "LCD", "FETCH">>, c)
            /\ untried' = untried \cup {c}
         \/ /\ ~Sells(answer) /\ answer # "text" /\ Become(c, "AllDone") /\ UNCHANGED untried
            /\ CASE answer = "2" -> Ask(<<"LCD", "LCD", "LCD", "LCD", "SHOW_INFO", "LCD">>, c)
                 [] answer = "3" -> Ask(<<"LCD", "LCD", "SHOW_INFO", "LCD">>, c)
                 [] OTHER        -> UNCHANGED toMachine
         \/ answer = "text" /\ UNCHANGED <<toMachine, stage, untried>>
  /\ server' = [server EXCEPT ![c] = "none"]
  /\ UNCHANGED <<vars, toDaemon, lost, granted, serving, served, upset>>

\* timeout: a late answer finds nobody.
Timeout(c) == /\ InProgress(c)
              /\ Become(c, "Expired")
              /\ server' = [server EXCEPT ![c] = "none"]
              /\ UNCHANGED <<vars, lineVars, lost, ghostVars>>

-----------------------------------------------------------------------------
(* The administration page.                                                *)

SetState(s) == <<Datagram("SET_STATE", 0, <<s>>)>>

\* Start and Stop; Check, State, AutoHome, CancelAutoHome and, like State, autoStart's PING; and
\* the status view.
Page == {SetState(PREPARE_READY), SetState(SERVICE)}
          \cup {<<Datagram(cmd, 0, <<>>)>> : cmd \in {"CHECK_AVAIL", "GET_STATE", "HOME_BEGIN", "HOME_ABORT", "PING"}}
          \cup {<<Datagram("GET_CONFIG", 0, <<>>), Datagram("GET_STATE", 0, <<>>)>>}

Press == \E frames \in Page :
           /\ toMachine' = toMachine \o frames
           /\ upset' = (upset \/ (UnderWay /\ frames[1].cmd = "SET_STATE"))
           /\ UNCHANGED <<vars, toDaemon, daemonVars, lost, granted, untried, serving, served>>

\* Fetch: a drink for whoever stands at the machine.
PressFetch(v) == /\ v \notin granted /\ granted' = granted \cup {v}
                 /\ Ask(<<"FETCH">>, v)
                 /\ upset' = (upset \/ UnderWay)
                 /\ UNCHANGED <<vars, toDaemon, daemonVars, lost, untried, serving, served>>

SaleNext == \/ Machine \/ Lose \/ Answered \/ Press
            \/ \E c \in Customer : NewCustomer(c) \/ Decide(c) \/ Paid(c) \/ Timeout(c)
            \/ \E v \in Visit : PressFetch(v)

SaleSpec == SaleInit /\ [][SaleNext]_saleVars
-----------------------------------------------------------------------------
\* However purchases, retries, resets, lost frames and presses mix, each drink is one that was
\* granted, and no other drink was for the same grant: the server's to a customer, for money
\* or as a test, or that of a press of the page's Fetch. No second try of the machine
\* follows a full turn, and no late answer makes a second FETCH
\* (dixie.cpp:196-257, customer.cpp:104-193, httphandler.cpp:177-180).
DrinkGranted == [][Turn => serving \in granted \ served]_saleVars

\* To whom the server grants a drink gets a try of the machine or the word EMPTY, though nothing
\* looks at the answer to FETCH: from the READY of its PING on, nothing but time passes for
\* the machine (customer.cpp:115-125, dixie.cpp:470-484). What can come between is all in
\* upset: a frame lost, a reset, the service button, a PING of the machine that is not
\* answered in time, a second customer before the first has its answer, and Start,
\* Stop or Fetch pressed before the customer's FETCH is read (httphandler.cpp:161-180).
PaidIsTried == ~upset /\ phase = "idle" /\ (\A k \in DOMAIN toMachine : toMachine[k].cmd # "FETCH")
                 => untried = {}
=============================================================================
