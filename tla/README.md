# Verification of Alko

Alko is a beer vending machine: an Arduino drives the machine itself (`arduino/`), a
Raspberry Pi reads the customer's card, asks a payment server and tells the Arduino what
to do over a serial line (`alkod/`). This directory holds TLA+ models of that code, the TLC
configurations that check them and TLAPS proofs about them.

Paths below are relative to the repository's root; line numbers are those of the commit
modelled. `PROJECT.json` maps every definition to the lines it translates.

## Inventory

| Component | State | Operations | Talks to |
|---|---|---|---|
| Dixie state machine (`arduino/dixie.cpp`) | previous, current and next state; eight timers; `m_gotPong`, `m_deployId`, `m_deployColumn` | `begin`, `update` (= `datagramHandler`, the state's update function, `switchState`), `forceServiceState` | Narco and Timer by calls, daemon by datagrams, display |
| Narco column vender (`arduino/narco.cpp`) | `m_narco` (full bits, jam bits, next column, packed in 32 bits), display marks; relays latched in an I/O expander | `updateWithJam`, `getDeployColumn`, `setJammed`, `powerOn`, `powerOff`, `isHome`, `getInfoText` | the switches and motors of the machine |
| Timers (`arduino/timer.cpp`) | start time, interval, active | `start`, `stop`, `timedOut` | `millis()` |
| Main loop (`arduino/main.cpp`) | button readings and debounce time | `setup`, `loop` | Dixie, watchdog |
| Serial framing (`arduino/network.cpp`, `datagram.cpp`) | bytes outstanding, last datagram, reference counts | `datagramIsPending`, `getPendingDatagram`, `sendDatagram` | UART |
| Display (`arduino/lcd.cpp`, `arduino/libraries/LiquidCrystal`) | text; the display's own memory, mode and half-read byte; the expander's latches | `setText`, `clear`, `update`, `reset` | the display over I2C; nobody reads it back |
| Port expanders (`arduino/libraries/AdafruitMCP23017`) | direction, pull-up and latch registers, which outlive a reset | `pinMode`, `digitalWrite`, `digitalRead`, `pullUp` | Narco; motors and switches |
| Daemon serial protocol (`alkod/alkomanager.cpp`, `serialmanager.cpp`) | next id, table of requests, bytes outstanding | `get`, `slotReadyRead`, `getID` | UART; customers and web page by calls and Qt signals |
| Customer purchase (`alkod/customer.cpp`) | `m_state`, `m_timer`, `m_reply`, `m_socket` | `handleCustomer` (on replies, on the payment server's answer), `timeout` | daemon protocol, payment server |
| Card reader and handler (`alkod/magtekreader.cpp`, `customerhandler.cpp`) | device, thread | blocking read; `newCustomer` by queued signal | customers |
| Administration page (`alkod/httphandler.cpp`, `httpserver.cpp`) | one handler per connection | `readyRead`, sends requests, reads the log | daemon protocol |
| Service wrapper (`alkod/main.cpp`, `alkoservice.cpp`) | none | start | devices |
| Vendored: Qt Service (`qtservice/`) | | | never executed |

The repository has no tests.

What is hard about it:

* **Two writers, one variable.** In one `update()` the datagram handler and then the state's
  update function write `m_nextState`; `switchState` sees the last write only.
* **Read, then read again.** FETCH looks at the column switches, `enterDeployState` looks again.
* **Members that outlive their purpose.** Timers that are not stopped, `m_deployId`, the next-column
  field that is only ever OR-ed into, `m_gotPong` after a lost PONG.
* **Motors.** A relay stays as it was last set, through a reset of the processor too.
* **Words.** `millis()` wraps, the columns' bits share one word, a byte counts the handles of a datagram,
  ids wrap into a table that forgets nothing.
* **Devices that are not reset with the processor.** The relays' latches, the display's mode, a frame begun.
* **Signals and segments.** One frame per `readyRead`, one key per `read()`, one HTTP answer per connection,
  whatever has arrived by then.
* **Line.** Bytes are lost, frames resynchronise, replies are matched by id, the daemon gives up
  after 250 ms while the machine may still answer; money is paid before the drink is asked for.

What makes each component correct, in short: a motor runs only while it should and is always
stopped; the states follow each other as their graph says; a FETCH is confirmed once, with its own
id, for a column that can be vended; a lost connection is shown only when there is one; a reply
reaches the request it answers; a drink granted is a drink vended, once, and no other is.

## Modules

| Module | Models |
|---|---|
| `Alko` | the state codes and commands both sides share; a datagram is a record |
| `Narco` | `arduino/narco.cpp`: switch readings, jam marks, selection, relays |
| `InfoText` | the text of `getInfoText`, kept between two calls, over the sets of `Narco` |
| `NarcoBits` | the columns and the text as they are stored, one word of bits; implements `Narco` |
| `Relays` | `Narco`'s `begin`, `powerOn`, `powerOff` as transfers to the two MCP23017 |
| `Dixie` | `arduino/dixie.cpp`, with the timers and the order of `arduino/main.cpp`'s loop; properties of the firmware |
| `Vender` | abstract specification: order of the states, and which motor runs when |
| `Millis` | the clock that `Clock` and `Loop` read |
| `Clock` | `arduino/timer.cpp` on a word that wraps |
| `Countdown` | abstract specification of a timer; `Clock` implements it until the wrap |
| `Loop` | `arduino/main.cpp`: the round of the loop, the debounced button, the watchdog |
| `Checksum`, `Damage` | frames and their checksum, which both sides compute; what damage it notices |
| `Framing` | `arduino/network.cpp`: the receiver of the firmware, byte by byte |
| `Chunks` | `slotReadyRead` of `alkod/alkomanager.cpp`: the receiver of the daemon, chunk by chunk |
| `Buffers` | `arduino/datagram.cpp`: datagrams as handles on counted buffers, in the variables of `network.cpp` and `dixie.cpp` |
| `Display` | `arduino/lcd.cpp` and the bytes it sends; what the display shows |
| `Backpack` | `LiquidCrystal` over the MCP23008, transfer by transfer; the display's 4-bit interface |
| `Daemon` | `alkod/`: request ids and table of `alkomanager.cpp`, purchases of `customer.cpp`, in one event loop |
| `Reader` | `alkod/magtekreader.cpp` and `customerhandler.cpp`: from key events to a customer |
| `LogView` | the log and its page (`alkod/httphandler.cpp`) |
| `Request` | a request to the administration page, cut into segments (`alkod/httphandler.cpp`) |
| `Sale` | composition: `Dixie`, the line both ways, customers, payment server and administration page |
| `MCDixie`, `MCSale` | instances of `Dixie` and `Sale` for TLC |
| `MCFirmware`, `MCDevices`, `MCLine`, `MCHost` | instances of the smaller modules, several of them run side by side |
| `DixieProofs` | theorems about `Dixie` and `Narco` |
| `SaleProofs` | theorems about `Sale`, over those about `Dixie` |
| `DaemonProofs`, `RelaysProofs` | theorems about the module of that name |
| `FirmwareProofs` | theorems about `InfoText`, `NarcoBits`, `Clock` and `Loop` |
| `DisplayProofs` | theorems about `Backpack` and `Display` |
| `LineProofs` | theorems about `Buffers`, `Checksum`, `Damage`, `Framing` and `Chunks` |
| `HostProofs` | theorems about `Reader` and `Request` |

`MCFirmware`, `MCDevices`, `MCLine` and `MCHost` hold parts that share nothing. A variable `part` says which one a behaviour is about; the others stay
as they begin. So the states of the parts add up and do not multiply, and a run checks each part as if it were alone. The parts with theorems are extended there, so that the properties
checked are the very ones proved; `Framing`, `Chunks` and `LogView` are instances, and their assumptions about their constants are asserted there.

How they fit. `Sale` extends `Dixie`, which extends `Narco`; each of the others looks at one part at the level
where its hazards are. `NarcoBits` shows that the sets of `Narco` are what the word holds, `Relays` that the
relays obey `Narco`'s `PowerOn` and `PowerOff`, `Clock` that a tick counter is a timer until the clock wraps. `Framing` and `Chunks`
justify the line of `Sale` and the set of open questions of `Daemon`: frames come undamaged and in order, late or not at all.
`Buffers` justifies that a datagram is a value.

### Narco

`m_narco` is kept as its fields, each the set of its one bits: `full`, `jammed`, `cursor` (the
four-bit next-column field). `motor` is the set of closed relays. A `Reading` is what the switches
answer during one operation, and is chosen freely each time: a drink may be taken out, put in or get
stuck between any two looks. `N` stands for `NARCO_LAST_COLUMN`; the next-column field allows up to 15.
`Select` says what the two loops of `getDeployColumn` return, and `SelectCorrect` says of it what
a caller relies on. `Bits` and the union in `GetDeployColumn` are the `|=` of `setDeployColumn`: the field is
never cleared.

### Dixie

`update()` is three steps, `phase` tells which is next:

1. `Receive(d)` or `NoDatagram`: `datagramHandler`, one operator per `case`;
2. `Update`: the update function of the current state;
3. `Switch`: `switchState` when `nextState # currentState`, that is the exit function of the old
   state, the assignment of the two state members and the enter function of the new one.

`Begin` is `setup()`; `ForceServiceState` the button, looked at between two updates; `Reset` the
watchdog, which loses every variable but the relays; `Tick` the clock. Splitting `update()` in
steps is harmless, as nothing interrupts it but a reset, and shows the properties what the
handler asked for before the update function overwrites it. `tx` holds the datagrams of the last step.

A timer is `Off`, or the ticks to go; 0 is timed out and stays so until the next `Start`. The
clock advances between updates only: within one `update()` every `timedOut()` sees one time, which leaves
out a timer expiring between two looks in one function. That would be the same as expiring before
the first look, or after the second, for every function of the source but `updateDeployState`, whose
two timers are looked at in that order; there it only delays the transition to the next update.

Display calls, texts and colours are left out (see `Display`). The display commands are one, `"LCD"`; a
command without a `case` is `"OTHER"`. `GET_CONFIG` answers with the fields of `m_narco`.

### Vender

A state (or `BOOT`) and the motors that run. `Dixie` is shown to implement it under `mode` (the
current state, `BOOT` before `begin()` has run) and `running` (the relays): states follow the graph, homing takes the columns
in order, one motor at a time, none outside DEPLOY and AUTO_HOME except between a reset and `begin()`.

### InfoText, NarcoBits and Relays

The text is a mark per column. `InfoText` keeps it beside the sets of `Narco`, whose other operations can come between two calls of `getInfoText`; `told` and
`toldEver` remember which columns were full or jammed when it was made, for `TextErrsOneWay` only.

`NarcoBits` keeps `m_narco` as a number. `Shift[b]` is `1 << b`, `Written` the `|=` or `&= ~` of one bit, `Field` a loop of them over one of the word's fields,
`IsFull` and `IsJammed` the tests, `Scan` what one of `getDeployColumn`'s two loops can return and `Found` what both do. Under the sets of one bits (`FullIn`,
`JammedIn`, `NextBits`) each step is one of `Narco`'s, with the column returned that `Narco` chooses and the marks that `Narco` says are due.

`Relays` has the registers `IODIR`, `GPPU`, `OLAT` of both expanders and the calls of `begin`, `powerOff` and `powerOn`, which a reset can cut anywhere. A call is a
program: `Transfer(call, i)` is what it does i-th, a `Change` of one pin of one register or of a whole port, and `Size` how many there are. A change is a
read of the port (`got`) and a write of it. Nobody looks at the result of a transfer: a failed write changes nothing, and a read is two transfers. If the second fails it gives 0xFF;
if the first does, which sends the register's number, the value is that of whatever register the expander's pointer was left at, here any of `Misread`. Written into `IODIR` in `begin()`, such a value
makes outputs of pins that belong to switches. Only another `begin()` repairs that, so `WiredAsListed` speaks of the time after a `begin()` without a failure (`Trusted`), and of that `begin()` itself from its
fifth write on, by which all four ports have been made inputs; what fails afterwards does no such harm, as no other call writes `IODIR`.
A relay has power when its pin is an output with a high latch (`Closed`).

### Clock, Countdown and Loop

`Clock` computes `timedOut()` modulo `Word`. `age` says how long ago the timer was started. `Countdown` is the timer of `Dixie`;
`InLap` says of a timer that it was started in the present lap of the clock and that its interval ends in it. `Loop` splits a round of `loop()` where time can pass: `update()`, the reading of the button,
the comparison, `forceServiceState()`. `held` and `rested` are for the property: how long the button has been seen
down, and how long ago the state was last forced, both up to `Cap`. `ForceService` is the call of `forceServiceState()`.

### Checksum, Damage, Framing and Chunks

A byte is a number below `Base`, a frame a sequence of them: signature, size, id, checksum, command, data. `Framing` has the line,
the UART's buffer of `Capacity` bytes and `datagramIsPending`: an action is one call of it that reads anything. `hurt` names the frames whose bytes were
lost, damaged, dropped at a full buffer or preceded by a byte nobody sent. `Chunks` has the bytes to come, those that can be read, and one `slotReadyRead` per
chunk; a chunk is what arrives between two signals, and `signals` counts those that make a frame complete.

### Buffers

`handle` says which buffer each variable of type `Datagram` uses; constructors, copies and destructors are `Allocate`, `Copy` and `Release`, in the order in which
`datagramIsPending`, `handleDatagram`, `getPendingDatagram` and the handlers make and leave them. `m_datagram` is a pointer in a static object, hence null at first.

### Display and Backpack

`Backpack` is the interface: each call of the driver is transfers to the expander, each write of its port changes the lines, and the display takes a nibble when E
falls. Its controller is in 8-bit mode or in 4-bit mode with or without half a byte (`width`, `half`), from power-up or from wherever a reset left it. A nibble is the set
of the data pins that are high; `LCDBegin(i)` and `Send(byte, i)` are the read-modify-write operations the driver makes. For the properties there are `slip`, the nibbles the display took less
those sent, and `strayed`, that it has been in 8-bit mode since `begin()` synchronised it. `strayed` is needed: with three failed transfers or more the nibbles out of step
can read as a command that sets 8-bit mode and another that leaves it, after which the count matches and half a byte waits all the same. `Display` is one
level up: bytes, the display's memory `ddram` and `cgram`, the address counter, and what `Slip` can do to them after a failed transfer.
The MCP23008 driver's `digitalWrite` reads the pins where its comment speaks of the output latches; `Backpack` models what it does, and `Synchronised` says that the display comes up all the same.

### Daemon

The daemon is one Qt event loop; an action is one turn of it, a signal with everything its slots
do. `requests` is the table of `AlkoManager`, and says of each id whose `handleCustomer` its reply
is connected to: a customer's, `Nobody`'s (PONG, display, FETCH, the page), or that the reply is
`Deleted` while the table keeps its pointer. `state` is `m_state`; `AllDone` and `Expired` last only until the
object is deleted, before the loop looks for its next input, and are `"none"` like the place before and
after. A place for customers is used again, so `Customer` bounds how many purchases run at once, not how many there are.

| Action | Code |
|---|---|
| `NewCustomer`, `Start` | `newCustomer`, and `handleCustomer` from the constructor's zero timer |
| `Answered`, `Damaged` | `slotReadyRead` for a whole frame, then `handleCustomer` of whoever its reply is connected to (`StateChecked`, `SupplyChecked`) |
| `Pinged` | `slotReadyRead` for the machine's PING: `get` of a PONG |
| `Paid` | `handleCustomer` when the payment server has sent a line |
| `Timeout` | `timeout` and the destructor |
| `Ask` | `autoStart`, and the requests of the administration page |

`outstanding` holds the questions the machine may still answer. It is a set, and nothing has to
leave it: answers come in any order, late or never, which covers loss on the line and the one
frame per `readyRead` of `slotReadyRead`. `Damaged` gives any answer to any id at any time, since a wrong checksum is only logged;
it also covers the frames the machine sends of itself with an id it has kept. What is
assumed is that no answer is so late that its id has come round (`Sent` drops
those): ids are 16 bits, and the machine answers at once.

Uses of deleted or uninitialised objects are undefined, and are given the outcomes a build can produce:
nothing, the end of the process (`Crash`), or an effect on the object that now lies at that address.
They are the answer to a deleted reply (`Deliver`), the destructor's `m_reply` after the reply is gone
(`StaleDelete` where other replies may have been made since, `Crash` or nothing where none can), and its `m_socket`
before `PaymentCheckDone`, which no constructor sets.

`f.by`, the customer a question was asked for, is there for the properties only.

### Reader, LogView and Request

`Reader`: a key stroke is three events; `Look` takes all that wait and looks at the second. `missed` counts keys that went by. `queue` holds the signals queued for the
daemon's event loop. `LogView`: a log line is a record of what a frame says and its length; a byte of the file is the number of its line or
`Newline`. `Request`: a request is a sequence of parts, cut where the reading of them would differ; `ReadyRead` answers what has come by then and closes.

### Sale

The firmware is `Dixie`, unchanged: `Hear`, `Work` and `Interrupted` are its steps with the line at one end, and `SaleIsDixie` proves that this is all that happens to it.
`toMachine` and `toDaemon` are the frames on the line, in order; `Heard` drops the answers nobody in the daemon acts upon, which only the log gets. A customer buys once, and its number stands
for its ids; so does that of a press of the page's Fetch, while the page's other requests all have the id 0. `stage` is `m_state` with `Expired` for a purchase that timed out, `server` the line of the payment
server that the daemon has not read: a known number (1, 2, 3 or 6), another, or a line without one. 6 is the answer to the debug id, whose purchase is a test: it takes no money and asks for a drink all the same. The
server decides whom it gives it to, so any customer may get it.

| Action | Code |
|---|---|
| `Hear`, `Work`, `Interrupted` | `update()` with and without a datagram; the button and the reset |
| `NewCustomer` | constructor and zero timer: PING |
| `Answered` | `slotReadyRead` and `handleCustomer` (`StateChecked`, `SupplyChecked`) |
| `Decide`, `Paid` | the payment server; `handleCustomer` on its line: display, FETCH |
| `Timeout` | `timeout` |
| `Press` | the page's buttons but Fetch, its status view and `autoStart`'s PING, at any time |
| `PressFetch` | the page's Fetch, at any time |
| `Lose` | a frame lost |

`granted` are those to whom a drink was granted: customers by the server's 1 or 6, and presses of Fetch, which vend without a customer and without money. `serving` is whose FETCH was last accepted, `served` those
for whom a column has turned. `DrinkGranted` says that a drink falls for one of `granted` only, and once for each. `upset` is raised by what may cost a granted customer his drink as the code stands:
a lost frame, a reset, the button, a PING unanswered in time, a second customer while a purchase is in progress, and the page's Start, Stop or Fetch from the beginning of a purchase until its FETCH is read
(`UnderWay`): Stop or Start makes the machine leave READY, a Fetch is served first, and the FETCH may find it elsewhere and be refused. `PaidIsTried` says of everything in the model, the page's other buttons among it,
that nothing else does.

## Runs

| Run | Instance | Shows |
|---|---|---|
| `safety` | 1 column, every datagram, intervals 1 and 2 | `TypeOK`, `SwitchFollows`, `WaitingMeansSilence`, `ConfirmedOnce`, `UndoneByTimerOnly` |
| `columns` | 2 columns, datagrams that move the machine or touch the columns | `MotorUnderControl`, `SwitchPlan`, `StockHonest`, `ImplementsVender` |
| `live` | 1 column, fair loop and clock | `EveryMotorStops`, `TransientStatesEnd` |
| `purchases` | 2 customers, 3 ids, everything the machine, the server, the page and the line can do; fair timers | `OwnerWaits`, `AnswerFindsAsker`, `CustomersEnd` |
| `sale` | 1 column, 2 customers or one and a press of Fetch, all answers of the server, the page's buttons, one trouble at most | `DrinkGranted`, `PaidIsTried` |
| `firmware`: `Clock` | a word of 16, intervals 1 and 4 | `WrongOnlyAtWrap`, `ImplementsCountdown` |
| `firmware`: `Loop` | the same word, delay 2, watchdog 4 | `ForcedWhenHeld`, `LoopNeverHangs`, `HeldForcesAgain` |
| `firmware`: `NarcoBits` | the 9 columns, readings at the ends of the fields | `ImplementsNarco` |
| `firmware`: `InfoText` | 2 columns, every reading | `TextErrsOneWay`: an old mark can show a column as full or jammed that is no longer, never one as fit that was jammed |
| `devices`: `Relays` | 9 columns of which the first, the one on the other port and none are powered, resets anywhere, one failed transfer, wrong registers that read as nothing or as pins of both ports | `OneMotor` and `StartsAsAsked` while no transfer has failed; `WiredAsListed` after a `begin()` without a failure; `CleanCallObeyed` |
| `devices`: `Backpack` | 2 failed transfers, resets anywhere | `Synchronised`, `OneSlip` |
| `devices`: `Display` | 3 texts, 2 lines, slips and resets | `ShowsText` |
| `line`: `Damage` | all frames of 8 and 9 bytes of 4 values, 2 damaged | `DamageIsNoticed` |
| `line`: `Framing` | 7 requests with 1 fault; display lines of 24 and 25 bytes with a buffer of 63 that overflows | `HandledAsSent`, `Recovers` |
| `line`: `Chunks` | 5 answers cut in every way, 1 fault | `AnswersInOrder` |
| `line`: `Buffers` | 4 buffers, 2 frames | `CountsAreHandles`, `HandlerSeesReceived` |
| `host`: `Reader` | an RFID and a magnetic card, 2 swipes, 4 strokes that wait, 1 missed key | `ReadAsSwiped`, `NoStranger` |
| `host`: `LogView` | logs of up to 3 lines, a buffer of 8 bytes | `LogAsWritten` |
| `host`: `Request` | every button, every page, cut anywhere | `WholeOrNothing` |
| `abort`, `stale_timers`, `clock_early` | small | the three disagreements below |

Bounds. `N`: one column is enough for the state graph, since columns matter to it only through "one
can be vended or not" and "past the last one"; two columns are the least for which the OR-ed
next-column field passes the last column (1 or 2 = 3), for homing to go from column to column
and for a wrong motor to be possible. `Id`: the handler copies ids and compares none, so one besides the 0 of
`m_deployId` suffices. `Interval`: a timer matters by when it expires relative to the others and
to the datagrams; with one tick each every order of expiry of two timers started apart occurs, and the
two steps of `motorRun` and `ping` keep them behind `motorStart` and `narco`, as in `config.h`. No
counter is unbounded, hence no state constraint, and the only action constraints are those of `sale`. `LastId` and `Customer`: two customers
are the least that can be mistaken for each other; with the three ids 2 to 4, a page request or two use up the
ids between a question and its answer, so that a customer's place in the table is taken over while it waits.

The words of `Clock` and `Loop` are small and wrap often, which is the case of interest; the assumptions of both keep the ratios that matter
(intervals and watchdog shorter than the word). The requests of `line` are more frames than the largest size a damaged byte can claim would cover, so
that `Reach` 4 is a bound that is met, and the ids are such that their bytes pass for sizes. Bytes of `Damage` have four values: the
checksum is arithmetic modulo the largest word, of which `Base` is a parameter. The log's buffer of 8 bytes meets files shorter than it, as long and longer, with
lines that start at its first two bytes. In `Sale` every interval is one tick and two customers meet at once or one after the other; a lost frame is enough for
every answer that is missed. `OneTrouble` leaves out of that run what follows a second trouble, another of the things that raise `upset`: after one
nothing is lost any more, nobody resets the machine or presses the button, and a customer who has not come yet comes when all is quiet. `SparePage` lets the page's buttons be pressed where they matter and
no oftener: Start in service, any button when it costs the first customer his drink, one that is harmless when his money has just been taken, and Fetch in the second customer's place; and the second customer is
given the server's answers 1 and 2 only. All combinations of troubles and presses are covered by the proofs of both its properties. The two display lines are in the third row, which shares the display's memory with the first, and in the fourth, which ends it. Transfers that fail in `Backpack` do so after `begin()` has synchronised the display: nothing can be said before.

`CHECK_DEADLOCK FALSE` stands where the system may really stop: the daemon's process ends (`purchases`), all bytes have come (`line`), all keys or segments have come or the log is full (`host`).

Fairness. `Loop` of `Dixie` is weakly fair: `loop()` is called for ever by the Arduino core, and nothing in it
waits for anybody. A pending datagram is one of the ways the loop goes on, so the daemon is never required to
send, nor to stop sending. `Tick` is strongly fair: `millis()` advances while the loop runs, but in the model only
between two updates, so it is enabled again and again rather than all the time. No switch, datagram, button or reset is
assumed ever to come. In the module `Loop`, `DogSpec`, and with it `FirmwareSpec`, trusts time, the watchdog and `setup()`, which is not
watched, and nothing else: any other step may hang. `HeldForcesAgain` speaks of the behaviours in which none does for good, and says so itself. In `Daemon`, `Start` and `Timeout` are weakly fair for each customer: Qt's
zero timer and `m_timer` fire in a loop that runs. A line from the payment server without a number at
its start sets `m_timer` again; the server is assumed to send finitely many of those, otherwise the
purchase would not end. No answer is assumed to come.

Every property has a mutant in `PROJECT.json`: a plausible slip in the code that makes it fail in its
run.

## Where code and documentation disagree

* `AckedAbortHonoured` (run `abort`). HOME_ABORT is acknowledged and SERVICE asked for; if the
  timer that starts homing expires in the same update, `updatePrepareAutoHomeState` overwrites the
  request and the machine homes. The display has just promised that homing can still be aborted.
* `ErrorMeansAttempt` (run `stale_timers`). After DEPLOY_ERROR the machine announces another try. If
  no column can be chosen any more, `enterDeployState` asks for PREPARE_READY and returns with the timers
  not started; `updateDeployState` then finds the two timers of the earlier attempt expired and
  overwrites the request with DEPLOY_ERROR. The machine goes round between the two, BUSY, until a column
  is filled or the daemon or the button intervenes.
* `NeverEarly` (run `clock_early`). The motors have 13 seconds for a turn and 3 to leave the home switch. `timedOut` compares with a sum that
  wraps: a timer started less than its interval before the wrap of `millis()`, after 49 days, has timed out at once.
  `WrongOnlyAtWrap` says this is the only time it is wrong, and that a restart puts it right.

## Theorems

All for every `N`, `Id`, `Request` and `Interval` that satisfy `NAssumption` and
`DixieAssumption`, every `Customer` and `LastId` that satisfy `DaemonAssumption` (the 65535 of the code among them), every
`Word` and `Interval` of `ClockAssumption` (2^32 among them), every heap and set of frames, every set of customers, number of presses of Fetch and number of lost frames of `SaleAssumption`, every
number of failed transfers to the relays' expanders and everything a wrong register can hold, every `Word`, `Delay`, `Dog` and `Boot` of `LoopAssumption` (2^32, 50 ms and the watchdog's times among them), every set of bytes and number of failed
transfers of `BackpackAssumption`, every `LastColumn` of `BitsAssumption` (up to 14, as many as the word has room for, with any readings), every `Base` above 1 and every frames and damage of
`ChecksumAssumption` and `DamageAssumption`, all texts and lines of `DisplayAssumption`, all cards of `ReaderAssumption` (of any keys, with 12 or 16 digits) in any number, and all requests of `RequestAssumption`.
`RequestsDelivered` and `AnswersRead` are about any number of frames that are `Framed`: each begins with the signature and its own size and is 8 to 32, respectively 8 to 64 bytes long, as those are that the receiver takes;
the first has `FramingAssumption` too, that their checksums are valid and no two the same.

| Theorem | States |
|---|---|
| `SelectCorrect` | `Select` returns 0 iff there is nothing to select, else a member |
| `TypeCorrect` | `Spec => []TypeOK` |
| `MotorSafe` | `Spec => []MotorUnderControl` |
| `PlanInvariant` | `Spec => []SwitchPlan` |
| `StatesFollow` | `Spec => []SwitchFollows` |
| `WaitingIsSilence` | `Spec => []WaitingMeansSilence` |
| `HandlerUndoneByTimer` | `Spec => UndoneByTimerOnly` |
| `Refinement` | `Spec => ImplementsVender` |
| `FetchConfirmedOnce` | `Spec => ConfirmedOnce` |
| `StockTold` | `Spec => StockHonest` |
| `DaemonTypeCorrect` | `Spec => []DaemonTypeOK` |
| `TableSound` | `Spec => []OwnerWaits` |
| `AnswerMatched` | `Spec => []AnswerFindsAsker` |
| `WrongAtWrap` | `Spec => []WrongOnlyAtWrap` of `Clock` |
| `TimerIsCountdown` | `Spec => ImplementsCountdown` of `Clock` |
| `TextHonest` | `TextSpec => []TextErrsOneWay` of `InfoText` |
| `WordIsFields` | `BitsSpec => ImplementsNarco` of `NarcoBits` |
| `LoopTimed` | `LoopSpec => []LoopInv` of `Loop` |
| `ServiceWhenHeld` | `LoopSpec => ForcedWhenHeld` of `Loop` |
| `CountsRight` | `Spec => []CountsAreHandles` of `Buffers` |
| `HandlerReads` | `Spec => []HandlerSeesReceived` of `Buffers` |
| `DamageSeen` | `DamageSpec => []DamageIsNoticed` of `Damage` |
| `RequestsDelivered` | `Framing`: until something is harmed, all frames are handled as sent, none is refused |
| `AnswersRead` | `Chunks`: until something is harmed, `AnswersInOrder` |
| `RelaysInvariant` | `Spec => []RelaysInv` of `Relays` |
| `OneMotorAtMost` | `Spec => []OneMotor` |
| `PinsAreWired` | `Spec => []WiredAsListed` |
| `MotorStartsAsAsked` | `Spec => StartsAsAsked` |
| `CallWithoutFailureObeyed` | `Spec => CleanCallObeyed` |
| `BackpackInvariant` | `BackpackSpec => []BackpackInv` of `Backpack` |
| `DisplaySynchronised` | `BackpackSpec => []Synchronised` |
| `SlipsOneNibble` | `BackpackSpec => []OneSlip` |
| `TextShown` | `DisplaySpec => []ShowsText` of `Display` |
| `ReaderExact` | `ReaderSpec => []ReadAsSwiped` |
| `ReaderHonest` | `ReaderSpec => []NoStranger` |
| `RequestWhole` | `RequestSpec => []WholeOrNothing` |
| `SaleIsDixie` | `SaleSpec => Spec` of `Dixie` |
| `SaleInvariant` | `SaleSpec => []SaleInv` |
| `EachDrinkGranted` | `SaleSpec => DrinkGranted` |
| `PaidTried` | `SaleSpec => []PaidIsTried` |

The argument. `TypeOK` is inductive alone, given `SelectCorrect`; its delicate part is
`deployColumn <= N + 1`, which needs `PastLast` to be looked at before the column is counted up.
`MotorUnderControl` is inductive over it: the exit functions stop the motors of the two states that run
any (`ExitStops`), and what powers a motor starts its timers in the same step. `SwitchFollows` is not
inductive: that a switch to AUTO_HOME is asked for by its own timer only, that READY_WAIT
is asked for without a PONG, that between two updates nothing is pending but
a column-less DEPLOY, are facts of the past, and `SwitchPlan` states them. With `SwitchPlan`, every `Switch`
maps to a step of `Vender` and everything else to a stutter, `HomeNext`, `Boot` or `Reset`; and the action
properties follow step by step.

In `DaemonProofs` the inductive invariant is the conjunction of the three; `DaemonTypeOK` is proved only, and in no run of its own. `OwnerWaits` needs itself
only: a customer asks after its old reply is released (`ReleasedFacts`). `AnswerFindsAsker` needs
`OwnerWaits`, as a customer that goes on must leave no reply behind that an answer under way could find,
and it needs new ids to take the place of old ones (`RegisteredFacts`). Most steps connect no reply to a customer
and go through `QuietStep`; the two questions a customer asks go through `AskingStep`. With it a late answer
to a customer that timed out, or that made room for another, cannot be read as the answer to a later question,
whatever a stale pointer hits. An undamaged answer, that is: a damaged frame can be read as anything.

`WrongOnlyAtWrap` needs the relation of clock, start and age (`AgeInv`): until the clock has wrapped since the start they add up, afterwards start and age reach past the
word. For `ImplementsCountdown` the other direction is needed, that a timer no older than the lap was started where `startTime` says (`StartInv`).

`CountsAreHandles` is inductive with its types once it also says which variables can be in use at each `Position` (`BuffersInv`): a destructor finds a
handle where the code says it does, and there are at most eight handles, so that the byte cannot overflow. `HandlerSeesReceived` follows the frame from the reader's variable to the handler's
(`ReceivedInv`): at each position one variable `Carries` what was received last, and with the counts right its buffer is not free, so that no allocation can hand it out.

`ForcedWhenHeld` compares a difference of unsigned words with the time that has really passed. `Timed` says they are the same as long as the button counts as down and that
the difference stays below `Bound`: between two looks at the button that do not force anything there is at most the watchdog's time, and at power-up at most `Boot`. So what is compared
never comes round, for any word larger than that. It needs `held <= rested`, as a state forced starts both anew.

`TextErrsOneWay` is inductive with its types, as what was told last was told once. `WordIsFields` is about each step alone, on any word at all. That a write changes one
bit and no other rests on division: the weight of a higher bit is a multiple of twice that of a lower one (`Multiples`), so that adding or taking a weight moves the quotient at its own place by one and at every
other by an even number (`Adds`, `Takes`). A field is then written bit by bit (`FieldWrites`), which leaves the other fields alone because they do not overlap (`Places`); the four bits of the next column, read with one division
by 16, are the number `Narco` makes of them (`Halves`, `Current`), and the two loops return what `Select` does (`Finds`).

`DamageIsNoticed` takes three steps. Folding the carry takes a multiple of the largest word off the sum and leaves a word, which is 0 only of 0 (`CarriedIs`). So a frame is valid exactly if its sum
is such a multiple, and not 0 (`ValidIs`), and `Sealed` adds what its sum lacks, a byte in each column of the words (`SealedValid`). One damaged byte moves the sum by less than the largest word and by more than
nothing, whatever the byte's weight (`SumChanged`, `ByteNoticed`).

`RequestsDelivered` and `AnswersRead` place both readers in one `Stream`, the frames sent one after the other, whose bytes are split into those read, those that can be read and those to come (`At`). While nothing is
harmed a reader stands at the end of the frames it has read, or 3 bytes further with the size of the next one in `sizePending` (`Spot`, `Place`), so it sees a signature whenever it looks for one (`FrameAt`), and the branches of `NoFrame`
that skip bytes are never taken. A frame that a chunk has made complete ends at or before what can be read then (`CompleteIs`), so the call for its signal reads one. Only with the line at rest is anything said about all
frames: fewer than 8 bytes, or fewer than `sizePending`, are no frame, so none is left (`RestIsEnd`).

The invariant of `Relays` is about a call under way: as long as none of its transfers has failed, every bit it has written is as it was `Last` written (`Obeyed`), and what was
read of a port is the port or all ones (`GotOK`). From `Obeyed` at the end of `begin()` and of `powerOn` follow the connection table and the relays `Narco` promises, from whatever registers the call
started with. `OneLatch` holds between any two transfers because `powerOn` clears all nine latches, those of both ports, before it sets its own; `MotorsOnly` needs a `begin()` that made all
pins inputs (`Filled`) and made outputs of nothing but motors; after it no call writes a direction, whatever fails.

`BackpackInv` has two parts. Before `begin()` has sent its last synchronising nibble nothing is known of the display: `SyncInv` says how little is known after each of the four, from `half` and `width` that
can be anything: after the first 3 it waits for a byte, is in 8-bit mode or holds a 3, after the second it is in 8-bit mode or holds a 3, after the third in 8-bit mode. That the nibbles get through needs the pins
to be outputs by then, one after the other (`OutputAt`). From then on `SlipInv` bounds the slip by the failures, counting a nibble
that has been sent and not yet taken (`Due`) and a pulse that will come without one (`Pending`: E was latched high by a read that failed). `ByteInv` ties the parity of the slip to `half`, which is
what `strayed` breaks, and says of a call without failure that its register select line, its first nibble and then its byte are where they belong.

`ShowsText` says nothing while bytes are under way; `DisplayInv` does, byte by byte. Resetting, the display that is in step has done what the first n bytes asked for (`InReset`): the address counter is behind the last row of dots
made and all glyphs below it are made. Updating, the rows before the present one are shown, and of the present one what has been sent (`InRow`); that a row's characters do not land in another's needs that the rows' addresses
differ (`RowsApart`). `dirty` tells a rest after `update()` from any other, and after a slip nothing is claimed until the next `begin()`, for `Slip` leaves anything in `ddram`, `cgram` and the counter.

The reader's invariant relates its data to one stroke, the `Cursor`: the first that waits, or the next one the reader will make. While no key has been missed the data are the digits of that card before that stroke, and the
signals are the cards before it (`ExactAt`, `Fits`). One missed key makes the data a digit less than that, or, if it was Enter, a whole number more (`NearAt`); so what is signalled at the next Enter is 11, 15, 24, 28 or 32 digits
long, which names nobody, and the data are right again from there. The thread's end signals what there is of a card: `Count` leaves that one out.

Until a request is answered it is `Cut`: what has come is its beginning and what is coming is the rest. So a search finds a part where the request has it or not at all (`PartsFound`), and what is read of a button's name is
a beginning of it, never another's (`ValueIs`, `NamesDiffer`).

`DrinkGranted` is about the past of a turning column. Its invariant `SaleInv` follows the grant: one by the server is in its line until the customer reads it (`Promised`), and a FETCH on the line is that of a
customer who is done, or of a press of Fetch, was granted a drink, has none yet and not the machine's attention, and is the only FETCH for that grant (`FetchesDue`); so whom an accepted FETCH makes `serving` is a
good one, and stays so as long as the machine is `Working`, that is on its way to a full turn. Whatever else the page sends is no FETCH (`PageFrames`). `WorkGoesOn` and `HeardWork` say that it starts to work by an accepted FETCH only, which needs `SwitchPlan`: `SaleIsDixie`
carries the theorems about the firmware over to the whole.

`PaidIsTried` is about order on the line. Unless something has upset the sale, one purchase is in progress (`OneByOne`), and a customer `Waits` from the READY that answers its PING to the end of its FETCH.
While one waits the machine stays READY (`Stands`), for whatever could make it leave (`Turbulent`) was asked for by someone earlier, or by the page when nobody was under way, and lay before that PING on the line (`PingLast`, `Known`),
so it has been handled before the READY was sent; after that only the customer's own FETCH can be there (`Alone`). So the FETCH finds the machine READY, and is accepted unless the machine has lost its last
drink, which the customer is told.

What a recursive function computes for every input (a shift, a sum, the digits of a card) is proved in two steps. That a function with these values exists is an induction over its domain; so the definition, a
`CHOOSE`, has them. What follows from them is again by induction. The induction is over a set, that of the numbers for which the fact fails, and takes its least member (`Least`, `Induction`), as the library's theorems with an operator for a
parameter cannot be used.

Only model-checked: the liveness properties (`EveryMotorStops`, `TransientStatesEnd`, `LoopNeverHangs`, `HeldForcesAgain`, `CustomersEnd`), which are out of
the prover's reach; `HandledAsSent`, `Recovers` and `AnswersInOrder` once a byte has been harmed, which are then true of the frames and the faults of their runs and not of every constant: after a fault a receiver takes for a frame
what looks like one, and whether it does depends on the bytes; and `LogAsWritten`, which speaks of sorted and flattened sequences of the library.

## Not modelled, and why

* Qt Service (`qtservice/`): `alkod/main.cpp` enters its own event loop and never executes a service, so nothing of the library runs.
* `alkod/main.cpp` and `AlkoService`: devices are opened once at start, before anything else happens. A device that does not open ends the program.
* In `Sale`: SET_CONFIG, which nobody sends; `Daemon`'s ids, their return and damaged frames; and whether the server's account is right, of which the daemon sees one line. Who presses the page's buttons is not asked.
* The administration page's access control, and `htmlParser`, which puts values into page templates: layout. The branch for style sheets in `readyRead` is never taken, as `resources.qrc` names none.
* The colours of the backlight (`setColor`, `setRedCycle`, `setColorCycle`): output that no state depends on. The texts of the states, and the missing `update()` after READY's `setText(0, ...)`.
* Code without a caller: `Narco::homeAllMotors`, `Datagram::operator=`, `Datagram::setDataSize`, `readFromDevice` and the close functions of the daemon, and the SPI, 8-bit,
  shift, cursor and scroll calls of the display driver.
* Uninitialised memory other than the customers' pointers, and malloc that fails.

## Plan

What is left: for `Framing` and `Chunks` a condition on the frames that rules out those which look like others, under which the three properties about them could be proved with faults too; the texts of the states in `Dixie`, with `Display`
under it.
