------------------------------- MODULE LogView -------------------------------
(***************************************************************************)
(* The log of the daemon and the administration page's view of its end     *)
(* (src/alkod/httphandler.cpp): the last bytes of the file, walked         *)
(* backwards from newline to newline, each line shown as the frame it      *)
(* tells of.                                                               *)
(***************************************************************************)
EXTENDS Alko, FiniteSetsExt, SequencesExt

CONSTANTS Lines,                \* what can be logged: records of from, code, data and length
          BufferSize,           \* bytes of the log that are looked at, 2048
          MaxLines              \* lines logged at most

LogAssumption == /\ \A line \in Lines : /\ line.length \in Nat \ {0}
                                        /\ line.from \in {"SEND", "RECV", "text"}
                 /\ {BufferSize, MaxLines} \subseteq Nat

VARIABLES log,                  \* the lines logged
          shown                 \* the entries of the page as it was last asked for

logVars == <<log, shown>>

Init == log = <<>> /\ shown = <<>>

Log(line) == /\ Len(log) < MaxLines
             /\ log' = Append(log, line)
             /\ UNCHANGED shown
-----------------------------------------------------------------------------
(* generatePrettyHtmlLogObject: the entry of a line, NoEntry if it is passed over.         *)

NoEntry == [command |-> "none"]

NoData == -1                    \* a frame without data

\* The number read where a frame has its command. Elsewhere in a line there is no number, and
\* toInt gives 0.
CommandOf(line) == IF line.from = "text" THEN 0 ELSE line.code

CommandNames == [c \in 0 .. 255 |->
  CASE c = 0 -> "PING" [] c = 1 -> "PONG" [] c = 2 -> "BUSY" [] c = 3 -> "READY" [] c = 4 -> "SERVICE"
    [] c = 5 -> "GET_CONFIG" [] c = 6 -> "SET_CONFIG" [] c = 7 -> "GET_STATE" [] c = 8 -> "SET_STATE"
    [] c = 9 -> "HOMING" [] c = 10 -> "HOME_ABORT" [] c = 11 -> "HOME_BEGIN" [] c = 12 -> "CHECK_AVAIL"
    [] c = 13 -> "DRINK_AVAIL" [] c = 14 -> "EMPTY" [] c = 15 -> "FETCH" [] c = 64 -> "SET_TEXT_0"
    [] c = 65 -> "SET_TEXT_1" [] c = 66 -> "SET_TEXT_2" [] c = 67 -> "SET_TEXT_3"
    [] c = 254 -> "UNKNOWN_CMD" [] c = 255 -> "CHKSUM_INVALID" [] OTHER -> "Other command"]

StateNames == [s \in {SERVICE, PREPARE_READY, READY, DEPLOY, DEPLOY_ERROR, PREPARE_AUTO_HOME, AUTO_HOME, INFO} |->
  CASE s = SERVICE -> "SERVICE" [] s = PREPARE_READY -> "PREPARE_READY" [] s = READY -> "READY" [] s = DEPLOY -> "DEPLOY"
    [] s = DEPLOY_ERROR -> "DEPLOY_ERROR" [] s = PREPARE_AUTO_HOME -> "PREPARE_AUTO_HOME"
    [] s = AUTO_HOME -> "AUTO_HOME" [] s = INFO -> "INFO"]

\* What is told of the state in a frame: the digits as they are where it has no name.
Told(line) == CASE line.from = "text" \/ line.data = NoData -> "none"
                [] line.code = 7 /\ line.data \in DOMAIN StateNames -> StateNames[line.data]
                [] line.code = 8 /\ line.data = SERVICE -> "SERVICE"
                [] line.code = 8 /\ line.data \in {READY, PREPARE_READY} -> "PREPARE_READY"
                [] line.code \in {7, 8} -> "digits"
                [] OTHER -> "none"

\* A PING of the machine, and every PONG.
PassedOver(line) == (CommandOf(line) = 0 /\ line.from = "RECV") \/ CommandOf(line) = 1

Entry(line) == IF PassedOver(line) THEN NoEntry
               ELSE [command |-> CommandNames[CommandOf(line)], by |-> IF line.from = "SEND" THEN "primary" ELSE "success",
                     data |-> Told(line)]
-----------------------------------------------------------------------------
(* generatePrettyHtmlLog. A byte of the file is the number of the line it is in, and  *)
(* Newline at the end of each.                                                        *)

Newline == 0

File == FlattenSeq([n \in DOMAIN log |-> [k \in 1 .. log[n].length + 1 |-> IF k <= log[n].length THEN n ELSE Newline]])

Buffer == IF Len(File) > BufferSize THEN SubSeq(File, Len(File) - BufferSize + 1, Len(File)) ELSE File

\* The first search starts before the last byte, and one that finds the first byte is the last.
Found(buffer) == {p \in 2 .. Len(buffer) - 1 : buffer[p] = Newline}

\* The lines met, newest first: those after a newline.
Walked(buffer) == [k \in 1 .. Cardinality(Found(buffer)) |->
                     buffer[SetToSortSeq(Found(buffer), LAMBDA p, q : p > q)[k] + 1]]

\* Mutant: also when there is more of the file before the buffer.
FirstAlways(buffer) == <<buffer[1]>>

\* The line at the start, of a file that is shorter than the buffer.
First(buffer) == IF Len(buffer) < BufferSize THEN <<buffer[1]>> ELSE <<>>

\* The lines shown, by number.
LinesShown == IF File = <<>> THEN <<>> ELSE Walked(Buffer) \o First(Buffer)

\* Of a log without a line an empty one is shown, which reads as a PING.
View == /\ shown' = IF File = <<>> THEN <<[command |-> "PING", by |-> "success", data |-> "none"]>>
                    ELSE SelectSeq([k \in DOMAIN LinesShown |-> Entry(log[LinesShown[k]])], LAMBDA e : e # NoEntry)
        /\ UNCHANGED log

Next == View \/ \E line \in Lines : Log(line)

Spec == Init /\ [][Next]_logVars
-----------------------------------------------------------------------------
\* Bytes of the file from the start of line n on.
From(n) == FoldSet(LAMBDA k, sum : sum + log[k].length + 1, 0, n .. Len(log))

\* The lines are walked from the newest back, each once and none in part, as far back as the
\* buffer reaches but for a line that starts with its first or second byte
\* (httphandler.cpp:281-305: seek positions, and two ways to the first line).
NewestFirst == /\ LinesShown = Reverse([k \in 1 .. Len(LinesShown) |-> Len(log) - Len(LinesShown) + k])
               /\ \A n \in DOMAIN log : From(n) <= BufferSize - 2 => Contains(LinesShown, n)
               /\ \A k \in DOMAIN LinesShown : From(LinesShown[k]) < BufferSize

Heartbeat(line) == \/ line.from = "RECV" /\ line.code = 0
                   \/ line.from = "SEND" /\ line.code = 1

\* A page tells of what was said, in its order: however many heartbeats lie between, no
\* question of the daemon, answer of the machine or change of its state is passed over
\* while it is among the lines walked (httphandler.cpp:316-324, 340-392).
LogAsWritten ==
  [][View =>
       /\ NewestFirst
       /\ LinesShown # <<>> =>
            Len(shown') = Cardinality({k \in DOMAIN LinesShown : ~Heartbeat(log[LinesShown[k]])})
       /\ \A k \in DOMAIN LinesShown :
            log[LinesShown[k]].from # "text" /\ log[LinesShown[k]].code \in 2 .. 15 =>
              \E e \in ToSet(shown') : e.command = CommandNames[log[LinesShown[k]].code]]_logVars
=============================================================================
