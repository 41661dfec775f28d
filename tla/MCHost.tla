------------------------------- MODULE MCHost --------------------------------
(***************************************************************************)
(* The daemon's other ends: the card reader (Reader), the view of its log  *)
(* (LogView) and a request to its administration page (Request). They      *)
(* share nothing. Each runs by itself, the others at rest, so that their   *)
(* states add up and do not multiply; "part" says which one.               *)
(***************************************************************************)
EXTENDS Reader, Request

CONSTANTS BufferSize, MaxLines          \* as in LogView

VARIABLES part,
          log, shown

logOnly == <<log, shown>>
hostVars == <<part, readerVars, logOnly, requestVars>>

\* An RFID card of sixteen digits, and a magnetic one of twelve after its ';'.
SomeCards == {<<2, 11, 3, 4, 5, 6, 7, 8, 9, 10, 11, 2, 11, 3, 5, 8>>,
              <<39, 10, 9, 11, 8, 7, 6, 5, 4, 3, 11, 2, 3>>}

NoData == -1
Line(from, code, d) == [from |-> from, code |-> code, data |-> d, length |-> 1 + (code % 4)]

\* Lines of lengths 1 to 4: the frames of both sides and the notes between them.
Lines == {Line("SEND", code, NoData) : code \in {0, 1, 7, 11, 12, 15, 64, 79}}
    \cup {Line("SEND", 8, PREPARE_READY), Line("SEND", 8, SERVICE)}
    \cup {Line("RECV", code, NoData) : code \in {0, 2, 3, 4, 9, 13, 14, 254, 255}}
    \cup {Line("RECV", 7, s) : s \in {READY, READY_WAIT, AUTO_HOME}}
    \cup {Line("text", 2, NoData)}

V == INSTANCE LogView

\* Every button, every page, and requests that are not understood.
Buttons == {"Start", "Stop", "Check", "State", "Fetch", "AutoHome", "CancelAutoHome", "none"}
Pages == {"", "favicon.ico", "index.html", "admin.html", "status.html", "check_status.html", "log.html", "rawlog.html",
          "logout.html", "process.html", "400.html", "404.html", "footer.html.inc", "nav.html.inc", "header1.html.inc",
          "header2.html.inc"}
SomeRequests == [method : {"POST"}, resource : {"admin.html"}, action : Buttons]
           \cup [method : {"GET"}, resource : Pages, action : {"none"}]
           \cup [method : {"other"}, resource : {"index.html"}, action : {"none"}]

ASSUME V!LogAssumption

HostInit == /\ part \in {"reader", "log", "request"}
            /\ ReaderInit /\ V!Init /\ RequestInit
            /\ part # "request" => request = [method |-> "GET", resource |-> "", action |-> "none"]

HostNext == \/ part = "reader" /\ ReaderNext /\ UNCHANGED <<part, logOnly, requestVars>>
            \/ part = "log" /\ V!Next /\ UNCHANGED <<part, readerVars, requestVars>>
            \/ part = "request" /\ RequestNext /\ UNCHANGED <<part, readerVars, logOnly>>

HostSpec == HostInit /\ [][HostNext]_hostVars
-----------------------------------------------------------------------------
(* The properties of the reader are Reader's own, those of a request       *)
(* Request's.                                                              *)

\* The page shows the end of the log and passes over the heartbeats only (httphandler.cpp:281-392).
LogAsWritten == V!LogAsWritten
=============================================================================
