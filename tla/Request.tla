------------------------------- MODULE Request -------------------------------
(***************************************************************************)
(* A request to the administration page, as HttpHandler::readyRead         *)
(* (src/alkod/httphandler.cpp) meets it: it comes in parts, and the first  *)
(* call that finds the request line answers what there is by then and      *)
(* closes the connection. Who may ask is not modelled.                     *)
(***************************************************************************)
EXTENDS Alko, SequencesExt

CONSTANTS Requests              \* records of method, resource and action

\* The buttons of the administration page; what one is called, cut where another's name goes on
\* differently.
Name == [Start |-> <<"St", "a", "rt">>, Stop |-> <<"St", "op">>, Check |-> <<"Ch", "eck">>, State |-> <<"St", "a", "te">>,
         Fetch |-> <<"Fe", "tch">>, AutoHome |-> <<"Au", "toHome">>, CancelAutoHome |-> <<"Cancel", "AutoHome">>]

ASSUME RequestAssumption == \A r \in Requests : /\ r.method \in {"GET", "POST", "other"}
                                                /\ r.action \in DOMAIN Name \cup {"none"}

VARIABLES request,              \* what was asked
          coming,               \* the parts that have not come
          buffer,               \* those that have come and were not read
          signalled,            \* readyRead is to be called
          open,                 \* the connection is
          sent,                 \* what the machine was asked
          answer                \* the page that was given

requestVars == <<request, coming, buffer, signalled, open, sent, answer>>

\* The request line in two parts, the headers in two, of which the first has those that are
\* looked at, and a body of "AlkoAction=" and the name of a button.
PartsOf(r) == <<"begin", "line", "headers", "others">>
                \o (IF r.action = "none" THEN <<>> ELSE <<"AlkoAction=">> \o Name[r.action])

RequestInit == /\ request \in Requests
               /\ coming = PartsOf(request)
               /\ buffer = <<>> /\ signalled = FALSE /\ open = TRUE
               /\ sent = <<>> /\ answer = "none"

Arrive == /\ open /\ coming # <<>>
          /\ buffer' = Append(buffer, Head(coming))
          /\ coming' = Tail(coming)
          /\ signalled' = TRUE
          /\ UNCHANGED <<request, open, sent, answer>>
-----------------------------------------------------------------------------
(* readyRead.                                                              *)

\* The pages there are, and the parts they include, which can be asked for as well
\* (resources.qrc). None of them is a style sheet.
Files == {"index.html", "admin.html", "status.html", "check_status.html", "log.html", "rawlog.html", "logout.html",
          "process.html", "400.html", "404.html", "footer.html.inc", "nav.html.inc", "header1.html.inc", "header2.html.inc"}

Resource(r) == IF r.resource = "" THEN "index.html" ELSE r.resource

\* The value of AlkoAction as far as it has come.
Value == LET k == SelectInSeq(buffer, LAMBDA part : part = "AlkoAction=")
         IN  IF k = 0 THEN <<>> ELSE SubSeq(buffer, k + 1, Len(buffer))

\* Mutant: the start of a name is enough.
AskedByStart(value, a) == IsPrefix(value, Name[a])

Asked(value, a) == value = Name[a]

Commands == [Start |-> <<Datagram("SET_STATE", 0, PREPARE_READY)>>, Stop |-> <<Datagram("SET_STATE", 0, SERVICE)>>,
             Check |-> <<Datagram("CHECK_AVAIL", 0, 0)>>, State |-> <<Datagram("GET_STATE", 0, 0)>>,
             Fetch |-> <<Datagram("FETCH", 0, 0)>>, AutoHome |-> <<Datagram("HOME_BEGIN", 0, 0)>>,
             CancelAutoHome |-> <<Datagram("HOME_ABORT", 0, 0)>>]

Give(page, commands) == answer' = page /\ sent' = commands

\* A value that is none of the buttons' asks nothing of the machine, and the page says that it does.
Post == \/ Value = <<>> /\ Give(Resource(request), <<>>)
        \/ Value # <<>> /\ \E a \in DOMAIN Name : Asked(Value, a) /\ Give("process.html", Commands[a])
        \/ Value # <<>> /\ (\A a \in DOMAIN Name : ~Asked(Value, a)) /\ Give("process.html", <<>>)

Get == \/ Resource(request) = "check_status.html"
            /\ Give("check_status.html", <<Datagram("GET_CONFIG", 0, 0), Datagram("GET_STATE", 0, 0)>>)
       \/ Resource(request) # "check_status.html" /\ Give(Resource(request), <<>>)

Error400 == Give("400.html", <<>>)

Error404 == Give("404.html", <<>>)

Respond == \/ request.method = "other" /\ Give("none", <<>>)
           \/ /\ request.method # "other" /\ ~Contains(buffer, "headers") /\ Error400
           \/ /\ request.method # "other" /\ Contains(buffer, "headers") /\ Resource(request) \notin Files /\ Error404
           \/ /\ request.method # "other" /\ Contains(buffer, "headers") /\ Resource(request) \in Files
              /\ IF request.method = "POST" THEN Post ELSE Get

\* Without a whole request line nothing is read. Otherwise the connection is closed in any case.
ReadyRead == /\ signalled /\ open
             /\ signalled' = FALSE
             /\ \/ ~Contains(buffer, "line") /\ UNCHANGED <<buffer, open, sent, answer>>
                \/ Contains(buffer, "line") /\ Respond /\ buffer' = <<>> /\ open' = FALSE
             /\ UNCHANGED <<request, coming>>

RequestNext == Arrive \/ ReadyRead

RequestSpec == RequestInit /\ [][RequestNext]_requestVars
-----------------------------------------------------------------------------
Wanted == IF request.method = "POST" /\ request.action # "none" THEN Commands[request.action]
          ELSE IF request.method = "GET" /\ request.resource = "check_status.html"
               THEN <<Datagram("GET_CONFIG", 0, 0), Datagram("GET_STATE", 0, 0)>>
          ELSE <<>>

\* Wherever a request is cut, the machine is asked what was wanted or nothing: the start of a
\* button's name is never taken for another button's. A request that had come as a whole when
\* it was answered is done as a whole, and the page is the one asked for; one that had not
\* may have been answered without its body (httphandler.cpp:41-58, 137-219).
WholeOrNothing ==
  /\ sent \in {<<>>, Wanted}
  /\ ~open /\ coming = <<>> /\ request.resource \in Files \cup {""} /\ request.method # "other"
       => /\ sent = Wanted
          /\ answer = IF request.method = "POST" /\ request.action # "none" THEN "process.html"
                      ELSE IF request.resource = "" THEN "index.html" ELSE request.resource
=============================================================================
