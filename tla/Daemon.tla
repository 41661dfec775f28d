------------------------------- MODULE Daemon -------------------------------
(***************************************************************************)
(* The daemon's side of the serial line (src/alkod): the request table of  *)
(* AlkoManager and the purchases (Customer) that wait on its replies, in   *)
(* one Qt event loop. Objects handed to deleteLater are gone before the    *)
(* loop looks for its next input.                                          *)
(*                                                                         *)
(* The table keeps the pointer of every reply for ever, and customers keep *)
(* theirs after deleteLater: both are used after the object is gone. What  *)
(* such a use does is one of three things: nothing, the end of the         *)
(* process, or the same to an object that now lies at that address.        *)
(***************************************************************************)
EXTENDS Integers, Sequences

CONSTANTS Customer,             \* places for Customer objects, used again and again
          LastId,               \* the largest request id, 65535
          Nobody,               \* a reply that nothing is connected to
          Deleted,              \* a reply that has been deleted
          Absent                \* no reply

ASSUME DaemonAssumption == /\ LastId \in 3 .. 2^16 - 1
                           /\ Nobody \notin Customer
                           /\ Deleted \notin Customer
                           /\ Absent \notin Customer
                           /\ Nobody # Deleted /\ Nobody # Absent /\ Deleted # Absent

VARIABLES running,              \* the process has not crashed
          lastId,               \* m_id
          requests,             \* id -> whose handleCustomer its reply is connected to
          outstanding,          \* requests the machine may still answer
          state                 \* m_state of each customer, "none" where there is no object

vars == <<running, lastId, requests, outstanding, state>>

ReqId == 2 .. LastId            \* 0 and 1 are reserved

\* The commands the machine answers. "OTHER" are those whose answers nobody reads: SHOW_INFO,
\* SET_STATE, GET_STATE, GET_CONFIG, HOME_BEGIN, HOME_ABORT.
Question == {"PING", "CHECK_AVAIL", "FETCH", "OTHER"}

Answer == {"READY", "SERVICE", "DRINK_AVAIL", "OTHER"}

\* Mutant: m_timer is not started for the customer server.
Untimed == {"StateCheckDone", "SupplyCheckDone"}

\* States with m_timer started.
Timed == {"StateCheckDone", "SupplyCheckDone", "PaymentCheckDone"}

DaemonTypeOK ==
  /\ running \in BOOLEAN
  /\ lastId \in ReqId \cup {0}
  /\ requests \in [ReqId -> Customer \cup {Nobody, Deleted, Absent}]
  /\ outstanding \subseteq [id : ReqId, cmd : Question, by : Customer \cup {Nobody}]
  /\ state \in [Customer -> {"StateCheckDone", "SupplyCheckDone", "PaymentCheckDone",
                          "none", "NewCustomer"}]

Init == /\ running = TRUE
        /\ lastId = 0
        /\ requests = [i \in ReqId |-> Absent]
        /\ outstanding = {}
        /\ state = [c \in Customer |-> "none"]
-----------------------------------------------------------------------------
\* The id getID returns in the n-th call from now, m being the last one.
IdAfter(m, n) == 2 + (((IF m < 2 THEN 1 ELSE m) - 2 + n) % (LastId - 1))

NewIds(n) == {IdAfter(lastId, k) : k \in 1 .. n}

\* Mutant: an id that is in the table already is left as it is.
RegisteredOnce(n, by, table) ==
  [i \in ReqId |-> IF i \in NewIds(n) /\ table[i] = Absent THEN by ELSE table[i]]

\* requests.insert, which replaces what the id stood for before.
Registered(n, by, table) ==
  [i \in ReqId |-> IF i \in NewIds(n) THEN by ELSE table[i]]

(***************************************************************************)
(* get() once for each of cmds. A frame is assumed not to be so late that  *)
(* its id has come round again: the line holds far fewer than 65534.       *)
(***************************************************************************)
Sent(cmds, by, asked) ==
  /\ lastId' = IdAfter(lastId, Len(cmds))
  /\ outstanding' = {f \in asked : f.id \notin NewIds(Len(cmds))}
       \cup {[id |-> IdAfter(lastId, k), cmd |-> cmds[k], by |-> by] :
               k \in {k \in 1 .. Len(cmds) : cmds[k] \in Question}}

Get(cmds, by, table, asked) ==
  /\ Sent(cmds, by, asked)
  /\ requests' = Registered(Len(cmds), by, table)

\* Mutant: the reply is kept.
ReleasedNever(c) == requests

\* m_reply->deleteLater() on a customer's live reply.
Released(c) == [i \in ReqId |-> IF requests[i] = c THEN Deleted ELSE requests[i]]

\* The destructor's m_reply->deleteLater() when the reply is long gone: nothing, or
\* the end of a reply that has come to lie at its address.
StaleDelete(table) ==
  {table} \cup {[i \in ReqId |-> IF i = j THEN Deleted ELSE table[i]] :
                  j \in {j \in ReqId : table[j] # Absent}}

Become(c, s) == state' = [d \in Customer |-> IF d = c THEN s ELSE state[d]]

\* An undefined access may end the process: a stale m_reply, a reply that the
\* table still names, an m_socket that was never set.
Crash == running' = FALSE /\ UNCHANGED <<lastId, requests, outstanding, state>>
-----------------------------------------------------------------------------
\* handleCustomer when the answer to PING has come, to CHECK_AVAIL next.
StateChecked(c, answer, asked) ==
  /\ state[c] = "StateCheckDone"
  /\ \/ /\ answer = "READY"
        /\ Get(<<"CHECK_AVAIL">>, c, Released(c), asked)
        /\ Become(c, "SupplyCheckDone")
        /\ UNCHANGED running
     \/ /\ answer = "SERVICE"
        /\ requests' = Released(c)
        /\ Become(c, "none")
        /\ outstanding' = asked
        /\ UNCHANGED <<running, lastId>>
     \/ /\ answer \notin {"READY", "SERVICE"}
        /\ Sent(<<"SET_TEXT", "LCD_UPDATE">>, Nobody, asked)
        /\ requests' = Registered(2, Nobody, Released(c))
        /\ Become(c, "none")
        /\ UNCHANGED running
     \/ answer # "READY" /\ Crash

SupplyChecked(c, answer, asked) ==
  /\ state[c] = "SupplyCheckDone"
  /\ \/ /\ answer = "DRINK_AVAIL"       \* the payment server is asked
        /\ requests' = Released(c)
        /\ Become(c, "PaymentCheckDone")
        /\ outstanding' = asked
        /\ UNCHANGED <<running, lastId>>
     \/ /\ answer # "DRINK_AVAIL"
        /\ requests' = Released(c)
        /\ Become(c, "none")
        /\ outstanding' = asked
        /\ UNCHANGED <<running, lastId>>
     \/ answer # "DRINK_AVAIL" /\ Crash

Handle(c, answer, asked) == StateChecked(c, answer, asked) \/ SupplyChecked(c, answer, asked)

\* The end of slotReadyRead: the reply with this id gets the answer. That of a
\* deleted reply may reach another one.
Deliver(i, answer, asked) ==
  \/ \E c \in Customer : requests[i] \in {c, Deleted} /\ Handle(c, answer, asked)
  \/ requests[i] \notin Customer /\ outstanding' = asked
       /\ UNCHANGED <<running, lastId, requests, state>>
  \/ requests[i] = Deleted /\ Crash

Answers(cmd) == CASE cmd = "PING"        -> {"READY", "SERVICE", "OTHER"}
                  [] cmd = "CHECK_AVAIL" -> {"DRINK_AVAIL", "OTHER"}
                  [] OTHER               -> {"OTHER"}

\* slotReadyRead, for an answer.
Answered(f) ==
  /\ running /\ f \in outstanding
  /\ \E answer \in Answers(f.cmd) : Deliver(f.id, answer, outstanding \ {f})

\* slotReadyRead, for a frame damaged on the way or one with an id the machine has
\* kept (m_deployId): a wrong checksum is logged and the frame handled like any other.
Damaged(i, answer) == running /\ Deliver(i, answer, outstanding)

\* slotReadyRead, for the machine's own PING.
Pinged == running /\ Get(<<"PONG">>, Nobody, requests, outstanding) /\ UNCHANGED <<running, state>>

\* autoStart, and the buttons and the status view of the administration page.
Page == {<<"PING">>, <<"CHECK_AVAIL">>, <<"FETCH">>, <<"OTHER">>, <<"OTHER", "OTHER">>}

Ask(cmds) == running /\ Get(cmds, Nobody, requests, outstanding) /\ UNCHANGED <<running, state>>

\* newCustomer: a card was read.
NewCustomer(c) == /\ running /\ state[c] = "none"
                  /\ Become(c, "NewCustomer")
                  /\ UNCHANGED <<running, lastId, requests, outstanding>>

\* handleCustomer, called by the constructor's zero timer.
Start(c) == /\ running /\ state[c] = "NewCustomer"
            /\ Get(<<"PING">>, c, requests, outstanding)
            /\ Become(c, "StateCheckDone")
            /\ UNCHANGED running

\* What the customer server's answer, 1, 2, 3 or 6, makes the daemon ask for.
Payment == {<<"CLR_TEXT", "SET_TEXT", "SET_TEXT", "FETCH">>,                              \* 1
            <<"CLR_TEXT", "SET_TEXT", "SET_TEXT", "SET_TEXT", "OTHER", "LCD_RED_CYCLE">>, \* 2
            <<"CLR_TEXT", "SET_TEXT", "OTHER", "LCD_RED_CYCLE">>,                     \* 3
            <<"CLR_TEXT", "SET_TEXT", "SET_TEXT", "SET_TEXT", "FETCH">>}                  \* 6

\* handleCustomer when a line has come from the server. A line without a number
\* at its start only starts m_timer again.
Paid(c) == /\ running /\ state[c] = "PaymentCheckDone"
           /\ \/ /\ \E cmds \in Payment :
                      /\ Sent(cmds, Nobody, outstanding)
                      /\ requests' \in StaleDelete(Registered(Len(cmds), Nobody, requests))
                 /\ Become(c, "none")
                 /\ UNCHANGED running
              \/ /\ requests' \in StaleDelete(requests)      \* any other number
                 /\ Become(c, "none")
                 /\ UNCHANGED <<running, lastId, outstanding>>
              \/ Crash

\* timeout: the customer goes, and its reply with it if that is still there.
Timeout(c) == /\ running /\ state[c] \in Timed
              /\ \/ /\ requests' \in IF \E i \in ReqId : requests[i] = c
                                     THEN {Released(c)} ELSE StaleDelete(requests)
                    /\ Become(c, "none")
                    /\ UNCHANGED <<running, lastId, outstanding>>
                 \/ Crash

Next == \/ \E c \in Customer : NewCustomer(c) \/ Start(c) \/ Paid(c) \/ Timeout(c)
        \/ \E f \in outstanding : Answered(f)
        \/ \E i \in ReqId, answer \in Answer : Damaged(i, answer)
        \/ Pinged
        \/ \E cmds \in Page : Ask(cmds)

Spec == Init /\ [][Next]_vars

\* Timers fire.
FairSpec == Spec /\ \A c \in Customer : WF_vars(Start(c)) /\ WF_vars(Timeout(c))
-----------------------------------------------------------------------------
\* A reply in the table that is connected to a customer is that of the question
\* the customer waits on now: none is left behind by a purchase that went on,
\* ended or timed out, whose object would be called after its end.
OwnerWaits ==
  \A i \in ReqId, c \in Customer :
    requests[i] = c => /\ state[c] \in {"StateCheckDone", "SupplyCheckDone"}
                       /\ \A j \in ReqId : requests[j] = c => j = i

\* An answer under way either finds no customer any more, or the one that asked,
\* still in the state in which it asked: late answers to a customer that has gone on,
\* timed out or made room for another never reach a live reply of its own.
AnswerFindsAsker ==
  \A f \in outstanding :
    requests[f.id] \in Customer =>
      /\ f.by = requests[f.id]
      /\ f.cmd = IF state[f.by] = "StateCheckDone" THEN "PING" ELSE "CHECK_AVAIL"

\* Every purchase ends: by its answers or by m_timer, unless the process does.
CustomersEnd ==
  \A c \in Customer : state[c] # "none" ~> state[c] = "none" \/ ~running
=============================================================================
