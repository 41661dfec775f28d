------------------------------ MODULE MCDixie -------------------------------
(***************************************************************************)
(* Instances of Dixie for TLC. Two columns let the next-column field reach *)
(* 3, past the last one. Intervals keep the order of config.h where two    *)
(* timers run at once: START before RUN, NARCO before PING.                *)
(***************************************************************************)
EXTENDS Dixie

ShortInterval ==
  [t \in Timer |-> IF t \in {"ping", "motorRun"} THEN 2 ELSE 1]

UnitInterval == [t \in Timer |-> 1]

\* Every datagram the handler tells apart.
AnyRequest == [cmd : Command \ {"SET_STATE"}, id : Id, data : {<<>>}]
                \cup [cmd : {"SET_STATE"}, id : Id, data : {<<>>} \cup {<<s>> : s \in State}]

\* Those that move the machine between its states or touch the columns.
ColumnRequest == [cmd : {"HOME_BEGIN", "HOME_ABORT", "CHECK_AVAIL", "FETCH"},
                  id : Id, data : {<<>>}]
                   \cup [cmd : {"SET_STATE"}, id : Id, data : {<<SERVICE>>, <<READY>>}]

\* Those that move it between its states.
MoveRequest == [cmd : {"HOME_BEGIN", "HOME_ABORT", "FETCH", "SHOW_INFO"}, id : Id, data : {<<>>}]
                 \cup [cmd : {"SET_STATE"}, id : Id, data : {<<SERVICE>>, <<READY>>}]
=============================================================================
