-------------------------------- MODULE Alko --------------------------------
(***************************************************************************)
(* What the vending machine and the daemon share: the state codes of       *)
(* src/common/alkostates.h and the datagrams they exchange, whose command  *)
(* codes are the names of src/common/alkoserialcommands.h, as strings.     *)
(***************************************************************************)
EXTENDS Integers, Sequences

SERVICE           == 1
PREPARE_READY     == 2
READY             == 3
READY_WAIT        == 4
DEPLOY            == 5
DEPLOY_ERROR      == 6
PREPARE_AUTO_HOME == 7
AUTO_HOME         == 8
INFO              == 9

State == SERVICE .. INFO

(***************************************************************************)
(* The commands the machine has a case for. "LCD" stands for the eight     *)
(* that touch the display alone, which is not modelled, and "OTHER" for    *)
(* any code without a case.                                                *)
(***************************************************************************)
Command == {"PING", "PONG", "GET_CONFIG", "SET_CONFIG", "GET_STATE", "SET_STATE",
            "HOME_ABORT", "HOME_BEGIN", "CHECK_AVAIL", "FETCH", "SHOW_INFO",
            "LCD", "OTHER"}

\* A datagram: command, id, and the data bytes, where any matter.
Datagram(cmd, id, data) == [cmd |-> cmd, id |-> id, data |-> data]
=============================================================================
