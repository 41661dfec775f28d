------------------------------- MODULE Millis -------------------------------
(* The clock that the firmware's timers and its main loop read. *)
CONSTANT Word                   \* how many values unsigned long has

VARIABLE millis                 \* what millis() returns
=============================================================================
