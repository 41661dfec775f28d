------------------------------- MODULE MCSale -------------------------------
(* An instance of Sale with every timer as short as can be. *)
EXTENDS Sale

UnitInterval == [t \in Timer |-> 1]

MCRequest == Asked

\* Nothing is on its way, and nobody waits for an answer.
Quiet == toMachine = <<>> /\ toDaemon = <<>> /\ ~\E c \in Customer : InProgress(c)

\* A trouble is a lost frame, a reset, the service button, a silence, two customers at once or a
\* press of the page's in between. After one no frame is lost and no one interferes with the
\* machine any more, and whoever comes only then comes when all is quiet.
OneTrouble == upset => /\ ~Interrupted /\ lost' = lost
                       /\ \A c \in Customer \ {1} : stage[c] = "none" /\ stage'[c] # "none" => Quiet

Ready == toMachine = <<>> /\ toDaemon = <<>> /\ phase = "idle" /\ currentState = READY

\* A press of a button when it costs the first customer his drink, or of one that costs nothing
\* when his money has just been taken.
InBetween == /\ ~upset /\ Ready /\ stage[2] = "none"
             /\ upset' \/ (stage[1] = "PaymentCheckDone" /\ server[1] = "1" /\ toMachine'[1].cmd \in {"CHECK_AVAIL", "HOME_BEGIN"})

\* The page is used to start the machine in service, or in between; and Fetch in the second
\* customer's place, whom the server answers with a number it gives every day.
SparePage == /\ Press => \/ InBetween
                         \/ Quiet /\ phase = "idle" /\ currentState = SERVICE /\ toMachine' = SetState(PREPARE_READY)
             /\ (\E v \in Visit : PressFetch(v)) => ~upset /\ Ready
             /\ granted' \cap Visit # {} => stage'[2] = "none"
             /\ server'[2] \in {"none", "1", "2"}
=============================================================================
