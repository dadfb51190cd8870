----------------------------- MODULE MCDaemon -----------------------------
(* A small instance of Daemon: a server and the worker, two restarts in a  *)
(* window of two ticks; two migration files; a second process beside the   *)
(* daemon.  Under main's OneForOne the daemon lives twice over a fresh     *)
(* database and the release grows from either file to both, before its     *)
(* first start or later; under each strategy it starts once over a         *)
(* migrated one.                                                           *)
EXTENDS Daemon

MCKind == <<"server", "worker">>
MCFile == {1, 2}
MCReversible == {1, 2}

MCInit ==
  /\ SupervisorInit /\ opener = [o \in Opener |-> Off] /\ swept = FALSE
  /\ \/ /\ strategy = "OneForOne" /\ lives = 0
        /\ \E f \in File : dir = {f}
        /\ recorded = {} /\ schema = {}
     \/ /\ lives = MaxLives - 1
        /\ dir = File
        /\ recorded = File /\ schema = File

MCSpec == MCInit /\ [][Next]_vars /\ Fairness
=============================================================================
