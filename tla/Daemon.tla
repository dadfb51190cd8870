------------------------------- MODULE Daemon -------------------------------
(***************************************************************************)
(* cmd/amh-daemon: main opens the store, which migrates it, reconciles     *)
(* interrupted effects (Operations models that step) and only then runs    *)
(* the supervisor tree; when Run returns, or anything before it fails, the *)
(* process ends and the service manager starts it anew.  Beside it another *)
(* process of the same binary may open the store, and -rollback-migration  *)
(* runs while the daemon is stopped, as its help text asks.                *)
(***************************************************************************)
EXTENDS Supervisor, Migrations

CONSTANTS Main,      \* the opener that is the daemon
          MaxLives   \* bound on starts of the daemon

ASSUME DaemonAssumption == Main \in Opener /\ MaxLives \in Nat

VARIABLES swept,  \* ReconcileInterrupted has run
          lives   \* starts so far

mainVars == <<swept, lives>>
vars == <<supervisorVars, migrationVars, mainVars>>

TypeOK ==
  /\ SupervisorTypeOK
  /\ MigrationsTypeOK
  /\ swept \in BOOLEAN
  /\ lives \in 0..MaxLives

Init ==
  /\ SupervisorInit /\ MigrationsInit
  /\ swept = FALSE /\ lives = 0

Stopped == opener[Main] = Off
RollingBack == \E o \in Opener : opener[o].at \in {"undo", "undoing"}

\* The process is gone and its goroutines with it: neither Run nor main waits for the
\* children it has cancelled.
ProcessGone ==
  /\ running' = Nobody /\ leaving' = Nobody /\ exits' = <<>> /\ restartsAt' = {}
  /\ run' = "off" /\ done' = FALSE /\ now' = 0 /\ granted' = <<>>
  /\ Ends(Main)
  /\ swept' = FALSE
  /\ UNCHANGED <<strategy, dir, recorded, schema, lives>>

Start ==
  /\ Stopped /\ ~RollingBack
  /\ lives < MaxLives
  /\ lives' = lives + 1
  /\ Open(Main)
  /\ UNCHANGED <<supervisorVars, swept>>

ReconcileInterrupted ==
  /\ opener[Main].at = "open" /\ ~swept
  /\ swept' = TRUE
  /\ UNCHANGED <<supervisorVars, migrationVars, lives>>

\* sup.Run, once per life.
RunTree == swept /\ Run /\ UNCHANGED <<migrationVars, mainVars>>

Supervise ==
  /\ run # "off"
  /\ SupervisorStep
  /\ UNCHANGED <<migrationVars, mainVars>>

\* Run returned: main exits, with 1 when it gave up.
Exit == run \in {"stopped", "gaveUp"} /\ ProcessGone

\* Any other end: a failed migration or sweep, a kill.
Die == ~Stopped /\ ProcessGone

\* Another process of the binary: it may open the store beside the daemon's start, and
\* roll back when the daemon is stopped.
Elsewhere(o) ==
  \/ Open(o)
  \/ Stopped /\ \E f \in File : Rollback(o, f)
  \/ Undo(o) \/ UndoFails(o) \/ CommitUndone(o) \/ OpenerDies(o)

Migrate ==
  /\ \/ \E o \in Opener, f \in File :
          SkipApplied(o, f) \/ Apply(o, f) \/ ApplyFails(o, f) \/ CommitApplied(o, f)
     \/ \E o \in Opener : Opened(o)
     \/ run = "off" /\ \E o \in Opener \ {Main} : Elsewhere(o)
     \/ Stopped /\ \E f \in File \ dir : Deploy(f)
  /\ UNCHANGED <<supervisorVars, mainVars>>

Next ==
  \/ Start \/ ReconcileInterrupted \/ RunTree \/ Supervise \/ Exit \/ Die \/ Migrate

\* The goroutine of Run is scheduled whenever its select can proceed.
Fairness == WF_vars(Loop /\ UNCHANGED <<migrationVars, mainVars>>)

Spec == Init /\ [][Next]_vars /\ Fairness

----------------------------------------------------------------------------
(* Properties *)

\* The servers never meet a schema they were not built for: while the tree runs, every
\* file of the release it was started from is applied, in whatever order releases
\* brought them, and the sweep of interrupted effects has come before.
ServesMigrated == run # "off" => opener[Main].read \subseteq schema /\ swept
=============================================================================
