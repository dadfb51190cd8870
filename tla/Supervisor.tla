----------------------------- MODULE Supervisor -----------------------------
(***************************************************************************)
(* daemon/supervisor: a fixed list of children run under a restart         *)
(* strategy and a limit on restarts in a sliding window.  Each start is a  *)
(* goroutine, an incarnation of its child, that runs until it ends by      *)
(* itself or under a cancelled context and then sends its exit, through a  *)
(* channel as long as the list, to the loop of Run.                        *)
(***************************************************************************)
EXTENDS Integers, FiniteSets, SequencesExt

CONSTANTS Children,     \* how many children were added
          Kind,         \* what each child runs
          MaxRestarts,  \* restarts allowed ...
          Window,       \* ... within so many ticks
          Horizon       \* bound on the clock

ASSUME SupervisorAssumption ==
  /\ Children \in Nat \ {0}
  /\ Kind \in [1..Children -> {"server", "scheduler", "worker"}]
  /\ MaxRestarts \in Nat /\ Window \in Nat \ {0} /\ Horizon \in Nat

Child == 1..Children
Strategy == {"OneForOne", "OneForAll", "RestForOne"}

VARIABLES strategy,    \* Supervisor.Strategy
          running,     \* incarnations of each child that run under a live context
          leaving,     \* ... and those that run under a cancelled one
          exits,       \* the channel
          restartsAt,  \* Supervisor.restartsAt: the restarts it remembers, by number
          run,         \* "off", "on", or how Run returned: "stopped", "gaveUp"
          done,        \* the context of Run is cancelled
          now,
          granted      \* when each restart was granted

supervisorVars == <<strategy, running, leaving, exits, restartsAt, run, done, now, granted>>

SupervisorTypeOK ==
  /\ strategy \in Strategy
  /\ running \in [Child -> Nat] /\ leaving \in [Child -> Nat]
  /\ exits \in Seq([child : Child, err : BOOLEAN]) /\ Len(exits) <= Children
  /\ restartsAt \subseteq DOMAIN granted /\ Cardinality(restartsAt) <= MaxRestarts
  /\ run \in {"off", "on", "stopped", "gaveUp"}
  /\ done \in BOOLEAN
  /\ now \in 0..Horizon
  /\ granted \in Seq(0..Horizon)

Nobody == [i \in Child |-> 0]

SupervisorInit ==
  /\ strategy \in Strategy
  /\ running = Nobody /\ leaving = Nobody /\ exits = <<>>
  /\ restartsAt = {} /\ run = "off" /\ done = FALSE
  /\ now = 0 /\ granted = <<>>

Plus(f, g) == [i \in Child |-> f[i] + g[i]]
Only(f, C) == [i \in Child |-> IF i \in C THEN f[i] ELSE 0]

CancelAll == leaving' = Plus(leaving, running) /\ running' = Nobody

\* cancels[i] is the context of the latest incarnation of child i.
CancelLatest ==
  LET latest == [i \in Child |-> IF running[i] > 0 THEN 1 ELSE 0] IN
  /\ leaving' = Plus(leaving, latest)
  /\ running' = [i \in Child |-> running[i] - latest[i]]

\* Mutant of CancelAndStart: the old incarnations keep their contexts.
StartBeside(C) ==
  LET one == Only([i \in Child |-> 1], C) IN
  /\ running' = Plus(running, IF done THEN Nobody ELSE one)
  /\ leaving' = Plus(leaving, IF done THEN one ELSE Nobody)

\* start: the new incarnation's context is under Run's, cancelled when that one is.
CancelAndStart(C) ==
  LET one  == Only([i \in Child |-> 1], C)
      left == Plus(leaving, Only(running, C))
  IN
  /\ running' = Plus(Only(running, Child \ C), IF done THEN Nobody ELSE one)
  /\ leaving' = Plus(left, IF done THEN one ELSE Nobody)

Run ==
  /\ run = "off"
  /\ run' = "on"
  /\ running' = [i \in Child |-> 1]
  /\ UNCHANGED <<strategy, leaving, exits, restartsAt, done, now, granted>>

\* How the Run of a child may return, under a live context or a cancelled one.  A
\* server of api, mcp, a2a or health: with its listener's error, or what Shutdown says.
ServerRun(live, err) == live => err

\* The scheduler: when it is told to, and only then.  A server may do all of that, so
\* an instance with servers for schedulers shows no less.
SchedulerRun(live, err) == ~live /\ ~err

\* Mutant of WorkerRun: an exit with status 0 is no error.
WorkerRunStatus(live, err) == ~live => ~err

\* The cognition worker: any exit of the process is an error, unless it was told to.
WorkerRun(live, err) == live <=> err

Returns(i, live, err) ==
  CASE Kind[i] = "server"    -> ServerRun(live, err)
    [] Kind[i] = "scheduler" -> SchedulerRun(live, err)
    [] Kind[i] = "worker"    -> WorkerRun(live, err)

\* A child's Run returns, and its goroutine sends that: into the channel when there
\* is room, or away once the context of Run is over.
Exited(i, err) ==
  /\ \/ /\ running[i] > 0 /\ Returns(i, TRUE, err)
        /\ running' = [running EXCEPT ![i] = @ - 1] /\ UNCHANGED leaving
     \/ /\ leaving[i] > 0 /\ Returns(i, FALSE, err)
        /\ leaving' = [leaving EXCEPT ![i] = @ - 1] /\ UNCHANGED running
  /\ \/ Len(exits) < Children /\ exits' = Append(exits, [child |-> i, err |-> err])
     \/ done /\ UNCHANGED exits
  /\ UNCHANGED <<strategy, restartsAt, run, done, now, granted>>

----------------------------------------------------------------------------
(* The loop of Run.                                                          *)

\* Mutant of Kept: the restart at the window's far edge still counts.
KeptEdge == {k \in restartsAt : granted[k] >= now - Window}
Kept == {k \in restartsAt : granted[k] > now - Window}

\* Mutant of AllowRestart: one restart too many.
AllowRestartMore == Cardinality(Kept) <= MaxRestarts
AllowRestart == Cardinality(Kept) < MaxRestarts

\* Mutant of Affected: the restart of the rest skips the child that exited.
AffectedAfter(i) ==
  CASE strategy = "OneForOne"  -> {i}
    [] strategy = "OneForAll"  -> Child
    [] strategy = "RestForOne" -> (i + 1)..Children

\* Mutant of Affected: one crash restarts them all, whatever the strategy.
AffectedAll(i) == Child

Affected(i) ==
  CASE strategy = "OneForOne"  -> {i}
    [] strategy = "OneForAll"  -> Child
    [] strategy = "RestForOne" -> i..Children

Took == run = "on" /\ exits # <<>> /\ exits' = Tail(exits)

CleanExit ==
  /\ Took
  /\ ~Head(exits).err
  /\ UNCHANGED <<strategy, running, leaving, restartsAt, run, done, now, granted>>

Restart ==
  LET C == Affected(Head(exits).child) IN
  /\ Took
  /\ Head(exits).err
  /\ AllowRestart
  /\ granted' = Append(granted, now)
  /\ restartsAt' = Kept \cup {Len(granted')}
  /\ CancelAndStart(C)
  /\ UNCHANGED <<strategy, run, done, now>>

GiveUp ==
  /\ Took
  /\ Head(exits).err
  /\ ~AllowRestart
  /\ restartsAt' = Kept
  /\ CancelLatest
  /\ run' = "gaveUp"
  /\ UNCHANGED <<strategy, done, now, granted>>

Stop ==
  /\ run = "on" /\ done
  /\ CancelAll
  /\ run' = "stopped"
  /\ UNCHANGED <<strategy, exits, restartsAt, done, now, granted>>

\* SIGTERM cancels the context of Run and every context under it.
Terminate ==
  /\ run = "on" /\ ~done
  /\ done' = TRUE
  /\ CancelAll
  /\ UNCHANGED <<strategy, exits, restartsAt, run, now, granted>>

Tick ==
  /\ now < Horizon
  /\ now' = now + 1
  /\ UNCHANGED <<strategy, running, leaving, exits, restartsAt, run, done, granted>>

Loop == CleanExit \/ Restart \/ GiveUp \/ Stop

SupervisorStep ==
  \/ Run \/ Loop \/ Terminate \/ Tick
  \/ \E i \in Child, err \in BOOLEAN : Exited(i, err)

----------------------------------------------------------------------------
(* Properties *)

\* One incarnation of a child at a time under OneForOne, the daemon's strategy: a
\* server never meets its predecessor on the port, nor a worker the worker before it.
\* Under the others at most one is not on its way out.
OneIncarnation ==
  \A i \in Child :
    /\ running[i] <= 1
    /\ strategy = "OneForOne" => running[i] + leaving[i] <= 1

\* No more than MaxRestarts restarts fall into any window, wherever it is laid: what
\* pruning forgets never lets one more through.
RestartIntensity ==
  \A k \in DOMAIN granted :
    k > MaxRestarts => granted[k] - granted[k - MaxRestarts] >= Window

\* And giving up, which takes the daemon down, is earned: MaxRestarts restarts lie
\* in the window that ends now.
GiveUpEarned ==
  [][run = "on" /\ run' = "gaveUp" =>
       Cardinality({k \in DOMAIN granted : granted[k] > now - Window}) >= MaxRestarts
    ]_supervisorVars

\* Run leaves nobody behind: when it has returned, every incarnation it ever started,
\* a late restart's included, has ended or been told to.
NobodyLeftRunning == run \in {"stopped", "gaveUp"} => running = Nobody

\* No child is lost without a trace: Run forgets a child that exits cleanly, and no
\* Run of theirs does that while the daemon runs.  Each is running or its crash is
\* on its way to the loop.
NoneForgotten ==
  run = "on" /\ ~done =>
    \A i \in Child : running[i] > 0 \/ [child |-> i, err |-> TRUE] \in ToSet(exits)

\* A crash is answered: a child whose exit is an error runs again, unless Run returns.
CrashAnswered ==
  \A i \in Child :
    ([child |-> i, err |-> TRUE] \in ToSet(exits)) ~> (running[i] > 0 \/ run # "on")
=============================================================================
