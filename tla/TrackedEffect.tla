---------------------------- MODULE TrackedEffect ----------------------------
(***************************************************************************)
(* The two drivers that run an external action under an effect record:     *)
(* daemon/extensions' trackedLaunch (an extension's launch or teardown)    *)
(* and daemon/inference's trackEffect (a provider's model call), over      *)
(* Operations.  Each takes a fresh effect through its transitions, one     *)
(* engine call after the other, and acts in the middle.  They differ in    *)
(* what a failed record means: a launch reports what the launch did, a     *)
(* model call reports the failure, and Complete, CountTokens and Embed go  *)
(* on to the next provider under a new operation.                          *)
(***************************************************************************)
EXTENDS Operations

CONSTANTS Driver,    \* the calls that are drivers; the others are any caller
          Providers  \* length of a model call's failover chain

ASSUME TrackedAssumption == Driver \subseteq Call /\ Providers \in Nat \ {0}

VARIABLES job,     \* where each driver stands
          report,  \* what it last told its caller
          acted    \* history: effects under which an action was begun

jobVars == <<job, report, acted>>
trackedVars == <<vars, jobVars>>

Outcome == {"ok", "failed"}
Step == {"propose", "dispatch_pending", "dispatched", "act", "acting", "observed", "resolve"}
NoJob == [step |-> "idle"]
Job == [step : Step, kind : {"launch", "model"}, left : 0..Providers,
        effect : Effect \cup {None}, payload : Payload \cup {None},
        outcome : Outcome \cup {None}]

TrackedTypeOK ==
  /\ TypeOK
  /\ job \in [Driver -> {NoJob} \cup Job]
  /\ report \in [Driver -> Outcome \cup {None}]
  /\ acted \subseteq Effect

TrackedInit ==
  /\ Init
  /\ job = [c \in Driver |-> NoJob]
  /\ report = [c \in Driver |-> None]
  /\ acted = {}

Attempt(kind, left) ==
  [step |-> "propose", kind |-> kind, left |-> left,
   effect |-> None, payload |-> None, outcome |-> None]

At(c, step) == call[c] = NoCall /\ job[c].step = step
GoTo(c, step) == job' = [job EXCEPT ![c].step = step] /\ UNCHANGED <<report, acted>>

Tell(c, outcome) ==
  /\ job' = [job EXCEPT ![c] = NoJob]
  /\ report' = [report EXCEPT ![c] = outcome]
  /\ UNCHANGED acted

\* Mutant of NextProvider: the chain runs past its end.
NextProviderPastEnd(c) ==
  /\ job' = [job EXCEPT ![c] = Attempt("model", job[c].left - 1)]
  /\ UNCHANGED <<report, acted>>

\* completeOne, countTokensOne or embedOne returned an error: the chain's next provider.
NextProvider(c) ==
  IF job[c].left > 0
  THEN /\ job' = [job EXCEPT ![c] = Attempt("model", job[c].left - 1)]
       /\ UNCHANGED <<report, acted>>
  ELSE Tell(c, "failed")

\* An attempt whose action has not run ends: trackedLaunch returns the error.
Abandon(c) == IF job[c].kind = "launch" THEN Tell(c, "failed") ELSE NextProvider(c)

----------------------------------------------------------------------------
\* An extension is launched or torn down.
Launch(c) ==
  /\ Free(c) /\ job[c] = NoJob
  /\ job' = [job EXCEPT ![c] = Attempt("launch", 0)]
  /\ UNCHANGED <<vars, report, acted>>

\* Complete, CountTokens or Embed over a chain of n providers.
Ask(c, n) ==
  /\ Free(c) /\ job[c] = NoJob
  /\ job' = [job EXCEPT ![c] = Attempt("model", n - 1)]
  /\ UNCHANGED <<vars, report, acted>>

\* The request names its providers; the OpenAI facade's model string names one.
HandleInferenceComplete(c) == \E n \in 1..Providers : Ask(c, n)
HandleOpenAIChatCompletions(c) == Ask(c, 1)

\* The provider has no account or credential, or not the operation's kind of one:
\* nothing is proposed.
Unserved(c) ==
  /\ At(c, "propose") /\ job[c].kind = "model"
  /\ NextProvider(c)
  /\ UNCHANGED vars

\* Both propose with a fresh operation id and reversibility "verified".
ProposeAction(c) ==
  /\ At(c, "propose")
  /\ \E d \in Decision, op \in Operation, p \in Payload :
       /\ Propose(c, d, op, p, "verified")
       /\ job' = [job EXCEPT ![c].payload = p]
  /\ UNCHANGED <<report, acted>>

Terminal(c) == IF job[c].outcome = "ok" THEN "confirmed" ELSE "failed"

\* The Get and the state check of the next transition.
Issue(c) ==
  LET e == job[c].effect IN
  /\ \/ At(c, "dispatch_pending") /\ MarkDispatchPending(c, e, job[c].payload)
     \/ At(c, "dispatched") /\ MarkDispatched(c, e)
     \/ At(c, "observed") /\ MarkObserved(c, e)
     \/ At(c, "resolve") /\ Resolve(c, e, Terminal(c))
  /\ UNCHANGED jobVars

\* All is recorded: a provider that failed is followed by the next one.
Reports(c) ==
  IF job[c].kind = "model" /\ job[c].outcome = "failed"
  THEN NextProvider(c)
  ELSE Tell(c, job[c].outcome)

\* The engine call succeeded: the driver's next step.
Recorded(c) ==
  \/ \E e \in Effect :
       /\ RecordEffect(c, e)
       /\ job' = [job EXCEPT ![c].step = "dispatch_pending", ![c].effect = e]
       /\ UNCHANGED <<report, acted>>
  \/ /\ Store(c)
     /\ \/ job[c].step = "dispatch_pending" /\ GoTo(c, "dispatched")
        \/ job[c].step = "dispatched" /\ GoTo(c, "act")
        \/ job[c].step = "observed" /\ GoTo(c, "resolve")
        \/ job[c].step = "resolve" /\ Reports(c)

\* The action runs, and takes its time.
Act(c) ==
  /\ At(c, "act")
  /\ job' = [job EXCEPT ![c].step = "acting"]
  /\ acted' = acted \cup {job[c].effect}
  /\ UNCHANGED <<vars, report>>

Acted(c) ==
  /\ At(c, "acting")
  /\ \E o \in Outcome : job' = [job EXCEPT ![c].step = "observed", ![c].outcome = o]
  /\ UNCHANGED <<vars, report, acted>>

\* Every way an engine call returns an error: the state it finds is not the one it
\* wants, Consume refuses, the row has moved, a statement fails, or the last Get fails
\* after the write has been made.
EngineError(c) ==
  \/ /\ call[c] = NoCall /\ tx[c] = Idle
     /\ job[c].step \in {"propose", "dispatch_pending", "dispatched", "observed", "resolve"}
     /\ UNCHANGED vars
  \/ DispatchRefused(c) \/ ConsumeLost(c) \/ StoreConflict(c) \/ CallFails(c)
  \/ Store(c) \/ \E e \in Effect : RecordEffect(c, e)

\* Mutant of NotDispatched: the driver acts whatever became of its record.
ActAnyway(c) ==
  /\ job[c].step \in {"propose", "dispatch_pending", "dispatched"}
  /\ EngineError(c)
  /\ IF job[c].effect = None THEN Abandon(c) ELSE GoTo(c, "act")

NotDispatched(c) ==
  /\ job[c].step \in {"propose", "dispatch_pending", "dispatched"}
  /\ EngineError(c)
  /\ Abandon(c)

\* Mutant of NotObserved: a launch whose record fails is reported as failed.
NotObservedFails(c) ==
  /\ job[c].step \in {"observed", "resolve"}
  /\ EngineError(c)
  /\ Abandon(c)

\* After the action: trackedLaunch drops the error and goes on, trackEffect returns it.
NotObserved(c) ==
  /\ job[c].step \in {"observed", "resolve"}
  /\ EngineError(c)
  /\ CASE job[c].kind = "model"      -> NextProvider(c)
       [] job[c].step = "observed"   -> GoTo(c, "resolve")
       [] OTHER                      -> Tell(c, job[c].outcome)

\* The steps inside MarkDispatchPending that return nothing yet.
Consuming(c) == (DispatchConsume(c) \/ DispatchConsumed(c)) /\ UNCHANGED jobVars

Drive(c) ==
  \/ Launch(c) \/ HandleInferenceComplete(c) \/ HandleOpenAIChatCompletions(c)
  \/ Unserved(c) \/ ProposeAction(c) \/ Issue(c) \/ Consuming(c) \/ Recorded(c)
  \/ Act(c) \/ Acted(c) \/ NotDispatched(c) \/ NotObserved(c)

\* Everyone else: any agent may move any effect that core owns.
Other(c) ==
  /\ PolicyRoute(c) \/ Dispatching(c) \/ Tracking(c)
  /\ UNCHANGED jobVars

\* The drivers are goroutines of the daemon.
DaemonCrash ==
  /\ Crash
  /\ job' = [c \in Driver |-> NoJob]
  /\ UNCHANGED <<report, acted>>

TrackedNext ==
  \/ \E c \in Driver : Drive(c)
  \/ \E c \in Call \ Driver : Other(c)
  \/ DaemonCrash
  \/ (Reconciling \/ Clock) /\ UNCHANGED jobVars

\* systemd restarts a dead daemon, and start-up runs straight to the servers.
TrackedSpec ==
  TrackedInit /\ [][TrackedNext]_trackedVars
    /\ WF_trackedVars(Reconciling /\ UNCHANGED jobVars)

----------------------------------------------------------------------------
(* Properties *)

\* No action without its record: an effect under which a launch, a teardown or a model
\* call was begun has been durably dispatched, whatever other callers, lost answers
\* and crashes did around it, and what runs is what was decided on.
ActsOnlyDispatched ==
  /\ \A e \in acted : effect[e].state \in PastAdmission \ {"dispatch_pending"}
  /\ \A c \in Driver : job[c].step = "acting" =>
       Digest(job[c].payload) = effect[job[c].effect].digest

\* The comment of trackedLaunch: a launch that has run is reported as what it was,
\* however recording it fails afterwards.
LaunchOutcomeKept ==
  [][\A c \in Driver :
       /\ job[c].step \in {"observed", "resolve"} /\ job[c].kind = "launch"
       /\ job'[c] = NoJob /\ daemon' = "up"
       => report'[c] = job[c].outcome]_trackedVars
=============================================================================
