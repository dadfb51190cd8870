# A verification of Autonomous Agent Habitat

TLA+ models of the daemon (Go, `daemon/`) and of the goal workflows (Python,
`agents/workflows/`), TLC runs over small instances of them, and TLAPS proofs, for
every value of the constants, of each module's inductive invariant, of its safety
properties, and of the refinements between modules.

## The system

The habitat runs autonomous agents beside a daemon that owns everything with an
effect on the world. PostgreSQL holds all durable state; the daemon is one process
with an HTTP API; the cognition worker is a second process, started and restarted by
the daemon, in which DBOS runs the workflows.

| Part | State | Operations | What makes it correct |
|---|---|---|---|
| policy (`daemon/policy`) | `policy_decision`, `approval_request` | Decide, Consume, Approve, Deny | a decision is spent once, for the payload decided on, in time; resolutions are final |
| operations (`daemon/operations`) | `effect_record` | Propose, MarkDispatchPending, MarkDispatched, MarkObserved, MarkOutcomeUnknown, Resolve, ReconcileInterrupted | nothing is dispatched without a licence, nothing dispatched is forgotten by a restart |
| tracked effects (`trackedLaunch` in `extensions`, `trackEffect` in `inference`) | where a driver stands | launch, tear down, model call with failover | no action without its record; what ran is reported as what it was |
| self-improvement (`daemon/selfimprove`) | `candidate_version`, `eval` | Generate, RecordEval, Canary, Promote, Demote, Reject, Rollback | one bound candidate per class, bound on evidence, rolled back to one that was bound |
| goal pursuit (`daemon/a2a`, `agents/workflows/{goal,dispatcher,ontology}.py`) | `goal`, `task`, `run`, DBOS's own tables, threads | SendMessage, GetTask, CancelTask, dispatcher pass, pursue_goal, run_subagent | `done` means done, replay repeats nothing that finished, a cancellation comes to a stop |
| extensions (`daemon/extensions`, `api/controlplane.go`) | `extension`, capability tokens, context effects, signing keys, the launcher's process table, processes | Discover, Activate, Quiesce, Dispose, Rollback, Register/DisposeContextEffect, RegisterKey, RevokeKey | what is admitted is genuine, dependents stay served, an instance can prove who it is, a disposed one leaves nothing |
| sandbox (`daemon/sandbox`, `workflows/computers.py`) | `computer`, process groups, containers | Create, Destroy | destroyed means gone; a running computer can be destroyed |
| vault (`daemon/credentials`) | `account`, `credential` | CreateAccount, PutCredential, Authenticate, RevokeAccount, RevokeCredential | rotation leaves one that works; a revoked account stays revoked |
| inference (`daemon/inference`) | none but the vault's OAuth envelope | resolve, refresh, fall back | concurrent refreshes leave no dead token pair behind |
| supervisor (`daemon/supervisor`, `cognition`, `scheduler`) | incarnations, exit channel, restart times | start, restart, cancel, give up | restart intensity, nobody left running or forgotten |
| store (`daemon/store`) | `schema_migrations`, the schema, the release's files | migrate, roll back | what is recorded is what is applied |
| main (`cmd/amh-daemon`) | the process | open, sweep, run | the servers meet the schema they were built for |
| API, authn, A2A and MCP servers, health, observability, backup | per connection | routing, probes, dumps | - |
| agent harness, memory, context (`agents/`) | in memory | model loop, memory clients | - |

How they meet. API handlers call the engines; each engine call is one or several
PostgreSQL transactions at READ COMMITTED, and calls run concurrently.
`operations` calls `policy.Decide` and `policy.Consume` inside its own calls. The
extension registry and inference wrap their external actions in a sequence of
`operations` calls (`trackedLaunch`, `trackEffect`); inference reads and refreshes the
vault's credentials. The worker talks to the daemon over HTTP and to the same database
directly; the dispatcher polls the `goal` rows that `a2a` writes. `main` migrates, runs
`ReconcileInterrupted` and only then starts the supervisor tree, whose children are the
servers, the scheduler and the worker.

What is hard about it: calls that are several transactions long and race on their
rows; a `SELECT ... FOR UPDATE`, an advisory lock, a row version and a partial unique
index, each holding up a different promise; commits whose acknowledgement is lost; daemon and
worker crashes at any point; replay of workflows; a polling loop that acts on a list
that has gone stale; requests whose context dies between an external action and its
record; clocks cut to the millisecond; compensation that itself fails. The
`hazards` of `PROJECT.json` list these at their lines, with the property that
watches each or the reason why none does.

## Modules

```
Policy ── Operations ── implements ── EffectLifecycle   (abstract)
              ├─ OperationsProofs    (of Policy, of Operations, the refinement)
              └─ TrackedEffect ── TrackedEffectProofs   (extends OperationsProofs)
Semver ── Extensions ── ExtensionRaces ── ExtensionsProofs
SelfImprove ── SelfImproveProofs
Credentials ── Inference ── InferenceProofs     GoalPursuit ── GoalPursuitProofs
Supervisor ─┬─ Daemon ── DaemonProofs           Sandbox ── SandboxProofs
Migrations ─┘
MC<module>       constants, symmetries and small initial states for TLC
```

**Policy.** `decision` and `approval` are the rows. A transaction that holds a row
lock is an entry of `tx`: `ConsumeLock` is Consume's `SELECT ... FOR UPDATE` with the
checks on the row, `ConsumeCommit` the `UPDATE` and commit; whoever wants the row
in between is not enabled. `ConsumeCommitUnacknowledged` is the commit the caller never
hears of. `Deny` is one conditional `UPDATE`. `permits` is a history variable:
what callers were told they may dispatch. `Digest` is an injective wrapper, for
SHA-256. An approval request is keyed by its decision, of which it has exactly one.

**Operations** extends Policy. Each `Mark...` is the three parts it is in the code: the read
of the row and its state check (which puts the row version seen into `call[c]`), for
MarkDispatchPending the policy transaction, and the `UPDATE ... WHERE row_version`
(`Store`, or `StoreConflict` when it touches no row). The policy routes, through
which any agent decides and consumes without an effect, run beside it; `direct`
records the decisions spent that way. `Crash`, `Boot`, `SweepOne` and `Serve` are the daemon's
life; the sweep precedes the servers, as in `main`.

**EffectLifecycle** is the lifecycle as the package comment of `operations` draws it,
one atomic arrow at a time, with a licence that must be spent before an effect leaves
`admitted`. `Operations!Implements` is the refinement: `life` is the state
column, `license` is read off the decision's row.

**TrackedEffect** composes the two drivers with Operations: `job[c]` is the place of
driver `c` in Propose, MarkDispatchPending, MarkDispatched, the action, MarkObserved and
Resolve, every engine call with all the ways it can fail (`EngineError`, which includes a
write that happened and whose answer was lost). The drivers differ in what a failed record
means: `trackedLaunch` goes on and reports what the launch did, `trackEffect` returns the
error, and the failover chain asks the next provider under a new operation. Any other
caller may move the driver's effect meanwhile, as the API lets any agent do.

**SelfImprove.** `tx[c].op` is how far a transaction is and which locks it
holds: an advisory lock on the class (`ClassFree`), the candidate's row (`RowFree`).
`Canary` reads the clock before its `UPDATE` waits for the row. The writes of a
transaction take effect at its commit, since whoever wants a written row waits, and an
`UPDATE` that waited re-evaluates its `WHERE` on the committed row. The partial
unique index is the guard of `PromoteSwitch` and `RollbackRestore`. Whether an
eval was taken in canary is history, kept in the eval.

**GoalPursuit.** The rows; what DBOS keeps (`parent`, `child`: workflow status and
recorded steps); the threads of the worker (`at`, `sub`, `loop`), which a crash
loses. DBOS is external and modelled from what `goal.py` relies on: an id
starts at most once, finished steps are replayed from their record, a
cancelled workflow stops at its next step or wait and never inside a step, the queue
bounds the children that run. Clients see goals through `GetTask`, which translates the row's
state. Clients, dispatcher passes, workflows, crash and restart interleave freely.

**Semver** holds the order on versions and the clauses of a range as operators.

**Extensions.** The row (`status`, `handle`, `manifest`), the token's launch, context effects
as a count, the signing keys, the launcher's in-memory table (`held`), the world (`alive`, `owner`), and
for each admin call its place in Discover, Activate, Quiesce, Dispose, Rollback or
RegisterContextEffect (`call`). Discover checks the signature and the core range and inserts in separate
steps. Rollback is Dispose followed by Activate of the earlier version in one call. A call may
fail at each statement, before its commit or after; the compensation that follows may fail too. What manifests
say is a constant, `Says`.

**ExtensionRaces** extends it with a memory of races and leaves every call as it is. The HTTP
server runs admin calls concurrently and the registry takes no lock, so that what a call checked may no longer
stand when it writes. `raced` has the rows two calls were at work on, from the check of the status
to the last write; it forgets a row once it is inactive and at rest. `letDown` has the rows whose provider was raced for or was being
quiesced while they were activating, for as long as they stay active. `late` has the rows that a Dispose counted while a call
that had found them active was about to register an effect, or that another call activated while that Dispose
went on, as long as the effect is there. The properties of extensions say that nothing but these does harm.

**Sandbox.** The row, the host's process groups, docker's containers and, for each request, its place
in Create or Destroy. `live` says whether the request's context still is: a process launch ignores it, `docker`
dies with it, and so do the UPDATEs. Group ids are reused. `stranded` is history: computers
whose launch nobody can follow up, because the daemon died inside Create, docker's answer was
lost, or docker could not undo.

**Credentials** is the vault. READ COMMITTED is modelled where it matters: an `UPDATE` takes
the rows its snapshot shows (`PutCredential`, `RevokeAccountRow`), waits for those another
transaction holds and asks its `WHERE` again of these only (`Rotate`, `RevokeRows`), so a
row inserted meanwhile stays unseen. Writes take effect at the commit. A rollback is
possible at any statement, which includes the one by which PostgreSQL breaks a deadlock.

**Inference** extends it with `resolveCredential`: find an active account, read
its credential, refresh an expired OAuth pair at the provider, put the new one, each a step of
its own beside the operators' routes. The provider is external: it takes a refresh
token it has not replaced and may or may not replace it by granting. `lost` is
history: pairs whose refresh was granted and never stored, because the call or the daemon ended.

**Supervisor.** An incarnation is a goroutine: `running[i]` counts those of child `i`
whose context is alive, `leaving[i]` those told to end. They end in any order and send to `exits`; the
loop of Run takes one exit at a time, prunes `restartsAt`, and restarts what the
strategy says or gives up. How a child's Run may return is `Returns`, read from the
servers, the scheduler and the worker. `granted` is history: the times of all restarts;
the times that the code's `restartsAt` holds are those of the numbers in the model's.

**Migrations.** `recorded` is `schema_migrations`, whose key is the filename, `schema` what is in effect, `dir` the files
of the deployed release. Files are numbers in filename order, in which an opener takes them (`Upcoming`). Several processes open the store at once; an applied file and its record are one
transaction, and a second process that comes to the same file waits, fails and ends.

**Daemon** composes the two along `main`: open, sweep, run, process gone, start again, with
another process opening the store beside it and rollbacks while it is stopped.

Operators introduced by "Mutant of X" are variants of the definition below them with one
plausible bug. `PROJECT.json` pairs each property with one: with the variant in
place of X the property must fail, so that every property is known to depend on code.

## Runs

| Run | Instance | Shows |
|---|---|---|
| operations | 2 calls, 3 decisions, 1 operation, 2 payloads, 1 effect, clock 0..1, TTL 1, 1 crash | `SingleUse`, `ApprovalsBalance`, `ResolutionFinal`, `DispatchLicensed`, `ServeAfterSweep`, and that Operations implements EffectLifecycle |
| tracked | a driver and another caller, 2 providers, 2 decisions, 2 effects, 2 crashes, fair start-up | `ActsOnlyDispatched`, `OneDispatcher`, `LaunchOutcomeKept`, `InterruptedReconciled` |
| selfimprove | 2 calls, 3 candidates, 1 class, 3 evals, clock 0..1 | `BackstopIdle`, `RegressionCaught`, `TargetWasBound`, `BoundOnEvidence`, `LifecycleFlow` |
| goal | 2 goals, 2 tasks, 1 subagent slot, 1 crash, fair dispatcher and restart | `DoneMeansDone`, `FinishedStays`, `CancelStops`, `EveryGoalDispatched` |
| goal_cancel | 1 goal, 1 task | violation: `CanceledFinal` |
| extensions | 2 concurrent admin calls, every interleaving, 2 versions, 6 manifests, signatures required, 1 key, 2 launches, 1 crash | `DependentsServed`, `ActiveHoldsToken`, `DisposedClean`, `AdmittedGenuine` |
| extensions_quiesce | 2 calls, a provider and a dependent | violation: `ProviderKept` |
| sandbox | 2 requests, 2 computers, 2 process groups, daemon crashes at any time | `DestroyedGone`, `NothingLeaks` |
| sandbox_destroyable | the same | violation: `AlwaysDestroyable` |
| inference | 2 calls, 1 account, 3 credentials, 3 token pairs | `NewestKept`, `ServedRefreshable`, `RevokedFinal` |
| credentials_active | the same | violation: `OneActive` |
| daemon | a server and the worker, 2 restarts in a window of 2 ticks, clock 0..3, 2 migration files, 2 openers, 2 lives | `OneIncarnation`, `RestartIntensity`, `NobodyLeftRunning`, `NoneForgotten`, `RecordTrue`, `ServesMigrated`, `GiveUpEarned`, `CrashAnswered` |

The runs operations, tracked, selfimprove and extensions also check their type invariant.
The type invariants of Policy (a part of Operations'), GoalPursuit, Inference with its vault,
Sandbox and Daemon with its two parts hold in the same instances and are proved, as is
`Policy!PermitBound`. Deadlock is not checked: every
bounded model stops when its identifiers, clock and crashes are used up, and so does
the program when nobody calls it.

**Bounds.** `Horizon` (clock), `MaxCrashes`, `MaxLives`, `MaxEvals`, `MaxEffects`, and the finite
sets of ids: a new row takes an unused id.

- Two calls suffice for the races of this code, since no lock or version is shared by more
  than the holder and one who waits.
- Three decisions let an approval mint one beside a competitor. `operations` has one effect
  and the expiry of a decision (TTL 1, clock to 1); `tracked` has two effects, for the
  failover from one provider to the next, and its clock stands still: expiry is the other run's.
- Three candidates give a rollback target a chain behind it; classes share no row or lock, so that
  one suffices. A clock of two values gives equal timestamps, the case in which `>=` accepts
  most, and different ones.
- The two rows of `extensions` are an older and a newer version of one extension, so that there is something to roll back to; the
  newer, a process, needs what the older provides, or is by another manifest a container on its own. The other manifests
  are a forgery that wears another's signature, one that is not signed, and one for a later core. Two calls race
  on either row and on both. `Explored` leaves out what no statement could tell apart: a revocation
  after a row was activated (only Discover reads a key), context effects of the older row (only a row's own
  Dispose counts its effects, and the newer one's are there), the older row beside the container (nothing
  the container does reads another row). Calls on one row, and on a row and the one it needs, race in every way.
- Two computers and two process groups let a group id be reused while another request still
  holds it.
- Three token pairs are one login and two concurrent refreshes of it, or two logins and a
  refresh.
- One subagent slot makes the queue fill. One crash at any point covers a crash between
  any two steps. `tracked` has two: one that interrupts an effect and another that interrupts the start-up after it, before
  or during the sweep.
- In `daemon`, two restarts in a window of two ticks with a clock to three let the window slide past
  a restart and close on two others. The case is split by its initial states (`MCInit`): under main's OneForOne the daemon
  lives twice over a database that starts empty; under each strategy it starts once over a migrated one. A
  scheduler returns in fewer ways than a server, so that two servers, or a server and the worker, cover it.

Calls, ids, payloads and candidates are interchangeable in the runs that use symmetry, none of which
checks liveness.

**Fairness.** `tracked`: weak fairness of `Reconciling`, since the service manager
restarts a dead daemon and `main` runs straight through start-up, with finitely many
crashes, of which the run has two: a daemon that dies in every start-up reconciles nothing. `goal`: weak fairness of the dispatcher's loop (`run_forever` polls for
ever) and of `Restart` (the supervisor, whose `CrashAnswered` is what this assumes). `daemon`: weak
fairness of Run's loop, a goroutine whose select can proceed. No fairness of clients, models,
children, requests or workflow steps: a model call may never return.

## Where code and text part

Shown by the runs that end in a violation:

- `goal_cancel`: `synthesize` overwrites `canceled` with `done`, and a client that was told
  canceled later reads completed.
- `extensions_quiesce`: a dependent activates between Quiesce's check and its write.
- `credentials_active`: two puts for one account interleave, each rotating what its snapshot
  shows, and two credentials are active. The comment in Authenticate says it is exactly one.
- `sandbox_destroyable`: a daemon that dies between the launch and the UPDATE to `ready` leaves a
  running computer behind a row `provisioning`, which Destroy refuses and nothing sweeps.

Against a comment or the specification, without a run of their own:

- Propose is not atomic: `Decide` commits by itself, and a crash before the `INSERT` leaves a
  decision, perhaps a pending approval, that no effect names (`operations.go:165`).
- An eval stamped in the millisecond of the canary, or delayed into it, counts as canary evidence
  (`selfimprove.go:315`, `264`).
- Rollback of the store takes the greatest file name, which is not the most recently applied
  file when a late merge has numbered one below it (`store.go:94`, the comment at 67).
- Activate's "never left half-active" does not hold when its request ends during the launch: the
  compensation runs under the same dead context, and the row stays `activating`, from which no
  operation leads (`registry.go:265`).
- In Dispose the error of `revokeCapabilityToken` is dropped, so that a disposed extension's token may stay valid
  (`registry.go:350`); VerifyCapabilityToken, which speaks of active instances, does not ask for the status.
- A tracking failure aborts Dispose's teardown and strands a running process behind a row that
  says `failed` (`registry.go:340`, the comment at 593).
- A context effect can outlive its extension: RegisterContextEffect checks the status and inserts in separate
  statements, and a Quiesce and a Dispose fit in between (`context_effect.go:71`). `docs/AMH-SPECIFICATION.md:379`
  (§15, invariant 3) and the comment at `context_effect.go:13` say that Dispose leaves none. `late` names this race.
- After a restart of the daemon the launcher no longer knows its processes and a teardown fails
  (`launcher.go:132`), against the comment at 117, by which it must work then.
- A manifest may be admitted under a key that is revoked between the check of its signature and the `INSERT`
  (`registry.go:490`), against `trust.go:58`: 'can no longer admit a signed manifest through Discover'.
- A credential put on a revoked account is one that Authenticate returns, against the comment on
  RevokeAccount (`credentials/store.go:118`).
- ListTasks asked for a state that no goal has, such as rejected, lists the open goals (`a2a.go:355`,
  `default`).
- `main` does not wait for the children it has cancelled, so that the worker may outlive the daemon
  and its five seconds of grace (`cognition.go:63`).

Seen while modelling, where no text says otherwise: an effect
parked as `needs_approval` is never moved by its approval (`operations.go:233`);
`dispatch_pending` is not swept (`operations.go:343`); a model's answer is dropped when its record fails,
and the next provider is asked (`inference.go:652`); a goal whose subagent fails stays
`open` for good, since no code writes `active` or `failed` to a goal (`goal.py:239`); a crash inside
`decompose_goal` leaves task rows nobody works on (`goal.py:109`); a Destroy that stopped a container and lost its UPDATE
fails whenever it is retried; a process group's id may be another's by the time it is
killed.

`DependentsServed`, `ActiveHoldsToken` and `DisposedClean` set aside the rows in `raced`, `letDown` and `late`, row by
row and in every run; `AdmittedGenuine` asks of a key that it was registered once; `NothingLeaks` and `DestroyedGone` set aside the computers in
`stranded`, because of the three ways out that `AlwaysDestroyable` shows; `ServedRefreshable`
sets aside the pairs in `lost`.

## Proofs

Every safety invariant and every action property that a run finds true is also a theorem of the
module's specification, for any sets of calls, rows, keys, children and files and any
bounds, from the named assumptions of the modules alone (naturals, a `None` outside the
sets, the shape of `Says`). Nearly none of these properties is inductive: each says what must
not be seen, and not what the transactions in flight have already read. The strengthened
invariant, called `PolicyInv`, `TrackedInv`, `RowInv`, `EffectInv`, `PeerInv` or else `IInv`, says the latter. Each
proof has one lemma per action or group of actions, composed in `InvStep`.

**OperationsProofs**, about Policy alone.

- `PolicyTypeCorrect`, `ConsumeOnce` (`SingleUse`), `ConsumeBound` (`PermitBound`), `ResolutionIsFinal`.
  `PolicyInv` adds that an open consume transaction is alone on its row, that its row is
  unspent and was checked, and that an unspent decision has no permits.
- `GrantsBalance` (`ApprovalsBalance`): each approval adds one element to both of the sets that are counted
  (`Balanced`). The sets are finite although `Decision` may not be.

**OperationsProofs**, about Operations.

- `TypeCorrect`, `DispatchIsLicensed`, `DispatcherIsOne`, `ServeIsSwept`. The invariant adds: an admitted effect's
  decision admits, for its digest; a call at `consume` holds the transaction of its
  own effect's decision; a call at `store` towards `dispatch_pending` owns a permit
  that no other call, effect or direct caller has; a row version seen is no newer
  than the row's, and equal versions mean the state read; while booting, whatever is
  still dispatched is in `sweep`.
- `RunsPolicy` (`Spec => PolicySpec`): every step of the daemon is a policy step or leaves the policy's rows
  alone. By it `PolicyHolds` states the seam's properties of the whole daemon without
  opening the policy again.
- `LifecycleImplemented` (`Spec => Implements`), the refinement. `RecordEffect` is `Admit` or `Park`; the commit of a consume
  is `Spend` when its decision is an effect's and a stutter otherwise; `Store` is
  `Commit`, `Dispatch`, `Observe`, `LoseTrack` or `Settle`, as its target says; `SweepOne` is
  `LoseTrack`. `IInv` is what makes `Store` an arrow: the row version it compares proves the
  state it read.

**TrackedEffectProofs**. `TrackedInv` is Operations' `IInv` and that each driver is in step with its
record (`InStep`): the effect it holds is for the payload it will run (`JobOf`), the engine call
it has open is the one its step asks for (`CallOf`), and it acts only past dispatch. From it
`RunsOperations` (`TrackedSpec => Spec`), hence everything above of the drivers too
(`TrackedIsLicensed`), then `ActsUnderRecord`, `TrackedTypeCorrect` and `LaunchIsReported`.

**SelfImproveProofs**. The invariant says what each lock protects while it is held: a Promote that has read
its evidence finds it again (`HeldPromotion`, under the row lock), what it and Rollback read of the
class's promoted candidate stays true until they write (`HeldPrevious`, `HeldRollback`, under the class
lock), and the locks exclude (`RowLock`, `ClassLock`). `BackstopIsIdle` follows at once; `OneIsPromoted`, what
the index is there for, is a part of the invariant. Also `RegressionIsCaught`, `TargetIsBound`,
`EvidenceBinds`, `FlowIsDrawn`, `TypeCorrect`.

**GoalPursuitProofs**. `Belongs`: a task is of the goal whose decomposition made it. `Threads`: a workflow decomposes
only while nothing is recorded. `Subagents`: a thread runs a workflow that has not ended, and one whose
work is recorded has written its task. `Synthesized`: synthesize is reached only with every child
returned. Hence `DoneIsDone`, `FinishedIsKept`, `TypeCorrect`, for any number of crashes.

**ExtensionsProofs**. `RangeIsMeant` and `VersionsAreOrdered` (Semver): `compare` orders versions, and `satisfiesRange` decides the
intervals that its grammar means, the caret's included; they are what admission and
`DependentsServed` rest on. For any number of concurrent calls: `TypeCorrect` and `AdmittedIsGenuine`, from an invariant that
says that a row has a manifest that was let in and that a Discover under way holds one.

The rest is about runs with the history, of any number of calls that race in any way, fail and die with the daemon; `HistoryObserves` says that
these are the runs of Extensions. `RowInv`: what a call found of its own row, and what it has done to it, still
stands (`HoldsAt`), unless the row is in `raced`. It is inductive since two calls that touch a row are both at work on it, and
a call that comes to a row nobody is at work on starts from its status alone. Hence `ActiveCanProve`. `EffectInv`: a
row past the count of a Dispose has no effect and none under way, unless it is in `late`; hence `DisposedIsClean`. `PeerInv`: the requirements of a row
that is active, or past its check of them, are met by what is active, and a row past Quiesce's check is needed by nobody
active, unless `raced` or `letDown` has them; hence `DependentsAreServed`. Both rest on what one step may do to the rows (`Moves`): only its own, and
each status only from the step before. What is set aside cannot be left out: the run
`extensions_quiesce` shows one such race, and the list above another.

**SandboxProofs**. The invariant ties the row, the call and the world together: a row's handle is of its kind, a
Create owns its row until its UPDATE (`Sole`), whatever runs and is not stranded is named by its row or by a
call in flight (`ProcessKnown`, `ContainerKnown`), and a Destroy about to write `destroyed` has nothing left to
stop (`TornDown`). Hence `DestroyedIsGone`, `NothingIsLeaked`, `TypeCorrect`.

**InferenceProofs**. `FreshPairs`: a pair not yet stored is known to one call, and the provider takes it, as
nobody can refresh it before a row shows it. `RotatesItsOwn`: the put of a refreshed pair rotates the row the refresh
started from, unless somebody else did. With who owns which rows and which pairs (`Linked`, `OwnRows`, `StoredOnce`,
`StartsStored`) they give `ServedIsRefreshable`; also `NewestIsKept`, `RevokedIsFinal`, `TypeCorrect`.

**DaemonProofs**, about Supervisor, Migrations and Daemon. `Pruned` and `InOrder` say that what the supervisor has
forgotten lies before the window that ends now, so that counting what it
remembers is enough: `RestartsAreLimited` for every window, and `GivingUpIsEarned`. `OnePlace`: under
OneForOne a child runs, leaves or has its exit in the channel, once. Also `OneIncarnationRuns`, `NobodyIsLeft`,
`NoneIsForgotten`. For the store, an open transaction on a file is alone on it (`Excluded`) and what main has
read of the records is still applied, as long as it runs (`Passed`, `MainOrder`): `RecordIsTrue`, `ServesWhatItNeeds`, `TypeCorrect`.

Only model-checked: liveness (`InterruptedReconciled`, `EveryGoalDispatched`, `CancelStops`, `CrashAnswered`), as the
installed provers do neither fairness nor ENABLED, and what the runs that end in a violation
refute, which has no proof. No module declares a RECURSIVE operator, and nothing rests on
induction over data: the quantities that could need it are histories on which an invariant holds at every index.

## Assumptions and what is left out

- PostgreSQL is correct and does not itself crash. A crash of the daemon or the worker falls between statements.
  An in-flight commit either happened or did not: both are actions.
- Approve's clock reading is merged with its commit, Consume's and RecordEval's with the
  lock they read it under. Wall clocks do not step back.
- Reads (Get, List), argument validation, owner checks, error columns, `retry_class` and all
  wording are left out, except where a property is about what a client reads. States no code writes
  (`rejected`, `proposed` as stored states) do not occur.
- Goals that an agent starts itself, by calling `pursue_goal` without A2A, memory
  recall and retain, events and token accounts are left out of GoalPursuit.
- Extensions: cryptography is whose key signed what; manifests are decoded and conform to the schema;
  versions have no pre-release parts, which the code cuts off. Launched processes survive
  the daemon, which starts them without tying them to itself.
- Sandbox: working directories, resource limits and mounts. A group's leader stands for the group. SIGKILL ends it
  at once: the code waits up to half a second for the group to be gone and returns no error if it is not (`provisioner.go:402`), so
  `DestroyedGone` speaks of groups that have been killed, not of those the kernel has reaped.
- Inference: a provider that answers without a refresh token is one that does not rotate it (`inference.go:428`). The pair that is stored then
  shares the old token, which is the case of `Granted` in which both pairs go on working.
- Credentials: extension subjects, which nothing in the program stores; a put for an id that is no
  account's, since ids are minted by CreateAccount and such a row is never read; which of several active accounts
  is the most recent. RevokeCredential has no caller and is modelled as one anyone may make. Encryption is a bijection.
- Supervisor: a panic in a child ends the process, which is `Die`. Migrations: DDL takes exclusive locks, so that
  whoever touches a file second waits for the first; a down file undoes its file and nothing else.

**Not modelled**, and why:

- The LIFO order of context effects: the sequence and the rule that the latest goes first are two single
  statements over rows that a UNIQUE constraint keeps apart; what is left is a stack. Effects are counted in Extensions.
- HTTP routing, authentication and authorization: each request is decided by itself. Where a handler decides by
  state it is part of its engine's module.
- The MCP server: an empty catalogue of tools behind a set of session ids under one mutex.
- Backup (runs `pg_dump`), observability (exporters): pure I/O.
- The agent harness: one thread that alternates a model's answers with tool calls under a turn limit. Memory and
  context: clients of external services whose failures are swallowed by design. The Python clients of the daemon:
  what they may call, in which order, is what Policy and Operations let any caller do.
- The control-plane UI manifest: no code.

## Plan

The components with state of their own are modelled, and the safety properties of the runs
proved. What is left:

1. Properties for the eleven hazards that none covers yet. Most end in a state that the code leaves to an operator; what could be
   stated of each is what the row left behind still allows and what it does not.
2. What of `OneActive`, `CanceledFinal` and `AlwaysDestroyable` holds but for races that a history names, as `ExtensionRaces` does for
   extensions.

Liveness stays with TLC.
