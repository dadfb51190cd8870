---------------------------- MODULE Operations ----------------------------
(***************************************************************************)
(* daemon/operations: the external-effect lifecycle, composed with the     *)
(* policy seam (Policy) whose decisions it spends, and with the startup    *)
(* sweep of cmd/amh-daemon.                                                *)
(*                                                                         *)
(* A transition is not one transaction.  Every Mark... and Resolve reads   *)
(* the row (Get), checks its state, and later UPDATEs it guarded by the    *)
(* row_version it read; MarkDispatchPending runs Policy.Consume, a         *)
(* transaction of its own, in between.  call[c] is what call c has read    *)
(* and still has to do.  Any call may be made on any effect at any time:   *)
(* agents reach every transition over HTTP, and the policy routes let them *)
(* decide and consume decisions without an effect.                         *)
(***************************************************************************)
EXTENDS Policy

CONSTANTS Effect,      \* effect ids (uuids), finitely many
          MaxCrashes   \* bound on daemon crashes

ASSUME OperationsAssumption ==
  /\ MaxCrashes \in Nat
  /\ None \notin Effect

VARIABLES effect,    \* effect_record
          call,      \* what each call in flight read and has left to do
          daemon,    \* "down", "booting" (ReconcileInterrupted runs) or "up"
          sweep,     \* effect ids the startup sweep has still to mark
          crashes,   \* crashes so far
          direct     \* history: decisions the policy route let a caller dispatch

effectVars == <<effect, call, daemon, sweep, crashes, direct>>
vars == <<policyVars, effectVars>>

isTerminal == {"confirmed", "reconciled", "compensated", "failed"}
PastAdmission ==
  {"dispatch_pending", "dispatched", "observed", "outcome_unknown"} \cup isTerminal
State == {"admitted", "needs_approval"} \cup PastAdmission

NoEffect == [state |-> "absent", decision |-> None, digest |-> None, version |-> 0]
EffectRow ==
  {NoEffect} \cup
  [state : State, decision : Decision, digest : DigestSet, version : Nat]

NoCall == [step |-> "idle"]
CallState ==
  {NoCall}
    \cup [step : {"record"}, decision : Decision]
    \cup [step : {"consume"}, effect : Effect, seen : Nat, payload : Payload]
    \cup [step : {"store"}, effect : Effect, seen : Nat, to : PastAdmission]

TypeOK ==
  /\ PolicyTypeOK
  /\ effect \in [Effect -> EffectRow]
  /\ call \in [Call -> CallState]
  /\ daemon \in {"down", "booting", "up"}
  /\ sweep \subseteq Effect
  /\ crashes \in 0..MaxCrashes
  /\ direct \subseteq Decision

Init ==
  /\ PolicyInit
  /\ effect = [e \in Effect |-> NoEffect]
  /\ call = [c \in Call |-> NoCall]
  /\ daemon = "down"
  /\ sweep = {}
  /\ crashes = 0
  /\ direct = {}

Free(c) == daemon = "up" /\ call[c] = NoCall /\ tx[c] = Idle
Return(c) == call' = [call EXCEPT ![c] = NoCall]

----------------------------------------------------------------------------
(* The policy routes: handleDecide, handleConsumeDecision and the operator's *)
(* approve and deny, used without an effect.                                 *)
HandleDecide(c, d, op, p, r) ==
  /\ Free(c) /\ Decide(d, op, p, r) /\ UNCHANGED effectVars

HandleConsume(c, d, p) ==
  /\ Free(c) /\ ConsumeLock(c, d, p) /\ UNCHANGED effectVars

HandleConsumed(c) ==
  /\ call[c] = NoCall
  /\ ConsumeCommit(c)
  /\ direct' = direct \cup {tx[c].row}
  /\ UNCHANGED <<effect, call, daemon, sweep, crashes>>

HandleApprove(c, d) ==
  /\ Free(c) /\ ApproveLock(c, d) /\ UNCHANGED effectVars

HandleApproved(c, fresh) ==
  /\ ApproveCommit(c, fresh) /\ UNCHANGED effectVars

HandleDeny(c, d) ==
  /\ Free(c) /\ Deny(d) /\ UNCHANGED effectVars

----------------------------------------------------------------------------
(* Propose: policy.Decide in its own transaction, then the INSERT.  A call   *)
(* that dies in between leaves a decision that no effect names.              *)
Propose(c, d, op, p, r) ==
  /\ Free(c)
  /\ Decide(d, op, p, r)
  /\ call' = [call EXCEPT ![c] = [step |-> "record", decision |-> d]]
  /\ UNCHANGED <<effect, daemon, sweep, crashes, direct>>

\* Mutant of RecordEffect: the decision's verdict is stored as the state.
RecordVerdict(c, e) ==
  /\ call[c].step = "record"
  /\ effect[e] = NoEffect
  /\ effect' = [effect EXCEPT ![e] =
       [state |-> decision[call[c].decision].result, decision |-> call[c].decision,
        digest |-> decision[call[c].decision].digest, version |-> 0]]
  /\ Return(c)
  /\ UNCHANGED <<policyVars, daemon, sweep, crashes, direct>>

RecordEffect(c, e) ==
  LET d == call[c].decision IN
  /\ call[c].step = "record"
  /\ effect[e] = NoEffect
  /\ effect' = [effect EXCEPT ![e] =
       [state    |-> IF decision[d].result = "admit" THEN "admitted" ELSE "needs_approval",
        decision |-> d,
        digest   |-> decision[d].digest,
        version  |-> 0]]
  /\ Return(c)
  /\ UNCHANGED <<policyVars, daemon, sweep, crashes, direct>>

----------------------------------------------------------------------------
(* MarkDispatchPending: Get, Consume the admitting decision for the digest   *)
(* of the payload about to ship, then the guarded UPDATE (Store).            *)
MarkDispatchPending(c, e, payload) ==
  /\ Free(c)
  /\ effect[e].state = "admitted"
  /\ call' = [call EXCEPT ![c] =
       [step |-> "consume", effect |-> e, seen |-> effect[e].version, payload |-> payload]]
  /\ UNCHANGED <<policyVars, effect, daemon, sweep, crashes, direct>>

DispatchConsume(c) ==
  /\ call[c].step = "consume"
  /\ ConsumeLock(c, effect[call[c].effect].decision, call[c].payload)
  /\ UNCHANGED effectVars

\* Mutant of DispatchRefused: the error of Consume is dropped.
DispatchAnyway(c) ==
  /\ call[c].step = "consume"
  /\ ConsumeRefused(c, effect[call[c].effect].decision, call[c].payload)
  /\ call' = [call EXCEPT ![c] =
       [step |-> "store", effect |-> call[c].effect, seen |-> call[c].seen,
        to |-> "dispatch_pending"]]
  /\ UNCHANGED <<effect, daemon, sweep, crashes, direct>>

DispatchRefused(c) ==
  /\ call[c].step = "consume"
  /\ ConsumeRefused(c, effect[call[c].effect].decision, call[c].payload)
  /\ Return(c)
  /\ UNCHANGED <<effect, daemon, sweep, crashes, direct>>

DispatchConsumed(c) ==
  /\ call[c].step = "consume"
  /\ ConsumeCommit(c)
  /\ call' = [call EXCEPT ![c] =
       [step |-> "store", effect |-> call[c].effect, seen |-> call[c].seen,
        to |-> "dispatch_pending"]]
  /\ UNCHANGED <<effect, daemon, sweep, crashes, direct>>

\* Consume committed and the call never learned it, for a dispatch or a direct consumer.
ConsumeLost(c) ==
  /\ ConsumeCommitUnacknowledged(c)
  /\ Return(c)
  /\ UNCHANGED <<effect, daemon, sweep, crashes, direct>>

----------------------------------------------------------------------------
(* The other transitions: Get and the state check, then Store.               *)
Load(c, e, from, to) ==
  /\ Free(c)
  /\ effect[e].state \in from
  /\ call' = [call EXCEPT ![c] =
       [step |-> "store", effect |-> e, seen |-> effect[e].version, to |-> to]]
  /\ UNCHANGED <<policyVars, effect, daemon, sweep, crashes, direct>>

MarkDispatched(c, e) == Load(c, e, {"dispatch_pending"}, "dispatched")
MarkObserved(c, e) == Load(c, e, {"dispatched"}, "observed")
MarkOutcomeUnknown(c, e) == Load(c, e, {"dispatched"}, "outcome_unknown")
Resolve(c, e, terminal) == Load(c, e, {"observed", "outcome_unknown"}, terminal)

\* Mutant of Store: UPDATE ... WHERE id only.
StoreBlindly(c) ==
  /\ call[c].step = "store"
  /\ effect' = [effect EXCEPT ![call[c].effect].state = call[c].to,
                              ![call[c].effect].version = @ + 1]
  /\ Return(c)
  /\ UNCHANGED <<policyVars, daemon, sweep, crashes, direct>>

\* updateState: UPDATE ... WHERE row_version = seen.
Store(c) ==
  LET e == call[c].effect IN
  /\ call[c].step = "store"
  /\ effect[e].version = call[c].seen
  /\ effect' = [effect EXCEPT ![e].state = call[c].to, ![e].version = @ + 1]
  /\ Return(c)
  /\ UNCHANGED <<policyVars, daemon, sweep, crashes, direct>>

\* updateState touched no row: the effect was concurrently modified.
StoreConflict(c) ==
  /\ call[c].step = "store"
  /\ effect[call[c].effect].version # call[c].seen
  /\ Return(c)
  /\ UNCHANGED <<policyVars, effect, daemon, sweep, crashes, direct>>

\* A statement fails or the request's context ends: the call returns an error
\* where it stands, and the transaction it has open rolls back.
CallFails(c) ==
  /\ call[c] # NoCall \/ tx[c] # Idle
  /\ tx' = [tx EXCEPT ![c] = Idle]
  /\ Return(c)
  /\ UNCHANGED <<decision, approval, now, permits, effect, daemon, sweep, crashes, direct>>

----------------------------------------------------------------------------
(* The daemon's life.  A crash ends every call and transaction; so does an   *)
(* error of the sweep, on which main exits.                                  *)
Crash ==
  /\ daemon # "down"
  /\ crashes < MaxCrashes
  /\ daemon' = "down"
  /\ crashes' = crashes + 1
  /\ call' = [c \in Call |-> NoCall]
  /\ sweep' = {}
  /\ PolicyCrash
  /\ UNCHANGED <<effect, direct>>

\* Mutant of Boot: start-up goes straight to the servers.
BootUnswept ==
  /\ daemon = "down"
  /\ daemon' = "booting"
  /\ UNCHANGED <<policyVars, effect, call, sweep, crashes, direct>>

\* main: ReconcileInterrupted lists the effects still 'dispatched' ...
Boot ==
  /\ daemon = "down"
  /\ daemon' = "booting"
  /\ sweep' = {e \in Effect : effect[e].state = "dispatched"}
  /\ UNCHANGED <<policyVars, effect, call, crashes, direct>>

\* ... and marks each outcome_unknown, through the same guarded UPDATE.  No
\* server is started yet, so nothing runs between its Get and its UPDATE.
SweepOne(e) ==
  /\ daemon = "booting"
  /\ e \in sweep
  /\ effect[e].state = "dispatched"
  /\ effect' = [effect EXCEPT ![e].state = "outcome_unknown", ![e].version = @ + 1]
  /\ sweep' = sweep \ {e}
  /\ UNCHANGED <<policyVars, call, daemon, crashes, direct>>

\* Mutant of Serve: the sweep runs in a goroutine beside the servers.
ServeEarly ==
  /\ daemon = "booting"
  /\ daemon' = "up"
  /\ UNCHANGED <<policyVars, effect, call, sweep, crashes, direct>>

\* Only then are the API server and the schedulers started.
Serve ==
  /\ daemon = "booting"
  /\ sweep = {}
  /\ daemon' = "up"
  /\ UNCHANGED <<policyVars, effect, call, sweep, crashes, direct>>

Clock == Tick /\ UNCHANGED effectVars

----------------------------------------------------------------------------
PolicyRoute(c) ==
  \/ \E d \in Decision, op \in Operation, p \in Payload, r \in Reversibility :
       HandleDecide(c, d, op, p, r)
  \/ \E d \in Decision, p \in Payload : HandleConsume(c, d, p)
  \/ HandleConsumed(c)
  \/ \E d \in Decision : HandleApprove(c, d) \/ HandleApproved(c, d) \/ HandleDeny(c, d)

Dispatching(c) ==
  \/ \E e \in Effect, p \in Payload : MarkDispatchPending(c, e, p)
  \/ DispatchConsume(c) \/ DispatchRefused(c) \/ DispatchConsumed(c) \/ ConsumeLost(c)

Tracking(c) ==
  \/ \E d \in Decision, op \in Operation, p \in Payload, r \in Reversibility :
       Propose(c, d, op, p, r)
  \/ \E e \in Effect :
       \/ RecordEffect(c, e)
       \/ MarkDispatched(c, e) \/ MarkObserved(c, e) \/ MarkOutcomeUnknown(c, e)
       \/ \E t \in isTerminal : Resolve(c, e, t)
  \/ Store(c) \/ StoreConflict(c) \/ CallFails(c)

Reconciling == Boot \/ (\E e \in Effect : SweepOne(e)) \/ Serve

Next ==
  \/ \E c \in Call : PolicyRoute(c) \/ Dispatching(c) \/ Tracking(c)
  \/ Crash \/ Reconciling \/ Clock

Spec == Init /\ [][Next]_vars

\* systemd restarts a dead daemon, and start-up runs straight to the servers.
FairSpec == Spec /\ WF_vars(Reconciling)

----------------------------------------------------------------------------
(* Properties *)

\* Dispatch is bound to the admitted action: an effect past admission holds a spent
\* admit decision for its own digest, whose one permit was for that digest and came
\* in time.  Propose, MarkDispatchPending and Consume together, at any crash point.
DispatchLicensed ==
  \A e \in Effect : effect[e].state \in PastAdmission =>
    LET d == effect[e].decision IN
    /\ decision[d].result = "admit"
    /\ decision[d].consumed
    /\ decision[d].digest = effect[e].digest
    /\ Len(permits[d]) = 1
    /\ Digest(permits[d][1].payload) = effect[e].digest
    /\ permits[d][1].at < decision[d].expires

\* One decision, one dispatcher: a decision that let an effect past admission let
\* no other effect past it and no caller of the policy route.
OneDispatcher ==
  \A e \in Effect : effect[e].state \in PastAdmission =>
    /\ effect[e].decision \notin direct
    /\ \A f \in Effect \ {e} : effect[f].decision # effect[e].decision

\* The servers never open while an effect from before the restart is still
\* 'dispatched': ReconcileInterrupted comes first, and main exits when it fails.
ServeAfterSweep ==
  [][daemon # "up" /\ daemon' = "up"
       => \A e \in Effect : effect'[e].state # "dispatched"]_vars

\* An effect whose dispatch a crash interrupted enters reconciliation: its record
\* leaves 'dispatched', as ReconcileInterrupted promises, even if start-up dies during the
\* sweep and starts again, as long as it does not die for ever.
InterruptedReconciled ==
  \A e \in Effect :
    (daemon = "down" /\ effect[e].state = "dispatched") ~> (effect[e].state = "outcome_unknown")

\* The detailed lifecycle implements the drawn one, one Store to each arrow.
Lifecycle == INSTANCE EffectLifecycle WITH
  life <- [e \in Effect |-> effect[e].state],
  license <- [e \in Effect |->
                IF effect[e].state \in {"absent", "needs_approval"} THEN "none"
                ELSE IF decision[effect[e].decision].consumed THEN "spent" ELSE "good"]

Implements == Lifecycle!LifecycleSpec
=============================================================================
