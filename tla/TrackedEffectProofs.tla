------------------------ MODULE TrackedEffectProofs ------------------------
(***************************************************************************)
(* Proofs about TrackedEffect, for every set of calls and drivers and      *)
(* every length of a failover chain.  Each step of a driver is a step of   *)
(* Operations, so OperationsProofs carries over; what is left to prove is  *)
(* that a driver and the record it drives stay in step.                    *)
(***************************************************************************)
EXTENDS TrackedEffect, OperationsProofs

Past == PastAdmission \ {"dispatch_pending"}

\* From its RecordEffect on, a driver has an effect for the payload it will run, and
\* it acts only when the record says so.
JobOf(c) ==
  /\ job[c].step \in Step \ {"propose"} =>
       /\ job[c].effect \in Effect /\ job[c].payload \in Payload
       /\ Present(job[c].effect)
       /\ Digest(job[c].payload) = effect[job[c].effect].digest
  /\ job[c].step \in {"act", "acting"} => effect[job[c].effect].state \in Past
  /\ job[c].step \in {"observed", "resolve"} => job[c].outcome \in Outcome

\* What the engine call of each step writes.
Writes ==
  [s \in {"dispatch_pending", "dispatched", "observed", "resolve"} |->
     IF s = "resolve" THEN {"confirmed", "failed"} ELSE {s}]

\* The engine call a driver has open is the one its step asks for.
CallOf(c) ==
  /\ call[c].step = "record" =>
       /\ job[c].step = "propose" /\ job[c].payload \in Payload
       /\ decision[call[c].decision].digest = Digest(job[c].payload)
  /\ call[c].step = "consume" =>
       job[c].step = "dispatch_pending" /\ call[c].effect = job[c].effect
  /\ call[c].step = "store" =>
       /\ job[c].step \in DOMAIN Writes
       /\ call[c].to \in Writes[job[c].step]
       /\ call[c].effect = job[c].effect

InStep == \A c \in Driver : JobOf(c) /\ CallOf(c)

TrackedInv == IInv /\ TrackedTypeOK /\ InStep /\ ActsOnlyDispatched

----------------------------------------------------------------------------
\* What an effect is about never changes, and one that was dispatched stays so.
LEMMA EffectKept ==
  ASSUME IInv, [Next]_vars, NEW e \in Effect, Present(e)
  PROVE  /\ Present(e)' /\ effect'[e].digest = effect[e].digest
         /\ effect[e].state \in Past => effect'[e].state \in Past
<1> DEFINE Kept == /\ Present(e)' /\ effect'[e].digest = effect[e].digest
                   /\ effect[e].state \in Past => effect'[e].state \in Past
<1>1. effect \in [Effect -> EffectRow]
  BY DEF IInv, TypeOK
<1>2. ASSUME NEW c \in Call, NEW f \in Effect, RecordEffect(c, f)
      PROVE  Kept
  <2>1. f # e /\ effect'[e] = effect[e]
    BY <1>1, <1>2 DEF RecordEffect, Present, NoEffect
  <2>2. QED
    BY <2>1 DEF Present
<1>3. ASSUME NEW f \in Effect, NEW s \in PastAdmission, effect[f].state \in From[s],
             effect' = [effect EXCEPT ![f] =
               [state |-> s, decision |-> effect[f].decision,
                digest |-> effect[f].digest, version |-> effect[f].version + 1]]
      PROVE  Kept
  <2>1. CASE f # e
    BY <1>1, <1>3, <2>1 DEF Present
  <2>2. CASE f = e
    <3>1. effect'[e].state = s /\ effect'[e].digest = effect[e].digest
      BY <1>1, <1>3, <2>2
    <3>2. effect[e].state \in Past => s \in Past
      BY <1>3, <2>2 DEF From, Past, PastAdmission, isTerminal
    <3>3. s # "absent"
      BY DEF PastAdmission, isTerminal
    <3>4. QED
      BY <3>1, <3>2, <3>3 DEF Present
  <2>3. QED
    BY <2>1, <2>2
<1>4. ASSUME NEW c \in Call, Store(c)
      PROVE  Kept
  BY <1>3, <1>4, StoreMoves
<1>5. ASSUME NEW f \in Effect, SweepOne(f)
      PROVE  Kept
  <2>1. /\ effect[f].state \in From["outcome_unknown"]
        /\ "outcome_unknown" \in PastAdmission
    BY <1>5 DEF SweepOne, From, PastAdmission
  <2>2. QED
    BY <1>3, <1>5, <2>1, SweepMoves
<1>6. CASE UNCHANGED effect
  BY <1>6 DEF Present
<1>7. QED
  BY <1>2, <1>4, <1>5, <1>6
  DEF Next, vars, effectVars, PolicyRoute, HandleDecide, HandleConsume, HandleConsumed,
      HandleApprove, HandleApproved, HandleDeny, Dispatching, MarkDispatchPending,
      DispatchConsume, DispatchRefused, DispatchConsumed, ConsumeLost, Tracking, Propose,
      MarkDispatched, MarkObserved, MarkOutcomeUnknown, Resolve, Load, StoreConflict,
      CallFails, Crash, Reconciling, Boot, Serve, Clock

\* What a call does to the calls in flight, it does to itself.
LEMMA Apart ==
  ASSUME TypeOK, NEW c \in Call, PolicyRoute(c) \/ Dispatching(c) \/ Tracking(c),
         NEW d \in Call \ {c}
  PROVE  call'[d] = call[d]
  BY DEF TypeOK, PolicyRoute, HandleDecide, HandleConsume, HandleConsumed, HandleApprove,
         HandleApproved, HandleDeny, Dispatching, MarkDispatchPending, DispatchConsume,
         DispatchRefused, DispatchConsumed, ConsumeLost, Tracking, Propose, RecordEffect,
         MarkDispatched, MarkObserved, MarkOutcomeUnknown, Resolve, Load, Store, StoreConflict,
         CallFails, Return, effectVars

\* Every way an engine call ends in an error is a step of Operations, or none, and the
\* call is over.
LEMMA ErrorRuns ==
  ASSUME TypeOK, NEW c \in Call, EngineError(c)
  PROVE  /\ UNCHANGED vars \/ Dispatching(c) \/ Tracking(c)
         /\ call'[c] = NoCall
<1>1. CASE call[c] = NoCall /\ UNCHANGED vars
  BY <1>1 DEF vars, effectVars
<1>2. CASE DispatchRefused(c) \/ ConsumeLost(c)
  BY <1>2 DEF Dispatching, DispatchRefused, ConsumeLost, Return, TypeOK
<1>3. CASE StoreConflict(c) \/ CallFails(c) \/ Store(c)
  BY <1>3 DEF Tracking, StoreConflict, CallFails, Store, Return, TypeOK
<1>4. CASE \E e \in Effect : RecordEffect(c, e)
  BY <1>4 DEF Tracking, RecordEffect, Return, TypeOK
<1>5. QED
  BY <1>1, <1>2, <1>3, <1>4 DEF EngineError

\* A driver makes the steps that any caller of Operations makes.
LEMMA DriveRuns ==
  ASSUME TypeOK, NEW c \in Driver, c \in Call, JobOf(c), Drive(c)
  PROVE  UNCHANGED vars \/ PolicyRoute(c) \/ Dispatching(c) \/ Tracking(c)
<1>1. CASE Launch(c) \/ HandleInferenceComplete(c) \/ HandleOpenAIChatCompletions(c)
  BY <1>1 DEF Launch, HandleInferenceComplete, HandleOpenAIChatCompletions, Ask
<1>2. CASE Unserved(c) \/ Act(c) \/ Acted(c)
  BY <1>2 DEF Unserved, Act, Acted
<1>3. CASE ProposeAction(c)
  BY <1>3 DEF ProposeAction, Tracking, Reversibility
<1>4. CASE Issue(c)
  <2>1. job[c].step \in Step \ {"propose"} /\ Terminal(c) \in isTerminal
    BY <1>4 DEF Issue, At, Step, Terminal, isTerminal
  <2>2. QED
    BY <1>4, <2>1 DEF Issue, Dispatching, Tracking, JobOf
<1>5. CASE Consuming(c)
  BY <1>5 DEF Consuming, Dispatching
<1>6. CASE Recorded(c)
  BY <1>6 DEF Recorded, Tracking
<1>7. CASE NotDispatched(c) \/ NotObserved(c)
  BY <1>7, ErrorRuns DEF NotDispatched, NotObserved
<1>8. QED
  BY <1>1, <1>2, <1>3, <1>4, <1>5, <1>6, <1>7 DEF Drive

\* Every step of the drivers and of everyone else is a step of Operations.
LEMMA EnginePart ==
  ASSUME TypeOK, InStep, [TrackedNext]_trackedVars
  PROVE  [Next]_vars
<1>1. CASE \E c \in Driver : Drive(c)
  <2>1. PICK c \in Driver : Drive(c)
    BY <1>1
  <2>2. c \in Call
    BY TrackedAssumption
  <2>3. QED
    BY <2>1, <2>2, DriveRuns DEF InStep, Next
<1>2. CASE \E c \in Call \ Driver : Other(c)
  BY <1>2 DEF Other, Next
<1>3. CASE DaemonCrash \/ ((Reconciling \/ Clock) /\ UNCHANGED jobVars)
  BY <1>3 DEF DaemonCrash, Next
<1>4. CASE UNCHANGED trackedVars
  BY <1>4 DEF trackedVars
<1>5. QED
  BY <1>1, <1>2, <1>3, <1>4 DEF TrackedNext

----------------------------------------------------------------------------
JobState == {NoJob} \cup Job

\* What a driver's step leaves in the drivers' state.
Drives(c) ==
  /\ JobOf(c)' /\ CallOf(c)'
  /\ job' \in [Driver -> JobState] /\ report' \in [Driver -> Outcome \cup {None}]
  /\ \A d \in Driver \ {c} : job'[d] = job[d]
  /\ acted' \subseteq Effect
  /\ \A e \in acted' \ acted : effect'[e].state \in Past

LEMMA JobShape ==
  ASSUME TrackedTypeOK, NEW c \in Driver
  PROVE  /\ job[c] \in JobState
         /\ job[c].step \in Step \cup {"idle"}
         /\ job[c].step \in Step => job[c] \in Job
         /\ job[c].step = "idle" <=> job[c] = NoJob
  BY DEF TrackedTypeOK, JobState, Job, NoJob, Step

\* A driver's job is over, or its chain is at the next provider.
LEMMA TellEffect ==
  ASSUME TrackedTypeOK, NEW c \in Driver, NEW o \in Outcome, Tell(c, o)
  PROVE  /\ job'[c] = NoJob /\ job'[c].step = "idle"
         /\ job' \in [Driver -> JobState] /\ report' \in [Driver -> Outcome \cup {None}]
         /\ \A d \in Driver \ {c} : job'[d] = job[d]
         /\ acted' = acted /\ report'[c] = o
  BY DEF Tell, TrackedTypeOK, JobState, NoJob

LEMMA AttemptEffect ==
  ASSUME TrackedTypeOK, NEW c \in Driver, NEW kind \in {"launch", "model"},
         NEW left \in 0..Providers, job' = [job EXCEPT ![c] = Attempt(kind, left)]
  PROVE  /\ job'[c] \in Job /\ job'[c].step = "propose"
         /\ job' \in [Driver -> JobState]
         /\ \A d \in Driver \ {c} : job'[d] = job[d]
<1>1. Attempt(kind, left) \in Job /\ Attempt(kind, left).step = "propose"
  BY DEF Attempt, Job, Step
<1>2. QED
  BY <1>1 DEF TrackedTypeOK, JobState

LEMMA NextEffect ==
  ASSUME TrackedTypeOK, NEW c \in Driver, job[c] \in Job, NextProvider(c)
  PROVE  /\ job'[c].step \in {"idle", "propose"}
         /\ job' \in [Driver -> JobState] /\ report' \in [Driver -> Outcome \cup {None}]
         /\ \A d \in Driver \ {c} : job'[d] = job[d]
         /\ acted' = acted
<1>1. CASE job[c].left > 0
  <2>1. job[c].left - 1 \in 0..Providers
    BY <1>1, TrackedAssumption DEF Job
  <2>2. /\ job' = [job EXCEPT ![c] = Attempt("model", job[c].left - 1)]
        /\ UNCHANGED <<report, acted>>
    BY <1>1 DEF NextProvider
  <2>3. QED
    BY <2>1, <2>2, AttemptEffect DEF TrackedTypeOK
<1>2. CASE ~(job[c].left > 0)
  BY <1>2, TellEffect DEF NextProvider, Outcome
<1>3. QED
  BY <1>1, <1>2

LEMMA AbandonEffect ==
  ASSUME TrackedTypeOK, NEW c \in Driver, job[c] \in Job, Abandon(c)
  PROVE  /\ job'[c].step \in {"idle", "propose"}
         /\ job' \in [Driver -> JobState] /\ report' \in [Driver -> Outcome \cup {None}]
         /\ \A d \in Driver \ {c} : job'[d] = job[d]
         /\ acted' = acted
  BY TellEffect, NextEffect DEF Abandon, Outcome

\* A driver goes on to another step of the same job.
LEMMA GoToEffect ==
  ASSUME TrackedTypeOK, NEW c \in Driver, job[c] \in Job, NEW s \in Step, GoTo(c, s)
  PROVE  /\ job'[c].step = s /\ job'[c].effect = job[c].effect
         /\ job'[c].payload = job[c].payload
         /\ job'[c].outcome = job[c].outcome /\ job'[c].kind = job[c].kind
         /\ job' \in [Driver -> JobState]
         /\ \A d \in Driver \ {c} : job'[d] = job[d]
         /\ report' = report /\ acted' = acted
<1> DEFINE t == [job[c] EXCEPT !.step = s]
<1>1. /\ t \in Job /\ t.step = s /\ t.effect = job[c].effect /\ t.payload = job[c].payload
      /\ t.outcome = job[c].outcome /\ t.kind = job[c].kind
  BY DEF Job
<1>2. job' = [job EXCEPT ![c] = t] /\ report' = report /\ acted' = acted
  BY DEF GoTo, TrackedTypeOK
<1> HIDE DEF t
<1>3. QED
  BY <1>1, <1>2 DEF TrackedTypeOK, JobState

\* Between two attempts nothing is known and nothing is open.
LEMMA Between ==
  ASSUME NEW c \in Driver, call'[c] = NoCall, job'[c].step \in {"idle", "propose"}
  PROVE  JobOf(c)' /\ CallOf(c)'
  BY DEF JobOf, CallOf, NoCall, Step

\* What an effect is for its driver, it stays, whoever steps.
LEMMA Held ==
  ASSUME TrackedInv, [Next]_vars, NEW c \in Driver, job[c].step \in Step \ {"propose"},
         job'[c].effect = job[c].effect, job'[c].payload = job[c].payload
  PROVE  /\ job'[c].effect \in Effect /\ job'[c].payload \in Payload
         /\ Present(job[c].effect)'
         /\ Digest(job'[c].payload) = effect'[job'[c].effect].digest
         /\ effect[job[c].effect].state \in Past => effect'[job'[c].effect].state \in Past
<1>1. /\ job[c].effect \in Effect /\ job[c].payload \in Payload
      /\ Present(job[c].effect)
      /\ Digest(job[c].payload) = effect[job[c].effect].digest
  BY DEF TrackedInv, InStep, JobOf
<1>2. /\ Present(job'[c].effect) /\ effect[job'[c].effect].digest = Digest(job'[c].payload)
      /\ job'[c].effect \in Effect
  BY <1>1
<1>3. /\ effect'[job'[c].effect].state # "absent"
      /\ effect'[job'[c].effect].digest = effect[job'[c].effect].digest
      /\ effect[job'[c].effect].state \in Past => effect'[job'[c].effect].state \in Past
  BY <1>2, EffectKept DEF TrackedInv, Present
<1>4. QED
  BY <1>1, <1>2, <1>3 DEF Present

\* A driver whose job and call are left alone is still in step.
LEMMA Undisturbed ==
  ASSUME TrackedInv, [Next]_vars, NEW c \in Driver, job'[c] = job[c], call'[c] = call[c]
  PROVE  JobOf(c)' /\ CallOf(c)'
<1> USE DEF TrackedInv
<1>1. c \in Call /\ JobOf(c) /\ CallOf(c)
  BY TrackedAssumption DEF InStep
<1>2. JobOf(c)'
  BY <1>1, Held DEF JobOf, Step
<1>3. call[c].step = "record" =>
        decision'[call[c].decision].digest = decision[call[c].decision].digest
  BY <1>1, CallKinds, DecidedKept, PolicyPart DEF IInv, Recording, RecordingOf
<1>4. CallOf(c)'
  BY <1>1, <1>3 DEF CallOf
<1>5. QED
  BY <1>2, <1>4

----------------------------------------------------------------------------
(* One lemma for each kind of step a driver makes. *)

LEMMA StartStep ==
  ASSUME TrackedInv, NEW c \in Driver,
         Launch(c) \/ HandleInferenceComplete(c) \/ HandleOpenAIChatCompletions(c)
  PROVE  Drives(c)
<1> USE DEF TrackedInv
<1>1. \E kind \in {"launch", "model"}, left \in 0..Providers :
        job' = [job EXCEPT ![c] = Attempt(kind, left)]
  <2>1. CASE Launch(c)
    <3>1. 0 \in 0..Providers
      BY TrackedAssumption
    <3>2. job' = [job EXCEPT ![c] = Attempt("launch", 0)]
      BY <2>1 DEF Launch
    <3>3. QED
      BY <3>1, <3>2
  <2>2. ASSUME NEW n \in 1..Providers, Ask(c, n)
        PROVE  n - 1 \in 0..Providers /\ job' = [job EXCEPT ![c] = Attempt("model", n - 1)]
    BY <2>2, TrackedAssumption DEF Ask
  <2>3. 1 \in 1..Providers
    BY TrackedAssumption
  <2>4. QED
    BY <2>1, <2>2, <2>3 DEF HandleInferenceComplete, HandleOpenAIChatCompletions
<1>2. call'[c] = NoCall /\ UNCHANGED <<report, acted>>
  BY DEF Launch, HandleInferenceComplete, HandleOpenAIChatCompletions, Ask, Free, vars, effectVars
<1>3. /\ job'[c].step = "propose" /\ job' \in [Driver -> JobState]
      /\ \A d \in Driver \ {c} : job'[d] = job[d]
  BY <1>1, AttemptEffect
<1>4. JobOf(c)' /\ CallOf(c)'
  BY <1>2, <1>3, Between
<1>5. QED
  BY <1>2, <1>3, <1>4 DEF Drives, TrackedTypeOK

LEMMA UnservedStep ==
  ASSUME TrackedInv, NEW c \in Driver, Unserved(c)
  PROVE  Drives(c)
<1> USE DEF TrackedInv
<1>1. call'[c] = NoCall /\ job[c] \in Job
  BY JobShape DEF Unserved, At, Step, vars, effectVars
<1>2. /\ job'[c].step \in {"idle", "propose"}
      /\ job' \in [Driver -> JobState] /\ report' \in [Driver -> Outcome \cup {None}]
      /\ \A d \in Driver \ {c} : job'[d] = job[d]
      /\ acted' = acted
  BY <1>1, NextEffect DEF Unserved
<1>3. QED
  BY <1>1, <1>2, Between DEF Drives, TrackedTypeOK

LEMMA ProposeStep ==
  ASSUME TrackedInv, NEW c \in Driver, ProposeAction(c)
  PROVE  Drives(c)
<1> USE DEF TrackedInv
<1>1. PICK d \in Decision, op \in Operation, p \in Payload :
        /\ Propose(c, d, op, p, "verified")
        /\ job' = [job EXCEPT ![c].payload = p]
  BY DEF ProposeAction
<1>2. job[c].step = "propose" /\ job[c] \in Job /\ UNCHANGED <<report, acted>>
  BY JobShape DEF ProposeAction, At, Step
<1> DEFINE t == [job[c] EXCEPT !.payload = p]
<1>3. t \in Job /\ t.step = "propose" /\ t.payload = p
  BY <1>2 DEF Job
<1>4. job' = [job EXCEPT ![c] = t]
  BY <1>1 DEF TrackedTypeOK
<1> HIDE DEF t
<1>5. /\ job'[c] = t /\ job' \in [Driver -> JobState]
      /\ \A b \in Driver \ {c} : job'[b] = job[b]
  BY <1>3, <1>4 DEF TrackedTypeOK, JobState
<1>6. call'[c] = [step |-> "record", decision |-> d]
  BY <1>1, TrackedAssumption DEF Propose, IInv, TypeOK
<1>7. decision'[d].digest = Digest(p)
  BY <1>1 DEF Propose, Decide, IInv, TypeOK, PolicyTypeOK
<1>8. JobOf(c)'
  BY <1>3, <1>5 DEF JobOf
<1>9. CallOf(c)'
  BY <1>3, <1>5, <1>6, <1>7 DEF CallOf
<1>10. QED
  BY <1>2, <1>5, <1>8, <1>9 DEF Drives, TrackedTypeOK

\* A Get and its state check open the engine call that the driver's step asks for.
LEMMA IssueStep ==
  ASSUME TrackedInv, [Next]_vars, NEW c \in Driver, Issue(c)
  PROVE  Drives(c)
<1> USE DEF TrackedInv
<1> DEFINE e == job[c].effect
<1>1. job' = job /\ report' = report /\ acted' = acted
  BY DEF Issue, jobVars
<1>2. /\ c \in Call /\ call \in [Call -> CallState]
      /\ UNCHANGED effect
      /\ JobOf(c)
  BY TrackedAssumption
  DEF IInv, TypeOK, InStep, Issue, MarkDispatchPending, MarkDispatched, MarkObserved, Resolve,
      Load
<1>3. CallOf(c)'
  <2>1. CASE At(c, "dispatch_pending") /\ MarkDispatchPending(c, e, job[c].payload)
    <3>1. call'[c] = [step |-> "consume", effect |-> e, seen |-> effect[e].version,
                      payload |-> job[c].payload]
      BY <1>2, <2>1 DEF MarkDispatchPending
    <3>2. QED
      BY <1>1, <2>1, <3>1 DEF CallOf, At
  <2>2. ASSUME NEW to, NEW from, Load(c, e, from, to), job[c].step \in DOMAIN Writes,
               to \in Writes[job[c].step]
        PROVE  CallOf(c)'
    <3>1. call'[c] = [step |-> "store", effect |-> e, seen |-> effect[e].version, to |-> to]
      BY <1>2, <2>2 DEF Load
    <3>2. QED
      BY <1>1, <2>2, <3>1 DEF CallOf
  <2>3. CASE At(c, "dispatched") /\ MarkDispatched(c, e)
    BY <2>2, <2>3 DEF MarkDispatched, At, Writes
  <2>4. CASE At(c, "observed") /\ MarkObserved(c, e)
    BY <2>2, <2>4 DEF MarkObserved, At, Writes
  <2>5. CASE At(c, "resolve") /\ Resolve(c, e, Terminal(c))
    <3>1. Terminal(c) \in {"confirmed", "failed"}
      BY DEF Terminal
    <3>2. job[c].step \in DOMAIN Writes /\ Terminal(c) \in Writes[job[c].step]
      BY <2>5, <3>1 DEF At, Writes
    <3>3. QED
      BY <2>2, <2>5, <3>2 DEF Resolve
  <2>6. QED
    BY <2>1, <2>3, <2>4, <2>5 DEF Issue
<1>4. JobOf(c)'
  BY <1>1, <1>2 DEF JobOf, Present
<1>5. QED
  BY <1>1, <1>3, <1>4 DEF Drives, TrackedTypeOK, JobState

LEMMA ConsumingStep ==
  ASSUME TrackedInv, [Next]_vars, NEW c \in Driver, Consuming(c)
  PROVE  Drives(c)
<1> USE DEF TrackedInv
<1>1. job' = job /\ report' = report /\ acted' = acted
  BY DEF Consuming, jobVars
<1>2. c \in Call /\ call \in [Call -> CallState] /\ JobOf(c) /\ CallOf(c)
  BY TrackedAssumption DEF IInv, TypeOK, InStep
<1>3. JobOf(c)' /\ CallOf(c)'
  <2>1. CASE DispatchConsume(c)
    BY <1>1, <2>1, Undisturbed DEF DispatchConsume, effectVars
  <2>2. CASE DispatchConsumed(c)
    <3>1. call'[c] = [step |-> "store", effect |-> call[c].effect, seen |-> call[c].seen,
                      to |-> "dispatch_pending"]
      BY <1>2, <2>2 DEF DispatchConsumed
    <3>2. job[c].step = "dispatch_pending" /\ call[c].effect = job[c].effect
      BY <1>2, <2>2 DEF DispatchConsumed, CallOf
    <3>3. CallOf(c)'
      BY <1>1, <3>1, <3>2 DEF CallOf, Writes
    <3>4. JobOf(c)'
      BY <1>1, <1>2, <2>2 DEF JobOf, Present, DispatchConsumed
    <3>5. QED
      BY <3>3, <3>4
  <2>3. QED
    BY <2>1, <2>2 DEF Consuming
<1>4. QED
  BY <1>1, <1>3 DEF Drives, TrackedTypeOK, JobState

\* The effect is there, for the digest of the payload that was proposed.
LEMMA RecordedEffectStep ==
  ASSUME TrackedInv, NEW c \in Driver, NEW e \in Effect, RecordEffect(c, e),
         job' = [job EXCEPT ![c].step = "dispatch_pending", ![c].effect = e],
         UNCHANGED <<report, acted>>
  PROVE  Drives(c)
<1> USE DEF TrackedInv
<1>1. /\ c \in Call /\ CallOf(c) /\ call \in [Call -> CallState]
      /\ effect \in [Effect -> EffectRow] /\ call[c].step = "record"
  BY TrackedAssumption DEF IInv, TypeOK, InStep, RecordEffect
<1>2. /\ job[c].step = "propose" /\ job[c].payload \in Payload
      /\ decision[call[c].decision].digest = Digest(job[c].payload)
      /\ job[c] \in Job
  BY <1>1, JobShape DEF CallOf, Step
<1> DEFINE t == [job[c] EXCEPT !.step = "dispatch_pending", !.effect = e]
<1>3. t \in Job /\ t.step = "dispatch_pending" /\ t.effect = e /\ t.payload = job[c].payload
  BY <1>2 DEF Job, Step
<1>4. job' = [job EXCEPT ![c] = t]
  BY DEF TrackedTypeOK
<1> HIDE DEF t
<1>5. /\ job'[c] = t /\ job' \in [Driver -> JobState]
      /\ \A b \in Driver \ {c} : job'[b] = job[b]
  BY <1>3, <1>4 DEF TrackedTypeOK, JobState
<1>6. effect'[e].digest = Digest(job[c].payload) /\ effect'[e].state # "absent"
  BY <1>1, <1>2 DEF RecordEffect
<1>7. call'[c] = NoCall
  BY <1>1 DEF RecordEffect, Return
<1>8. JobOf(c)'
  BY <1>2, <1>3, <1>5, <1>6 DEF JobOf, Present
<1>9. CallOf(c)'
  BY <1>7 DEF CallOf, NoCall
<1>10. QED
  BY <1>5, <1>8, <1>9 DEF Drives, TrackedTypeOK

\* The row took the transition of the driver's step.
LEMMA RecordedStoreStep ==
  ASSUME TrackedInv, [Next]_vars, NEW c \in Driver, Store(c), Recorded(c)
  PROVE  Drives(c)
<1> USE DEF TrackedInv
<1>1. /\ c \in Call /\ CallOf(c) /\ JobOf(c) /\ call \in [Call -> CallState]
      /\ call[c].step = "store"
  BY TrackedAssumption DEF IInv, TypeOK, InStep, Store
<1>2. /\ job[c].step \in DOMAIN Writes /\ call[c].to \in Writes[job[c].step]
      /\ call[c].effect = job[c].effect
  BY <1>1 DEF CallOf
<1>3. job[c].step \in Step \ {"propose"} /\ job[c] \in Job
  BY <1>2, JobShape DEF Writes, Step
<1>4. call'[c] = NoCall
  BY <1>1 DEF Store, Return
<1>5. CallOf(c)'
  BY <1>4 DEF CallOf, NoCall
<1>6. /\ job[c].effect \in Effect
      /\ effect'[job[c].effect].state = call[c].to
  <2>1. effect \in [Effect -> EffectRow]
    BY DEF IInv, TypeOK
  <2>2. /\ call[c].effect \in Effect
        /\ effect' = [effect EXCEPT ![call[c].effect] =
             [state |-> call[c].to, decision |-> effect[call[c].effect].decision,
              digest |-> effect[call[c].effect].digest,
              version |-> effect[call[c].effect].version + 1]]
    BY <1>1, StoreMoves
  <2>3. QED
    BY <1>2, <2>1, <2>2
<1>7. CASE job[c].step = "dispatch_pending" /\ GoTo(c, "dispatched")
  <2>1. /\ job'[c].step = "dispatched" /\ job'[c].effect = job[c].effect
        /\ job'[c].payload = job[c].payload
        /\ job' \in [Driver -> JobState]
        /\ \A d \in Driver \ {c} : job'[d] = job[d]
        /\ report' = report /\ acted' = acted
    BY <1>3, <1>7, GoToEffect DEF Step
  <2>2. JobOf(c)'
    BY <1>3, <2>1, Held DEF JobOf, Present
  <2>3. QED
    BY <1>5, <2>1, <2>2 DEF Drives, TrackedTypeOK
<1>8. CASE job[c].step = "dispatched" /\ GoTo(c, "act")
  <2>1. /\ job'[c].step = "act" /\ job'[c].effect = job[c].effect
        /\ job'[c].payload = job[c].payload
        /\ job' \in [Driver -> JobState]
        /\ \A d \in Driver \ {c} : job'[d] = job[d]
        /\ report' = report /\ acted' = acted
    BY <1>3, <1>8, GoToEffect DEF Step
  <2>2. effect'[job[c].effect].state \in Past
    BY <1>2, <1>6, <1>8 DEF Writes, Past, PastAdmission
  <2>3. JobOf(c)'
    BY <1>3, <2>1, <2>2, Held DEF JobOf, Present
  <2>4. QED
    BY <1>5, <2>1, <2>3 DEF Drives, TrackedTypeOK
<1>9. CASE job[c].step = "observed" /\ GoTo(c, "resolve")
  <2>1. /\ job'[c].step = "resolve" /\ job'[c].effect = job[c].effect
        /\ job'[c].payload = job[c].payload /\ job'[c].outcome = job[c].outcome
        /\ job' \in [Driver -> JobState]
        /\ \A d \in Driver \ {c} : job'[d] = job[d]
        /\ report' = report /\ acted' = acted
    BY <1>3, <1>9, GoToEffect DEF Step
  <2>2. JobOf(c)'
    BY <1>1, <1>3, <1>9, <2>1, Held DEF JobOf, Present
  <2>3. QED
    BY <1>5, <2>1, <2>2 DEF Drives, TrackedTypeOK
<1>10. CASE job[c].step = "resolve" /\ Reports(c)
  <2>1. job[c].outcome \in Outcome
    BY <1>1, <1>10 DEF JobOf
  <2>2. /\ job'[c].step \in {"idle", "propose"}
        /\ job' \in [Driver -> JobState] /\ report' \in [Driver -> Outcome \cup {None}]
        /\ \A d \in Driver \ {c} : job'[d] = job[d]
        /\ acted' = acted
    BY <1>3, <1>10, <2>1, NextEffect, TellEffect DEF Reports
  <2>3. QED
    BY <1>4, <2>2, Between DEF Drives, TrackedTypeOK
<1>11. ASSUME NEW e \in Effect, RecordEffect(c, e)
       PROVE  FALSE
  BY <1>1, <1>11 DEF RecordEffect
<1>12. QED
  BY <1>7, <1>8, <1>9, <1>10, <1>11 DEF Recorded

\* The action begins under an effect that was dispatched.
LEMMA ActStep ==
  ASSUME TrackedInv, NEW c \in Driver, Act(c)
  PROVE  Drives(c)
<1> USE DEF TrackedInv
<1>1. /\ JobOf(c) /\ job[c].step = "act" /\ job[c] \in Job /\ call[c] = NoCall
  BY JobShape DEF InStep, Act, At, Step
<1>2. job' = [job EXCEPT ![c].step = "acting"] /\ report' = report
  BY DEF Act
<1> DEFINE t == [job[c] EXCEPT !.step = "acting"]
<1>3. /\ t \in Job /\ t.step = "acting" /\ t.effect = job[c].effect
      /\ t.payload = job[c].payload
  BY <1>1 DEF Job, Step
<1>4. job' = [job EXCEPT ![c] = t]
  BY <1>2 DEF TrackedTypeOK
<1> HIDE DEF t
<1>5. /\ job'[c] = t /\ job' \in [Driver -> JobState]
      /\ \A b \in Driver \ {c} : job'[b] = job[b]
  BY <1>3, <1>4 DEF TrackedTypeOK, JobState
<1>6. UNCHANGED <<effect, call>>
  BY DEF Act, vars, effectVars
<1>7. /\ job[c].effect \in Effect /\ effect[job[c].effect].state \in Past
      /\ job[c].payload \in Payload /\ Present(job[c].effect)
      /\ Digest(job[c].payload) = effect[job[c].effect].digest
  BY <1>1 DEF JobOf, Step
<1>8. JobOf(c)'
  BY <1>3, <1>5, <1>6, <1>7 DEF JobOf, Present
<1>9. CallOf(c)'
  BY <1>1, <1>6 DEF CallOf, NoCall
<1>10. acted' = acted \cup {job[c].effect}
  BY DEF Act
<1>11. QED
  BY <1>2, <1>5, <1>6, <1>7, <1>8, <1>9, <1>10 DEF Drives, TrackedTypeOK

LEMMA ActedStep ==
  ASSUME TrackedInv, NEW c \in Driver, Acted(c)
  PROVE  Drives(c)
<1> USE DEF TrackedInv
<1>1. /\ JobOf(c) /\ job[c].step = "acting" /\ job[c] \in Job /\ call[c] = NoCall
  BY JobShape DEF InStep, Acted, At, Step
<1>2. PICK o \in Outcome :
        job' = [job EXCEPT ![c].step = "observed", ![c].outcome = o]
  BY DEF Acted
<1> DEFINE t == [job[c] EXCEPT !.step = "observed", !.outcome = o]
<1>3. /\ t \in Job /\ t.step = "observed" /\ t.effect = job[c].effect
      /\ t.payload = job[c].payload /\ t.outcome = o
  BY <1>1 DEF Job, Step
<1>4. job' = [job EXCEPT ![c] = t]
  BY <1>2 DEF TrackedTypeOK
<1> HIDE DEF t
<1>5. /\ job'[c] = t /\ job' \in [Driver -> JobState]
      /\ \A b \in Driver \ {c} : job'[b] = job[b]
  BY <1>3, <1>4 DEF TrackedTypeOK, JobState
<1>6. UNCHANGED <<effect, call, report, acted>>
  BY DEF Acted, vars, effectVars
<1>7. /\ job[c].effect \in Effect
      /\ job[c].payload \in Payload /\ Present(job[c].effect)
      /\ Digest(job[c].payload) = effect[job[c].effect].digest
  BY <1>1 DEF JobOf, Step
<1>8. JobOf(c)'
  BY <1>3, <1>5, <1>6, <1>7 DEF JobOf, Present
<1>9. CallOf(c)'
  BY <1>1, <1>6 DEF CallOf, NoCall
<1>10. QED
  BY <1>5, <1>6, <1>8, <1>9 DEF Drives, TrackedTypeOK

LEMMA NotDispatchedStep ==
  ASSUME TrackedInv, NEW c \in Driver, NotDispatched(c)
  PROVE  Drives(c)
<1> USE DEF TrackedInv
<1>1. job[c] \in Job /\ call'[c] = NoCall
  BY JobShape, ErrorRuns, TrackedAssumption DEF NotDispatched, Step, IInv
<1>2. /\ job'[c].step \in {"idle", "propose"}
      /\ job' \in [Driver -> JobState] /\ report' \in [Driver -> Outcome \cup {None}]
      /\ \A d \in Driver \ {c} : job'[d] = job[d]
      /\ acted' = acted
  BY <1>1, AbandonEffect DEF NotDispatched
<1>3. QED
  BY <1>1, <1>2, Between DEF Drives, TrackedTypeOK

LEMMA NotObservedStep ==
  ASSUME TrackedInv, [Next]_vars, NEW c \in Driver, NotObserved(c)
  PROVE  Drives(c)
<1> USE DEF TrackedInv
<1>1. /\ job[c].step \in {"observed", "resolve"} /\ job[c] \in Job /\ call'[c] = NoCall
      /\ job[c].outcome \in Outcome /\ job[c].step \in Step \ {"propose"}
  BY JobShape, ErrorRuns, TrackedAssumption DEF NotObserved, Step, InStep, JobOf, IInv
<1>2. \/ NextProvider(c)
      \/ job[c].step = "observed" /\ GoTo(c, "resolve")
      \/ Tell(c, job[c].outcome)
  BY DEF NotObserved
<1>3. CASE NextProvider(c) \/ Tell(c, job[c].outcome)
  <2>1. /\ job'[c].step \in {"idle", "propose"}
        /\ job' \in [Driver -> JobState] /\ report' \in [Driver -> Outcome \cup {None}]
        /\ \A d \in Driver \ {c} : job'[d] = job[d]
        /\ acted' = acted
    BY <1>1, <1>3, NextEffect, TellEffect
  <2>2. QED
    BY <1>1, <2>1, Between DEF Drives, TrackedTypeOK
<1>4. CASE GoTo(c, "resolve")
  <2>1. /\ job'[c].step = "resolve" /\ job'[c].effect = job[c].effect
        /\ job'[c].payload = job[c].payload /\ job'[c].outcome = job[c].outcome
        /\ job' \in [Driver -> JobState]
        /\ \A d \in Driver \ {c} : job'[d] = job[d]
        /\ report' = report /\ acted' = acted
    BY <1>1, <1>4, GoToEffect DEF Step
  <2>2. JobOf(c)'
    BY <1>1, <2>1, Held DEF JobOf, Present
  <2>3. CallOf(c)'
    BY <1>1 DEF CallOf, NoCall
  <2>4. QED
    BY <2>1, <2>2, <2>3 DEF Drives, TrackedTypeOK
<1>5. QED
  BY <1>2, <1>3, <1>4

----------------------------------------------------------------------------
LEMMA DriveStep ==
  ASSUME TrackedInv, [Next]_vars, NEW c \in Driver, Drive(c)
  PROVE  Drives(c)
<1>1. CASE Recorded(c)
  <2>1. CASE Store(c)
    BY <1>1, <2>1, RecordedStoreStep
  <2>2. CASE ~Store(c)
    BY <1>1, <2>2, RecordedEffectStep DEF Recorded
  <2>3. QED
    BY <2>1, <2>2
<1>2. QED
  BY <1>1, StartStep, UnservedStep, ProposeStep, IssueStep, ConsumingStep, ActStep, ActedStep,
     NotDispatchedStep, NotObservedStep DEF Drive

\* A step of others: the drivers stay where they are, or all end with the daemon.
LEMMA ElseStep ==
  ASSUME TrackedInv, [Next]_vars,
         \/ \E c \in Call \ Driver : Other(c)
         \/ DaemonCrash
         \/ (Reconciling \/ Clock) /\ UNCHANGED jobVars
         \/ UNCHANGED trackedVars
  PROVE  /\ InStep'
         /\ job' \in [Driver -> JobState] /\ report' = report /\ acted' = acted
<1> USE DEF TrackedInv
<1>1. job \in [Driver -> JobState] /\ call \in [Call -> CallState] /\ TypeOK
  BY DEF TrackedTypeOK, JobState, IInv, TypeOK
<1>2. CASE DaemonCrash
  <2>1. \A c \in Driver : call'[c] = NoCall /\ job'[c] = NoJob
    BY <1>2, TrackedAssumption DEF DaemonCrash, Crash
  <2>2. job' \in [Driver -> JobState] /\ report' = report /\ acted' = acted
    BY <1>2 DEF DaemonCrash, JobState
  <2>3. \A c \in Driver : JobOf(c)' /\ CallOf(c)'
    BY <2>1, Between DEF NoJob
  <2>4. QED
    BY <2>2, <2>3 DEF InStep
<1>3. CASE ~DaemonCrash
  <2>1. job' = job /\ report' = report /\ acted' = acted
    BY <1>3 DEF Other, jobVars, trackedVars
  <2>2. \A c \in Driver : call'[c] = call[c]
    <3>1. CASE \E c \in Call \ Driver : Other(c)
      BY <1>1, <3>1, Apart, TrackedAssumption DEF Other
    <3>2. CASE ~\E c \in Call \ Driver : Other(c)
      BY <1>3, <3>2 DEF Reconciling, Boot, SweepOne, Serve, Clock, effectVars, trackedVars, vars
    <3>3. QED
      BY <3>1, <3>2
  <2>3. InStep'
    BY <2>1, <2>2, Undisturbed DEF InStep
  <2>4. QED
    BY <1>1, <2>1, <2>3
<1>4. QED
  BY <1>2, <1>3

LEMMA TrackedInvStep ==
  ASSUME TrackedInv, [TrackedNext]_trackedVars
  PROVE  TrackedInv'
<1> USE DEF TrackedInv
<1>1. [Next]_vars
  BY EnginePart DEF IInv
<1>2. IInv'
  BY <1>1, InvStep
<1>3. /\ InStep'
      /\ job' \in [Driver -> JobState] /\ report' \in [Driver -> Outcome \cup {None}]
      /\ acted' \subseteq Effect
      /\ \A e \in acted' \ acted : effect'[e].state \in Past
  <2>1. CASE \E c \in Driver : Drive(c)
    <3>1. PICK c \in Driver : Drive(c)
      BY <2>1
    <3>2. Drives(c) /\ c \in Call /\ TypeOK /\ JobOf(c)
      BY <1>1, <3>1, DriveStep, TrackedAssumption DEF IInv, InStep
    <3>3. ASSUME NEW d \in Driver \ {c}
          PROVE  JobOf(d)' /\ CallOf(d)'
      <4>1. job'[d] = job[d] /\ d \in Call \ {c}
        BY <3>2, TrackedAssumption DEF Drives
      <4>2. call'[d] = call[d]
        BY <3>1, <3>2, <4>1, DriveRuns, Apart DEF vars, effectVars
      <4>3. QED
        BY <1>1, <4>1, <4>2, Undisturbed
    <3>4. QED
      BY <3>2, <3>3 DEF Drives, InStep
  <2>2. CASE ~\E c \in Driver : Drive(c)
    <3>1. /\ InStep'
          /\ job' \in [Driver -> JobState] /\ report' = report /\ acted' = acted
      BY <1>1, <2>2, ElseStep DEF TrackedNext
    <3>2. QED
      BY <3>1 DEF TrackedTypeOK
  <2>3. QED
    BY <2>1, <2>2
<1>4. TrackedTypeOK'
  BY <1>2, <1>3 DEF TrackedTypeOK, JobState, IInv
<1>5. ASSUME NEW e \in acted'
      PROVE  effect'[e].state \in Past
  <2>1. CASE e \in acted
    <3>1. effect[e].state \in Past /\ e \in Effect
      BY <2>1 DEF ActsOnlyDispatched, Past, TrackedTypeOK
    <3>2. Present(e)
      BY <3>1 DEF Present, Past, PastAdmission, isTerminal
    <3>3. QED
      BY <1>1, <3>1, <3>2, EffectKept
  <2>2. CASE e \notin acted
    BY <1>3, <2>2
  <2>3. QED
    BY <2>1, <2>2
<1>6. ASSUME NEW c \in Driver, job'[c].step = "acting"
      PROVE  Digest(job'[c].payload) = effect'[job'[c].effect].digest
  BY <1>3, <1>6 DEF InStep, JobOf, Step
<1>7. ActsOnlyDispatched'
  BY <1>5, <1>6 DEF ActsOnlyDispatched, Past, Digest
<1>8. QED
  BY <1>2, <1>3, <1>4, <1>7

LEMMA TrackedInitInv == TrackedInit => TrackedInv
<1> SUFFICES ASSUME TrackedInit
             PROVE  TrackedInv
  OBVIOUS
<1>1. IInv /\ TypeOK
  BY InitInv DEF TrackedInit, IInv
<1>2. \A c \in Driver : job[c] = NoJob /\ c \in Call
  BY TrackedAssumption DEF TrackedInit
<1>3. \A c \in Call : call[c] = NoCall
  BY DEF TrackedInit, Init
<1>4. TrackedTypeOK
  BY <1>1 DEF TrackedInit, TrackedTypeOK
<1>5. InStep
  BY <1>2, <1>3 DEF InStep, JobOf, CallOf, NoJob, NoCall, Step
<1>6. ActsOnlyDispatched
  BY <1>2 DEF TrackedInit, ActsOnlyDispatched, NoJob
<1>7. QED
  BY <1>1, <1>4, <1>5, <1>6 DEF TrackedInv

\* The inductive invariant holds in every reachable state.
THEOREM TrackedInvariant == TrackedSpec => []TrackedInv
<1>1. TrackedInv /\ [TrackedNext]_trackedVars => TrackedInv'
  BY TrackedInvStep
<1>2. QED
  BY <1>1, TrackedInitInv, PTL DEF TrackedSpec

\* The drivers are callers of the lifecycle like any other: with them in it the daemon
\* behaves as Operations says, so that every theorem of OperationsProofs holds of it.
THEOREM RunsOperations == TrackedSpec => Spec
<1>1. TrackedInit => Init
  BY DEF TrackedInit
<1>2. TrackedInv /\ [TrackedNext]_trackedVars => [Next]_vars
  BY EnginePart DEF TrackedInv, IInv
<1>3. QED
  BY <1>1, <1>2, TrackedInvariant, PTL DEF TrackedSpec, Spec

\* Types of the drivers' jobs, reports and engine calls.
THEOREM TrackedTypeCorrect == TrackedSpec => []TrackedTypeOK
<1>1. TrackedInv => TrackedTypeOK
  BY DEF TrackedInv
<1>2. QED
  BY <1>1, TrackedInvariant, PTL

\* trackedLaunch and trackEffect act only under an effect that was durably dispatched,
\* and on the payload that was decided on, whatever fails, races or dies.
THEOREM ActsUnderRecord == TrackedSpec => []ActsOnlyDispatched
<1>1. TrackedInv => ActsOnlyDispatched
  BY DEF TrackedInv
<1>2. QED
  BY <1>1, TrackedInvariant, PTL

\* The driver's decision licensed nobody else, and its record kept to the lifecycle.
THEOREM TrackedIsLicensed == TrackedSpec => [](OneDispatcher /\ DispatchLicensed) /\ Implements
  BY RunsOperations, DispatcherIsOne, DispatchIsLicensed, LifecycleImplemented, PTL

----------------------------------------------------------------------------
\* Another driver's step is not this one's end.
LEMMA OthersJob ==
  ASSUME TrackedInv, [Next]_vars, NEW d \in Driver, Drive(d), NEW c \in Driver \ {d}
  PROVE  job'[c] = job[c]
  BY DriveStep DEF Drives

\* A launch past its action that ends tells what it was.
LEMMA EndTells ==
  ASSUME TrackedInv, [TrackedNext]_trackedVars, NEW c \in Driver,
         job[c].step \in {"observed", "resolve"}, job[c].kind = "launch",
         job'[c] = NoJob, daemon' = "up"
  PROVE  report'[c] = job[c].outcome
<1> USE DEF TrackedInv
<1>1. /\ [Next]_vars /\ job[c] \in Job /\ job[c].outcome \in Outcome
      /\ job[c] # NoJob
  BY EnginePart, JobShape DEF IInv, InStep, JobOf, NoJob, Step
<1>2. CASE \E d \in Driver : Drive(d)
  <2>1. PICK d \in Driver : Drive(d)
    BY <1>2
  <2>2. d = c
    BY <1>1, <2>1, OthersJob
  <2>3. CASE Recorded(c)
    <3>1. ~\E e \in Effect : RecordEffect(c, e)
      BY <1>1, TrackedAssumption DEF InStep, CallOf, RecordEffect
    <3>2. ~GoTo(c, "dispatched") /\ ~GoTo(c, "act")
      BY <1>1 DEF GoTo, NoJob, TrackedTypeOK, Job
    <3>3. ~GoTo(c, "resolve")
      BY <1>1 DEF GoTo, NoJob, TrackedTypeOK, Job
    <3>4. Tell(c, job[c].outcome)
      BY <2>3, <3>1, <3>2, <3>3 DEF Recorded, Reports
    <3>5. QED
      BY <1>1, <3>4, TellEffect
  <2>4. CASE NotObserved(c)
    <3>1. ~GoTo(c, "resolve")
      BY <1>1 DEF GoTo, NoJob, TrackedTypeOK, Job
    <3>2. Tell(c, job[c].outcome)
      BY <2>4, <3>1 DEF NotObserved
    <3>3. QED
      BY <1>1, <3>2, TellEffect
  <2>5. CASE Issue(c) \/ Consuming(c)
    BY <1>1, <2>5 DEF Issue, Consuming, jobVars
  <2>6. CASE \/ Launch(c) \/ HandleInferenceComplete(c) \/ HandleOpenAIChatCompletions(c)
             \/ Unserved(c) \/ ProposeAction(c) \/ Act(c) \/ Acted(c) \/ NotDispatched(c)
    BY <1>1, <2>6
    DEF Launch, HandleInferenceComplete, HandleOpenAIChatCompletions, Ask, Unserved, At,
        ProposeAction, Act, Acted, NotDispatched
  <2>7. QED
    BY <2>1, <2>2, <2>3, <2>4, <2>5, <2>6 DEF Drive
<1>3. CASE DaemonCrash
  BY <1>3 DEF DaemonCrash, Crash
<1>4. CASE UNCHANGED jobVars
  BY <1>1, <1>4 DEF jobVars
<1>5. QED
  BY <1>2, <1>3, <1>4 DEF TrackedNext, Other, trackedVars

\* trackedLaunch reports what the launch did, however recording it fails.
THEOREM LaunchIsReported == TrackedSpec => LaunchOutcomeKept
<1>1. TrackedInv /\ [TrackedNext]_trackedVars =>
        [\A c \in Driver :
           /\ job[c].step \in {"observed", "resolve"} /\ job[c].kind = "launch"
           /\ job'[c] = NoJob /\ daemon' = "up"
           => report'[c] = job[c].outcome]_trackedVars
  BY EndTells
<1>2. QED
  BY <1>1, TrackedInvariant, PTL DEF TrackedSpec, LaunchOutcomeKept
=============================================================================
