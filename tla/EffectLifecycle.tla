-------------------------- MODULE EffectLifecycle --------------------------
(***************************************************************************)
(* What daemon/operations promises of one external effect, as its package  *)
(* comment draws it:                                                       *)
(*                                                                         *)
(*   PROPOSED -> ADMITTED | NEEDS_APPROVAL -> DISPATCH_PENDING             *)
(*     -> DISPATCHED -> OBSERVED | OUTCOME_UNKNOWN                         *)
(*     -> CONFIRMED | RECONCILED | COMPENSATED | FAILED                    *)
(*                                                                         *)
(* Each arrow is one atomic step here.  An effect carries a license, the   *)
(* single-use decision that admitted it; it may leave ADMITTED only when   *)
(* that license was spent while it was good, and a license once spent is   *)
(* never good again.                                                       *)
(***************************************************************************)
CONSTANT Effect

VARIABLES life,     \* where the effect is in its lifecycle
          license   \* its license: "none", "good" or "spent"

lifeVars == <<life, license>>

TerminalState == {"confirmed", "reconciled", "compensated", "failed"}

LifecycleInit ==
  /\ life = [e \in Effect |-> "absent"]
  /\ license = [e \in Effect |-> "none"]

\* An effect appears decided: admitted with a good license, or parked.  The license
\* may have been spent by someone else between the decision and the record.
Admit(e, l) ==
  /\ life[e] = "absent"
  /\ life' = [life EXCEPT ![e] = "admitted"]
  /\ license' = [license EXCEPT ![e] = l]

Park(e) ==
  /\ life[e] = "absent"
  /\ life' = [life EXCEPT ![e] = "needs_approval"]
  /\ UNCHANGED license

Spend(e) ==
  /\ license[e] = "good"
  /\ license' = [license EXCEPT ![e] = "spent"]
  /\ UNCHANGED life

Move(e, from, to) ==
  /\ life[e] \in from
  /\ life' = [life EXCEPT ![e] = to]
  /\ UNCHANGED license

Commit(e) == license[e] = "spent" /\ Move(e, {"admitted"}, "dispatch_pending")
Dispatch(e) == Move(e, {"dispatch_pending"}, "dispatched")
Observe(e) == Move(e, {"dispatched"}, "observed")
LoseTrack(e) == Move(e, {"dispatched"}, "outcome_unknown")
Settle(e) == \E t \in TerminalState : Move(e, {"observed", "outcome_unknown"}, t)

LifecycleNext ==
  \E e \in Effect :
    \/ \E l \in {"good", "spent"} : Admit(e, l)
    \/ Park(e) \/ Spend(e)
    \/ Commit(e) \/ Dispatch(e) \/ Observe(e) \/ LoseTrack(e) \/ Settle(e)

LifecycleSpec == LifecycleInit /\ [][LifecycleNext]_lifeVars
=============================================================================
