--------------------------- MODULE ExtensionRaces ---------------------------
(***************************************************************************)
(* Extensions with a memory of its races.  The statements of a call check  *)
(* rows that another call may write in between, and what an extension may  *)
(* count on can break only in three ways: two calls were at work on its    *)
(* row, the provider it was about to rely on was being quiesced, or a call *)
(* that registers a context effect had found its row active before a       *)
(* Dispose counted.  The history below remembers just these, for as long   *)
(* as they can matter; the calls themselves are those of Extensions, and   *)
(* any of them race.                                                       *)
(***************************************************************************)
EXTENDS Extensions

VARIABLES raced,    \* rows two calls were at work on; forgotten once inactive and at rest
          letDown,  \* rows whose provider was raced for, or left as they were activating
          late      \* rows that a call may register effects on after a Dispose counted them

history == <<raced, letDown, late>>
watchedVars == <<vars, history>>

RowsAt(pcs) == {call[c].ext : c \in {c \in Call : call[c].pc \in pcs}}
Admitted == RowsAt({"activate", "mint", "launch", "mark"})
Leaving == RowsAt({"quiesce"})
Laden == RowsAt({"insert"}) \cup {x \in Ext : effects[x] > 0}
Gone == RowsAt({"teardown", "revoke", "dispose"}) \cup {x \in Ext : status[x] = "disposed"}

\* A call that has seen a row's status and goes on to act on what it saw.
AtWork == Step \ {"discover", "insert", "rollDispose", "rollActivate"}
Contended ==
  {x \in Ext : \E c, d \in Call :
     c # d /\ \A b \in {c, d} : call[b].pc \in AtWork /\ call[b].ext = x}

NeedsOf(x, y) == Needs(x) \cap Provides(y) # {}
Overtaken ==
  {x \in Active \cup Admitted :
     \/ \E y \in raced : NeedsOf(x, y)
     \/ x \in Admitted /\ \E y \in Leaving : NeedsOf(x, y)}

WatchedInit ==
  /\ Init
  /\ raced = {}
  /\ letDown = {}
  /\ late = {}

\* A Dispose that has counted, or is done, knows nothing of an insert then under way, nor
\* of what is registered should another call have activated the row meanwhile.
Remember ==
  /\ raced' = Contended' \cup (raced \cap (Active \cup RowsAt(AtWork))')
  /\ letDown' = Overtaken' \cup (letDown \cap (Active \cup Admitted)')
  /\ late' = (Gone \cap Laden)' \cap (late \cup Active' \cup (RowsAt({"insert"}) \ Gone))

WatchedNext == Next /\ Remember
WatchedSpec == WatchedInit /\ [][WatchedNext]_watchedVars

WatchedTypeOK ==
  /\ TypeOK
  /\ raced \subseteq Active \cup RowsAt(AtWork)
  /\ letDown \subseteq Active \cup Admitted
  /\ late \subseteq Gone \cap Laden

----------------------------------------------------------------------------
(* Properties *)

\* Spatial composability: every active extension finds an active provider of each
\* capability it needs, of a version its manifest's range means, wherever Activate,
\* Quiesce, Dispose, Rollback or the daemon stopped and whatever raced for other rows.
\* Only a provider raced for, or leaving as its dependent was activating, lets it down.
DependentsServed ==
  \A x \in Active \ (raced \cup letDown) : \A n \in Says[manifest[x]].needs :
    \E y \in Active : \E p \in Says[manifest[y]].provides :
      p.cap = n.cap /\ InRange(p.version, n.range)

\* An active instance can prove who it is: its row names the launch whose token
\* verifies, so its effects are its own (acceptance invariant #5).  An Activate that has
\* its row to itself sets right what races left there.
ActiveHoldsToken ==
  \A x \in Active \ raced : Isolation(x) # "in_process" => token[x] # None /\ token[x] = handle[x]

\* Nothing that an extension registered outlives it (acceptance invariant #3), whatever
\* called at once, but by a call that had found its row active before the Dispose counted,
\* or found it active while that Dispose went on.
DisposedClean == \A x \in Ext \ late : status[x] = "disposed" => effects[x] = 0
=============================================================================
