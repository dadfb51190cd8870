---------------------------- MODULE SelfImprove ----------------------------
(***************************************************************************)
(* daemon/selfimprove: the lifecycle of self-improvement candidates.       *)
(*                                                                         *)
(* Generate, Demote and Reject are single statements.  RecordEval locks    *)
(* the candidate's row; Promote and Rollback take an advisory lock on the  *)
(* candidate's class and then the row.  Canary is one conditional UPDATE,  *)
(* but the canary_at it writes is read from the daemon's clock before the  *)
(* statement reaches the row.                                              *)
(*                                                                         *)
(* tx[c] is what call c has locked and read.  The writes of a transaction  *)
(* happen at its commit: whoever wants a row it wrote waits, and an UPDATE *)
(* that waited evaluates its WHERE clause on the committed row.            *)
(***************************************************************************)
EXTENDS Naturals, FiniteSets

CONSTANTS Call, Candidate, Class,
          MaxEvals,   \* bound on eval rows
          Horizon,    \* bound on the clock
          None

ASSUME SelfImproveAssumption ==
  /\ Horizon \in Nat
  /\ MaxEvals \in Nat
  /\ None \notin Candidate \cup Class

VARIABLES cand,   \* candidate_version
          eval,   \* eval rows; "canary" says the candidate was one at the time (history)
          tx,     \* what each call in flight holds
          now     \* the daemon's clock, to the millisecond of iso8601

vars == <<cand, eval, tx, now>>

Status == {"generated", "evaluated", "canary", "promoted", "rejected", "demoted", "rolled_back"}
OncePromoted == {"promoted", "demoted", "rolled_back"}

NoCandidate == [status |-> "absent", class |-> None, canaryAt |-> 0, target |-> None]
CandidateRow ==
  {NoCandidate} \cup
  [status : Status, class : Class, canaryAt : Nat, target : Candidate \cup {None}]

EvalRow == [cand : Candidate, passed : BOOLEAN, at : Nat, canary : BOOLEAN]

Idle == [op |-> "idle", cand |-> None, passed |-> FALSE, at |-> 0, previous |-> None]
RowOp == {"eval", "promoteRow", "promoteSwitch", "rollbackRow"}
ClassOp == {"promoteClass", "promoteRow", "promoteSwitch", "rollbackClass", "rollbackRow"}
Transaction ==
  {Idle} \cup
  [op : {"canary"} \cup RowOp \cup ClassOp, cand : Candidate, passed : BOOLEAN,
   at : Nat, previous : Candidate \cup {None}]

TypeOK ==
  /\ cand \in [Candidate -> CandidateRow]
  /\ eval \subseteq EvalRow
  /\ tx \in [Call -> Transaction]
  /\ now \in Nat

Init ==
  /\ cand = [k \in Candidate |-> NoCandidate]
  /\ eval = {}
  /\ tx = [c \in Call |-> Idle]
  /\ now = 0

Exists(k) == cand[k].status # "absent"
\* Mutants of RowFree and ClassFree: no FOR UPDATE, no advisory lock.
RowUnlocked(k) == TRUE
ClassUnlocked(class) == TRUE

RowFree(k) == \A c \in Call : tx[c].op \in RowOp => tx[c].cand # k
ClassFree(class) == \A c \in Call : tx[c].op \in ClassOp => cand[tx[c].cand].class # class
Promoted(class) == {k \in Candidate : cand[k].class = class /\ cand[k].status = "promoted"}

Open(c, op, k) == tx' = [tx EXCEPT ![c] = [Idle EXCEPT !.op = op, !.cand = k]]
Close(c) == tx' = [tx EXCEPT ![c] = Idle]

----------------------------------------------------------------------------
Generate(k, class) ==
  /\ ~Exists(k)
  /\ cand' = [cand EXCEPT ![k] = [NoCandidate EXCEPT !.status = "generated", !.class = class]]
  /\ UNCHANGED <<eval, tx, now>>

\* RecordEval: lock the row and read its status; the verdict is MinPassRate's.
RecordEval(c, k, passed) ==
  /\ tx[c] = Idle
  /\ Exists(k) /\ RowFree(k)
  /\ Cardinality(eval) < MaxEvals
  /\ tx' = [tx EXCEPT ![c] = [Idle EXCEPT !.op = "eval", !.cand = k, !.passed = passed, !.at = now]]
  /\ UNCHANGED <<cand, eval, now>>

\* Mutant of Verdict: the verdict itself is stored as the status.
RawVerdict(status, passed) == IF passed THEN "passed" ELSE "rejected"

\* The status the verdict moves a candidate to.
Verdict(status, passed) ==
  IF status = "generated" THEN IF passed THEN "evaluated" ELSE "rejected"
  ELSE IF status = "canary" /\ ~passed THEN "rejected" ELSE status

EvalCommit(c) ==
  LET k == tx[c].cand IN
  /\ tx[c].op = "eval"
  /\ eval' = eval \cup {[cand |-> k, passed |-> tx[c].passed, at |-> tx[c].at,
                         canary |-> cand[k].status = "canary"]}
  /\ cand' = [cand EXCEPT ![k].status = Verdict(@, tx[c].passed)]
  /\ Close(c)
  /\ UNCHANGED now

\* Canary: time.Now() first ...
Canary(c, k) ==
  /\ tx[c] = Idle
  /\ Exists(k)
  /\ tx' = [tx EXCEPT ![c] = [Idle EXCEPT !.op = "canary", !.cand = k, !.at = now]]
  /\ UNCHANGED <<cand, eval, now>>

\* ... then the conditional UPDATE, which waits for the row.
CanaryUpdate(c) ==
  LET k == tx[c].cand IN
  /\ tx[c].op = "canary"
  /\ RowFree(k)
  /\ cand' = IF cand[k].status = "evaluated"
             THEN [cand EXCEPT ![k].status = "canary", ![k].canaryAt = tx[c].at]
             ELSE cand
  /\ Close(c)
  /\ UNCHANGED <<eval, now>>

----------------------------------------------------------------------------
(* Promote: the class lock; the row, its status and its evidence; the        *)
(* candidate to replace; the switch.                                         *)
Promote(c, k) ==
  /\ tx[c] = Idle
  /\ Exists(k) /\ ClassFree(cand[k].class)
  /\ Open(c, "promoteClass", k)
  /\ UNCHANGED <<cand, eval, now>>

\* Mutant of CanaryEvidence: any passed eval will do.
AnyEvidence(k) == \E ev \in eval : ev.cand = k /\ ev.passed

CanaryEvidence(k) ==
  \E ev \in eval : ev.cand = k /\ ev.passed /\ ev.at >= cand[k].canaryAt

PromoteRow(c) ==
  LET k == tx[c].cand IN
  /\ tx[c].op = "promoteClass"
  /\ RowFree(k)
  /\ cand[k].status = "canary"
  /\ CanaryEvidence(k)
  /\ tx' = [tx EXCEPT ![c].op = "promoteRow"]
  /\ UNCHANGED <<cand, eval, now>>

\* Mutant of PromotePrevious: the latest candidate of the class, whatever its status.
PromoteLatest(c) ==
  /\ tx[c].op = "promoteRow"
  /\ \E p \in {None} \cup {j \in Candidate : cand[j].class = cand[tx[c].cand].class} :
       tx' = [tx EXCEPT ![c].op = "promoteSwitch", ![c].previous = p]
  /\ UNCHANGED <<cand, eval, now>>

PromotePrevious(c) ==
  LET k == tx[c].cand
      others == Promoted(cand[k].class) \ {k} IN
  /\ tx[c].op = "promoteRow"
  /\ \E p \in IF others = {} THEN {None} ELSE others :
       tx' = [tx EXCEPT ![c].op = "promoteSwitch", ![c].previous = p]
  /\ UNCHANGED <<cand, eval, now>>

\* The two UPDATEs; the second fails on idx_..._one_promoted_per_class when it must.
PromoteSwitch(c) ==
  LET k == tx[c].cand
      p == tx[c].previous IN
  /\ tx[c].op = "promoteSwitch"
  /\ p # None => RowFree(p)
  /\ Promoted(cand[k].class) \subseteq {k, p}
  /\ cand' = [j \in Candidate |->
       IF j = k THEN [cand[j] EXCEPT !.status = "promoted", !.target = p]
       ELSE IF j = p THEN [cand[j] EXCEPT !.status = "demoted"]
       ELSE cand[j]]
  /\ Close(c)
  /\ UNCHANGED <<eval, now>>

----------------------------------------------------------------------------
Demote(k) ==
  /\ RowFree(k)
  /\ cand[k].status = "promoted"
  /\ cand' = [cand EXCEPT ![k].status = "demoted"]
  /\ UNCHANGED <<eval, tx, now>>

\* Mutant of Reject: the UPDATE lost its status condition.
RejectAny(k) ==
  /\ RowFree(k)
  /\ Exists(k)
  /\ cand' = [cand EXCEPT ![k].status = "rejected"]
  /\ UNCHANGED <<eval, tx, now>>

Reject(k) ==
  /\ RowFree(k)
  /\ cand[k].status \in {"generated", "evaluated", "canary"}
  /\ cand' = [cand EXCEPT ![k].status = "rejected"]
  /\ UNCHANGED <<eval, tx, now>>

\* Rollback: the class lock; the row, its status and target, nobody promoted; the restore.
Rollback(c, k) ==
  /\ tx[c] = Idle
  /\ Exists(k) /\ ClassFree(cand[k].class)
  /\ Open(c, "rollbackClass", k)
  /\ UNCHANGED <<cand, eval, now>>

RollbackRow(c) ==
  LET k == tx[c].cand IN
  /\ tx[c].op = "rollbackClass"
  /\ RowFree(k)
  /\ cand[k].status = "demoted"
  /\ cand[k].target # None
  /\ Promoted(cand[k].class) = {}
  /\ tx' = [tx EXCEPT ![c].op = "rollbackRow"]
  /\ UNCHANGED <<cand, eval, now>>

RollbackRestore(c) ==
  LET k == tx[c].cand
      t == cand[k].target IN
  /\ tx[c].op = "rollbackRow"
  /\ RowFree(t)
  /\ Promoted(cand[t].class) \subseteq {k, t}
  /\ cand' = [cand EXCEPT ![k].status = "rolled_back", ![t].status = "promoted", ![t].target = k]
  /\ Close(c)
  /\ UNCHANGED <<eval, now>>

\* A check or a statement fails, the request ends or the daemon dies: the
\* transaction rolls back.
Abort(c) ==
  /\ tx[c] # Idle
  /\ Close(c)
  /\ UNCHANGED <<cand, eval, now>>

Tick ==
  /\ now < Horizon
  /\ now' = now + 1
  /\ UNCHANGED <<cand, eval, tx>>

----------------------------------------------------------------------------
Next ==
  \/ \E k \in Candidate, class \in Class : Generate(k, class)
  \/ \E k \in Candidate : Demote(k) \/ Reject(k)
  \/ \E c \in Call, k \in Candidate :
       \/ \E passed \in BOOLEAN : RecordEval(c, k, passed)
       \/ Canary(c, k) \/ Promote(c, k) \/ Rollback(c, k)
  \/ \E c \in Call :
       \/ EvalCommit(c) \/ CanaryUpdate(c)
       \/ PromoteRow(c) \/ PromotePrevious(c) \/ PromoteSwitch(c)
       \/ RollbackRow(c) \/ RollbackRestore(c)
       \/ Abort(c)
  \/ Tick

Spec == Init /\ [][Next]_vars

----------------------------------------------------------------------------
(* Properties *)

\* The unique index is a backstop that nothing reaches: a Promote or Rollback about
\* to write never finds another promoted candidate of its class, because the class
\* lock covers everything it read.
BackstopIdle ==
  \A c \in Call :
    /\ tx[c].op = "promoteSwitch" =>
         Promoted(cand[tx[c].cand].class) \subseteq {tx[c].previous}
    /\ tx[c].op = "rollbackRow" => Promoted(cand[tx[c].cand].class) = {}

\* Canary evidence catches a regression for good: once an eval failed during
\* canary, the candidate is rejected, whatever Promote was under way.
RegressionCaught ==
  \A ev \in eval : ev.canary /\ ~ev.passed => cand[ev.cand].status = "rejected"

\* What Rollback would restore is another candidate of the class that was bound
\* once, never one that a failed eval or an operator rejected.
TargetWasBound ==
  \A k \in Candidate : cand[k].target # None =>
    /\ cand[k].target # k
    /\ cand[cand[k].target].class = cand[k].class
    /\ cand[cand[k].target].status \in OncePromoted

\* Nothing binds without evidence: a candidate that was ever bound passed an eval dated
\* no earlier than its canary, even if Promote's read and its switch lie far apart.
BoundOnEvidence ==
  \A k \in Candidate : cand[k].status \in OncePromoted =>
    \E ev \in eval : ev.cand = k /\ ev.passed /\ ev.at >= cand[k].canaryAt

\* The lifecycle of the package comment, with Rollback's restore, is all that any
\* interleaving of calls can do: PROMOTED never without CANARY or a restore.
Drawn == {<<"absent", "generated">>, <<"generated", "evaluated">>, <<"generated", "rejected">>,
          <<"evaluated", "canary">>, <<"evaluated", "rejected">>,
          <<"canary", "promoted">>, <<"canary", "rejected">>,
          <<"promoted", "demoted">>, <<"demoted", "rolled_back">>,
          <<"demoted", "promoted">>, <<"rolled_back", "promoted">>}
LifecycleFlow ==
  [][\A k \in Candidate : cand'[k].status # cand[k].status =>
       <<cand[k].status, cand'[k].status>> \in Drawn]_vars
=============================================================================
