------------------------- MODULE SelfImproveProofs -------------------------
(***************************************************************************)
(* Proofs about SelfImprove, for every set of calls, candidates and        *)
(* classes and every bound on the clock and on evals.                      *)
(***************************************************************************)
EXTENDS SelfImprove, TLAPS

ClassOf(c) == cand[tx[c].cand].class

\* A call in flight is about a candidate that exists.
Calls == \A c \in Call : tx[c].op # "idle" => Exists(tx[c].cand)

\* FOR UPDATE and the advisory lock exclude.
RowLock ==
  \A b, c \in Call :
    tx[b].op \in RowOp /\ tx[c].op \in RowOp /\ tx[b].cand = tx[c].cand => b = c
ClassLock ==
  \A b, c \in Call :
    tx[b].op \in ClassOp /\ tx[c].op \in ClassOp /\ ClassOf(b) = ClassOf(c) => b = c

\* What a Promote and a Rollback have read stays true until they write: the row under
\* its lock, the candidates promoted in the class under the class lock.
HeldPromotion(c) ==
  LET k == tx[c].cand IN
  tx[c].op \in {"promoteRow", "promoteSwitch"} => cand[k].status = "canary" /\ CanaryEvidence(k)

HeldPrevious(c) ==
  LET k == tx[c].cand
      p == tx[c].previous IN
  tx[c].op = "promoteSwitch" =>
    /\ Promoted(cand[k].class) \subseteq {p}
    /\ p # None => /\ p # k
                   /\ cand[p].class = cand[k].class
                   /\ cand[p].status \in {"promoted", "demoted"}

HeldRollback(c) ==
  LET k == tx[c].cand IN
  tx[c].op = "rollbackRow" =>
    /\ cand[k].status = "demoted"
    /\ cand[k].target # None
    /\ Promoted(cand[k].class) = {}

Held == \A c \in Call : HeldPromotion(c) /\ HeldPrevious(c) /\ HeldRollback(c)

\* A class has one promoted candidate at most.
OnePromoted ==
  \A j, k \in Candidate :
    /\ cand[j].status = "promoted"
    /\ cand[k].status = "promoted"
    /\ cand[j].class = cand[k].class
    => j = k

IInv ==
  /\ TypeOK /\ Calls /\ RowLock /\ ClassLock /\ Held
  /\ OnePromoted /\ RegressionCaught /\ TargetWasBound /\ BoundOnEvidence

----------------------------------------------------------------------------
\* The fields of a row and of a transaction.
LEMMA Fields ==
  ASSUME TypeOK
  PROVE  /\ \A k \in Candidate :
              cand[k] \in [status : Status \cup {"absent"}, class : Class \cup {None},
                           canaryAt : Nat, target : Candidate \cup {None}]
         /\ \A c \in Call :
              /\ tx[c].op # "idle" => tx[c] \in [op : {"canary"} \cup RowOp \cup ClassOp,
                                                 cand : Candidate, passed : BOOLEAN, at : Nat,
                                                 previous : Candidate \cup {None}]
              /\ tx[c].op = "idle" => tx[c] = Idle
  BY DEF TypeOK, CandidateRow, NoCandidate, Transaction, Idle, RowOp, ClassOp

\* How one step may change a candidate's row: along the drawn lifecycle, bound only on
\* evidence, and never under a lock someone else holds.
RowFlow(j) ==
  /\ Exists(j) => cand'[j].class = cand[j].class
  /\ cand'[j].status = cand[j].status \/ <<cand[j].status, cand'[j].status>> \in Drawn
  /\ cand'[j].canaryAt = cand[j].canaryAt \/ cand[j].status = "evaluated"
  /\ cand[j].status = "canary" /\ cand'[j].status = "promoted" => CanaryEvidence(j)

RowTarget(j) ==
  LET t == cand'[j].target IN
  t # cand[j].target =>
    /\ Exists(j)
    /\ t # None => t # j /\ cand[t].class = cand[j].class /\ cand[t].status \in OncePromoted

RowGuarded(j) ==
  cand'[j] # cand[j] => \A d \in Call : tx[d].op \in RowOp /\ tx[d].cand = j => tx'[d] = Idle

ClassGuarded(j) ==
  /\ cand'[j].status # cand[j].status /\ cand'[j].status \in {"promoted", "rolled_back"} =>
       \A d \in Call : tx[d].op \in ClassOp /\ ClassOf(d) = cand[j].class => tx'[d] = Idle
  /\ cand[j].status # "promoted" /\ cand'[j].status = "promoted" =>
       \A i \in Candidate \ {j} : cand[i].class = cand[j].class => cand'[i].status # "promoted"

RowMoves(j) == RowFlow(j) /\ RowTarget(j) /\ RowGuarded(j) /\ ClassGuarded(j)

\* A call that closes: the others keep what they hold.
LEMMA Closes ==
  ASSUME TypeOK, NEW c \in Call, Close(c)
  PROVE  tx'[c] = Idle /\ \A d \in Call \ {c} : tx'[d] = tx[d]
  BY DEF TypeOK, Close

LEMMA SwitchMoves ==
  ASSUME IInv, NEW c \in Call, PromoteSwitch(c)
  PROVE  \A j \in Candidate : RowMoves(j)
<1> DEFINE k == tx[c].cand
           p == tx[c].previous
<1> USE DEF IInv
<1>1. /\ tx[c].op = "promoteSwitch" /\ k \in Candidate /\ p \in Candidate \cup {None}
      /\ Exists(k) /\ cand[k].status = "canary" /\ CanaryEvidence(k)
      /\ Promoted(cand[k].class) \subseteq {p}
      /\ p # None => /\ p \in Candidate
                     /\ p # k
                     /\ cand[p].class = cand[k].class
                     /\ cand[p].status \in {"promoted", "demoted"}
                     /\ RowFree(p)
  BY Fields DEF PromoteSwitch, Calls, Held, HeldPromotion, HeldPrevious
<1>2. /\ cand'[k] = [cand[k] EXCEPT !.status = "promoted", !.target = p]
      /\ p # None => cand'[p] = [cand[p] EXCEPT !.status = "demoted"]
      /\ \A j \in Candidate \ {k, p} : cand'[j] = cand[j]
  BY <1>1 DEF PromoteSwitch
<1>3. /\ cand'[k].status = "promoted" /\ cand'[k].target = p
      /\ cand'[k].class = cand[k].class /\ cand'[k].canaryAt = cand[k].canaryAt
      /\ p # None => /\ cand'[p].status = "demoted" /\ cand'[p].target = cand[p].target
                     /\ cand'[p].class = cand[p].class /\ cand'[p].canaryAt = cand[p].canaryAt
  BY <1>1, <1>2, Fields
<1>4. tx'[c] = Idle /\ \A d \in Call \ {c} : tx'[d] = tx[d]
  BY Closes DEF PromoteSwitch
<1>5. /\ \A d \in Call : tx[d].op \in RowOp /\ tx[d].cand = k => d = c
      /\ \A d \in Call : tx[d].op \in ClassOp /\ ClassOf(d) = cand[k].class => d = c
  BY <1>1 DEF RowLock, ClassLock, ClassOf, RowOp, ClassOp
<1>6. RowMoves(k)
  <2>1. ASSUME NEW i \in Candidate \ {k}, cand[i].class = cand[k].class
        PROVE  cand'[i].status # "promoted"
    <3>1. CASE i = p
      BY <1>3, <2>1, <3>1, SelfImproveAssumption
    <3>2. CASE i # p
      BY <1>1, <1>2, <2>1, <3>2 DEF Promoted
    <3>3. QED
      BY <3>1, <3>2
  <2>2. p # None => cand[p].status \in OncePromoted
    BY <1>1 DEF OncePromoted
  <2>3. RowFlow(k)
    BY <1>1, <1>3 DEF RowFlow, Drawn
  <2>4. RowTarget(k)
    BY <1>1, <1>3, <2>2 DEF RowTarget
  <2>5. RowGuarded(k) /\ ClassGuarded(k)
    BY <1>4, <1>5, <2>1 DEF RowGuarded, ClassGuarded
  <2>6. QED
    BY <2>3, <2>4, <2>5 DEF RowMoves
<1>7. ASSUME p # None
      PROVE  RowMoves(p)
  <2>1. RowFlow(p)
    BY <1>1, <1>3, <1>7 DEF RowFlow, Drawn
  <2>2. RowTarget(p) /\ RowGuarded(p) /\ ClassGuarded(p)
    BY <1>1, <1>3, <1>7 DEF RowTarget, RowGuarded, ClassGuarded, RowFree
  <2>3. QED
    BY <2>1, <2>2 DEF RowMoves
<1>8. \A j \in Candidate \ {k, p} : RowMoves(j)
  BY <1>2 DEF RowMoves, RowFlow, RowTarget, RowGuarded, ClassGuarded
<1>9. ASSUME NEW j \in Candidate
      PROVE  RowMoves(j)
  <2>1. CASE j = k
    BY <1>6, <2>1
  <2>2. CASE j = p
    <3>1. p # None
      BY <2>2, SelfImproveAssumption
    <3>2. QED
      BY <1>7, <2>2, <3>1
  <2>3. QED
    BY <1>8, <2>1, <2>2
<1>10. QED
  BY <1>9

LEMMA RestoreMoves ==
  ASSUME IInv, NEW c \in Call, RollbackRestore(c)
  PROVE  \A j \in Candidate : RowMoves(j)
<1> DEFINE k == tx[c].cand
           t == cand[k].target
<1> USE DEF IInv
<1>1. /\ tx[c].op = "rollbackRow" /\ k \in Candidate /\ Exists(k)
      /\ cand[k].status = "demoted"
      /\ t # None
      /\ Promoted(cand[k].class) = {}
      /\ RowFree(t)
  BY Fields DEF RollbackRestore, Calls, Held, HeldRollback
<1>2. /\ t \in Candidate /\ t # k
      /\ cand[t].class = cand[k].class
      /\ cand[t].status \in OncePromoted
      /\ cand[t].status # "promoted"
  <2>1. t \in Candidate
    BY <1>1, Fields
  <2>2. QED
    BY <1>1, <2>1 DEF TargetWasBound, Promoted
<1>3. /\ cand'[k] = [cand[k] EXCEPT !.status = "rolled_back"]
      /\ cand'[t] = [cand[t] EXCEPT !.status = "promoted", !.target = k]
      /\ \A j \in Candidate \ {k, t} : cand'[j] = cand[j]
  BY <1>1, <1>2 DEF RollbackRestore, TypeOK
<1>4. /\ cand'[t].status = "promoted" /\ cand'[t].target = k
      /\ cand'[t].class = cand[t].class /\ cand'[t].canaryAt = cand[t].canaryAt
      /\ cand'[k].status = "rolled_back" /\ cand'[k].target = cand[k].target
      /\ cand'[k].class = cand[k].class /\ cand'[k].canaryAt = cand[k].canaryAt
  BY <1>1, <1>2, <1>3, Fields
<1>5. tx'[c] = Idle /\ \A d \in Call \ {c} : tx'[d] = tx[d]
  BY Closes DEF RollbackRestore
<1>6. /\ \A d \in Call : tx[d].op \in RowOp /\ tx[d].cand = k => d = c
      /\ \A d \in Call : tx[d].op \in ClassOp /\ ClassOf(d) = cand[k].class => d = c
  BY <1>1 DEF RowLock, ClassLock, ClassOf, RowOp, ClassOp
<1>7. RowMoves(k)
  <2>1. RowFlow(k)
    BY <1>1, <1>4 DEF RowFlow, Drawn
  <2>2. RowTarget(k) /\ RowGuarded(k) /\ ClassGuarded(k)
    BY <1>1, <1>4, <1>5, <1>6 DEF RowTarget, RowGuarded, ClassGuarded
  <2>3. QED
    BY <2>1, <2>2 DEF RowMoves
<1>8. RowMoves(t)
  <2>1. ASSUME NEW i \in Candidate \ {t}, cand[i].class = cand[t].class
        PROVE  cand'[i].status # "promoted"
    <3>1. CASE i = k
      BY <1>4, <3>1
    <3>2. CASE i # k
      BY <1>1, <1>2, <1>3, <2>1, <3>2 DEF Promoted
    <3>3. QED
      BY <3>1, <3>2
  <2>2. RowFlow(t)
    BY <1>2, <1>4 DEF RowFlow, Drawn, OncePromoted
  <2>3. Exists(t) /\ cand[k].status \in OncePromoted
    BY <1>1, <1>2 DEF Exists, OncePromoted
  <2>4. RowTarget(t)
    BY <1>1, <1>2, <1>4, <2>3 DEF RowTarget
  <2>5. RowGuarded(t) /\ ClassGuarded(t)
    BY <1>1, <1>2, <1>5, <1>6, <2>1 DEF RowGuarded, ClassGuarded, RowFree
  <2>6. QED
    BY <2>2, <2>4, <2>5 DEF RowMoves
<1>9. \A j \in Candidate \ {k, t} : RowMoves(j)
  BY <1>3 DEF RowMoves, RowFlow, RowTarget, RowGuarded, ClassGuarded
<1>10. QED
  BY <1>7, <1>8, <1>9

\* The steps that write one row and bind nobody.
LEMMA WriteMoves ==
  ASSUME IInv, NEW k \in Candidate, NEW s \in Status, s \notin {"promoted", "rolled_back"},
         \A j \in Candidate \ {k} : cand'[j] = cand[j],
         Exists(k) => cand'[k].class = cand[k].class,
         cand'[k].status = s,
         s = cand[k].status \/ <<cand[k].status, s>> \in Drawn,
         cand'[k].canaryAt = cand[k].canaryAt \/ cand[k].status = "evaluated",
         cand'[k].target = cand[k].target,
         \A d \in Call : tx[d].op \in RowOp /\ tx[d].cand = k => tx'[d] = Idle
  PROVE  \A j \in Candidate : RowMoves(j)
<1>1. RowMoves(k)
  BY DEF RowMoves, RowFlow, RowTarget, RowGuarded, ClassGuarded, Drawn
<1>2. \A j \in Candidate \ {k} : RowMoves(j)
  BY DEF RowMoves, RowFlow, RowTarget, RowGuarded, ClassGuarded
<1>3. QED
  BY <1>1, <1>2

\* Every step moves every row as RowMoves says.
LEMMA RowStep ==
  ASSUME IInv, [Next]_vars
  PROVE  \A j \in Candidate : RowMoves(j)
<1> USE DEF IInv
<1>1. ASSUME NEW k \in Candidate, NEW class \in Class, Generate(k, class)
      PROVE  \A j \in Candidate : RowMoves(j)
  <2>1. /\ cand[k] = NoCandidate
        /\ \A d \in Call : tx[d].op \in RowOp => tx[d].cand # k
    BY <1>1, Fields DEF Generate, TypeOK, CandidateRow, Exists, Status, Calls, RowOp, ClassOp, Idle
  <2>2. cand'[k] = [NoCandidate EXCEPT !.status = "generated", !.class = class]
    BY <1>1 DEF Generate, TypeOK
  <2>3. \A j \in Candidate \ {k} : cand'[j] = cand[j]
    BY <1>1 DEF Generate, TypeOK
  <2>4. /\ cand'[k].status = "generated" /\ cand'[k].canaryAt = cand[k].canaryAt
        /\ cand'[k].target = cand[k].target /\ cand[k].status = "absent"
    BY <2>1, <2>2 DEF NoCandidate
  <2>5. QED
    BY <2>1, <2>3, <2>4, WriteMoves DEF Exists, Status, Drawn
<1>2. ASSUME NEW k \in Candidate, Demote(k) \/ Reject(k)
      PROVE  \A j \in Candidate : RowMoves(j)
  <2>1. PICK s \in {"demoted", "rejected"} :
          /\ cand' = [cand EXCEPT ![k].status = s]
          /\ <<cand[k].status, s>> \in Drawn
    BY <1>2 DEF Demote, Reject, Drawn
  <2>2. \A d \in Call : tx[d].op \in RowOp => tx[d].cand # k
    BY <1>2 DEF Demote, Reject, RowFree
  <2>3. /\ cand'[k] = [cand[k] EXCEPT !.status = s]
        /\ \A j \in Candidate \ {k} : cand'[j] = cand[j]
    BY <2>1 DEF TypeOK
  <2>4. /\ cand'[k].status = s /\ cand'[k].class = cand[k].class
        /\ cand'[k].target = cand[k].target /\ cand'[k].canaryAt = cand[k].canaryAt
    BY <2>3, Fields
  <2>5. QED
    BY <2>1, <2>2, <2>3, <2>4, WriteMoves DEF Status
<1>3. ASSUME NEW c \in Call, EvalCommit(c)
      PROVE  \A j \in Candidate : RowMoves(j)
  <2> DEFINE k == tx[c].cand
             s == Verdict(cand[k].status, tx[c].passed)
  <2>1. k \in Candidate /\ Exists(k) /\ tx[c].op = "eval"
    BY <1>3, Fields DEF EvalCommit, Calls
  <2>2. \/ s = cand[k].status
        \/ s \in {"evaluated", "rejected"} /\ <<cand[k].status, s>> \in Drawn
    BY DEF Verdict, Drawn
  <2>3. /\ cand'[k] = [cand[k] EXCEPT !.status = s]
        /\ \A j \in Candidate \ {k} : cand'[j] = cand[j]
    BY <1>3, <2>1 DEF EvalCommit, TypeOK
  <2>4. /\ cand'[k].status = s /\ cand'[k].class = cand[k].class
        /\ cand'[k].target = cand[k].target /\ cand'[k].canaryAt = cand[k].canaryAt
    BY <2>1, <2>3, Fields
  <2>5. \A d \in Call : tx[d].op \in RowOp /\ tx[d].cand = k => tx'[d] = Idle
    BY <1>3, <2>1, Closes DEF EvalCommit, RowLock, RowOp
  <2>6. CASE s = cand[k].status
    <3>1. RowMoves(k)
      BY <2>4, <2>5, <2>6 DEF RowMoves, RowFlow, RowTarget, RowGuarded, ClassGuarded
    <3>2. \A j \in Candidate \ {k} : RowMoves(j)
      BY <2>3 DEF RowMoves, RowFlow, RowTarget, RowGuarded, ClassGuarded
    <3>3. QED
      BY <3>1, <3>2
  <2>7. CASE s \in {"evaluated", "rejected"} /\ <<cand[k].status, s>> \in Drawn
    <3> HIDE DEF k, s
    <3>1. QED
      BY <2>1, <2>3, <2>4, <2>5, <2>7, WriteMoves DEF Status
  <2>8. QED
    BY <2>2, <2>6, <2>7
<1>4. ASSUME NEW c \in Call, CanaryUpdate(c), cand[tx[c].cand].status = "evaluated"
      PROVE  \A j \in Candidate : RowMoves(j)
  <2> DEFINE k == tx[c].cand
  <2>1. k \in Candidate /\ \A d \in Call : tx[d].op \in RowOp => tx[d].cand # k
    BY <1>4, Fields DEF CanaryUpdate, RowFree
  <2>2. /\ cand'[k] = [cand[k] EXCEPT !.status = "canary", !.canaryAt = tx[c].at]
        /\ \A j \in Candidate \ {k} : cand'[j] = cand[j]
    BY <1>4, <2>1 DEF CanaryUpdate, TypeOK
  <2>3. /\ cand'[k].status = "canary" /\ cand'[k].class = cand[k].class
        /\ cand'[k].target = cand[k].target
    BY <2>1, <2>2, Fields
  <2>4. <<cand[k].status, "canary">> \in Drawn
    BY <1>4 DEF Drawn
  <2> HIDE DEF k
  <2>5. cand[k].status = "evaluated"
    BY <1>4 DEF k
  <2>6. QED
    BY <2>1, <2>2, <2>3, <2>4, <2>5, WriteMoves DEF Status
<1>5. CASE UNCHANGED cand
  BY <1>5 DEF RowMoves, RowFlow, RowTarget, RowGuarded, ClassGuarded
<1>6. QED
  BY <1>1, <1>2, <1>3, <1>4, <1>5, SwitchMoves, RestoreMoves
  DEF Next, vars, RecordEval, Canary, CanaryUpdate, Promote, PromoteRow, PromotePrevious,
      Rollback, RollbackRow, Abort, Tick

----------------------------------------------------------------------------
\* A present row whose status, canary time or target changes is a row.
LEMMA RowTyped ==
  ASSUME TypeOK, NEW k \in Candidate, Exists(k), NEW s \in Status, NEW at \in Nat,
         NEW t \in Candidate \cup {None}
  PROVE  /\ [cand[k] EXCEPT !.status = s] \in CandidateRow
         /\ [cand[k] EXCEPT !.status = s, !.canaryAt = at] \in CandidateRow
         /\ [cand[k] EXCEPT !.status = s, !.target = t] \in CandidateRow
<1>1. cand[k] \in [status : Status, class : Class, canaryAt : Nat, target : Candidate \cup {None}]
  BY DEF TypeOK, CandidateRow, Exists, NoCandidate
<1>2. QED
  BY <1>1 DEF CandidateRow

LEMMA CandTypeStep ==
  ASSUME IInv, [Next]_vars
  PROVE  cand' \in [Candidate -> CandidateRow]
<1> USE DEF IInv
<1>1. ASSUME NEW k \in Candidate, NEW row \in CandidateRow, cand' = [cand EXCEPT ![k] = row]
      PROVE  cand' \in [Candidate -> CandidateRow]
  BY <1>1 DEF TypeOK
<1>2. ASSUME NEW k \in Candidate, NEW class \in Class, Generate(k, class)
      PROVE  cand' \in [Candidate -> CandidateRow]
  <2>1. [NoCandidate EXCEPT !.status = "generated", !.class = class] \in CandidateRow
    BY DEF NoCandidate, CandidateRow, Status
  <2>2. QED
    BY <1>1, <1>2, <2>1 DEF Generate
<1>3. ASSUME NEW k \in Candidate, Exists(k), NEW s \in Status, cand' = [cand EXCEPT ![k].status = s]
      PROVE  cand' \in [Candidate -> CandidateRow]
  <2>1. [cand[k] EXCEPT !.status = s] \in CandidateRow
    BY <1>3, RowTyped, SelfImproveAssumption
  <2>2. QED
    BY <1>3, <2>1 DEF TypeOK
<1>4. ASSUME NEW k \in Candidate, Demote(k) \/ Reject(k)
      PROVE  cand' \in [Candidate -> CandidateRow]
  BY <1>3, <1>4 DEF Demote, Reject, Exists, Status
<1>5. ASSUME NEW c \in Call, EvalCommit(c)
      PROVE  cand' \in [Candidate -> CandidateRow]
  <2> DEFINE k == tx[c].cand
             s == Verdict(cand[k].status, tx[c].passed)
  <2>1. k \in Candidate /\ Exists(k)
    BY <1>5, Fields DEF EvalCommit, Calls
  <2>2. s \in Status
    BY <2>1, Fields DEF Verdict, Status, Exists
  <2>3. cand' = [cand EXCEPT ![k].status = s]
    BY <1>5, <2>1 DEF EvalCommit, TypeOK
  <2> HIDE DEF k, s
  <2>4. QED
    BY <1>3, <2>1, <2>2, <2>3
<1>6. ASSUME NEW c \in Call, CanaryUpdate(c), cand' # cand
      PROVE  cand' \in [Candidate -> CandidateRow]
  <2> DEFINE k == tx[c].cand
             row == [cand[k] EXCEPT !.status = "canary", !.canaryAt = tx[c].at]
  <2>1. k \in Candidate /\ Exists(k) /\ tx[c].at \in Nat
    BY <1>6, Fields DEF CanaryUpdate, Calls
  <2>2. row \in CandidateRow
    BY <2>1, RowTyped, SelfImproveAssumption DEF Status
  <2>3. cand' = [cand EXCEPT ![k] = row]
    BY <1>6, <2>1 DEF CanaryUpdate, TypeOK
  <2> HIDE DEF k, row
  <2>4. QED
    BY <1>1, <2>1, <2>2, <2>3
<1>7. ASSUME NEW c \in Call, PromoteSwitch(c)
      PROVE  cand' \in [Candidate -> CandidateRow]
  <2> DEFINE k == tx[c].cand
             p == tx[c].previous
  <2>1. /\ k \in Candidate /\ Exists(k) /\ p \in Candidate \cup {None}
        /\ tx[c].op = "promoteSwitch"
    BY <1>7, Fields DEF PromoteSwitch, Calls
  <2>2. [cand[k] EXCEPT !.status = "promoted", !.target = p] \in CandidateRow
    BY <2>1, RowTyped, SelfImproveAssumption DEF Status
  <2>3. ASSUME p \in Candidate
        PROVE  [cand[p] EXCEPT !.status = "demoted"] \in CandidateRow
    <3>1. Exists(p)
      BY <2>1, <2>3, SelfImproveAssumption DEF Held, HeldPrevious, Exists
    <3>2. QED
      BY <2>1, <2>3, <3>1, RowTyped, SelfImproveAssumption DEF Status
  <2>4. cand' = [j \in Candidate |->
                   IF j = k THEN [cand[j] EXCEPT !.status = "promoted", !.target = p]
                   ELSE IF j = p THEN [cand[j] EXCEPT !.status = "demoted"]
                   ELSE cand[j]]
    BY <1>7 DEF PromoteSwitch
  <2> HIDE DEF k, p
  <2>5. QED
    BY <2>2, <2>3, <2>4 DEF TypeOK
<1>8. ASSUME NEW c \in Call, RollbackRestore(c)
      PROVE  cand' \in [Candidate -> CandidateRow]
  <2> DEFINE k == tx[c].cand
             t == cand[k].target
             row == [cand[k] EXCEPT !.status = "rolled_back"]
             other == [cand[t] EXCEPT !.status = "promoted", !.target = k]
  <2>1. /\ k \in Candidate /\ Exists(k) /\ t # None
    BY <1>8, Fields DEF RollbackRestore, Calls, Held, HeldRollback
  <2>2. t \in Candidate /\ Exists(t) /\ t # k
    BY <2>1, Fields DEF TargetWasBound, OncePromoted, Exists
  <2>3. row \in CandidateRow /\ other \in CandidateRow
    BY <2>1, <2>2, RowTyped, SelfImproveAssumption DEF Status
  <2>4. cand' = [cand EXCEPT ![k] = row, ![t] = other]
    BY <1>8, <2>1, <2>2 DEF RollbackRestore, TypeOK
  <2> HIDE DEF k, t, row, other
  <2>5. QED
    BY <2>3, <2>4 DEF TypeOK
<1>9. CASE UNCHANGED cand
  BY <1>9 DEF TypeOK
<1>10. QED
  BY <1>2, <1>4, <1>5, <1>6, <1>7, <1>8, <1>9
  DEF Next, vars, RecordEval, Canary, Promote, PromoteRow, PromotePrevious,
      Rollback, RollbackRow, Abort, Tick

\* A call that opens a transaction holds what it opened it for.
LEMMA Opens ==
  ASSUME TypeOK, NEW c \in Call, NEW k \in Candidate, NEW passed \in BOOLEAN,
         RecordEval(c, k, passed) \/ Canary(c, k) \/ Promote(c, k) \/ Rollback(c, k)
  PROVE  /\ tx' \in [Call -> Transaction]
         /\ \A d \in Call \ {c} : tx'[d] = tx[d]
         /\ tx'[c].op \in {"eval", "canary", "promoteClass", "rollbackClass"}
         /\ tx'[c].op \in ClassOp => ClassFree(cand[k].class)
         /\ tx'[c].op \in RowOp => RowFree(k)
         /\ tx'[c].cand = k
         /\ Exists(k) /\ tx[c].op = "idle"
<1>1. ASSUME NEW t \in Transaction, tx' = [tx EXCEPT ![c] = t]
      PROVE  /\ tx' \in [Call -> Transaction]
             /\ \A d \in Call \ {c} : tx'[d] = tx[d]
             /\ tx'[c] = t
  BY <1>1 DEF TypeOK
<1>2. Exists(k) /\ tx[c].op = "idle"
  BY DEF RecordEval, Canary, Promote, Rollback, Idle
<1>3. CASE RecordEval(c, k, passed)
  <2> DEFINE t == [Idle EXCEPT !.op = "eval", !.cand = k, !.passed = passed, !.at = now]
  <2>1. t \in [op : {"eval"}, cand : {k}, passed : BOOLEAN, at : Nat, previous : {None}]
    BY DEF Idle, TypeOK
  <2> HIDE DEF t
  <2>2. t \in Transaction /\ t.op = "eval" /\ t.cand = k
    BY <2>1 DEF Transaction, RowOp
  <2>3. tx' = [tx EXCEPT ![c] = t] /\ RowFree(k)
    BY <1>3 DEF RecordEval, t
  <2>4. QED
    BY <1>1, <1>2, <2>2, <2>3 DEF ClassOp
<1>4. CASE Canary(c, k)
  <2> DEFINE t == [Idle EXCEPT !.op = "canary", !.cand = k, !.at = now]
  <2>1. t \in [op : {"canary"}, cand : {k}, passed : BOOLEAN, at : Nat, previous : {None}]
    BY DEF Idle, TypeOK
  <2> HIDE DEF t
  <2>2. t \in Transaction /\ t.op = "canary" /\ t.cand = k
    BY <2>1 DEF Transaction
  <2>3. tx' = [tx EXCEPT ![c] = t]
    BY <1>4 DEF Canary, t
  <2>4. QED
    BY <1>1, <1>2, <2>2, <2>3 DEF ClassOp, RowOp
<1>5. CASE Promote(c, k) \/ Rollback(c, k)
  <2>1. PICK op \in {"promoteClass", "rollbackClass"} :
          tx' = [tx EXCEPT ![c] = [Idle EXCEPT !.op = op, !.cand = k]]
    BY <1>5 DEF Promote, Rollback, Open
  <2> DEFINE t == [Idle EXCEPT !.op = op, !.cand = k]
  <2>2. t \in [op : {op}, cand : {k}, passed : BOOLEAN, at : Nat, previous : {None}]
    BY DEF Idle
  <2> HIDE DEF t
  <2>3. t \in Transaction /\ t.op = op /\ t.cand = k
    BY <2>2 DEF Transaction, ClassOp
  <2>4. ClassFree(cand[k].class)
    BY <1>5 DEF Promote, Rollback
  <2>5. tx' = [tx EXCEPT ![c] = t]
    BY <2>1 DEF t
  <2>6. QED
    BY <1>1, <1>2, <2>3, <2>4, <2>5 DEF RowOp
<1>6. QED
  BY <1>3, <1>4, <1>5

\* A call under a class lock goes on to the row, then to what it replaces.
LEMMA Advances ==
  ASSUME TypeOK, NEW c \in Call, PromoteRow(c) \/ PromotePrevious(c) \/ RollbackRow(c)
  PROVE  /\ tx' \in [Call -> Transaction]
         /\ \A d \in Call \ {c} : tx'[d] = tx[d]
         /\ tx[c].op \in ClassOp /\ tx'[c].op \in ClassOp \cap RowOp
         /\ tx'[c].cand = tx[c].cand /\ tx[c].cand \in Candidate
         /\ PromoteRow(c) => tx[c].op = "promoteClass" /\ tx'[c].op = "promoteRow"
         /\ RollbackRow(c) => tx[c].op = "rollbackClass" /\ tx'[c].op = "rollbackRow"
         /\ PromotePrevious(c) => tx[c].op = "promoteRow" /\ tx'[c].op = "promoteSwitch"
<1>1. /\ tx[c].op \in ClassOp
      /\ tx[c] \in [op : {"canary"} \cup RowOp \cup ClassOp, cand : Candidate, passed : BOOLEAN,
                    at : Nat, previous : Candidate \cup {None}]
  BY Fields DEF PromoteRow, PromotePrevious, RollbackRow, ClassOp
<1>2. ASSUME NEW op \in {"promoteRow", "rollbackRow"}, tx' = [tx EXCEPT ![c].op = op]
      PROVE  /\ tx' \in [Call -> Transaction]
             /\ \A d \in Call \ {c} : tx'[d] = tx[d]
             /\ tx'[c].op = op /\ tx'[c].cand = tx[c].cand
  <2>1. tx'[c] = [tx[c] EXCEPT !.op = op]
    BY <1>2 DEF TypeOK
  <2>2. [tx[c] EXCEPT !.op = op] \in Transaction
    BY <1>1, <1>2 DEF Transaction, RowOp
  <2>3. tx' \in [Call -> Transaction] /\ \A d \in Call \ {c} : tx'[d] = tx[d]
    BY <1>2, <2>2 DEF TypeOK
  <2>4. QED
    BY <1>1, <2>1, <2>3
<1>3. CASE PromoteRow(c)
  <2>1. tx[c].op = "promoteClass" /\ tx' = [tx EXCEPT ![c].op = "promoteRow"]
    BY <1>3 DEF PromoteRow
  <2>2. ~RollbackRow(c) /\ ~PromotePrevious(c)
    BY <2>1 DEF RollbackRow, PromotePrevious
  <2>3. QED
    BY <1>1, <1>2, <2>1, <2>2 DEF RowOp, ClassOp
<1>4. CASE RollbackRow(c)
  <2>1. tx[c].op = "rollbackClass" /\ tx' = [tx EXCEPT ![c].op = "rollbackRow"]
    BY <1>4 DEF RollbackRow
  <2>2. ~PromoteRow(c) /\ ~PromotePrevious(c)
    BY <2>1 DEF PromoteRow, PromotePrevious
  <2>3. QED
    BY <1>1, <1>2, <2>1, <2>2 DEF RowOp, ClassOp
<1>5. CASE PromotePrevious(c)
  <2>1. PICK p \in Candidate \cup {None} :
          tx' = [tx EXCEPT ![c].op = "promoteSwitch", ![c].previous = p]
    BY <1>5 DEF PromotePrevious, Promoted
  <2>2. tx[c].op = "promoteRow" /\ ~PromoteRow(c) /\ ~RollbackRow(c)
    BY <1>5 DEF PromotePrevious, PromoteRow, RollbackRow
  <2>3. tx'[c] = [tx[c] EXCEPT !.op = "promoteSwitch", !.previous = p]
    BY <2>1 DEF TypeOK
  <2>4. [tx[c] EXCEPT !.op = "promoteSwitch", !.previous = p] \in Transaction
    BY <1>1 DEF Transaction, RowOp
  <2>5. tx'[c].op = "promoteSwitch" /\ tx'[c].cand = tx[c].cand
    BY <1>1, <2>3
  <2>6. tx' \in [Call -> Transaction] /\ \A d \in Call \ {c} : tx'[d] = tx[d]
    BY <2>1, <2>4 DEF TypeOK
  <2>7. QED
    BY <1>1, <2>2, <2>5, <2>6 DEF RowOp, ClassOp
<1>6. QED
  BY <1>3, <1>4, <1>5

LEMMA TypeStep ==
  ASSUME IInv, [Next]_vars
  PROVE  TypeOK'
<1> USE DEF IInv
<1>1. eval' \subseteq EvalRow
  <2>1. ASSUME NEW c \in Call, EvalCommit(c)
        PROVE  eval' \subseteq EvalRow
    <3> DEFINE ev == [cand |-> tx[c].cand, passed |-> tx[c].passed, at |-> tx[c].at,
                      canary |-> cand[tx[c].cand].status = "canary"]
    <3>1. tx[c].cand \in Candidate /\ tx[c].passed \in BOOLEAN /\ tx[c].at \in Nat
      BY <2>1, Fields DEF EvalCommit
    <3>2. ev \in EvalRow
      BY <3>1 DEF EvalRow
    <3>3. eval' = eval \cup {ev}
      BY <2>1 DEF EvalCommit
    <3>4. QED
      BY <3>2, <3>3 DEF TypeOK
  <2>2. QED
    BY <2>1
    DEF Next, vars, Generate, Demote, Reject, RecordEval, Canary, CanaryUpdate, Promote,
        PromoteRow, PromotePrevious, PromoteSwitch, Rollback, RollbackRow, RollbackRestore,
        Abort, Tick, TypeOK
<1>2. tx' \in [Call -> Transaction]
  <2>1. ASSUME NEW c \in Call, Close(c)
        PROVE  tx' \in [Call -> Transaction]
    BY <2>1 DEF Close, TypeOK, Transaction
  <2>3. ASSUME NEW c \in Call, NEW k \in Candidate, NEW passed \in BOOLEAN,
               RecordEval(c, k, passed) \/ Canary(c, k) \/ Promote(c, k) \/ Rollback(c, k)
        PROVE  tx' \in [Call -> Transaction]
    BY <2>3, Opens
  <2>4. ASSUME NEW c \in Call, PromoteRow(c) \/ PromotePrevious(c) \/ RollbackRow(c)
        PROVE  tx' \in [Call -> Transaction]
    BY <2>4, Advances
  <2>5. ASSUME NEW c \in Call,
               EvalCommit(c) \/ CanaryUpdate(c) \/ PromoteSwitch(c) \/ RollbackRestore(c) \/ Abort(c)
        PROVE  tx' \in [Call -> Transaction]
    BY <2>1, <2>5 DEF EvalCommit, CanaryUpdate, PromoteSwitch, RollbackRestore, Abort
  <2>6. CASE UNCHANGED tx
    BY <2>6 DEF TypeOK
  <2>7. QED
    BY <2>3, <2>4, <2>5, <2>6 DEF Next, vars, Generate, Demote, Reject, Tick
<1>3. now' \in Nat
  <2>1. now' = now \/ now' = now + 1
    BY DEF Next, vars, Generate, Demote, Reject, RecordEval, Canary, Promote, Rollback, EvalCommit,
           CanaryUpdate, PromoteRow, PromotePrevious, PromoteSwitch, RollbackRow, RollbackRestore,
           Abort, Tick
  <2>2. QED
    BY <2>1 DEF TypeOK
<1>4. QED
  BY <1>1, <1>2, <1>3, CandTypeStep DEF TypeOK

----------------------------------------------------------------------------
\* Evals are never taken back, and a row that exists keeps its class.
LEMMA Grows ==
  ASSUME IInv, [Next]_vars
  PROVE  /\ eval \subseteq eval'
         /\ \A j \in Candidate : Exists(j) => Exists(j)' /\ cand'[j].class = cand[j].class
<1>1. eval \subseteq eval'
  BY DEF Next, vars, Generate, Demote, Reject, RecordEval, Canary, CanaryUpdate, Promote,
         PromoteRow, PromotePrevious, PromoteSwitch, Rollback, RollbackRow, RollbackRestore,
         EvalCommit, Abort, Tick
<1>2. \A j \in Candidate : Exists(j) => Exists(j)' /\ cand'[j].class = cand[j].class
  BY RowStep DEF RowMoves, RowFlow, Drawn, Exists
<1>3. QED
  BY <1>1, <1>2

\* Nobody else is bound in a class while a call holds the class's lock and stays.
LEMMA PromotedShrinks ==
  ASSUME IInv, [Next]_vars, NEW c \in Call, tx[c].op \in ClassOp, tx'[c] # Idle
  PROVE  /\ ClassOf(c)' = ClassOf(c) \/ tx'[c].cand # tx[c].cand
         /\ \A j \in Candidate :
              cand'[j].class = ClassOf(c) /\ cand'[j].status = "promoted"
                => cand[j].class = ClassOf(c) /\ cand[j].status = "promoted"
<1>1. tx[c].cand \in Candidate /\ Exists(tx[c].cand)
  BY Fields DEF IInv, Calls, ClassOp
<1>2. ClassOf(c)' = ClassOf(c) \/ tx'[c].cand # tx[c].cand
  BY <1>1, Grows DEF ClassOf
<1>3. ASSUME NEW j \in Candidate, cand'[j].class = ClassOf(c), cand'[j].status = "promoted"
      PROVE  cand[j].class = ClassOf(c) /\ cand[j].status = "promoted"
  <2>1. RowFlow(j) /\ ClassGuarded(j)
    BY RowStep DEF RowMoves
  <2>2. Exists(j)
    BY <1>3, <2>1 DEF RowFlow, Drawn, Exists
  <2>3. cand[j].class = ClassOf(c)
    BY <1>3, <2>2, Grows
  <2>4. QED
    BY <1>3, <2>1, <2>3 DEF ClassGuarded
<1>4. QED
  BY <1>2, <1>3

\* What a call holds and leaves alone it still holds.
LEMMA HeldKept ==
  ASSUME IInv, [Next]_vars, NEW c \in Call, tx'[c] = tx[c]
  PROVE  HeldPromotion(c)' /\ HeldPrevious(c)' /\ HeldRollback(c)'
<1> DEFINE k == tx[c].cand
           p == tx[c].previous
<1> USE DEF IInv
<1> SUFFICES ASSUME tx[c].op \in {"promoteRow", "promoteSwitch", "rollbackRow"}
             PROVE  HeldPromotion(c)' /\ HeldPrevious(c)' /\ HeldRollback(c)'
  BY DEF HeldPromotion, HeldPrevious, HeldRollback
<1>1. /\ k \in Candidate /\ p \in Candidate \cup {None} /\ Exists(k)
      /\ tx[c].op \in RowOp /\ tx[c].op \in ClassOp /\ tx'[c] # Idle
  BY Fields DEF RowOp, ClassOp, Calls, Idle
<1>2. cand'[k] = cand[k]
  BY <1>1, RowStep DEF RowMoves, RowGuarded
<1>3. CanaryEvidence(k) => CanaryEvidence(k)'
  BY <1>1, <1>2, Grows DEF CanaryEvidence
<1>4. \A j \in Promoted(cand[k].class)' : j \in Promoted(cand[k].class)
  BY <1>1, <1>2, PromotedShrinks DEF Promoted, ClassOf
<1>5. ASSUME tx[c].op = "promoteSwitch", p # None
      PROVE  cand'[p].class = cand[p].class /\ cand'[p].status \in {"promoted", "demoted"}
  <2>1. /\ p \in Candidate /\ cand[p].class = cand[k].class
        /\ cand[p].status \in {"promoted", "demoted"}
    BY <1>1, <1>5 DEF Held, HeldPrevious
  <2>2. RowFlow(p) /\ ClassGuarded(p)
    BY <2>1, RowStep DEF RowMoves
  <2>3. cand'[p].class = cand[p].class
    BY <2>1, <2>2 DEF RowFlow, Exists
  <2>4. cand[p].status = "promoted" => cand'[p].status \in {"promoted", "demoted"}
    BY <2>2 DEF RowFlow, Drawn
\* A rollback of p would have to hold the lock this call holds.
  <2>5. cand[p].status = "demoted" => cand'[p].status \in {"promoted", "demoted"}
    <3>1. SUFFICES ASSUME cand[p].status = "demoted", cand'[p].status = "rolled_back"
                   PROVE  FALSE
      BY <2>2 DEF RowFlow, Drawn
    <3>2. tx[c].op \in ClassOp /\ ClassOf(c) = cand[p].class
      BY <1>1, <2>1 DEF ClassOf
    <3>3. QED
      BY <1>1, <2>2, <3>1, <3>2 DEF ClassGuarded
  <2>6. QED
    BY <2>1, <2>3, <2>4, <2>5
<1>6. HeldPromotion(c)' /\ HeldRollback(c)'
  BY <1>2, <1>3, <1>4 DEF Held, HeldPromotion, HeldRollback, Promoted
<1>7. HeldPrevious(c)'
  <2> SUFFICES ASSUME tx[c].op = "promoteSwitch"
               PROVE  /\ Promoted(cand[k].class)' \subseteq {p}
                      /\ p # None => /\ p # k
                                     /\ cand'[p].class = cand'[k].class
                                     /\ cand'[p].status \in {"promoted", "demoted"}
    BY DEF HeldPrevious
  <2>1. HeldPrevious(c)
    BY DEF Held
  <2>2. Promoted(cand[k].class)' \subseteq {p}
    BY <1>4, <2>1 DEF HeldPrevious
  <2>3. QED
    BY <1>2, <1>5, <2>1, <2>2 DEF HeldPrevious
<1>8. QED
  BY <1>6, <1>7

\* A call that holds nothing relies on nothing.
LEMMA HeldNothing ==
  ASSUME NEW c \in Call, tx'[c].op \notin {"promoteRow", "promoteSwitch", "rollbackRow"}
  PROVE  HeldPromotion(c)' /\ HeldPrevious(c)' /\ HeldRollback(c)'
  BY DEF HeldPromotion, HeldPrevious, HeldRollback

\* The checks a call makes under its locks are what it relies on.
LEMMA HeldEarned ==
  ASSUME IInv, [Next]_vars, NEW c \in Call, PromoteRow(c) \/ PromotePrevious(c) \/ RollbackRow(c)
  PROVE  HeldPromotion(c)' /\ HeldPrevious(c)' /\ HeldRollback(c)'
<1> DEFINE k == tx[c].cand
<1> USE DEF IInv
<1>1. /\ UNCHANGED <<cand, eval>>
      /\ tx'[c].cand = k /\ k \in Candidate
  BY Advances DEF PromoteRow, PromotePrevious, RollbackRow
<1>2. CASE PromoteRow(c)
  <2>1. tx'[c].op = "promoteRow" /\ cand[k].status = "canary" /\ CanaryEvidence(k)
    BY <1>2, Advances DEF PromoteRow
  <2>2. QED
    BY <1>1, <2>1 DEF HeldPromotion, HeldPrevious, HeldRollback, CanaryEvidence
<1>3. CASE RollbackRow(c)
  <2>1. /\ tx'[c].op = "rollbackRow" /\ cand[k].status = "demoted" /\ cand[k].target # None
        /\ Promoted(cand[k].class) = {}
    BY <1>3, Advances DEF RollbackRow
  <2>2. QED
    BY <1>1, <2>1 DEF HeldPromotion, HeldPrevious, HeldRollback, Promoted
<1>4. CASE PromotePrevious(c)
  <2>1. /\ tx[c].op = "promoteRow" /\ tx'[c].op = "promoteSwitch"
        /\ cand[k].status = "canary" /\ CanaryEvidence(k)
    BY <1>4, Advances DEF Held, HeldPromotion
  <2>2. PICK p \in IF Promoted(cand[k].class) \ {k} = {} THEN {None}
                   ELSE Promoted(cand[k].class) \ {k} :
          tx' = [tx EXCEPT ![c].op = "promoteSwitch", ![c].previous = p]
    BY <1>4 DEF PromotePrevious
  <2>3. tx[c] \in [op : {"canary"} \cup RowOp \cup ClassOp, cand : Candidate, passed : BOOLEAN,
                   at : Nat, previous : Candidate \cup {None}]
    BY <2>1, Fields
  <2>4. tx'[c].previous = p
    BY <2>2, <2>3 DEF TypeOK
  <2>5. Promoted(cand[k].class) \subseteq {p}
    BY <2>1, <2>2 DEF Promoted, OnePromoted
  <2>6. p # None => p \in Promoted(cand[k].class) \ {k}
    BY <2>2
  <2>7. QED
    BY <1>1, <2>1, <2>4, <2>5, <2>6
    DEF HeldPromotion, HeldPrevious, HeldRollback, CanaryEvidence, Promoted
<1>5. QED
  BY <1>2, <1>3, <1>4

\* Locks exclude, and what they guard stays as it was read.
LEMMA LocksStep ==
  ASSUME IInv, [Next]_vars
  PROVE  Calls' /\ RowLock' /\ ClassLock' /\ Held'
<1> USE DEF IInv
<1>1. ASSUME NEW c \in Call, tx[c].op # "idle"
      PROVE  /\ tx[c].cand \in Candidate
             /\ Exists(tx[c].cand)
             /\ cand'[tx[c].cand].status # "absent"
             /\ cand'[tx[c].cand].class = ClassOf(c)
  <2>1. tx[c].cand \in Candidate /\ Exists(tx[c].cand)
    BY <1>1, Fields DEF Calls
  <2>2. QED
    BY <2>1, Grows DEF ClassOf, Exists
<1>2. "idle" \notin RowOp \cup ClassOp
  BY DEF RowOp, ClassOp
<1>3. ASSUME \A c \in Call : tx'[c] = tx[c] \/ tx'[c] = Idle
      PROVE  Calls' /\ RowLock' /\ ClassLock' /\ Held'
  <2>1. Idle.op = "idle"
    BY DEF Idle
  <2>2. Calls'
    BY <1>1, <1>3, <2>1 DEF Calls, Exists
  <2>3. RowLock'
    BY <1>2, <1>3, <2>1 DEF RowLock
  <2>4. ClassLock'
    BY <1>1, <1>2, <1>3, <2>1 DEF ClassLock, ClassOf
  <2>5. Held'
    BY <1>3, <2>1, HeldKept, HeldNothing DEF Held
  <2>6. QED
    BY <2>2, <2>3, <2>4, <2>5
\* A call that opens or goes on took a lock that was free.
<1>4. ASSUME NEW c \in Call, NEW k \in Candidate, Exists(k), UNCHANGED cand,
             \A d \in Call \ {c} : tx'[d] = tx[d],
             tx'[c].cand = k,
             tx'[c].op \in RowOp => RowFree(k) \/ (tx[c].op \in RowOp /\ tx[c].cand = k),
             tx'[c].op \in ClassOp => ClassFree(cand[k].class) \/ (tx[c].op \in ClassOp /\ tx[c].cand = k),
             HeldPromotion(c)' /\ HeldPrevious(c)' /\ HeldRollback(c)'
      PROVE  Calls' /\ RowLock' /\ ClassLock' /\ Held'
  <2>1. Calls'
    BY <1>4 DEF Calls, Exists
  <2>2. RowLock'
    BY <1>4 DEF RowLock, RowFree
  <2>3. ClassLock'
    BY <1>4 DEF ClassLock, ClassFree, ClassOf
  <2>4. Held'
    BY <1>4, HeldKept DEF Held
  <2>5. QED
    BY <2>1, <2>2, <2>3, <2>4
<1>5. ASSUME NEW c \in Call, NEW k \in Candidate, NEW passed \in BOOLEAN,
             RecordEval(c, k, passed) \/ Canary(c, k) \/ Promote(c, k) \/ Rollback(c, k)
      PROVE  Calls' /\ RowLock' /\ ClassLock' /\ Held'
  <2>1. UNCHANGED cand
    BY <1>5 DEF RecordEval, Canary, Promote, Rollback
  <2>2. tx'[c].op \notin {"promoteRow", "promoteSwitch", "rollbackRow"}
    BY <1>5, Opens
  <2>3. QED
    BY <1>4, <1>5, <2>1, <2>2, Opens, HeldNothing
<1>6. ASSUME NEW c \in Call, PromoteRow(c) \/ PromotePrevious(c) \/ RollbackRow(c)
      PROVE  Calls' /\ RowLock' /\ ClassLock' /\ Held'
  <2>1. UNCHANGED cand /\ (RowFree(tx[c].cand) \/ tx[c].op \in RowOp)
    BY <1>6 DEF PromoteRow, PromotePrevious, RollbackRow, RowOp
  <2>2. Exists(tx[c].cand)
    BY <1>1, <1>2, <1>6, Advances
  <2>3. QED
    BY <1>4, <1>6, <2>1, <2>2, Advances, HeldEarned
<1>7. ASSUME NEW c \in Call, Close(c)
      PROVE  \A d \in Call : tx'[d] = tx[d] \/ tx'[d] = Idle
  BY <1>7, Closes
<1>8. QED
  BY <1>3, <1>5, <1>6, <1>7
  DEF Next, vars, Generate, Demote, Reject, EvalCommit, CanaryUpdate, PromoteSwitch,
      RollbackRestore, Abort, Tick

\* The rows: one bound candidate to a class, bound on evidence, its target once bound,
\* and a regression caught.
LEMMA RowsStep ==
  ASSUME IInv, [Next]_vars
  PROVE  OnePromoted' /\ RegressionCaught' /\ TargetWasBound' /\ BoundOnEvidence'
<1> USE DEF IInv
<1>1. \A j \in Candidate : RowFlow(j) /\ RowTarget(j) /\ ClassGuarded(j)
  BY RowStep DEF RowMoves
<1>2. \A j \in Candidate : cand[j].status \in OncePromoted => cand'[j].status \in OncePromoted
  BY <1>1 DEF RowFlow, Drawn, OncePromoted
<1>3. OnePromoted'
  <2> SUFFICES ASSUME NEW i \in Candidate, NEW j \in Candidate, i # j,
                      cand'[i].status = "promoted", cand'[j].status = "promoted",
                      cand'[i].class = cand'[j].class
               PROVE  FALSE
    BY DEF OnePromoted
  <2>1. Exists(i) /\ Exists(j)
    BY <1>1 DEF RowFlow, Drawn, Exists
  <2>2. cand[i].class = cand[j].class
    BY <2>1, Grows
  <2>3. QED
    BY <1>1, <2>2 DEF ClassGuarded, OnePromoted
<1>4. TargetWasBound'
  <2> SUFFICES ASSUME NEW j \in Candidate, cand'[j].target # None
               PROVE  /\ cand'[j].target # j
                      /\ cand'[cand'[j].target].class = cand'[j].class
                      /\ cand'[cand'[j].target].status \in OncePromoted
    BY DEF TargetWasBound
  <2> DEFINE t == cand'[j].target
  <2>1. t \in Candidate
    BY TypeStep, Fields DEF TypeOK, CandidateRow, NoCandidate
  <2>2. /\ t # j /\ cand[t].class = cand[j].class /\ cand[t].status \in OncePromoted
    BY <1>1 DEF RowTarget, TargetWasBound
  <2>3. Exists(t) /\ Exists(j)
    <3>1. Exists(t)
      BY <2>2 DEF Exists, OncePromoted
    <3>2. CASE t # cand[j].target
      BY <1>1, <3>1, <3>2 DEF RowTarget
    <3>3. CASE t = cand[j].target
      BY <3>1, <3>3 DEF TypeOK, CandidateRow, NoCandidate, Exists, Status
    <3>4. QED
      BY <3>1, <3>2, <3>3
  <2>4. QED
    BY <1>2, <2>1, <2>2, <2>3, Grows
<1>5. BoundOnEvidence'
  <2> SUFFICES ASSUME NEW j \in Candidate, cand'[j].status \in OncePromoted
               PROVE  \E ev \in eval' : ev.cand = j /\ ev.passed /\ ev.at >= cand'[j].canaryAt
    BY DEF BoundOnEvidence
  <2>1. cand'[j].canaryAt = cand[j].canaryAt
    BY <1>1 DEF RowFlow, Drawn, OncePromoted
  <2>2. \E ev \in eval : ev.cand = j /\ ev.passed /\ ev.at >= cand[j].canaryAt
    <3>1. CASE cand[j].status \in OncePromoted
      BY <3>1 DEF BoundOnEvidence
    <3>2. CASE cand[j].status \notin OncePromoted
      BY <1>1, <3>2 DEF RowFlow, Drawn, OncePromoted, CanaryEvidence
    <3>3. QED
      BY <3>1, <3>2
  <2>3. QED
    BY <2>1, <2>2, Grows
<1>6. RegressionCaught'
  <2>1. ASSUME NEW ev \in eval, ev.canary, ~ev.passed
        PROVE  cand'[ev.cand].status = "rejected"
    BY <1>1, <2>1 DEF RegressionCaught, RowFlow, Drawn, TypeOK, EvalRow
  <2>2. ASSUME NEW c \in Call, EvalCommit(c), NEW ev \in eval' \ eval, ev.canary, ~ev.passed
        PROVE  cand'[ev.cand].status = "rejected"
    <3> DEFINE k == tx[c].cand
    <3>1. k \in Candidate
      BY <2>2, Fields DEF EvalCommit
    <3>2. ev = [cand |-> k, passed |-> tx[c].passed, at |-> tx[c].at,
                canary |-> cand[k].status = "canary"]
      BY <2>2 DEF EvalCommit
    <3>3. ev.cand = k /\ cand[k].status = "canary" /\ ~tx[c].passed
      BY <2>2, <3>2
    <3>4. Verdict(cand[k].status, tx[c].passed) = "rejected"
      BY <3>3 DEF Verdict
    <3>5. cand'[k] = [cand[k] EXCEPT !.status = Verdict(cand[k].status, tx[c].passed)]
      BY <2>2, <3>1 DEF EvalCommit, TypeOK
    <3>6. QED
      BY <3>1, <3>3, <3>4, <3>5, Fields
  <2>3. eval' = eval \/ \E c \in Call : EvalCommit(c)
    BY DEF Next, vars, Generate, Demote, Reject, RecordEval, Canary, CanaryUpdate, Promote,
           PromoteRow, PromotePrevious, PromoteSwitch, Rollback, RollbackRow, RollbackRestore,
           Abort, Tick
  <2>4. QED
    BY <2>1, <2>2, <2>3 DEF RegressionCaught
<1>7. QED
  BY <1>3, <1>4, <1>5, <1>6

LEMMA InitInv == Init => IInv
<1> SUFFICES ASSUME Init
             PROVE  IInv
  OBVIOUS
<1>1. /\ \A c \in Call : tx[c].op = "idle"
      /\ \A k \in Candidate : cand[k].status = "absent" /\ cand[k].target = None
      /\ eval = {}
  BY DEF Init, Idle, NoCandidate
<1>2. TypeOK
  BY DEF Init, TypeOK, CandidateRow, Transaction
<1>3. Calls /\ RowLock /\ ClassLock /\ Held
  BY <1>1
  DEF Calls, RowLock, ClassLock, Held, HeldPromotion, HeldPrevious, HeldRollback, RowOp, ClassOp
<1>4. OnePromoted /\ RegressionCaught /\ TargetWasBound /\ BoundOnEvidence
  BY <1>1 DEF OnePromoted, RegressionCaught, TargetWasBound, BoundOnEvidence, OncePromoted
<1>5. QED
  BY <1>2, <1>3, <1>4 DEF IInv

LEMMA InvStep == IInv /\ [Next]_vars => IInv'
<1> SUFFICES ASSUME IInv, [Next]_vars
             PROVE  IInv'
  OBVIOUS
<1> QED
  BY TypeStep, LocksStep, RowsStep DEF IInv

\* The inductive invariant holds in every reachable state.
THEOREM Invariant == Spec => []IInv
  BY InitInv, InvStep, PTL DEF Spec

\* Types: every candidate, eval and transaction stays of its kind.
THEOREM TypeCorrect == Spec => []TypeOK
<1>1. IInv => TypeOK
  BY DEF IInv
<1>2. QED
  BY <1>1, Invariant, PTL

\* The class lock of Promote and Rollback does its work: no call that is about to bind
\* a candidate finds another one bound, so the unique index never refuses.
THEOREM BackstopIsIdle == Spec => []BackstopIdle
<1>1. IInv => BackstopIdle
  BY DEF IInv, Held, HeldPrevious, HeldRollback, BackstopIdle
<1>2. QED
  BY <1>1, Invariant, PTL

\* What follows the class lock: a class never has two bound candidates, whatever
\* Promote, Rollback and Demote interleave.
THEOREM OneIsPromoted == Spec => []OnePromoted
<1>1. IInv => OnePromoted
  BY DEF IInv
<1>2. QED
  BY <1>1, Invariant, PTL

\* A candidate that failed an eval in canary is rejected and stays rejected: RecordEval
\* takes the row, and no transition leaves 'rejected'.
THEOREM RegressionIsCaught == Spec => []RegressionCaught
<1>1. IInv => RegressionCaught
  BY DEF IInv
<1>2. QED
  BY <1>1, Invariant, PTL

\* Rollback restores only what was bound before, in the same class.
THEOREM TargetIsBound == Spec => []TargetWasBound
<1>1. IInv => TargetWasBound
  BY DEF IInv
<1>2. QED
  BY <1>1, Invariant, PTL

\* No candidate is ever bound without a passed eval of its canary, however far apart
\* Promote reads the evidence and writes the switch.
THEOREM EvidenceBinds == Spec => []BoundOnEvidence
<1>1. IInv => BoundOnEvidence
  BY DEF IInv
<1>2. QED
  BY <1>1, Invariant, PTL

\* Candidates move along the drawn lifecycle and no other way.
THEOREM FlowIsDrawn == Spec => LifecycleFlow
<1>1. IInv /\ [Next]_vars =>
        [\A k \in Candidate : cand'[k].status # cand[k].status =>
           <<cand[k].status, cand'[k].status>> \in Drawn]_vars
  BY RowStep DEF RowMoves, RowFlow
<1>2. QED
  BY <1>1, Invariant, PTL DEF Spec, LifecycleFlow
=============================================================================
