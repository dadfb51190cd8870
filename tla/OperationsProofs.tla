-------------------------- MODULE OperationsProofs --------------------------
(***************************************************************************)
(* Proofs about Policy and about Operations, which is composed with it, for*)
(* every set of calls, effects, decisions and payloads and every bound on  *)
(* the clock and on crashes.  First the policy engine alone, whatever runs *)
(* beside it; then the composed system, the policy part of whose steps are *)
(* steps of Policy, so that what holds of these carries over.              *)
(***************************************************************************)
EXTENDS Operations, FiniteSetTheorems, TLAPS

(* The policy engine.                                                      *)

\* A transaction that consumes still holds a row that passed every check, and no
\* two hold the same row.
HeldRow ==
  /\ \A c \in Call : tx[c].kind = "consume" =>
       LET d == tx[c].row IN
       /\ ~decision[d].consumed
       /\ decision[d].result = "admit"
       /\ decision[d].digest = Digest(tx[c].payload)
       /\ tx[c].at < decision[d].expires
  /\ \A c1, c2 \in Call :
       /\ tx[c1].kind = "consume"
       /\ tx[c2].kind = "consume"
       /\ tx[c1].row = tx[c2].row
       => c1 = c2

\* A request stands for a decision that exists, an approving transaction holds a
\* pending one, and no two hold the same.
HeldRequest ==
  /\ \A d \in Decision : approval[d] # "absent" => Exists(d)
  /\ \A c \in Call : tx[c].kind = "approve" => approval[tx[c].row] = "pending"
  /\ \A c1, c2 \in Call :
       /\ tx[c1].kind = "approve"
       /\ tx[c2].kind = "approve"
       /\ tx[c1].row = tx[c2].row
       => c1 = c2

\* Nobody was permitted to dispatch on a decision that is not spent.
SpentPermit == \A d \in Decision : ~decision[d].consumed => permits[d] = <<>>

\* The inductive invariant of the policy seam.
PolicyInv ==
  PolicyTypeOK /\ HeldRow /\ HeldRequest /\ SpentPermit /\ SingleUse /\ PermitBound

LEMMA PolicyInitInv == PolicyInit => PolicyInv
  BY PolicyAssumption
  DEF PolicyInit, PolicyInv, PolicyTypeOK, HeldRow, HeldRequest, SpentPermit, SingleUse,
      PermitBound, Exists, NoDecision, Idle, DecisionRow, Transaction

\* Types are preserved; that Consume spends a row that exists is HeldRow.
LEMMA PolicyTypeStep == PolicyInv /\ [PolicyNext]_policyVars => PolicyTypeOK'
<1> SUFFICES ASSUME PolicyTypeOK, HeldRow, HeldRequest, [PolicyNext]_policyVars
             PROVE  PolicyTypeOK'
  BY DEF PolicyInv
<1> USE PolicyAssumption DEF PolicyTypeOK
<1>1. ASSUME NEW d \in Decision, NEW op \in Operation, NEW p \in Payload,
             NEW r \in Reversibility, Decide(d, op, p, r)
      PROVE  PolicyTypeOK'
  BY <1>1 DEF Decide, DecisionRow, Result, Reason, DigestSet, Digest
<1>2. ASSUME NEW c \in Call, NEW d \in Decision, NEW p \in Payload, ConsumeLock(c, d, p)
      PROVE  PolicyTypeOK'
  BY <1>2 DEF ConsumeLock, Transaction
<1>3. ASSUME NEW c \in Call, tx[c].kind = "consume"
      PROVE  /\ tx[c] \in [kind : {"consume"}, row : Decision, payload : Payload, at : Nat]
             /\ [decision EXCEPT ![tx[c].row].consumed = TRUE] \in [Decision -> DecisionRow]
  <2>1. tx[c] \in [kind : {"consume"}, row : Decision, payload : Payload, at : Nat]
    BY <1>3 DEF Transaction, Idle
  <2>2. decision[tx[c].row] \in [result : Result, op : Operation, digest : DigestSet,
                                 reason : Reason, expires : Nat, consumed : BOOLEAN]
    BY <1>3, <2>1 DEF HeldRow, DecisionRow, NoDecision
  <2>3. QED
    BY <2>1, <2>2 DEF DecisionRow
<1>4. ASSUME NEW c \in Call, ConsumeCommit(c) \/ ConsumeCommitUnacknowledged(c)
      PROVE  PolicyTypeOK'
  <2>1. tx[c].kind = "consume"
    BY <1>4 DEF ConsumeCommit, ConsumeCommitUnacknowledged
  <2>2. Idle \in Transaction
    BY DEF Transaction
  <2>3. [payload |-> tx[c].payload, at |-> tx[c].at] \in Permit
    BY <1>3, <2>1 DEF Permit
  <2>4. CASE ConsumeCommit(c)
    BY <1>3, <2>1, <2>2, <2>3, <2>4 DEF ConsumeCommit
  <2>5. CASE ConsumeCommitUnacknowledged(c)
    BY <1>3, <2>1, <2>2, <2>5 DEF ConsumeCommitUnacknowledged
  <2>6. QED
    BY <1>4, <2>4, <2>5
<1>5. ASSUME NEW c \in Call, TxRollback(c)
      PROVE  PolicyTypeOK'
  BY <1>5 DEF TxRollback, Transaction
<1>6. ASSUME NEW c \in Call, NEW d \in Decision, ApproveLock(c, d)
      PROVE  PolicyTypeOK'
  BY <1>6 DEF ApproveLock, Transaction
<1>7. ASSUME NEW c \in Call, NEW d \in Decision, ApproveCommit(c, d)
      PROVE  PolicyTypeOK'
  <2>1. tx[c] \in [kind : {"approve"}, row : Decision, payload : {None}, at : Nat]
    BY <1>7 DEF ApproveCommit, Transaction, Idle
  <2>2. decision[tx[c].row] \in [result : Result, op : Operation, digest : DigestSet,
                                 reason : Reason, expires : Nat, consumed : BOOLEAN]
    BY <2>1 DEF HeldRequest, Exists, DecisionRow, NoDecision
  <2>3. [result |-> "admit", op |-> decision[tx[c].row].op,
         digest |-> decision[tx[c].row].digest, reason |-> "APPROVED_BY_OPERATOR",
         expires |-> now + TTL, consumed |-> FALSE] \in DecisionRow
    BY <2>2 DEF DecisionRow, Result, Reason
  <2>4. Idle \in Transaction
    BY DEF Transaction
  <2>5. QED
    BY <1>7, <2>3, <2>4 DEF ApproveCommit
<1>8. ASSUME NEW d \in Decision, Deny(d)
      PROVE  PolicyTypeOK'
  BY <1>8 DEF Deny
<1>9. CASE PolicyCrash
  BY <1>9 DEF PolicyCrash, Transaction
<1>10. CASE Tick
  BY <1>10 DEF Tick
<1>11. CASE UNCHANGED policyVars
  BY <1>11 DEF policyVars
<1>12. ASSUME NEW c \in Call, NEW d \in Decision, NEW p \in Payload, ConsumeRefused(c, d, p)
       PROVE  PolicyTypeOK'
  BY <1>11, <1>12 DEF ConsumeRefused
<1>13. QED
  BY <1>1, <1>2, <1>3, <1>4, <1>5, <1>6, <1>7, <1>8, <1>9, <1>10, <1>11, <1>12 DEF PolicyNext

\* A row once written keeps everything but its consumed_at.
LEMMA RowsKept ==
  ASSUME PolicyInv, [PolicyNext]_policyVars, NEW d \in Decision, Exists(d)
  PROVE  /\ decision'[d].result = decision[d].result
         /\ decision'[d].digest = decision[d].digest
         /\ decision'[d].expires = decision[d].expires
         /\ decision[d].consumed => decision'[d].consumed
<1> USE DEF PolicyInv, PolicyTypeOK
<1>1. ASSUME NEW c \in Call, ConsumeCommit(c) \/ ConsumeCommitUnacknowledged(c)
      PROVE  decision' = [decision EXCEPT ![tx[c].row].consumed = TRUE]
  BY <1>1 DEF ConsumeCommit, ConsumeCommitUnacknowledged
<1>2. CASE UNCHANGED decision
  BY <1>2
<1>3. ASSUME NEW f \in Decision, ~Exists(f), NEW row, decision' = [decision EXCEPT ![f] = row]
      PROVE  decision'[d] = decision[d]
  BY <1>3 DEF Exists
<1>4. ASSUME NEW c \in Call, ConsumeCommit(c) \/ ConsumeCommitUnacknowledged(c)
      PROVE  /\ decision'[d].result = decision[d].result
             /\ decision'[d].digest = decision[d].digest
             /\ decision'[d].expires = decision[d].expires
             /\ decision[d].consumed => decision'[d].consumed
  <2>1. decision[d] \in [result : Result, op : Operation, digest : DigestSet,
                         reason : Reason, expires : Nat, consumed : BOOLEAN]
    BY DEF Exists, DecisionRow, NoDecision
  <2>2. decision'[d] = IF d = tx[c].row THEN [decision[d] EXCEPT !.consumed = TRUE]
                                       ELSE decision[d]
    BY <1>1, <1>4
  <2>3. CASE d = tx[c].row
    <3>1. decision'[d] = [decision[d] EXCEPT !.consumed = TRUE]
      BY <2>2, <2>3
    <3>2. QED
      BY <2>1, <3>1
  <2>4. CASE d # tx[c].row
    BY <2>2, <2>4
  <2>5. QED
    BY <2>3, <2>4
<1>5. ASSUME NEW f \in Decision, NEW op \in Operation, NEW p \in Payload,
             NEW r \in Reversibility, Decide(f, op, p, r)
      PROVE  decision'[d] = decision[d]
  BY <1>5, <1>3 DEF Decide
<1>6. ASSUME NEW c \in Call, NEW f \in Decision, ApproveCommit(c, f)
      PROVE  decision'[d] = decision[d]
  BY <1>6, <1>3 DEF ApproveCommit
<1>7. QED
  BY <1>2, <1>4, <1>5, <1>6
  DEF PolicyNext, policyVars, ConsumeLock, ConsumeRefused, TxRollback, ApproveLock, Deny,
      PolicyCrash, Tick

\* A consuming transaction's hold on its row survives every step but its own end.
LEMMA HeldRowStep == PolicyInv /\ [PolicyNext]_policyVars => HeldRow'
<1> SUFFICES ASSUME PolicyInv, [PolicyNext]_policyVars
             PROVE  HeldRow'
  OBVIOUS
<1> USE DEF PolicyInv, PolicyTypeOK, HeldRow
<1>1. \A c \in Call : tx[c].kind = "consume" =>
        tx[c].row \in Decision /\ Exists(tx[c].row)
  BY DEF Transaction, Idle, Exists
<1>2. ASSUME NEW c \in Call, NEW d \in Decision, NEW p \in Payload, ConsumeLock(c, d, p)
      PROVE  HeldRow'
  BY <1>2 DEF ConsumeLock, Consumable, Locked
<1>3. ASSUME NEW c \in Call, ConsumeCommit(c) \/ ConsumeCommitUnacknowledged(c)
      PROVE  HeldRow'
  <2>1. /\ tx[c].kind = "consume"
        /\ decision' = [decision EXCEPT ![tx[c].row].consumed = TRUE]
        /\ tx' = [tx EXCEPT ![c] = Idle]
    BY <1>3 DEF ConsumeCommit, ConsumeCommitUnacknowledged
  <2>2. ASSUME NEW b \in Call, tx'[b].kind = "consume"
        PROVE  b # c /\ tx'[b] = tx[b] /\ tx[b].row # tx[c].row
    BY <2>1, <2>2 DEF Idle
  <2>3. ASSUME NEW b \in Call, tx'[b].kind = "consume"
        PROVE  decision'[tx'[b].row] = decision[tx[b].row]
    BY <1>1, <2>1, <2>2, <2>3
  <2>4. QED
    BY <2>2, <2>3
<1>4. ASSUME UNCHANGED tx,
             NEW f \in Decision, ~Exists(f), NEW row, decision' = [decision EXCEPT ![f] = row]
      PROVE  HeldRow'
  BY <1>1, <1>4
<1>5. ASSUME NEW f \in Decision, NEW op \in Operation, NEW p \in Payload,
             NEW r \in Reversibility, Decide(f, op, p, r)
      PROVE  HeldRow'
  BY <1>4, <1>5 DEF Decide
<1>6. ASSUME NEW c \in Call, NEW f \in Decision, ApproveCommit(c, f)
      PROVE  HeldRow'
  <2>1. /\ ~Exists(f)
        /\ tx' = [tx EXCEPT ![c] = Idle]
        /\ \A d \in Decision \ {f} : decision'[d] = decision[d]
    BY <1>6 DEF ApproveCommit
  <2>2. \A b \in Call : tx'[b].kind = "consume" => tx'[b] = tx[b]
    BY <2>1 DEF Idle
  <2>3. ASSUME NEW b \in Call, tx'[b].kind = "consume"
        PROVE  tx'[b] = tx[b] /\ decision'[tx[b].row] = decision[tx[b].row]
    <3>1. tx'[b] = tx[b] /\ tx[b].kind = "consume"
      BY <2>2, <2>3
    <3>2. tx[b].row \in Decision \ {f}
      BY <1>1, <2>1, <3>1
    <3>3. QED
      BY <2>1, <3>1, <3>2
  <2>4. QED
    BY <2>3
<1>7. ASSUME NEW c \in Call, NEW d \in Decision, ApproveLock(c, d)
      PROVE  HeldRow'
  BY <1>7 DEF ApproveLock
<1>8. ASSUME NEW c \in Call, TxRollback(c)
      PROVE  HeldRow'
  BY <1>8 DEF TxRollback, Idle
<1>9. CASE PolicyCrash
  BY <1>9 DEF PolicyCrash, Idle
<1>10. CASE UNCHANGED <<decision, tx>>
  BY <1>10
<1>11. QED
  BY <1>2, <1>3, <1>5, <1>6, <1>7, <1>8, <1>9, <1>10
  DEF PolicyNext, policyVars, ConsumeRefused, Deny, Tick

\* The hold of an approving transaction on its request, likewise.
LEMMA HeldRequestStep == PolicyInv /\ [PolicyNext]_policyVars => HeldRequest'
<1> SUFFICES ASSUME PolicyInv, [PolicyNext]_policyVars
             PROVE  HeldRequest'
  OBVIOUS
<1> USE DEF PolicyInv, PolicyTypeOK, HeldRequest
<1>1. \A d \in Decision : Exists(d) => Exists(d)'
  BY RowsKept DEF Exists
<1>2. \A c \in Call : tx[c].kind = "approve" => tx[c].row \in Decision
  BY DEF Transaction, Idle
<1>3. ASSUME NEW c \in Call, NEW d \in Decision, ApproveLock(c, d)
      PROVE  HeldRequest'
  BY <1>1, <1>3 DEF ApproveLock, Locked
<1>4. ASSUME NEW c \in Call, NEW d \in Decision, ApproveCommit(c, d)
      PROVE  HeldRequest'
  <2>1. \A b \in Call : tx'[b].kind = "approve" => b # c /\ tx'[b] = tx[b]
    BY <1>4 DEF ApproveCommit, Idle
  <2>2. \A b \in Call : tx'[b].kind = "approve" => approval'[tx[b].row] = approval[tx[b].row]
    BY <1>2, <1>4, <2>1 DEF ApproveCommit
  <2>3. \A f \in Decision : approval'[f] # "absent" => approval[f] # "absent"
    BY <1>2, <1>4 DEF ApproveCommit
  <2>4. QED
    BY <1>1, <2>1, <2>2, <2>3
<1>5. ASSUME NEW d \in Decision, Deny(d)
      PROVE  HeldRequest'
  BY <1>1, <1>2, <1>5 DEF Deny, Locked
<1>6. ASSUME NEW d \in Decision, NEW op \in Operation, NEW p \in Payload,
             NEW r \in Reversibility, Decide(d, op, p, r)
      PROVE  HeldRequest'
  <2>1. \A b \in Call : tx[b].kind = "approve" => tx[b].row # d
    BY <1>2, <1>6 DEF Decide
  <2>2. Exists(d)'
    BY <1>6 DEF Decide, Exists
  <2>3. QED
    BY <1>1, <1>2, <1>6, <2>1, <2>2 DEF Decide
<1>7. ASSUME NEW c \in Call, tx' = [tx EXCEPT ![c] = Idle], UNCHANGED approval
      PROVE  HeldRequest'
  BY <1>1, <1>7 DEF Idle
<1>8. ASSUME NEW c \in Call, NEW d \in Decision, NEW p \in Payload, ConsumeLock(c, d, p)
      PROVE  HeldRequest'
  BY <1>1, <1>8 DEF ConsumeLock
<1>9. CASE PolicyCrash
  BY <1>1, <1>9 DEF PolicyCrash, Idle
<1>10. CASE UNCHANGED <<approval, tx>>
  BY <1>1, <1>10
<1>11. QED
  BY <1>3, <1>4, <1>5, <1>6, <1>7, <1>8, <1>9, <1>10
  DEF PolicyNext, policyVars, ConsumeRefused, ConsumeCommit, ConsumeCommitUnacknowledged,
      TxRollback, Tick

\* What permits say stays true: rows keep their verdict, digest and expiry, and
\* only a transaction that holds an unspent row adds one.
LEMMA PermitStep ==
  PolicyInv /\ [PolicyNext]_policyVars => SpentPermit' /\ SingleUse' /\ PermitBound'
<1> SUFFICES ASSUME PolicyInv, [PolicyNext]_policyVars
             PROVE  SpentPermit' /\ SingleUse' /\ PermitBound'
  OBVIOUS
<1> USE DEF PolicyInv
<1>1. ASSUME NEW d \in Decision
      PROVE  permits[d] \in Seq(Permit) /\ permits[d] # <<>> => decision[d].consumed /\ Exists(d)
  <2>1. SUFFICES ASSUME permits[d] # <<>>
                 PROVE  decision[d].consumed /\ Exists(d)
    BY DEF PolicyTypeOK
  <2>2. decision[d].consumed
    BY <2>1 DEF SpentPermit
  <2>3. decision[d] # NoDecision
    BY <2>2 DEF NoDecision
  <2>4. decision[d] \in [result : Result, op : Operation, digest : DigestSet,
                         reason : Reason, expires : Nat, consumed : BOOLEAN]
    BY <2>3 DEF PolicyTypeOK, DecisionRow
  <2>5. QED
    BY <2>2, <2>4 DEF Exists, Result
<1>2. ASSUME NEW d \in Decision, permits'[d] = permits[d]
      PROVE  /\ ~decision'[d].consumed => permits'[d] = <<>>
             /\ Len(permits'[d]) <= 1
             /\ \A i \in DOMAIN permits'[d] :
                  /\ decision'[d].result = "admit"
                  /\ Digest(permits'[d][i].payload) = decision'[d].digest
                  /\ permits'[d][i].at < decision'[d].expires
  <2>1. CASE permits[d] = <<>>
    BY <1>2, <2>1
  <2>2. CASE permits[d] # <<>>
    <3>1. /\ decision'[d].result = decision[d].result
          /\ decision'[d].digest = decision[d].digest
          /\ decision'[d].expires = decision[d].expires
          /\ decision'[d].consumed
      BY <1>1, <2>2, RowsKept DEF PolicyTypeOK
    <3>2. QED
      BY <1>2, <3>1 DEF SingleUse, PermitBound
  <2>3. QED
    BY <2>1, <2>2
<1>3. ASSUME NEW c \in Call, ConsumeCommit(c)
      PROVE  LET d == tx[c].row IN
             /\ d \in Decision
             /\ \A f \in Decision \ {d} : permits'[f] = permits[f]
             /\ decision'[d].consumed
             /\ Len(permits'[d]) <= 1
             /\ \A i \in DOMAIN permits'[d] :
                  /\ decision'[d].result = "admit"
                  /\ Digest(permits'[d][i].payload) = decision'[d].digest
                  /\ permits'[d][i].at < decision'[d].expires
  <2> DEFINE d == tx[c].row
             p == [payload |-> tx[c].payload, at |-> tx[c].at]
  <2>1. d \in Decision /\ Exists(d)
    BY <1>3 DEF ConsumeCommit, PolicyTypeOK, Transaction, Idle, HeldRow, Exists
  <2>2. /\ ~decision[d].consumed
        /\ decision[d].result = "admit"
        /\ decision[d].digest = Digest(tx[c].payload)
        /\ tx[c].at < decision[d].expires
    BY <1>3 DEF ConsumeCommit, HeldRow
  <2>3. permits[d] = <<>>
    BY <2>1, <2>2, Zenon DEF SpentPermit
  <2>4. permits'[d] = Append(<<>>, p)
    BY <1>3, <2>1, <2>3 DEF ConsumeCommit, PolicyTypeOK
  <2>5. permits'[d] = <<p>>
    BY <2>4
  <2>6. /\ decision'[d].result = decision[d].result
        /\ decision'[d].digest = decision[d].digest
        /\ decision'[d].expires = decision[d].expires
    BY <2>1, RowsKept
  <2>7. decision'[d] = [decision[d] EXCEPT !.consumed = TRUE]
    BY <1>3, <2>1 DEF ConsumeCommit, PolicyTypeOK
  <2>8. decision'[d].consumed
    <3>1. decision[d] \in [result : Result, op : Operation, digest : DigestSet,
                           reason : Reason, expires : Nat, consumed : BOOLEAN]
      BY <2>1 DEF Exists, PolicyTypeOK, DecisionRow, NoDecision
    <3>2. QED
      BY <2>7, <3>1
  <2>9. \A f \in Decision \ {d} : permits'[f] = permits[f]
    BY <1>3 DEF ConsumeCommit, PolicyTypeOK
  <2>10. Len(permits'[d]) = 1 /\ DOMAIN permits'[d] = {1} /\ permits'[d][1] = p
    BY <2>5
  <2>11. QED
    BY <2>1, <2>2, <2>6, <2>8, <2>9, <2>10
<1>4. CASE \E c \in Call : ConsumeCommit(c)
  BY <1>2, <1>3, <1>4 DEF SpentPermit, SingleUse, PermitBound
<1>5. CASE UNCHANGED permits
  BY <1>2, <1>5 DEF SpentPermit, SingleUse, PermitBound
<1>6. QED
  BY <1>4, <1>5
  DEF PolicyNext, policyVars, Decide, ConsumeLock, ConsumeRefused,
      ConsumeCommitUnacknowledged, TxRollback, ApproveLock, ApproveCommit, Deny,
      PolicyCrash, Tick

\* The permits of a spent decision never change.
LEMMA PermitsKept ==
  ASSUME PolicyInv, [PolicyNext]_policyVars, NEW d \in Decision, decision[d].consumed
  PROVE  permits'[d] = permits[d]
<1> USE DEF PolicyInv, PolicyTypeOK
<1>1. ASSUME NEW c \in Call, ConsumeCommit(c)
      PROVE  permits'[d] = permits[d]
  BY <1>1 DEF ConsumeCommit, HeldRow
<1>2. QED
  BY <1>1
  DEF PolicyNext, policyVars, Decide, ConsumeLock, ConsumeRefused,
      ConsumeCommitUnacknowledged, TxRollback, ApproveLock, ApproveCommit, Deny,
      PolicyCrash, Tick

\* No step edits a resolution or, beyond spending it, a decision.
LEMMA ResolutionStep ==
  ASSUME PolicyInv, [PolicyNext]_policyVars, NEW d \in Decision
  PROVE  /\ approval[d] \in {"approved", "denied"} => approval'[d] = approval[d]
         /\ Exists(d) => decision'[d] \in {decision[d], [decision[d] EXCEPT !.consumed = TRUE]}
<1> USE DEF PolicyInv, PolicyTypeOK
<1>1. CASE UNCHANGED <<decision, approval>>
  BY <1>1
<1>2. ASSUME NEW f \in Decision, NEW op \in Operation, NEW p \in Payload,
             NEW r \in Reversibility, Decide(f, op, p, r)
      PROVE  /\ approval[d] \in {"approved", "denied"} => approval'[d] = approval[d]
             /\ Exists(d) => decision'[d] = decision[d]
  BY <1>2 DEF Decide, HeldRequest
<1>3. ASSUME NEW c \in Call, ConsumeCommit(c) \/ ConsumeCommitUnacknowledged(c)
      PROVE  /\ approval'[d] = approval[d]
             /\ decision'[d] \in {decision[d], [decision[d] EXCEPT !.consumed = TRUE]}
  <2>1. UNCHANGED approval /\ decision' = [decision EXCEPT ![tx[c].row].consumed = TRUE]
    BY <1>3 DEF ConsumeCommit, ConsumeCommitUnacknowledged
  <2>2. decision'[d] = IF d = tx[c].row THEN [decision[d] EXCEPT !.consumed = TRUE]
                                       ELSE decision[d]
    BY <2>1
  <2>3. QED
    BY <2>1, <2>2
<1>4. ASSUME NEW c \in Call, NEW f \in Decision, ApproveCommit(c, f)
      PROVE  /\ approval[d] \in {"approved", "denied"} => approval'[d] = approval[d]
             /\ Exists(d) => decision'[d] = decision[d]
  BY <1>4 DEF ApproveCommit, HeldRequest
<1>5. ASSUME NEW f \in Decision, Deny(f)
      PROVE  /\ approval[d] \in {"approved", "denied"} => approval'[d] = approval[d]
             /\ decision'[d] = decision[d]
  BY <1>5 DEF Deny
<1>6. QED
  BY <1>1, <1>2, <1>3, <1>4, <1>5
  DEF PolicyNext, policyVars, ConsumeLock, ConsumeRefused, TxRollback, ApproveLock,
      PolicyCrash, Tick

LEMMA PolicyInvStep == PolicyInv /\ [PolicyNext]_policyVars => PolicyInv'
  BY PolicyTypeStep, HeldRowStep, HeldRequestStep, PermitStep DEF PolicyInv

\* The inductive invariant holds in every reachable state of the policy seam.
THEOREM PolicyInvariant == PolicySpec => []PolicyInv
  BY PolicyInitInv, PolicyInvStep, PTL DEF PolicySpec

\* Types: every row, transaction and permit stays of its kind.
THEOREM PolicyTypeCorrect == PolicySpec => []PolicyTypeOK
<1>1. PolicyInv => PolicyTypeOK
  BY DEF PolicyInv
<1>2. QED
  BY <1>1, PolicyInvariant, PTL

\* However many calls race, fail or lose their answer, a decision permits one
\* dispatch at most: Consume in daemon/policy/policy.go.
THEOREM ConsumeOnce == PolicySpec => []SingleUse
<1>1. PolicyInv => SingleUse
  BY DEF PolicyInv
<1>2. QED
  BY <1>1, PolicyInvariant, PTL

\* What Consume permits is the payload the decision admitted, checked in time.
THEOREM ConsumeBound == PolicySpec => []PermitBound
<1>1. PolicyInv => PermitBound
  BY DEF PolicyInv
<1>2. QED
  BY <1>1, PolicyInvariant, PTL

\* An operator's resolution is never revised and a verdict never edited, whatever
\* Approve, Deny and Consume race: the pending check under the request's lock.
THEOREM ResolutionIsFinal == PolicySpec => ResolutionFinal
<1>1. PolicyInv /\ [PolicyNext]_policyVars
        => [\A d \in Decision :
              /\ approval[d] \in {"approved", "denied"} => approval'[d] = approval[d]
              /\ Exists(d) => decision'[d] \in {decision[d], [decision[d] EXCEPT !.consumed = TRUE]}
           ]_policyVars
  BY ResolutionStep
<1>2. QED
  BY <1>1, PolicyInvariant, PTL DEF PolicySpec, ResolutionFinal


----------------------------------------------------------------------------
(* Operator grants: what Approve minted, counted against what it approved.  *)

Minted(op, p) ==
  {d \in Decision : /\ decision[d].reason = "APPROVED_BY_OPERATOR"
                    /\ decision[d].op = op
                    /\ decision[d].digest = Digest(p)}

Granted(op, p) ==
  {d \in Decision : /\ approval[d] = "approved"
                    /\ decision[d].op = op
                    /\ decision[d].digest = Digest(p)}

\* The sets stay finite although Decision may not be: each approval adds one to each.
Balanced ==
  \A op \in Operation, p \in Payload :
    /\ IsFiniteSet(Minted(op, p))
    /\ IsFiniteSet(Granted(op, p))
    /\ Cardinality(Minted(op, p)) = Cardinality(Granted(op, p))

\* A row that keeps its reason, operation, digest and approval stays where it is.
LEMMA BalanceFrame ==
  ASSUME Balanced,
         \A d \in Decision :
           /\ decision'[d].reason = "APPROVED_BY_OPERATOR"
                <=> decision[d].reason = "APPROVED_BY_OPERATOR"
           /\ approval'[d] = "approved" <=> approval[d] = "approved"
           /\ decision[d].reason = "APPROVED_BY_OPERATOR" \/ approval[d] = "approved"
                => decision'[d].op = decision[d].op /\ decision'[d].digest = decision[d].digest
  PROVE  Balanced'
<1> SUFFICES ASSUME NEW op \in Operation, NEW p \in Payload
             PROVE  Minted(op, p)' = Minted(op, p) /\ Granted(op, p)' = Granted(op, p)
  BY DEF Balanced
<1> QED
  BY DEF Minted, Granted

\* Approve puts one decision in each set, for the same operation and digest.
LEMMA ApproveBalances ==
  ASSUME PolicyInv, Balanced, NEW c \in Call, NEW fresh \in Decision, ApproveCommit(c, fresh)
  PROVE  Balanced'
<1> DEFINE original == tx[c].row
<1> USE DEF PolicyInv, PolicyTypeOK
<1>1. original \in Decision /\ approval[original] = "pending"
  BY DEF ApproveCommit, HeldRequest, Transaction, Idle
<1>2. Exists(original) /\ ~Exists(fresh) /\ fresh # original
  BY <1>1 DEF ApproveCommit, HeldRequest
<1>3. decision[fresh].reason # "APPROVED_BY_OPERATOR" /\ approval[fresh] = "absent"
  <2>1. decision[fresh] = NoDecision
    BY <1>2 DEF Exists, DecisionRow, Result
  <2>2. QED
    BY <1>2, <2>1 DEF HeldRequest, NoDecision
<1>4. /\ decision'[fresh].reason = "APPROVED_BY_OPERATOR"
      /\ decision'[fresh].op = decision[original].op
      /\ decision'[fresh].digest = decision[original].digest
      /\ \A d \in Decision \ {fresh} : decision'[d] = decision[d]
      /\ approval'[original] = "approved"
      /\ \A d \in Decision \ {original} : approval'[d] = approval[d]
  BY <1>1 DEF ApproveCommit
<1>5. ASSUME NEW op \in Operation, NEW p \in Payload
      PROVE  /\ IsFiniteSet(Minted(op, p))'
             /\ IsFiniteSet(Granted(op, p))'
             /\ Cardinality(Minted(op, p))' = Cardinality(Granted(op, p))'
  <2>1. /\ IsFiniteSet(Minted(op, p)) /\ IsFiniteSet(Granted(op, p))
        /\ Cardinality(Minted(op, p)) = Cardinality(Granted(op, p))
    BY DEF Balanced
  <2>2. CASE decision[original].op = op /\ decision[original].digest = Digest(p)
    <3>1. Minted(op, p)' = Minted(op, p) \cup {fresh} /\ fresh \notin Minted(op, p)
      BY <1>3, <1>4, <2>2 DEF Minted
    <3>2. Granted(op, p)' = Granted(op, p) \cup {original} /\ original \notin Granted(op, p)
      BY <1>1, <1>2, <1>3, <1>4, <2>2 DEF Granted
    <3>3. /\ IsFiniteSet(Minted(op, p))'
          /\ Cardinality(Minted(op, p))' = Cardinality(Minted(op, p)) + 1
      BY <2>1, <3>1, FS_AddElement
    <3>4. /\ IsFiniteSet(Granted(op, p))'
          /\ Cardinality(Granted(op, p))' = Cardinality(Granted(op, p)) + 1
      <4> HIDE DEF original
      <4> QED
        BY <2>1, <3>2, FS_AddElement
    <3>5. QED
      BY <2>1, <3>3, <3>4
  <2>3. CASE ~(decision[original].op = op /\ decision[original].digest = Digest(p))
    <3>1. Minted(op, p)' = Minted(op, p)
      BY <1>3, <1>4, <2>3 DEF Minted
    <3>2. Granted(op, p)' = Granted(op, p)
      BY <1>1, <1>2, <1>3, <1>4, <2>3 DEF Granted
    <3>3. QED
      BY <2>1, <3>1, <3>2
  <2>4. QED
    BY <2>2, <2>3
<1>6. QED
  BY <1>5 DEF Balanced

LEMMA BalanceStep == PolicyInv /\ Balanced /\ [PolicyNext]_policyVars => Balanced'
<1> SUFFICES ASSUME PolicyInv, Balanced, [PolicyNext]_policyVars
             PROVE  Balanced'
  OBVIOUS
<1> USE DEF PolicyInv, PolicyTypeOK
<1>1. ASSUME NEW d \in Decision, NEW op \in Operation, NEW p \in Payload,
             NEW r \in Reversibility, Decide(d, op, p, r)
      PROVE  Balanced'
  <2>1. ~Exists(d) /\ approval[d] = "absent"
    BY <1>1 DEF Decide, HeldRequest
  <2>2. decision[d] = NoDecision
    BY <2>1 DEF Exists, DecisionRow, Result
  <2>3. decision[d].reason # "APPROVED_BY_OPERATOR"
    BY <2>2 DEF NoDecision
  <2>4. /\ decision'[d].reason # "APPROVED_BY_OPERATOR"
        /\ approval'[d] # "approved"
        /\ \A f \in Decision \ {d} : decision'[f] = decision[f] /\ approval'[f] = approval[f]
    BY <1>1 DEF Decide
  <2>5. QED
    BY <2>1, <2>3, <2>4, BalanceFrame
<1>2. ASSUME NEW c \in Call, ConsumeCommit(c) \/ ConsumeCommitUnacknowledged(c)
      PROVE  Balanced'
  <2>1. UNCHANGED approval /\ decision' = [decision EXCEPT ![tx[c].row].consumed = TRUE]
    BY <1>2 DEF ConsumeCommit, ConsumeCommitUnacknowledged
  <2>2. \A d \in Decision : /\ decision'[d].reason = decision[d].reason
                            /\ decision'[d].op = decision[d].op
                            /\ decision'[d].digest = decision[d].digest
    BY <2>1 DEF DecisionRow, NoDecision
  <2>3. QED
    BY <2>1, <2>2, BalanceFrame
<1>3. ASSUME NEW c \in Call, NEW d \in Decision, ApproveCommit(c, d)
      PROVE  Balanced'
  BY <1>3, ApproveBalances
<1>4. ASSUME NEW d \in Decision, Deny(d)
      PROVE  Balanced'
  <2>1. /\ UNCHANGED decision
        /\ \A f \in Decision : approval'[f] = "approved" <=> approval[f] = "approved"
    BY <1>4 DEF Deny
  <2>2. QED
    BY <2>1, BalanceFrame
<1>5. CASE UNCHANGED <<decision, approval>>
  BY <1>5, BalanceFrame
<1>6. QED
  BY <1>1, <1>2, <1>3, <1>4, <1>5
  DEF PolicyNext, policyVars, ConsumeLock, ConsumeRefused, TxRollback, ApproveLock,
      PolicyCrash, Tick

\* An approval admits once and nothing else admits in its name: Approve mints one
\* decision for each request it resolves, in the transaction that resolves it.
THEOREM GrantsBalance == PolicySpec => []ApprovalsBalance
<1>1. PolicyInit => Balanced
  <2> SUFFICES ASSUME PolicyInit, NEW op \in Operation, NEW p \in Payload
               PROVE  Minted(op, p) = {} /\ Granted(op, p) = {}
    BY FS_EmptySet DEF Balanced
  <2>1. \A d \in Decision : decision[d].reason # "APPROVED_BY_OPERATOR" /\ approval[d] # "approved"
    BY DEF PolicyInit, NoDecision
  <2>2. QED
    BY <2>1 DEF Minted, Granted
<1>2. Balanced => ApprovalsBalance
  BY DEF Balanced, ApprovalsBalance, Minted, Granted
<1>3. QED
  BY <1>1, <1>2, BalanceStep, PolicyInvariant, PTL DEF PolicySpec

----------------------------------------------------------------------------
(* Operations, composed with it.                                           *)

Present(e) == effect[e].state # "absent"

\* What an effect past admission, or one about to be, holds.
Licensed(e) ==
  LET d == effect[e].decision IN
  /\ decision[d].result = "admit"
  /\ decision[d].consumed
  /\ decision[d].digest = effect[e].digest
  /\ Len(permits[d]) = 1
  /\ d \notin direct

\* Each effect keeps the digest of a decision of its own.
EffectDecided ==
  /\ \A e \in Effect : Present(e) =>
       /\ Exists(effect[e].decision)
       /\ decision[effect[e].decision].digest = effect[e].digest
  /\ \A e, f \in Effect :
       Present(e) /\ Present(f) /\ effect[e].decision = effect[f].decision => e = f

\* A proposal in flight holds a decision that no effect and no other proposal names.
RecordingOf(c) ==
  call[c].step = "record" =>
    /\ Exists(call[c].decision)
    /\ \A e \in Effect : Present(e) => effect[e].decision # call[c].decision

Recording ==
  /\ \A c \in Call : RecordingOf(c)
  /\ \A b, c \in Call :
       /\ call[b].step = "record"
       /\ call[c].step = "record"
       /\ call[b].decision = call[c].decision
       => b = c

From == [to \in PastAdmission |->
           IF to = "dispatch_pending" THEN {"admitted"}
           ELSE IF to = "dispatched" THEN {"dispatch_pending"}
           ELSE IF to \in {"observed", "outcome_unknown"} THEN {"dispatched"}
           ELSE {"observed", "outcome_unknown"}]

\* What a call read is still true while the version it read is: row_version guards
\* every transition, and a call that has the license for its effect keeps it.
SnapshotOf(c) ==
  call[c].step \in {"consume", "store"} =>
    LET e == call[c].effect IN
    /\ Present(e)
    /\ call[c].seen <= effect[e].version
    /\ call[c].step = "consume" /\ call[c].seen = effect[e].version
         => effect[e].state = "admitted"
    /\ call[c].step = "store" /\ call[c].seen = effect[e].version
         => effect[e].state \in From[call[c].to]
    /\ call[c].step = "store" /\ call[c].to = "dispatch_pending" => Licensed(e)

Snapshot == \A c \in Call : SnapshotOf(c)

\* A dispatch consumes the decision of its own effect.
Spending ==
  \A c \in Call : tx[c].kind = "consume" /\ call[c].step = "consume" =>
    tx[c].row = effect[call[c].effect].decision

Dispatched == \A e \in Effect : effect[e].state \in PastAdmission => Licensed(e)

\* A direct consumer's decision is spent.
DirectSpent == \A d \in direct : decision[d].consumed

\* While the daemon is not up nothing runs, and what is dispatched is to be swept.
Startup ==
  /\ daemon # "up" => \A c \in Call : call[c] = NoCall /\ tx[c] = Idle
  /\ daemon = "booting" => \A e \in Effect : effect[e].state = "dispatched" => e \in sweep

IInv ==
  /\ PolicyInv /\ TypeOK
  /\ EffectDecided /\ Recording /\ Snapshot /\ Spending /\ Dispatched /\ DirectSpent /\ Startup

----------------------------------------------------------------------------
\* The state of a call and of an effect, unpacked.
LEMMA CallKinds ==
  ASSUME TypeOK, NEW c \in Call
  PROVE  /\ call[c].step = "record" => call[c].decision \in Decision
         /\ call[c].step = "consume" =>
              call[c].effect \in Effect /\ call[c].seen \in Nat /\ call[c].payload \in Payload
         /\ call[c].step = "store" =>
              call[c].effect \in Effect /\ call[c].seen \in Nat /\ call[c].to \in PastAdmission
  BY DEF TypeOK, CallState, NoCall

LEMMA EffectKinds ==
  ASSUME TypeOK, NEW e \in Effect
  PROVE  /\ effect[e] = NoEffect => ~Present(e)
         /\ Present(e) =>
              /\ effect[e].state \in State
              /\ effect[e].decision \in Decision
              /\ effect[e].digest \in DigestSet
              /\ effect[e].version \in Nat
              /\ effect[e] = [state |-> effect[e].state, decision |-> effect[e].decision,
                              digest |-> effect[e].digest, version |-> effect[e].version]
  BY DEF TypeOK, EffectRow, NoEffect, Present

\* Operations runs Policy: each of its steps is a policy step or leaves Policy alone.
LEMMA PolicyPart == IInv /\ [Next]_vars => [PolicyNext]_policyVars
<1> SUFFICES ASSUME TypeOK, Snapshot, [Next]_vars
             PROVE  [PolicyNext]_policyVars
  BY DEF IInv
<1>1. ASSUME NEW c \in Call, PolicyRoute(c)
      PROVE  [PolicyNext]_policyVars
  BY <1>1
  DEF PolicyRoute, HandleDecide, HandleConsume, HandleConsumed, HandleApprove, HandleApproved,
      HandleDeny, PolicyNext
<1>2. ASSUME NEW c \in Call, Dispatching(c)
      PROVE  [PolicyNext]_policyVars
  <2>1. ASSUME call[c].step = "consume"
        PROVE  /\ effect[call[c].effect].decision \in Decision
               /\ call[c].payload \in Payload
    BY <2>1, CallKinds, EffectKinds DEF Snapshot, SnapshotOf
  <2>2. CASE DispatchRefused(c)
    BY <2>2 DEF DispatchRefused, ConsumeRefused
  <2>3. CASE DispatchConsume(c)
    BY <2>1, <2>3 DEF DispatchConsume, PolicyNext
  <2>4. QED
    BY <1>2, <2>2, <2>3
    DEF Dispatching, MarkDispatchPending, DispatchConsumed, ConsumeLost, PolicyNext
<1>3. ASSUME NEW c \in Call, Tracking(c)
      PROVE  [PolicyNext]_policyVars
  <2>1. CASE CallFails(c)
    BY <2>1 DEF CallFails, TxRollback, PolicyNext, policyVars, TypeOK, PolicyTypeOK
  <2>2. QED
    BY <1>3, <2>1
    DEF Tracking, Propose, RecordEffect, MarkDispatched, MarkObserved, MarkOutcomeUnknown,
        Resolve, Load, Store, StoreConflict, PolicyNext
<1>4. QED
  BY <1>1, <1>2, <1>3
  DEF Next, Crash, Reconciling, Boot, SweepOne, Serve, Clock, PolicyNext, vars

\* A license, once held, is kept: its row keeps its verdict and digest, its permit
\* stays the only one, and only an unspent decision goes to a direct consumer.
LEMMA LicenseKept ==
  ASSUME IInv, [PolicyNext]_policyVars, NEW e \in Effect, Present(e), Licensed(e),
         effect'[e].decision = effect[e].decision,
         effect'[e].digest = effect[e].digest,
         \A d \in direct' \ direct : ~decision[d].consumed
  PROVE  Licensed(e)'
<1> DEFINE d == effect[e].decision
<1>1. d \in Decision /\ Exists(d)
  BY EffectKinds DEF IInv, EffectDecided
<1>2. /\ decision'[d].result = decision[d].result
      /\ decision'[d].digest = decision[d].digest
      /\ decision'[d].consumed
  BY <1>1, RowsKept DEF IInv, Licensed
<1>3. permits'[d] = permits[d]
  BY <1>1, PermitsKept DEF IInv, Licensed
<1>4. QED
  BY <1>2, <1>3 DEF Licensed

\* Rows that exist go on existing, with their digest.
LEMMA DecidedKept ==
  ASSUME IInv, [PolicyNext]_policyVars, NEW d \in Decision, Exists(d)
  PROVE  Exists(d)' /\ decision'[d].digest = decision[d].digest
  BY RowsKept DEF IInv, Exists

\* A step that only moves effects on, each with a license when past admission and
\* each to a later version, keeps what a call it leaves alone holds.
LEMMA Advance ==
  ASSUME IInv, [PolicyNext]_policyVars,
         \A e \in Effect : /\ Present(e)' = Present(e)
                           /\ effect'[e].decision = effect[e].decision
                           /\ effect'[e].digest = effect[e].digest,
         \A e \in Effect : \/ effect'[e] = effect[e]
                           \/ effect'[e].version = effect[e].version + 1,
         \A e \in Effect : effect'[e].state \in PastAdmission => Licensed(e),
         \A d \in direct' \ direct : ~decision[d].consumed
  PROVE  /\ EffectDecided'
         /\ Dispatched'
         /\ \A c \in Call : call'[c] = call[c] => RecordingOf(c)' /\ SnapshotOf(c)'
<1>1. \A e \in Effect : Present(e) => effect[e].decision \in Decision /\ effect[e].version \in Nat
  BY EffectKinds DEF IInv
<1>2. EffectDecided'
  BY <1>1, DecidedKept DEF IInv, EffectDecided
<1>3. \A e \in Effect : Present(e) /\ Licensed(e) => Licensed(e)'
  BY LicenseKept
<1>4. Dispatched'
  BY <1>3 DEF Dispatched, Present, PastAdmission, isTerminal
<1>5. ASSUME NEW c \in Call, call'[c] = call[c]
      PROVE  RecordingOf(c)'
  <2>1. call[c].step = "record" => call[c].decision \in Decision
    BY CallKinds DEF IInv
  <2>2. QED
    BY <1>5, <2>1, DecidedKept DEF IInv, Recording, RecordingOf
<1>6. ASSUME NEW c \in Call, call'[c] = call[c]
      PROVE  SnapshotOf(c)'
  <2>1. call[c].step \in {"consume", "store"} => call[c].effect \in Effect /\ call[c].seen \in Nat
    BY CallKinds DEF IInv
  <2>2. SnapshotOf(c)
    BY DEF IInv, Snapshot
  <2>3. QED
    BY <1>1, <1>3, <1>6, <2>1, <2>2 DEF SnapshotOf
<1>7. QED
  BY <1>2, <1>4, <1>5, <1>6

\* In particular a step that leaves every effect alone.
LEMMA Frame ==
  ASSUME IInv, [PolicyNext]_policyVars, UNCHANGED effect,
         \A d \in direct' \ direct : ~decision[d].consumed
  PROVE  /\ EffectDecided'
         /\ Dispatched'
         /\ \A c \in Call : call'[c] = call[c] => RecordingOf(c)' /\ SnapshotOf(c)'
<1>1. \A e \in Effect : effect[e].state \in PastAdmission => Licensed(e)
  BY DEF IInv, Dispatched
<1>2. \A e \in Effect : Present(e)' = Present(e)
  BY DEF Present
<1>3. QED
  BY <1>1, <1>2, Advance

----------------------------------------------------------------------------
\* Only HandleConsumed lets a direct consumer go, on a decision unspent until then.
LEMMA DirectStep ==
  ASSUME IInv, [Next]_vars
  PROVE  /\ \A d \in direct' \ direct : ~decision[d].consumed
         /\ direct' \subseteq Decision
         /\ DirectSpent'
<1> USE DEF IInv
<1>1. [PolicyNext]_policyVars
  BY PolicyPart
<1>2. \A d \in direct : d \in Decision /\ decision[d].consumed /\ Exists(d)
  <2> SUFFICES ASSUME NEW d \in direct
               PROVE  d \in Decision /\ decision[d].consumed /\ Exists(d)
    OBVIOUS
  <2>1. d \in Decision /\ decision[d].consumed
    BY DEF TypeOK, DirectSpent
  <2>2. decision[d] # NoDecision
    BY <2>1 DEF NoDecision
  <2>3. decision[d] \in [result : Result, op : Operation, digest : DigestSet,
                         reason : Reason, expires : Nat, consumed : BOOLEAN]
    BY <2>1, <2>2 DEF TypeOK, PolicyTypeOK, DecisionRow
  <2>4. QED
    BY <2>1, <2>3 DEF Exists, Result
<1>3. \A d \in direct : decision'[d].consumed
  BY <1>1, <1>2, RowsKept
<1>4. ASSUME NEW c \in Call, HandleConsumed(c)
      PROVE  /\ tx[c].row \in Decision
             /\ ~decision[tx[c].row].consumed
             /\ decision'[tx[c].row].consumed
             /\ direct' = direct \cup {tx[c].row}
  <2>1. tx[c].kind = "consume" /\ direct' = direct \cup {tx[c].row}
    BY <1>4 DEF HandleConsumed, ConsumeCommit
  <2>2. tx[c].row \in Decision
    BY <2>1 DEF TypeOK, PolicyTypeOK, Transaction, Idle
  <2>3. ~decision[tx[c].row].consumed /\ decision[tx[c].row].result = "admit"
    BY <2>1 DEF PolicyInv, HeldRow
  <2>4. decision[tx[c].row] \in [result : Result, op : Operation, digest : DigestSet,
                                 reason : Reason, expires : Nat, consumed : BOOLEAN]
    BY <2>2, <2>3 DEF TypeOK, PolicyTypeOK, DecisionRow, NoDecision
  <2>5. decision'[tx[c].row] = [decision[tx[c].row] EXCEPT !.consumed = TRUE]
    BY <1>4, <2>2 DEF HandleConsumed, ConsumeCommit, TypeOK, PolicyTypeOK
  <2>6. decision'[tx[c].row].consumed
    BY <2>4, <2>5
  <2>7. QED
    BY <2>1, <2>2, <2>3, <2>6
<1>5. CASE \E c \in Call : HandleConsumed(c)
  BY <1>3, <1>4, <1>5 DEF DirectSpent, TypeOK
<1>6. CASE UNCHANGED direct
  BY <1>3, <1>6 DEF DirectSpent, TypeOK
<1>7. QED
  BY <1>5, <1>6
  DEF Next, vars, effectVars, PolicyRoute, HandleDecide, HandleConsume, HandleApprove,
      HandleApproved, HandleDeny, Dispatching, MarkDispatchPending, DispatchConsume,
      DispatchRefused, DispatchConsumed, ConsumeLost, Tracking, Propose, RecordEffect,
      MarkDispatched, MarkObserved, MarkOutcomeUnknown, Resolve, Load, Store, StoreConflict,
      CallFails, Crash, Reconciling, Boot, SweepOne, Serve, Clock

\* Types are preserved.
LEMMA TypeStep ==
  ASSUME IInv, [Next]_vars
  PROVE  TypeOK'
<1> USE DEF IInv
<1>1. PolicyTypeOK' /\ direct' \subseteq Decision
  BY PolicyPart, PolicyInvStep, DirectStep DEF PolicyInv
<1>2. SUFFICES /\ effect' \in [Effect -> EffectRow]
               /\ call' \in [Call -> CallState]
               /\ daemon' \in {"down", "booting", "up"}
               /\ sweep' \subseteq Effect
               /\ crashes' \in 0..MaxCrashes
  BY <1>1 DEF TypeOK
<1> USE OperationsAssumption DEF TypeOK
<1>3. NoCall \in CallState
  BY DEF CallState
<1>4. ASSUME NEW c \in Call, PolicyRoute(c)
      PROVE  UNCHANGED <<effect, call, daemon, sweep, crashes>>
  BY <1>4
  DEF PolicyRoute, HandleDecide, HandleConsume, HandleConsumed, HandleApprove, HandleApproved,
      HandleDeny, effectVars
<1>5. ASSUME NEW c \in Call, Dispatching(c)
      PROVE  /\ call' \in [Call -> CallState]
             /\ UNCHANGED <<effect, daemon, sweep, crashes>>
  <2>1. ASSUME NEW e \in Effect, NEW p \in Payload, MarkDispatchPending(c, e, p)
        PROVE  call' \in [Call -> CallState]
    <3>1. effect[e].version \in Nat
      BY <2>1, EffectKinds DEF MarkDispatchPending, Present
    <3>2. [step |-> "consume", effect |-> e, seen |-> effect[e].version, payload |-> p]
            \in CallState
      BY <3>1 DEF CallState
    <3>3. QED
      BY <2>1, <3>2 DEF MarkDispatchPending
  <2>2. CASE DispatchConsumed(c)
    <3>1. [step |-> "store", effect |-> call[c].effect, seen |-> call[c].seen,
           to |-> "dispatch_pending"] \in CallState
      BY <2>2, CallKinds DEF DispatchConsumed, CallState, PastAdmission
    <3>2. QED
      BY <2>2, <3>1 DEF DispatchConsumed
  <2>3. QED
    BY <1>3, <1>5, <2>1, <2>2
    DEF Dispatching, MarkDispatchPending, DispatchConsume, DispatchRefused, DispatchConsumed,
        ConsumeLost, Return, effectVars
<1>6. ASSUME NEW c \in Call, Tracking(c)
      PROVE  /\ effect' \in [Effect -> EffectRow]
             /\ call' \in [Call -> CallState]
             /\ UNCHANGED <<daemon, sweep, crashes>>
  <2>1. ASSUME NEW d \in Decision, NEW op \in Operation, NEW p \in Payload,
               NEW r \in Reversibility, Propose(c, d, op, p, r)
        PROVE  effect' \in [Effect -> EffectRow] /\ call' \in [Call -> CallState]
    BY <2>1 DEF Propose, CallState
  <2>2. ASSUME NEW e \in Effect, RecordEffect(c, e)
        PROVE  effect' \in [Effect -> EffectRow] /\ call' \in [Call -> CallState]
    <3> DEFINE d == call[c].decision
               row == [state |-> IF decision[d].result = "admit" THEN "admitted"
                                 ELSE "needs_approval",
                       decision |-> d, digest |-> decision[d].digest, version |-> 0]
    <3>1. d \in Decision /\ Exists(d)
      BY <2>2, CallKinds DEF RecordEffect, Recording, RecordingOf
    <3>2. decision[d].digest \in DigestSet
      BY <3>1 DEF Exists, PolicyTypeOK, DecisionRow, NoDecision
    <3>3. row \in EffectRow
      BY <3>1, <3>2 DEF EffectRow, State
    <3>4. effect' = [effect EXCEPT ![e] = row]
      BY <2>2 DEF RecordEffect
    <3>5. QED
      BY <1>3, <2>2, <3>3, <3>4 DEF RecordEffect, Return
  <2>3. ASSUME NEW e \in Effect, NEW from, NEW to \in PastAdmission, Load(c, e, from, to),
               "absent" \notin from
        PROVE  effect' \in [Effect -> EffectRow] /\ call' \in [Call -> CallState]
    <3>1. effect[e].version \in Nat
      BY <2>3, EffectKinds DEF Load, Present
    <3>2. [step |-> "store", effect |-> e, seen |-> effect[e].version, to |-> to] \in CallState
      BY <3>1 DEF CallState
    <3>3. QED
      BY <2>3, <3>2 DEF Load
  <2>4. ASSUME NEW e \in Effect,
               \/ MarkDispatched(c, e) \/ MarkObserved(c, e) \/ MarkOutcomeUnknown(c, e)
               \/ \E t \in isTerminal : Resolve(c, e, t)
        PROVE  effect' \in [Effect -> EffectRow] /\ call' \in [Call -> CallState]
    BY <2>3, <2>4
    DEF MarkDispatched, MarkObserved, MarkOutcomeUnknown, Resolve, PastAdmission, isTerminal
  <2>5. CASE Store(c)
    <3> DEFINE e == call[c].effect
    <3>1. /\ e \in Effect /\ Present(e)
          /\ call[c].to \in PastAdmission
      BY <2>5, CallKinds DEF Store, Snapshot, SnapshotOf
    <3>2. effect'[e] = [state |-> call[c].to, decision |-> effect[e].decision,
                        digest |-> effect[e].digest, version |-> effect[e].version + 1]
      BY <2>5, <3>1, EffectKinds DEF Store
    <3>3. effect'[e] \in EffectRow
      BY <3>1, <3>2, EffectKinds DEF EffectRow, State
    <3>4. effect' = [effect EXCEPT ![e] = effect'[e]]
      BY <2>5, <3>1 DEF Store
    <3>5. QED
      BY <1>3, <2>5, <3>3, <3>4 DEF Store, Return
  <2>6. QED
    BY <1>3, <1>6, <2>1, <2>2, <2>4, <2>5
    DEF Tracking, Propose, RecordEffect, MarkDispatched, MarkObserved, MarkOutcomeUnknown,
        Resolve, Load, Store, StoreConflict, CallFails, Return
<1>7. CASE Crash
  BY <1>3, <1>7 DEF Crash
<1>8. ASSUME NEW e \in Effect, SweepOne(e)
      PROVE  /\ effect' \in [Effect -> EffectRow]
             /\ UNCHANGED <<call, daemon, crashes>>
             /\ sweep' \subseteq Effect
  <2>1. effect'[e] = [state |-> "outcome_unknown", decision |-> effect[e].decision,
                      digest |-> effect[e].digest, version |-> effect[e].version + 1]
    BY <1>8, EffectKinds DEF SweepOne, Present
  <2>2. effect'[e] \in EffectRow
    BY <1>8, <2>1, EffectKinds DEF SweepOne, EffectRow, State, PastAdmission, Present
  <2>3. effect' = [effect EXCEPT ![e] = effect'[e]]
    BY <1>8 DEF SweepOne
  <2>4. QED
    BY <1>8, <2>2, <2>3 DEF SweepOne
<1>9. CASE Boot \/ Serve \/ Clock \/ UNCHANGED vars
  BY <1>9 DEF Boot, Serve, Clock, vars, effectVars
<1>10. QED
  BY <1>4, <1>5, <1>6, <1>7, <1>8, <1>9 DEF Next, Reconciling

----------------------------------------------------------------------------
(* The three steps that write an effect.                                    *)

\* Store moves an effect whose version nobody changed since the call read it.
LEMMA StoreMoves ==
  ASSUME IInv, NEW c \in Call, Store(c)
  PROVE  LET e == call[c].effect IN
         /\ e \in Effect /\ Present(e)
         /\ effect[e].state \in From[call[c].to]
         /\ effect' = [effect EXCEPT ![e] =
              [state |-> call[c].to, decision |-> effect[e].decision,
               digest |-> effect[e].digest, version |-> effect[e].version + 1]]
         /\ call[c].to \in PastAdmission
         /\ Licensed(e)
<1> DEFINE e == call[c].effect
<1> USE DEF IInv
<1>1. /\ e \in Effect /\ Present(e)
      /\ effect[e].state \in From[call[c].to]
      /\ call[c].to \in PastAdmission
      /\ call[c].to = "dispatch_pending" => Licensed(e)
  BY CallKinds DEF Store, Snapshot, SnapshotOf
<1>2. effect'[e] = [state |-> call[c].to, decision |-> effect[e].decision,
                    digest |-> effect[e].digest, version |-> effect[e].version + 1]
  BY <1>1, EffectKinds DEF Store, TypeOK
<1>3. effect' = [effect EXCEPT ![e] = effect'[e]]
  BY <1>1 DEF Store, TypeOK
<1>5. call[c].to # "dispatch_pending" => effect[e].state \in PastAdmission
  BY <1>1 DEF From, PastAdmission
<1>6. Licensed(e)
  BY <1>1, <1>5 DEF Dispatched
<1>7. QED
  BY <1>1, <1>2, <1>3, <1>6

\* SweepOne moves a dispatched effect, which is licensed.
LEMMA SweepMoves ==
  ASSUME IInv, NEW e \in Effect, SweepOne(e)
  PROVE  /\ Present(e)
         /\ Licensed(e)
         /\ effect' = [effect EXCEPT ![e] =
              [state |-> "outcome_unknown", decision |-> effect[e].decision,
               digest |-> effect[e].digest, version |-> effect[e].version + 1]]
<1>1. Present(e) /\ Licensed(e)
  BY DEF IInv, SweepOne, Dispatched, PastAdmission, Present
<1>2. effect'[e] = [state |-> "outcome_unknown", decision |-> effect[e].decision,
                    digest |-> effect[e].digest, version |-> effect[e].version + 1]
  BY <1>1, EffectKinds DEF SweepOne, IInv, TypeOK
<1>3. effect' = [effect EXCEPT ![e] = effect'[e]]
  BY DEF SweepOne, IInv, TypeOK
<1>4. QED
  BY <1>1, <1>2, <1>3

\* Moving one licensed effect on satisfies Advance.
LEMMA MoveOne ==
  ASSUME IInv, [Next]_vars, NEW e \in Effect, Present(e), Licensed(e), NEW s \in PastAdmission,
         effect' = [effect EXCEPT ![e] =
           [state |-> s, decision |-> effect[e].decision,
            digest |-> effect[e].digest, version |-> effect[e].version + 1]]
  PROVE  /\ EffectDecided'
         /\ Dispatched'
         /\ \A c \in Call : call'[c] = call[c] => RecordingOf(c)' /\ SnapshotOf(c)'
<1>1. [PolicyNext]_policyVars /\ \A d \in direct' \ direct : ~decision[d].consumed
  BY PolicyPart, DirectStep
<1>2. effect \in [Effect -> EffectRow]
  BY DEF IInv, TypeOK
<1>3. /\ effect'[e] = [state |-> s, decision |-> effect[e].decision,
                       digest |-> effect[e].digest, version |-> effect[e].version + 1]
      /\ \A f \in Effect \ {e} : effect'[f] = effect[f]
  BY <1>2
<1>4. s # "absent"
  BY DEF PastAdmission, isTerminal
<1>5. \A f \in Effect : /\ Present(f)' = Present(f)
                        /\ effect'[f].decision = effect[f].decision
                        /\ effect'[f].digest = effect[f].digest
  BY <1>3, <1>4 DEF Present
<1>6. \A f \in Effect : \/ effect'[f] = effect[f]
                        \/ effect'[f].version = effect[f].version + 1
  BY <1>3
<1>7. \A f \in Effect : effect'[f].state \in PastAdmission => Licensed(f)
  BY <1>3 DEF IInv, Dispatched
<1>8. QED
  BY <1>1, <1>5, <1>6, <1>7, Advance

\* RecordEffect adds one effect, for the decision only this call holds.
LEMMA RecordStep ==
  ASSUME IInv, [Next]_vars, NEW c \in Call, NEW e \in Effect, RecordEffect(c, e)
  PROVE  /\ EffectDecided'
         /\ Dispatched'
         /\ \A b \in Call \ {c} : RecordingOf(b)' /\ SnapshotOf(b)'
<1> DEFINE d == call[c].decision
<1> USE DEF IInv
<1>1. /\ call[c].step = "record"
      /\ d \in Decision /\ Exists(d)
      /\ \A f \in Effect : Present(f) => effect[f].decision # d
      /\ \A b \in Call \ {c} : call[b].step = "record" => call[b].decision # d
  BY CallKinds DEF RecordEffect, Recording, RecordingOf
<1>2. [PolicyNext]_policyVars /\ direct' = direct /\ decision' = decision /\ permits' = permits
  BY PolicyPart DEF RecordEffect, policyVars
<1>3. /\ ~Present(e)
      /\ effect'[e].state \in {"admitted", "needs_approval"}
      /\ effect'[e].decision = d
      /\ effect'[e].digest = decision[d].digest
      /\ \A f \in Effect \ {e} : effect'[f] = effect[f]
      /\ \A b \in Call \ {c} : call'[b] = call[b]
  BY EffectKinds DEF RecordEffect, Return, TypeOK
<1>4. Present(e)' /\ \A f \in Effect \ {e} : Present(f)' = Present(f)
  BY <1>3 DEF Present
<1>5. EffectDecided'
  BY <1>1, <1>2, <1>3, <1>4 DEF EffectDecided, Exists
<1>6. \A f \in Effect \ {e} : Licensed(f)' = Licensed(f)
  BY <1>2, <1>3 DEF Licensed
<1>7. Dispatched'
  BY <1>3, <1>6 DEF Dispatched, PastAdmission, isTerminal
<1>8. ASSUME NEW b \in Call \ {c}
      PROVE  RecordingOf(b)'
  BY <1>1, <1>2, <1>3, <1>4 DEF Recording, RecordingOf, Exists
<1>9. ASSUME NEW b \in Call \ {c}
      PROVE  SnapshotOf(b)'
  <2>1. call[b].step \in {"consume", "store"} => call[b].effect \in Effect \ {e}
    BY <1>3, CallKinds DEF Snapshot, SnapshotOf
  <2>2. SnapshotOf(b)
    BY DEF Snapshot
  <2>3. QED
    BY <1>3, <1>4, <1>6, <2>1, <2>2 DEF SnapshotOf
<1>10. QED
  BY <1>5, <1>7, <1>8, <1>9

\* A call that passed Consume for its effect holds the license of that effect.
LEMMA DispatchLicenses ==
  ASSUME IInv, [Next]_vars, NEW c \in Call, DispatchConsumed(c)
  PROVE  /\ Present(call[c].effect)
         /\ Licensed(call[c].effect)'
         /\ call[c].effect \in Effect
         /\ call[c].seen <= effect[call[c].effect].version
         /\ call[c].seen = effect[call[c].effect].version
              => effect[call[c].effect].state = "admitted"
<1> DEFINE e == call[c].effect
           d == tx[c].row
<1> USE DEF IInv
<1>1. /\ call[c].step = "consume"
      /\ tx[c].kind = "consume"
      /\ UNCHANGED <<effect, direct>>
      /\ permits' = [permits EXCEPT ![d] = Append(@, [payload |-> tx[c].payload, at |-> tx[c].at])]
      /\ decision' = [decision EXCEPT ![d].consumed = TRUE]
  BY DEF DispatchConsumed, ConsumeCommit
<1>2. /\ e \in Effect /\ Present(e)
      /\ call[c].seen <= effect[e].version
      /\ call[c].seen = effect[e].version => effect[e].state = "admitted"
  BY <1>1, CallKinds DEF Snapshot, SnapshotOf
<1>3. d = effect[e].decision /\ d \in Decision /\ Exists(d)
  BY <1>1, <1>2, EffectKinds DEF Spending, EffectDecided
<1>4. /\ ~decision[d].consumed
      /\ decision[d].result = "admit"
      /\ decision[d].digest = effect[e].digest
  BY <1>1, <1>2, <1>3 DEF PolicyInv, HeldRow, EffectDecided
<1>5. permits[d] = <<>> /\ d \notin direct
  BY <1>3, <1>4, Zenon DEF PolicyInv, SpentPermit, DirectSpent
<1>6. permits'[d] = Append(<<>>, [payload |-> tx[c].payload, at |-> tx[c].at])
  BY <1>1, <1>3, <1>5 DEF TypeOK, PolicyTypeOK
<1>7. Len(permits'[d]) = 1
  BY <1>6
<1>8. [PolicyNext]_policyVars
  BY PolicyPart
<1>9. decision'[d].result = decision[d].result /\ decision'[d].digest = decision[d].digest
  BY <1>3, <1>8, RowsKept
<1>10. decision'[d].consumed
  <2>1. decision[d] \in [result : Result, op : Operation, digest : DigestSet,
                         reason : Reason, expires : Nat, consumed : BOOLEAN]
    BY <1>3 DEF Exists, TypeOK, PolicyTypeOK, DecisionRow, NoDecision
  <2>2. decision'[d] = [decision[d] EXCEPT !.consumed = TRUE]
    BY <1>1, <1>3 DEF TypeOK, PolicyTypeOK
  <2>3. QED
    BY <2>1, <2>2
<1>11. effect' = effect /\ direct' = direct /\ call'[c].effect = e
  BY <1>1 DEF DispatchConsumed, TypeOK
<1>12. QED
  BY <1>2, <1>3, <1>4, <1>5, <1>7, <1>9, <1>10, <1>11 DEF Licensed

\* Effects, proposals and what calls have read.
LEMMA CallsStep ==
  ASSUME IInv, [Next]_vars
  PROVE  EffectDecided' /\ Dispatched' /\ Recording' /\ Snapshot'
<1> DEFINE Goal == EffectDecided' /\ Dispatched' /\ Recording' /\ Snapshot'
<1> SUFFICES Goal
  OBVIOUS
<1>1. /\ [PolicyNext]_policyVars
      /\ \A d \in direct' \ direct : ~decision[d].consumed
  BY PolicyPart, DirectStep
<1>2. ASSUME \A c \in Call : call'[c] = call[c] \/ call'[c] = NoCall,
             EffectDecided' /\ Dispatched',
             \A c \in Call : call'[c] = call[c] /\ call'[c] # NoCall
                => RecordingOf(c)' /\ SnapshotOf(c)'
      PROVE  Goal
  <2>1. \A c \in Call : call'[c].step = "record" => call'[c] = call[c]
    BY <1>2 DEF NoCall
  <2>2. \A c \in Call : call'[c] = NoCall => RecordingOf(c)' /\ SnapshotOf(c)'
    BY DEF NoCall, RecordingOf, SnapshotOf
  <2>3. Recording'
    BY <1>2, <2>1, <2>2 DEF Recording, IInv
  <2>4. Snapshot'
    BY <1>2, <2>2 DEF Snapshot
  <2>5. QED
    BY <1>2, <2>3, <2>4
\* A call returns: it holds nothing any more.
<1>3. ASSUME NEW c \in Call, Return(c)
      PROVE  /\ call'[c] = NoCall
             /\ \A b \in Call \ {c} : call'[b] = call[b]
  BY <1>3 DEF Return, IInv, TypeOK
\* Steps that leave the effects alone, and of the calls at most end some.
<1>4. ASSUME UNCHANGED effect, \A c \in Call : call'[c] = call[c] \/ call'[c] = NoCall
      PROVE  Goal
  <2>1. /\ EffectDecided' /\ Dispatched'
        /\ \A c \in Call : call'[c] = call[c] => RecordingOf(c)' /\ SnapshotOf(c)'
    BY <1>1, <1>4, Frame
  <2>2. QED
    BY <1>2, <1>4, <2>1
\* Steps that leave the effects alone and move one call on.
<1>5. ASSUME UNCHANGED effect, NEW c \in Call,
             \A b \in Call \ {c} : call'[b] = call[b],
             call'[c].step # "record",
             SnapshotOf(c)'
      PROVE  Goal
  <2>1. /\ EffectDecided' /\ Dispatched'
        /\ \A b \in Call \ {c} : RecordingOf(b)' /\ SnapshotOf(b)'
    BY <1>1, <1>5, Frame
  <2>2. RecordingOf(c)'
    BY <1>5 DEF RecordingOf
  <2>3. QED
    BY <1>5, <2>1, <2>2 DEF Recording, Snapshot, IInv
<1>6. ASSUME NEW c \in Call, NEW d \in Decision, NEW op \in Operation, NEW p \in Payload,
             NEW r \in Reversibility, Propose(c, d, op, p, r)
      PROVE  Goal
  <2>1. /\ UNCHANGED effect
        /\ ~Exists(d)
        /\ call'[c] = [step |-> "record", decision |-> d]
        /\ \A b \in Call \ {c} : call'[b] = call[b]
    BY <1>6 DEF Propose, Decide, IInv, TypeOK
  <2>2. Exists(d)'
    BY <1>6 DEF Propose, Decide, Exists, IInv, TypeOK, PolicyTypeOK
  <2>3. /\ EffectDecided' /\ Dispatched'
        /\ \A b \in Call \ {c} : RecordingOf(b)' /\ SnapshotOf(b)'
    BY <1>1, <2>1, Frame
  <2>4. \A e \in Effect : Present(e)' => effect'[e].decision # d
    BY <2>1 DEF IInv, EffectDecided, Present
  <2>5. RecordingOf(c)' /\ SnapshotOf(c)'
    BY <2>1, <2>2, <2>4 DEF RecordingOf, SnapshotOf
  <2>6. \A b \in Call \ {c} : call'[b].step = "record" => call'[b].decision # d
    BY <2>1 DEF IInv, Recording, RecordingOf
  <2>7. Recording'
    BY <2>1, <2>3, <2>5, <2>6 DEF Recording, IInv
  <2>8. QED
    BY <2>3, <2>5, <2>7 DEF Snapshot
<1>7. ASSUME NEW c \in Call, NEW e \in Effect, RecordEffect(c, e)
      PROVE  Goal
  <2>1. /\ call'[c] = NoCall
        /\ \A b \in Call \ {c} : call'[b] = call[b]
    BY <1>3, <1>7 DEF RecordEffect
  <2>2. /\ EffectDecided' /\ Dispatched'
        /\ \A b \in Call \ {c} : RecordingOf(b)' /\ SnapshotOf(b)'
    BY <1>7, RecordStep
  <2>3. QED
    BY <1>2, <2>1, <2>2
<1>8. ASSUME NEW c \in Call, NEW e \in Effect, NEW p \in Payload, MarkDispatchPending(c, e, p)
      PROVE  Goal
  <2>1. /\ UNCHANGED effect
        /\ effect[e].state = "admitted"
        /\ call'[c] = [step |-> "consume", effect |-> e, seen |-> effect[e].version, payload |-> p]
        /\ \A b \in Call \ {c} : call'[b] = call[b]
    BY <1>8 DEF MarkDispatchPending, IInv, TypeOK
  <2>2. Present(e) /\ effect[e].version \in Nat
    BY <2>1, EffectKinds DEF Present, IInv
  <2>3. SnapshotOf(c)'
    BY <2>1, <2>2 DEF SnapshotOf, Present
  <2>4. QED
    BY <1>5, <2>1, <2>3
<1>9. ASSUME NEW c \in Call, DispatchConsumed(c)
      PROVE  Goal
  <2>1. /\ UNCHANGED effect
        /\ call'[c] = [step |-> "store", effect |-> call[c].effect, seen |-> call[c].seen,
                       to |-> "dispatch_pending"]
        /\ \A b \in Call \ {c} : call'[b] = call[b]
    BY <1>9 DEF DispatchConsumed, IInv, TypeOK
  <2>2. SnapshotOf(c)'
    BY <1>9, <2>1, DispatchLicenses DEF SnapshotOf, Present, From, PastAdmission
  <2>3. QED
    BY <1>5, <2>1, <2>2
<1>10. ASSUME NEW c \in Call, NEW e \in Effect, NEW to \in PastAdmission,
              to # "dispatch_pending", Load(c, e, From[to], to)
       PROVE  Goal
  <2>1. /\ UNCHANGED effect
        /\ effect[e].state \in From[to]
        /\ call'[c] = [step |-> "store", effect |-> e, seen |-> effect[e].version, to |-> to]
        /\ \A b \in Call \ {c} : call'[b] = call[b]
    BY <1>10 DEF Load, IInv, TypeOK
  <2>2. Present(e) /\ effect[e].version \in Nat
    BY <2>1, EffectKinds DEF Present, IInv, From
  <2>3. SnapshotOf(c)'
    BY <1>10, <2>1, <2>2 DEF SnapshotOf, Present
  <2>4. QED
    BY <1>5, <2>1, <2>3
<1>11. ASSUME NEW c \in Call, NEW e \in Effect,
              \/ MarkDispatched(c, e) \/ MarkObserved(c, e) \/ MarkOutcomeUnknown(c, e)
              \/ \E t \in isTerminal : Resolve(c, e, t)
       PROVE  Goal
  BY <1>10, <1>11
  DEF MarkDispatched, MarkObserved, MarkOutcomeUnknown, Resolve, From, PastAdmission, isTerminal
<1>12. ASSUME NEW c \in Call, Store(c)
       PROVE  Goal
  <2>1. Return(c)
    BY <1>12 DEF Store
  <2>2. /\ EffectDecided' /\ Dispatched'
        /\ \A b \in Call : call'[b] = call[b] => RecordingOf(b)' /\ SnapshotOf(b)'
    BY <1>12, StoreMoves, MoveOne
  <2>3. QED
    BY <1>2, <1>3, <2>1, <2>2
<1>13. ASSUME NEW e \in Effect, SweepOne(e)
       PROVE  Goal
  <2>1. UNCHANGED call
    BY <1>13 DEF SweepOne
  <2>2. /\ EffectDecided' /\ Dispatched'
        /\ \A b \in Call : call'[b] = call[b] => RecordingOf(b)' /\ SnapshotOf(b)'
    BY <1>13, SweepMoves, MoveOne DEF PastAdmission
  <2>3. QED
    BY <1>2, <2>1, <2>2
<1>14. ASSUME NEW c \in Call,
              \/ DispatchRefused(c) \/ ConsumeLost(c) \/ StoreConflict(c) \/ CallFails(c)
       PROVE  Goal
  <2>1. UNCHANGED effect /\ Return(c)
    BY <1>14 DEF DispatchRefused, ConsumeLost, StoreConflict, CallFails
  <2>2. QED
    BY <1>3, <1>4, <2>1
<1>15. CASE Crash
  BY <1>4, <1>15 DEF Crash
<1>16. ASSUME NEW c \in Call, PolicyRoute(c) \/ DispatchConsume(c)
       PROVE  Goal
  BY <1>4, <1>16
  DEF PolicyRoute, HandleDecide, HandleConsume, HandleConsumed, HandleApprove, HandleApproved,
      HandleDeny, DispatchConsume, effectVars
<1>17. CASE Boot \/ Serve \/ Clock \/ UNCHANGED vars
  BY <1>4, <1>17 DEF Boot, Serve, Clock, vars, effectVars
<1>18. QED
  BY <1>6, <1>7, <1>8, <1>9, <1>11, <1>12, <1>13, <1>14, <1>15, <1>16, <1>17
  DEF Next, Dispatching, Tracking, Reconciling

\* A consuming transaction and the dispatch it serves agree on the decision.
LEMMA SpendingStep ==
  ASSUME IInv, [Next]_vars
  PROVE  Spending'
<1> USE DEF IInv, TypeOK, PolicyTypeOK
<1> DEFINE Kept(c) == \/ tx'[c] = tx[c] /\ call'[c] = call[c]
                      \/ tx'[c].kind # "consume"
                      \/ call'[c].step # "consume"
                      \/ tx'[c].row = effect'[call'[c].effect].decision
<1>1. ASSUME \A c \in Call : Kept(c),
             \A e \in Effect : Present(e) => effect'[e].decision = effect[e].decision
      PROVE  Spending'
  <2>1. ASSUME NEW c \in Call, call[c].step = "consume"
        PROVE  call[c].effect \in Effect /\ Present(call[c].effect)
    BY <2>1, CallKinds DEF Snapshot, SnapshotOf
  <2>2. QED
    BY <1>1, <2>1 DEF Spending
<1>2. \A e \in Effect : Present(e) => effect'[e].decision = effect[e].decision
  <2>1. ASSUME NEW c \in Call, NEW e \in Effect, RecordEffect(c, e)
        PROVE  \A f \in Effect : Present(f) => effect'[f].decision = effect[f].decision
    BY <2>1, EffectKinds DEF RecordEffect
  <2>2. ASSUME NEW c \in Call, Store(c)
        PROVE  \A f \in Effect : effect'[f].decision = effect[f].decision
    <3> DEFINE e == call[c].effect
    <3>1. effect \in [Effect -> EffectRow]
      OBVIOUS
    <3> HIDE DEF IInv, TypeOK, PolicyTypeOK
    <3>2. /\ e \in Effect
          /\ effect' = [effect EXCEPT ![e] =
               [state |-> call[c].to, decision |-> effect[e].decision,
                digest |-> effect[e].digest, version |-> effect[e].version + 1]]
      BY <2>2, StoreMoves
    <3>3. effect'[e].decision = effect[e].decision
      BY <3>1, <3>2
    <3>4. \A f \in Effect \ {e} : effect'[f] = effect[f]
      BY <3>1, <3>2
    <3>5. QED
      BY <3>3, <3>4
  <2>3. ASSUME NEW e \in Effect, SweepOne(e)
        PROVE  \A f \in Effect : effect'[f].decision = effect[f].decision
    BY <2>3, SweepMoves
  <2>4. CASE UNCHANGED effect
    BY <2>4
  <2>5. QED
    BY <2>1, <2>2, <2>3, <2>4
    DEF Next, vars, effectVars, PolicyRoute, HandleDecide, HandleConsume, HandleConsumed,
        HandleApprove, HandleApproved, HandleDeny, Dispatching, MarkDispatchPending,
        DispatchConsume, DispatchRefused, DispatchConsumed, ConsumeLost, Tracking, Propose,
        MarkDispatched, MarkObserved, MarkOutcomeUnknown, Resolve, Load, StoreConflict,
        CallFails, Crash, Reconciling, Boot, Serve, Clock
<1>3. ASSUME NEW a \in Call, PolicyRoute(a)
      PROVE  \A c \in Call : Kept(c)
  BY <1>3
  DEF PolicyRoute, HandleDecide, HandleConsume, HandleConsumed, HandleApprove, HandleApproved,
      HandleDeny, Decide, ConsumeLock, ConsumeCommit, ApproveLock, ApproveCommit, Deny,
      Free, NoCall, Idle, effectVars
<1>4. ASSUME NEW a \in Call, Dispatching(a)
      PROVE  \A c \in Call : Kept(c)
  <2>1. CASE DispatchConsume(a)
    BY <2>1 DEF DispatchConsume, ConsumeLock, effectVars
  <2>2. CASE DispatchRefused(a)
    BY <2>2 DEF DispatchRefused, ConsumeRefused, policyVars, Return, NoCall
  <2>3. CASE DispatchConsumed(a) \/ ConsumeLost(a)
    BY <2>3 DEF DispatchConsumed, ConsumeLost, ConsumeCommit, ConsumeCommitUnacknowledged, Return, Idle
  <2>4. ASSUME NEW e \in Effect, NEW p \in Payload, MarkDispatchPending(a, e, p)
        PROVE  \A c \in Call : Kept(c)
    BY <2>4 DEF MarkDispatchPending, Free, Idle, policyVars
  <2>5. QED
    BY <1>4, <2>1, <2>2, <2>3, <2>4 DEF Dispatching
<1>5. ASSUME NEW a \in Call, Tracking(a)
      PROVE  \A c \in Call : Kept(c)
  BY <1>5
  DEF Tracking, Propose, RecordEffect, MarkDispatched, MarkObserved, MarkOutcomeUnknown, Resolve,
      Load, Store, StoreConflict, CallFails, Return, NoCall, Idle, Free, Decide, policyVars
<1>6. ASSUME Crash
      PROVE  \A c \in Call : Kept(c)
  <2>1. \A c \in Call : tx'[c].kind = "idle"
    BY <1>6 DEF Crash, PolicyCrash, Idle
  <2>2. QED
    BY <2>1
<1>7. ASSUME Reconciling \/ Clock \/ UNCHANGED vars
      PROVE  \A c \in Call : Kept(c)
  <2>1. UNCHANGED <<tx, call>>
    BY <1>7 DEF Reconciling, Boot, SweepOne, Serve, Clock, Tick, vars, policyVars, effectVars
  <2>2. QED
    BY <2>1
<1>8. QED
  BY <1>1, <1>2, <1>3, <1>4, <1>5, <1>6, <1>7 DEF Next

\* Nothing runs before the servers open, and the sweep has listed what it must mark.
LEMMA StartupStep ==
  ASSUME IInv, [Next]_vars
  PROVE  Startup'
<1> USE DEF IInv, TypeOK, PolicyTypeOK, Startup
<1>1. ASSUME NEW c \in Call, PolicyRoute(c) \/ Dispatching(c) \/ Tracking(c)
      PROVE  daemon = "up" /\ daemon' = "up"
  <2>1. Free(c) \/ call[c] # NoCall \/ tx[c] # Idle
    BY <1>1
    DEF PolicyRoute, HandleDecide, HandleConsume, HandleConsumed, HandleApprove, HandleApproved,
        HandleDeny, Dispatching, MarkDispatchPending, DispatchConsume, DispatchRefused,
        DispatchConsumed, ConsumeLost, Tracking, Propose, RecordEffect, MarkDispatched,
        MarkObserved, MarkOutcomeUnknown, Resolve, Load, Store, StoreConflict, CallFails,
        ConsumeCommit, ConsumeCommitUnacknowledged, ApproveCommit, NoCall, Idle
  <2>2. daemon' = daemon
    BY <1>1
    DEF PolicyRoute, HandleDecide, HandleConsume, HandleConsumed, HandleApprove, HandleApproved,
        HandleDeny, Dispatching, MarkDispatchPending, DispatchConsume, DispatchRefused,
        DispatchConsumed, ConsumeLost, Tracking, Propose, RecordEffect, MarkDispatched,
        MarkObserved, MarkOutcomeUnknown, Resolve, Load, Store, StoreConflict, CallFails,
        effectVars
  <2>3. QED
    BY <2>1, <2>2 DEF Free
<1>2. ASSUME NEW e \in Effect, SweepOne(e)
      PROVE  Startup'
  <2>1. UNCHANGED <<call, tx, daemon>> /\ daemon = "booting" /\ sweep' = sweep \ {e}
    BY <1>2 DEF SweepOne, policyVars
  <2>2. effect'[e].state = "outcome_unknown" /\ \A f \in Effect \ {e} : effect'[f] = effect[f]
    BY <1>2, SweepMoves
  <2>3. QED
    BY <2>1, <2>2
<1>3. CASE Crash
  <2>1. daemon' = "down" /\ \A c \in Call : call'[c] = NoCall /\ tx'[c] = Idle
    BY <1>3 DEF Crash, PolicyCrash
  <2>2. QED
    BY <2>1
<1>4. CASE Boot \/ Serve
  BY <1>4 DEF Boot, Serve, policyVars
<1>5. CASE Clock \/ UNCHANGED vars
  <2>1. UNCHANGED <<call, tx, daemon, sweep, effect>>
    BY <1>5 DEF Clock, Tick, vars, policyVars, effectVars
  <2>2. QED
    BY <2>1
<1>6. QED
  BY <1>1, <1>2, <1>3, <1>4, <1>5 DEF Next, Reconciling

LEMMA InitInv == Init => IInv
<1> SUFFICES ASSUME Init
             PROVE  IInv
  OBVIOUS
<1>1. PolicyInv
  BY PolicyInitInv DEF Init
<1>2. \A c \in Call : call[c] = NoCall /\ tx[c] = Idle
  BY DEF Init, PolicyInit
<1>3. \A e \in Effect : effect[e] = NoEffect
  BY DEF Init
<1>4. TypeOK
  BY <1>1, OperationsAssumption
  DEF PolicyInv, TypeOK, Init, EffectRow, CallState
<1>5. EffectDecided /\ Dispatched
  BY <1>3 DEF EffectDecided, Dispatched, Present, NoEffect, PastAdmission, isTerminal
<1>6. Recording /\ Snapshot /\ Spending
  BY <1>2 DEF Recording, RecordingOf, Snapshot, SnapshotOf, Spending, NoCall
<1>7. DirectSpent /\ Startup
  BY <1>2 DEF DirectSpent, Startup, Init
<1>8. QED
  BY <1>1, <1>4, <1>5, <1>6, <1>7 DEF IInv

LEMMA InvStep == IInv /\ [Next]_vars => IInv'
<1> SUFFICES ASSUME IInv, [Next]_vars
             PROVE  IInv'
  OBVIOUS
<1>1. PolicyInv'
  BY PolicyPart, PolicyInvStep DEF IInv
<1>2. QED
  BY <1>1, TypeStep, CallsStep, SpendingStep, DirectStep, StartupStep DEF IInv

\* The inductive invariant holds in every reachable state.
THEOREM Invariant == Spec => []IInv
  BY InitInv, InvStep, PTL DEF Spec

\* Operations runs the policy seam and nothing but it: every theorem about Policy
\* (one dispatch to a decision, bound permits, final resolutions, balanced grants)
\* holds of the daemon, whatever its effects and its crashes do.
THEOREM RunsPolicy == Spec => PolicySpec
<1>1. Init => PolicyInit
  BY DEF Init
<1>2. QED
  BY <1>1, PolicyPart, Invariant, PTL DEF Spec, PolicySpec

\* The seam's properties, of the whole daemon.
THEOREM PolicyHolds == Spec => [](SingleUse /\ PermitBound /\ ApprovalsBalance) /\ ResolutionFinal
  BY RunsPolicy, ConsumeOnce, ConsumeBound, GrantsBalance, ResolutionIsFinal, PTL

\* Types: every effect row and every call in flight stays of its kind.
THEOREM TypeCorrect == Spec => []TypeOK
<1>1. IInv => TypeOK
  BY DEF IInv
<1>2. QED
  BY <1>1, Invariant, PTL

\* Whatever calls interleave, fail, lose answers or die with the daemon, an effect
\* past admission was licensed: MarkDispatchPending in daemon/operations.
THEOREM DispatchIsLicensed == Spec => []DispatchLicensed
<1>1. IInv => DispatchLicensed
  <2> SUFFICES ASSUME IInv, NEW e \in Effect, effect[e].state \in PastAdmission
               PROVE  LET d == effect[e].decision IN
                      /\ decision[d].result = "admit"
                      /\ decision[d].consumed
                      /\ decision[d].digest = effect[e].digest
                      /\ Len(permits[d]) = 1
                      /\ Digest(permits[d][1].payload) = effect[e].digest
                      /\ permits[d][1].at < decision[d].expires
    BY DEF DispatchLicensed
  <2> DEFINE d == effect[e].decision
  <2>1. d \in Decision
    BY EffectKinds DEF IInv, Present, PastAdmission, isTerminal
  <2>2. Licensed(e)
    BY DEF IInv, Dispatched
  <2>3. 1 \in DOMAIN permits[d]
    BY <2>1, <2>2 DEF Licensed, IInv, TypeOK, PolicyTypeOK
  <2>4. /\ Digest(permits[d][1].payload) = decision[d].digest
        /\ permits[d][1].at < decision[d].expires
    BY <2>1, <2>3 DEF IInv, PolicyInv, PermitBound
  <2>5. QED
    BY <2>2, <2>4 DEF Licensed
<1>2. QED
  BY <1>1, Invariant, PTL

\* A decision that let an effect past admission let nothing else past.
THEOREM DispatcherIsOne == Spec => []OneDispatcher
<1>1. IInv => OneDispatcher
  <2> SUFFICES ASSUME IInv, NEW e \in Effect, effect[e].state \in PastAdmission
               PROVE  /\ effect[e].decision \notin direct
                      /\ \A f \in Effect \ {e} : effect[f].decision # effect[e].decision
    BY DEF OneDispatcher
  <2>1. Licensed(e) /\ Present(e) /\ effect[e].decision \in Decision
    BY EffectKinds DEF IInv, Dispatched, Present, PastAdmission, isTerminal
  <2>2. ASSUME NEW f \in Effect \ {e}
        PROVE  effect[f].decision # effect[e].decision
    <3>1. CASE Present(f)
      BY <2>1, <3>1 DEF IInv, EffectDecided
    <3>2. CASE ~Present(f)
      BY <2>1, <3>2, PolicyAssumption, EffectKinds DEF IInv, TypeOK, EffectRow, NoEffect, Present, State, PastAdmission, isTerminal
    <3>3. QED
      BY <3>1, <3>2
  <2>3. QED
    BY <2>1, <2>2 DEF Licensed
<1>2. QED
  BY <1>1, Invariant, PTL

\* The servers open on a swept table: cmd/amh-daemon runs ReconcileInterrupted first.
THEOREM ServeIsSwept == Spec => ServeAfterSweep
<1>1. IInv /\ [Next]_vars =>
        [daemon # "up" /\ daemon' = "up"
           => \A e \in Effect : effect'[e].state # "dispatched"]_vars
  <2> SUFFICES ASSUME IInv, Next, daemon # "up", daemon' = "up"
               PROVE  \A e \in Effect : effect'[e].state # "dispatched"
    BY DEF vars
  <2>1. Serve
    BY DEF Next, PolicyRoute, HandleDecide, HandleConsume, HandleConsumed, HandleApprove,
           HandleApproved, HandleDeny, Dispatching, MarkDispatchPending, DispatchConsume,
           DispatchRefused, DispatchConsumed, ConsumeLost, Tracking, Propose, RecordEffect,
           MarkDispatched, MarkObserved, MarkOutcomeUnknown, Resolve, Load, Store,
           StoreConflict, CallFails, Crash, Reconciling, Boot, SweepOne, Clock, effectVars
  <2>2. QED
    BY <2>1 DEF Serve, IInv, Startup
<1>2. QED
  BY <1>1, Invariant, PTL DEF Spec, ServeAfterSweep

----------------------------------------------------------------------------
(* The detailed lifecycle implements the drawn one: every step of Next maps *)
(* to an arrow of EffectLifecycle for one effect, or to a stutter.          *)

Shown(e) == effect[e].state \notin {"absent", "needs_approval"}

\* The license the mapping shows for an effect.
LicenseOf(e) ==
  IF ~Shown(e) THEN "none"
  ELSE IF decision[effect[e].decision].consumed THEN "spent" ELSE "good"

AbstractStep == [Lifecycle!LifecycleNext]_(Lifecycle!lifeVars)

\* Nothing the mapping reads changes.
LEMMA Stutter ==
  ASSUME \A e \in Effect : effect'[e].state = effect[e].state /\ LicenseOf(e)' = LicenseOf(e)
  PROVE  AbstractStep
  BY DEF AbstractStep, Lifecycle!lifeVars, LicenseOf, Shown

\* One effect spends its license; the others keep theirs.
LEMMA SpendMaps ==
  ASSUME NEW e \in Effect,
         \A f \in Effect : effect'[f].state = effect[f].state,
         LicenseOf(e) = "good", LicenseOf(e)' = "spent",
         \A f \in Effect \ {e} : LicenseOf(f)' = LicenseOf(f)
  PROVE  AbstractStep
<1>1. Lifecycle!Spend(e)
  BY DEF Lifecycle!Spend, LicenseOf, Shown
<1>2. QED
  BY <1>1 DEF AbstractStep, Lifecycle!LifecycleNext

\* One effect moves along an arrow; every license stays what it is.
LEMMA MoveMaps ==
  ASSUME NEW e \in Effect, NEW to \in PastAdmission,
         effect[e].state \in From[to],
         to = "dispatch_pending" => LicenseOf(e) = "spent",
         effect'[e].state = to,
         \A f \in Effect \ {e} : effect'[f].state = effect[f].state,
         \A f \in Effect : LicenseOf(f)' = LicenseOf(f)
  PROVE  AbstractStep
<1>1. Lifecycle!Move(e, From[to], to)
  BY DEF Lifecycle!Move, LicenseOf, Shown
<1>2. \/ Lifecycle!Commit(e) \/ Lifecycle!Dispatch(e) \/ Lifecycle!Observe(e)
      \/ Lifecycle!LoseTrack(e) \/ Lifecycle!Settle(e)
  <2>1. CASE to = "dispatch_pending"
    <3>1. From[to] = {"admitted"}
      BY <2>1 DEF From
    <3>2. QED
      BY <1>1, <2>1, <3>1 DEF Lifecycle!Commit, LicenseOf, Shown
  <2>2. CASE to = "dispatched"
    <3>1. From[to] = {"dispatch_pending"}
      BY <2>2 DEF From
    <3>2. QED
      BY <1>1, <2>2, <3>1 DEF Lifecycle!Dispatch
  <2>3. CASE to \in {"observed", "outcome_unknown"}
    <3>1. From[to] = {"dispatched"}
      BY <2>3 DEF From
    <3>2. QED
      BY <1>1, <2>3, <3>1 DEF Lifecycle!Observe, Lifecycle!LoseTrack
  <2>4. CASE to \in isTerminal
    <3>1. From[to] = {"observed", "outcome_unknown"}
      BY <2>4 DEF From, isTerminal
    <3>2. to \in Lifecycle!TerminalState
      BY <2>4 DEF isTerminal, Lifecycle!TerminalState
    <3>3. QED
      BY <1>1, <3>1, <3>2 DEF Lifecycle!Settle
  <2>5. QED
    BY <2>1, <2>2, <2>3, <2>4 DEF PastAdmission
<1>3. QED
  BY <1>2 DEF AbstractStep, Lifecycle!LifecycleNext

\* A new effect appears: parked, or admitted with a license good or already spent.
LEMMA RecordMaps ==
  ASSUME NEW e \in Effect,
         effect[e].state = "absent",
         effect'[e].state \in {"admitted", "needs_approval"},
         \A f \in Effect \ {e} : effect'[f].state = effect[f].state
                                /\ LicenseOf(f)' = LicenseOf(f)
  PROVE  AbstractStep
<1>1. CASE effect'[e].state = "admitted"
  <2>1. PICK l \in {"good", "spent"} : LicenseOf(e)' = l
    BY <1>1 DEF LicenseOf, Shown
  <2>2. Lifecycle!Admit(e, l)
    BY <1>1, <2>1 DEF Lifecycle!Admit, LicenseOf, Shown
  <2>3. QED
    BY <2>1, <2>2 DEF AbstractStep, Lifecycle!LifecycleNext
<1>2. CASE effect'[e].state = "needs_approval"
  <2>1. Lifecycle!Park(e)
    BY <1>2 DEF Lifecycle!Park, LicenseOf, Shown
  <2>2. QED
    BY <2>1 DEF AbstractStep, Lifecycle!LifecycleNext
<1>3. QED
  BY <1>1, <1>2

\* A shown effect names a decision that exists.
LEMMA ShownDecided ==
  ASSUME IInv, NEW e \in Effect, Shown(e)
  PROVE  effect[e].decision \in Decision /\ Exists(effect[e].decision)
  BY EffectKinds DEF IInv, EffectDecided, Shown, Present

\* Only a committing Consume spends a decision, and only the one it holds.
LEMMA SpentByConsume ==
  ASSUME IInv, [PolicyNext]_policyVars
  PROVE  \/ \A d \in Decision : Exists(d) => decision'[d].consumed = decision[d].consumed
         \/ \E d \in Decision : /\ ~decision[d].consumed
                                /\ decision'[d].consumed
                                /\ \A f \in Decision \ {d} : decision'[f] = decision[f]
<1> DEFINE Same == \A d \in Decision : Exists(d) => decision'[d].consumed = decision[d].consumed
           Spent(d) == /\ ~decision[d].consumed
                       /\ decision'[d].consumed
                       /\ \A f \in Decision \ {d} : decision'[f] = decision[f]
<1> USE DEF IInv
<1>1. ASSUME NEW d \in Decision, NEW op \in Operation, NEW p \in Payload,
             NEW r \in Reversibility, Decide(d, op, p, r)
      PROVE  Same
  BY <1>1 DEF Decide, PolicyInv, PolicyTypeOK
<1>2. ASSUME NEW c \in Call, ConsumeCommit(c) \/ ConsumeCommitUnacknowledged(c)
      PROVE  \E d \in Decision : Spent(d)
  <2> DEFINE d == tx[c].row
  <2>1. /\ tx[c].kind = "consume"
        /\ decision' = [decision EXCEPT ![d].consumed = TRUE]
    BY <1>2 DEF ConsumeCommit, ConsumeCommitUnacknowledged
  <2>2. d \in Decision
    BY <2>1 DEF PolicyInv, PolicyTypeOK, Transaction, Idle
  <2>3. ~decision[d].consumed /\ decision[d].result = "admit"
    BY <2>1 DEF PolicyInv, HeldRow
  <2>4. decision[d] \in [result : Result, op : Operation, digest : DigestSet,
                         reason : Reason, expires : Nat, consumed : BOOLEAN]
    BY <2>2, <2>3 DEF PolicyInv, PolicyTypeOK, DecisionRow, NoDecision
  <2>5. decision'[d] = [decision[d] EXCEPT !.consumed = TRUE]
    BY <2>1, <2>2 DEF PolicyInv, PolicyTypeOK
  <2>6. decision'[d].consumed
    BY <2>4, <2>5
  <2>7. \A f \in Decision \ {d} : decision'[f] = decision[f]
    BY <2>1 DEF PolicyInv, PolicyTypeOK
  <2>8. QED
    BY <2>2, <2>3, <2>6, <2>7
<1>3. ASSUME NEW c \in Call, NEW d \in Decision, ApproveCommit(c, d)
      PROVE  Same
  BY <1>3 DEF ApproveCommit, PolicyInv, PolicyTypeOK
<1>4. CASE UNCHANGED decision
  BY <1>4
<1>5. QED
  BY <1>1, <1>2, <1>3, <1>4
  DEF PolicyNext, policyVars, ConsumeLock, ConsumeRefused, TxRollback, ApproveLock, Deny,
      PolicyCrash, Tick

\* Steps that leave the effects alone: a spent license is one effect's, or nobody's.
LEMMA PolicyMaps ==
  ASSUME IInv, [PolicyNext]_policyVars, UNCHANGED effect
  PROVE  AbstractStep
<1>1. \A e \in Effect : Shown(e)' = Shown(e)
  BY DEF Shown
<1>2. CASE \A d \in Decision : Exists(d) => decision'[d].consumed = decision[d].consumed
  <2>1. \A e \in Effect : LicenseOf(e)' = LicenseOf(e)
    BY <1>1, <1>2, ShownDecided DEF LicenseOf
  <2>2. QED
    BY <2>1, Stutter
<1>3. ASSUME NEW d \in Decision, ~decision[d].consumed, decision'[d].consumed,
             \A f \in Decision \ {d} : decision'[f] = decision[f]
      PROVE  AbstractStep
  <2>1. \A e \in Effect : ~(Shown(e) /\ effect[e].decision = d) => LicenseOf(e)' = LicenseOf(e)
    BY <1>1, <1>3, ShownDecided DEF LicenseOf
  <2>2. ASSUME NEW e \in Effect, Shown(e), effect[e].decision = d
        PROVE  AbstractStep
    <3>1. LicenseOf(e) = "good" /\ LicenseOf(e)' = "spent"
      BY <1>1, <1>3, <2>2 DEF LicenseOf
    <3>2. \A f \in Effect \ {e} : ~(Shown(f) /\ effect[f].decision = d)
      BY <2>2 DEF IInv, EffectDecided, Shown, Present
    <3>3. QED
      BY <2>1, <3>1, <3>2, SpendMaps
  <2>3. QED
    BY <2>1, <2>2, Stutter
<1>4. QED
  BY <1>2, <1>3, SpentByConsume

\* The three steps that write an effect leave every other license alone.
LEMMA WriteMaps ==
  ASSUME IInv, NEW e \in Effect, NEW s \in PastAdmission,
         Licensed(e), effect[e].state \in From[s], UNCHANGED decision,
         effect' = [effect EXCEPT ![e] =
           [state |-> s, decision |-> effect[e].decision,
            digest |-> effect[e].digest, version |-> effect[e].version + 1]]
  PROVE  AbstractStep
<1>1. effect \in [Effect -> EffectRow]
  BY DEF IInv, TypeOK
<1>2. /\ effect'[e].state = s /\ effect'[e].decision = effect[e].decision
      /\ \A f \in Effect \ {e} : effect'[f] = effect[f]
  BY <1>1
<1>3. effect[e].state \notin {"absent", "needs_approval"} /\ s \notin {"absent", "needs_approval"}
  BY DEF From, PastAdmission, isTerminal
<1>4. LicenseOf(e) = "spent" /\ LicenseOf(e)' = "spent"
  BY <1>2, <1>3 DEF LicenseOf, Shown, Licensed
<1>5. \A f \in Effect \ {e} : LicenseOf(f)' = LicenseOf(f)
  BY <1>2 DEF LicenseOf, Shown
<1>6. QED
  BY <1>2, <1>4, <1>5, MoveMaps

\* Every step of the daemon is a step of the drawn lifecycle, or none.
LEMMA StepMaps ==
  ASSUME IInv, [Next]_vars
  PROVE  AbstractStep
<1>1. ASSUME NEW c \in Call, NEW e \in Effect, RecordEffect(c, e)
      PROVE  AbstractStep
  <2>1. /\ effect[e].state = "absent"
        /\ effect'[e].state \in {"admitted", "needs_approval"}
        /\ \A f \in Effect \ {e} : effect'[f] = effect[f]
        /\ UNCHANGED decision
    BY <1>1 DEF RecordEffect, policyVars, IInv, TypeOK, NoEffect
  <2>2. \A f \in Effect \ {e} : LicenseOf(f)' = LicenseOf(f)
    BY <2>1 DEF LicenseOf, Shown
  <2>3. QED
    BY <2>1, <2>2, RecordMaps
<1>2. ASSUME NEW c \in Call, Store(c)
      PROVE  AbstractStep
  <2>1. UNCHANGED decision
    BY <1>2 DEF Store, policyVars
  <2>2. QED
    BY <1>2, <2>1, StoreMoves, WriteMaps
<1>3. ASSUME NEW e \in Effect, SweepOne(e)
      PROVE  AbstractStep
  <2>1. /\ UNCHANGED decision
        /\ effect[e].state \in From["outcome_unknown"]
        /\ "outcome_unknown" \in PastAdmission
    BY <1>3 DEF SweepOne, policyVars, From, PastAdmission
  <2>2. QED
    BY <1>3, <2>1, SweepMoves, WriteMaps
<1>4. CASE UNCHANGED effect
  BY <1>4, PolicyPart, PolicyMaps
<1>5. QED
  BY <1>1, <1>2, <1>3, <1>4
  DEF Next, vars, effectVars, PolicyRoute, HandleDecide, HandleConsume, HandleConsumed,
      HandleApprove, HandleApproved, HandleDeny, Dispatching, MarkDispatchPending,
      DispatchConsume, DispatchRefused, DispatchConsumed, ConsumeLost, Tracking, Propose,
      MarkDispatched, MarkObserved, MarkOutcomeUnknown, Resolve, Load, StoreConflict,
      CallFails, Crash, Reconciling, Boot, Serve, Clock

\* daemon/operations keeps its package comment's promise: seen through the state of
\* each row and the license its decision is, it behaves as EffectLifecycle, one arrow
\* to a transition, whatever interleaves, fails or dies in between.
THEOREM LifecycleImplemented == Spec => Implements
<1>1. Init => Lifecycle!LifecycleInit
  <2> SUFFICES ASSUME Init
               PROVE  Lifecycle!LifecycleInit
    OBVIOUS
  <2>1. \A e \in Effect : effect[e].state = "absent"
    BY DEF Init, NoEffect
  <2>2. QED
    BY <2>1 DEF Lifecycle!LifecycleInit
<1>2. IInv /\ [Next]_vars => [Lifecycle!LifecycleNext]_(Lifecycle!lifeVars)
  BY StepMaps DEF AbstractStep
<1>3. QED
  BY <1>1, <1>2, Invariant, PTL DEF Spec, Implements, Lifecycle!LifecycleSpec
=============================================================================
