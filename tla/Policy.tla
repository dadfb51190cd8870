------------------------------ MODULE Policy ------------------------------
(***************************************************************************)
(* daemon/policy: the admission and approval seam.  A decision row is      *)
(* written by Decide, spent at most once by Consume, and, when it needs an *)
(* operator, resolved through its approval request by Approve or Deny.     *)
(*                                                                         *)
(* The rows are PostgreSQL rows under READ COMMITTED.  A transaction that  *)
(* takes SELECT ... FOR UPDATE holds its row until it commits or rolls     *)
(* back; everyone else who wants the row waits.  tx[c] is the transaction  *)
(* call c has open, so a row is locked exactly when some tx[c] names it.   *)
(*                                                                         *)
(* An approval request belongs to one needs_approval decision and is       *)
(* keyed here by that decision.                                            *)
(***************************************************************************)
EXTENDS Naturals, FiniteSets, Sequences

CONSTANTS Call,       \* calls in flight: HTTP handlers and daemon goroutines
          Decision,   \* decision ids (uuids), finitely many
          Operation,  \* operation ids
          Payload,    \* action payloads
          TTL,        \* DefaultDecisionTTL, in clock ticks
          Horizon,    \* bound on the clock
          None

ASSUME PolicyAssumption ==
  /\ TTL \in Nat \ {0}
  /\ Horizon \in Nat
  /\ None \notin Decision \cup Operation \cup Payload

VARIABLES decision,   \* policy_decision
          approval,   \* approval_request.status, by the decision it belongs to
          now,        \* the clock
          tx,         \* the policy transaction each call has open
          permits     \* history: the payloads Consume allowed, per decision

policyVars == <<decision, approval, now, tx, permits>>

Reversibility == {"verified", "claimed", "none"}
Result == {"admit", "needs_approval"}
Reason == {"REVERSIBILITY_VERIFIED", "REVERSIBILITY_NOT_VERIFIED", "APPROVED_BY_OPERATOR"}

\* policy.Digest: a collision-free fingerprint of the payload.
Digest(payload) == [sha256 |-> payload]
DigestSet == [sha256 : Payload]

NoDecision == [result |-> "absent", op |-> None, digest |-> None,
               reason |-> "absent", expires |-> 0, consumed |-> FALSE]

DecisionRow ==
  {NoDecision} \cup
  [result : Result, op : Operation, digest : DigestSet, reason : Reason,
   expires : Nat, consumed : BOOLEAN]

Idle == [kind |-> "idle", row |-> None, payload |-> None, at |-> 0]

Transaction ==
  {Idle}
    \cup [kind : {"consume"}, row : Decision, payload : Payload, at : Nat]
    \cup [kind : {"approve"}, row : Decision, payload : {None}, at : Nat]

Permit == [payload : Payload, at : Nat]

PolicyTypeOK ==
  /\ decision \in [Decision -> DecisionRow]
  /\ approval \in [Decision -> {"absent", "pending", "approved", "denied"}]
  /\ now \in Nat
  /\ tx \in [Call -> Transaction]
  /\ permits \in [Decision -> Seq(Permit)]

PolicyInit ==
  /\ decision = [d \in Decision |-> NoDecision]
  /\ approval = [d \in Decision |-> "absent"]
  /\ now = 0
  /\ tx = [c \in Call |-> Idle]
  /\ permits = [d \in Decision |-> <<>>]

Exists(d) == decision[d].result # "absent"

\* Mutant of Locked: SELECT without FOR UPDATE.
Unlocked(kind, d) == FALSE

Locked(kind, d) == \E c \in Call : tx[c].kind = kind /\ tx[c].row = d

----------------------------------------------------------------------------
(* Decide: one transaction that writes the decision and, when the action is *)
(* not attested reversible, its pending approval request.                   *)
Decide(d, op, payload, reversibility) ==
  LET admitted == reversibility = "verified" IN
  /\ ~Exists(d)
  /\ decision' = [decision EXCEPT ![d] =
       [result   |-> IF admitted THEN "admit" ELSE "needs_approval",
        op       |-> op,
        digest   |-> Digest(payload),
        reason   |-> IF admitted THEN "REVERSIBILITY_VERIFIED"
                                 ELSE "REVERSIBILITY_NOT_VERIFIED",
        expires  |-> now + TTL,
        consumed |-> FALSE]]
  /\ approval' = [approval EXCEPT ![d] = IF admitted THEN "absent" ELSE "pending"]
  /\ UNCHANGED <<now, tx, permits>>

\* The checks Consume makes on the locked row before it spends it.
Consumable(d, payload) ==
  /\ Exists(d)
  /\ ~decision[d].consumed
  /\ decision[d].result = "admit"
  /\ decision[d].digest = Digest(payload)
  /\ now < decision[d].expires

\* SELECT ... FOR UPDATE: waits for the row, then every check passes.
ConsumeLock(c, d, payload) ==
  /\ tx[c] = Idle
  /\ ~Locked("consume", d)
  /\ Consumable(d, payload)
  /\ tx' = [tx EXCEPT ![c] = [kind |-> "consume", row |-> d, payload |-> payload, at |-> now]]
  /\ UNCHANGED <<decision, approval, now, permits>>

\* SELECT ... FOR UPDATE, a check fails: the call ends in one of its errors.
ConsumeRefused(c, d, payload) ==
  /\ tx[c] = Idle
  /\ ~Locked("consume", d)
  /\ ~Consumable(d, payload)
  /\ UNCHANGED policyVars

\* UPDATE ... consumed_at, COMMIT, and the caller is told so.
ConsumeCommit(c) ==
  /\ tx[c].kind = "consume"
  /\ decision' = [decision EXCEPT ![tx[c].row].consumed = TRUE]
  /\ permits' = [permits EXCEPT ![tx[c].row] =
                   Append(@, [payload |-> tx[c].payload, at |-> tx[c].at])]
  /\ tx' = [tx EXCEPT ![c] = Idle]
  /\ UNCHANGED <<approval, now>>

\* The commit reached the database and its acknowledgement did not come back:
\* the caller gets an error for a decision that is spent.
ConsumeCommitUnacknowledged(c) ==
  /\ tx[c].kind = "consume"
  /\ decision' = [decision EXCEPT ![tx[c].row].consumed = TRUE]
  /\ tx' = [tx EXCEPT ![c] = Idle]
  /\ UNCHANGED <<approval, now, permits>>

\* Approve: lock the request, and go on only while it is pending.
ApproveLock(c, d) ==
  /\ tx[c] = Idle
  /\ ~Locked("approve", d)
  /\ approval[d] = "pending"
  /\ tx' = [tx EXCEPT ![c] = [kind |-> "approve", row |-> d, payload |-> None, at |-> now]]
  /\ UNCHANGED <<decision, approval, now, permits>>

\* Approve: resolve the request and mint a fresh admit decision for the same
\* operation and digest.  The original decision keeps its verdict.
ApproveCommit(c, fresh) ==
  LET original == tx[c].row IN
  /\ tx[c].kind = "approve"
  /\ ~Exists(fresh)
  /\ approval' = [approval EXCEPT ![original] = "approved"]
  /\ decision' = [decision EXCEPT ![fresh] =
       [result   |-> "admit",
        op       |-> decision[original].op,
        digest   |-> decision[original].digest,
        reason   |-> "APPROVED_BY_OPERATOR",
        expires  |-> now + TTL,
        consumed |-> FALSE]]
  /\ tx' = [tx EXCEPT ![c] = Idle]
  /\ UNCHANGED <<now, permits>>

\* Mutant of Deny: the UPDATE does not ask for a pending request.
DenyResolved(d) ==
  /\ ~Locked("approve", d)
  /\ approval[d] # "absent"
  /\ approval' = [approval EXCEPT ![d] = "denied"]
  /\ UNCHANGED <<decision, now, tx, permits>>

\* Deny: one conditional UPDATE, which waits for a transaction that holds the row.
Deny(d) ==
  /\ ~Locked("approve", d)
  /\ approval[d] = "pending"
  /\ approval' = [approval EXCEPT ![d] = "denied"]
  /\ UNCHANGED <<decision, now, tx, permits>>

\* A deferred tx.Rollback: a statement or the commit failed, or the request's
\* context ended.
TxRollback(c) ==
  /\ tx[c] # Idle
  /\ tx' = [tx EXCEPT ![c] = Idle]
  /\ UNCHANGED <<decision, approval, now, permits>>

\* The daemon dies: PostgreSQL rolls back every transaction it had open.
PolicyCrash ==
  /\ tx' = [c \in Call |-> Idle]
  /\ UNCHANGED <<decision, approval, now, permits>>

Tick ==
  /\ now < Horizon
  /\ now' = now + 1
  /\ UNCHANGED <<decision, approval, tx, permits>>

----------------------------------------------------------------------------
PolicyNext ==
  \/ \E d \in Decision, op \in Operation, p \in Payload, r \in Reversibility :
       Decide(d, op, p, r)
  \/ \E c \in Call, d \in Decision, p \in Payload :
       ConsumeLock(c, d, p) \/ ConsumeRefused(c, d, p)
  \/ \E c \in Call : ConsumeCommit(c) \/ ConsumeCommitUnacknowledged(c) \/ TxRollback(c)
  \/ \E c \in Call, d \in Decision : ApproveLock(c, d) \/ ApproveCommit(c, d)
  \/ \E d \in Decision : Deny(d)
  \/ PolicyCrash
  \/ Tick

PolicySpec == PolicyInit /\ [][PolicyNext]_policyVars

----------------------------------------------------------------------------
(* Properties *)

\* A decision lets at most one caller dispatch, however many race for it and
\* wherever they fail: Consume's FOR UPDATE and its consumed_at check.
SingleUse == \A d \in Decision : Len(permits[d]) <= 1

\* What a caller was allowed to dispatch is what was decided on, by a decision
\* that admits, checked before it expired: Consume's result, digest and expiry checks.
PermitBound ==
  \A d \in Decision : \A i \in DOMAIN permits[d] :
    /\ decision[d].result = "admit"
    /\ Digest(permits[d][i].payload) = decision[d].digest
    /\ permits[d][i].at < decision[d].expires

\* Operator grants balance operator approvals: for every operation and digest
\* there are as many decisions minted by Approve as approved requests, so a
\* denied or unresolved request never admits anything and an approval admits once.
ApprovalsBalance ==
  \A op \in Operation, p \in Payload :
    Cardinality({d \in Decision : /\ decision[d].reason = "APPROVED_BY_OPERATOR"
                                  /\ decision[d].op = op
                                  /\ decision[d].digest = Digest(p)})
      = Cardinality({d \in Decision : /\ approval[d] = "approved"
                                      /\ decision[d].op = op
                                      /\ decision[d].digest = Digest(p)})

\* An operator's resolution is final, and no later call turns a decision's
\* verdict, its digest or its expiry into another one: Approve mints, it never edits.
ResolutionFinal ==
  [][\A d \in Decision :
       /\ approval[d] \in {"approved", "denied"} => approval'[d] = approval[d]
       /\ Exists(d) => decision'[d] \in {decision[d], [decision[d] EXCEPT !.consumed = TRUE]}
    ]_policyVars
=============================================================================
