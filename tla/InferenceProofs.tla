-------------------------- MODULE InferenceProofs --------------------------
(***************************************************************************)
(* Proofs about Inference and Credentials, for every set of calls,         *)
(* accounts, credential rows and token pairs.                              *)
(***************************************************************************)
EXTENDS Inference, TLAPS

PutOp == {"rotate", "activate", "put"}

\* What a call's request and its transaction have to do with each other.
Linked ==
  \A c \in Call :
    /\ request[c].pc = "put" => tx[c].op \in PutOp /\ tx[c].account = request[c].account
    /\ request[c].pc \in {"authenticate", "refresh", "store"} => tx[c] = Idle

\* A put rotates, and a revocation revokes, rows of its own account only.
OwnRows == \A c \in Call : \A k \in tx[c].rows : cred[k].subject = tx[c].account

\* The pair c is going to insert.
InFlight(c, s) ==
  \/ tx[c].op \in PutOp /\ tx[c].secret = s
  \/ request[c].pc = "store" /\ request[c].to = s

\* A pair that was not stored yet is known to one call, and the provider takes it:
\* nobody can refresh it before a row shows it.
FreshPairs ==
  \A c \in Call, s \in Secret : InFlight(c, s) =>
    /\ s \in accepted
    /\ \A k \in Cred : cred[k].secret # s
    /\ \A d \in Call \ {c} : ~InFlight(d, s)

\* A pair is stored once, after the provider gave it out.
StoredOnce ==
  \A k \in Cred : cred[k] # NoCred =>
    /\ cred[k].secret \in issued
    /\ \A j \in Cred \ {k} : cred[j].secret # cred[k].secret

\* A refresh starts from a stored pair of the account it is for.
StartsStored ==
  \A c \in Call : request[c].from # None =>
    \E k \in Cred : cred[k].secret = request[c].from /\ cred[k].subject = request[c].account

\* The put of a refreshed pair has the row the refresh started from among those it
\* rotates, unless somebody else rotated or revoked it.
RotatesItsOwn ==
  \A c \in Call : request[c].pc = "put" =>
    \A k \in Active(tx[c].account) :
      cred[k].secret = request[c].from => k \in tx[c].rows

IInv ==
  /\ TypeOK /\ NewestKept /\ Linked /\ OwnRows /\ FreshPairs /\ StoredOnce /\ StartsStored
  /\ RotatesItsOwn /\ ServedRefreshable

----------------------------------------------------------------------------
RevokeOp == {"revokeAccount", "revokeRows", "revoke"}
TxFields ==
  [op : {"idle"} \cup PutOp \cup RevokeOp, account : Account \cup {None},
   secret : Secret \cup {None}, rows : SUBSET Cred]
Request ==
  {NoRequest}
    \cup [pc : {"authenticate"}, account : Account, from : {None}, to : {None}]
    \cup [pc : {"refresh"}, account : Account, from : Secret, to : {None}]
    \cup [pc : {"store", "put"}, account : Account, from : Secret, to : Secret]
RequestFields ==
  [pc : {"idle", "authenticate", "refresh", "store", "put"}, account : Account \cup {None},
   from : Secret \cup {None}, to : Secret \cup {None}]
CredFields ==
  [subject : Account \cup {None}, secret : Secret \cup {None}, rotated : BOOLEAN, revoked : BOOLEAN]

\* What the state of a call's transaction says of its fields.
LEMMA TxShape ==
  ASSUME TypeOK, NEW c \in Call
  PROVE  /\ tx \in [Call -> Transaction] /\ tx[c] \in TxFields
         /\ tx[c].op = "idle" <=> tx[c] = Idle
         /\ tx[c].op \in PutOp => tx[c].account \in Account /\ tx[c].secret \in Secret
         /\ tx[c].op \in RevokeOp => tx[c].account \in Account /\ tx[c].secret = None
<1>1. tx \in [Call -> Transaction] /\ tx[c] \in Transaction
  BY DEF TypeOK, VaultTypeOK
<1>2. QED
  BY <1>1, CredentialsAssumption DEF Transaction, Idle, TxFields, PutOp, RevokeOp

\* ... that of a request ...
LEMMA RequestShape ==
  ASSUME TypeOK, NEW c \in Call
  PROVE  /\ request \in [Call -> Request] /\ request[c] \in RequestFields
         /\ request[c].pc = "idle" <=> request[c] = NoRequest
         /\ request[c].pc # "idle" => request[c].account \in Account
         /\ request[c].pc \in {"idle", "authenticate"} => request[c].from = None
         /\ request[c].pc \in {"refresh", "store", "put"} => request[c].from \in Secret
         /\ request[c].pc \in {"idle", "authenticate", "refresh"} => request[c].to = None
         /\ request[c].pc \in {"store", "put"} => request[c].to \in Secret
<1>1. request \in [Call -> Request] /\ request[c] \in Request
  BY DEF TypeOK, Request
<1>2. QED
  BY <1>1, CredentialsAssumption DEF Request, NoRequest, RequestFields

\* ... and of a row.
LEMMA CredShape ==
  ASSUME TypeOK, NEW k \in Cred
  PROVE  /\ cred \in [Cred -> CredRow] /\ cred[k] \in CredFields
         /\ cred[k] # NoCred <=> cred[k].subject \in Account
         /\ cred[k] # NoCred <=> cred[k].secret \in Secret
         /\ cred[k] = NoCred <=> cred[k].subject = None
<1>1. cred \in [Cred -> CredRow] /\ cred[k] \in CredRow
  BY DEF TypeOK, VaultTypeOK
<1>2. CASE cred[k] = NoCred
  BY <1>1, <1>2, CredentialsAssumption DEF NoCred, CredFields
<1>3. CASE cred[k] # NoCred
  <2>1. cred[k] \in [subject : Account, secret : Secret, rotated : BOOLEAN, revoked : BOOLEAN]
    BY <1>1, <1>3 DEF CredRow
  <2>2. QED
    BY <1>1, <1>3, <2>1, CredentialsAssumption DEF CredFields
<1>4. QED
  BY <1>2, <1>3

\* A transaction that moves on within its kind.
LEMMA AdvanceEffect ==
  ASSUME TypeOK, NEW c \in Call, NEW op, NEW rows \in SUBSET Cred, Advance(c, op, rows),
         \/ tx[c].op \in PutOp /\ op \in PutOp
         \/ tx[c].op \in RevokeOp /\ op \in RevokeOp
  PROVE  /\ tx'[c].op = op /\ tx'[c].rows = rows
         /\ tx'[c].account = tx[c].account /\ tx'[c].secret = tx[c].secret
         /\ tx'[c] # Idle
         /\ \A d \in Call \ {c} : tx'[d] = tx[d]
         /\ tx' \in [Call -> Transaction]
<1> DEFINE t == [tx[c] EXCEPT !.op = op, !.rows = rows]
<1>1. tx' = [tx EXCEPT ![c] = t] /\ tx \in [Call -> Transaction] /\ tx[c] \in TxFields
  BY TxShape DEF Advance
<1>2. t.op = op /\ t.rows = rows /\ t.account = tx[c].account /\ t.secret = tx[c].secret
  BY <1>1 DEF TxFields
<1>3. t \in Transaction
  <2>1. CASE tx[c].op \in PutOp /\ op \in PutOp
    <3>1. t \in [op : PutOp, account : Account, secret : Secret, rows : SUBSET Cred]
      BY <1>1, <2>1, TxShape DEF TxFields
    <3>2. QED
      BY <3>1 DEF Transaction, PutOp
  <2>2. CASE tx[c].op \in RevokeOp /\ op \in RevokeOp
    <3>1. t \in [op : RevokeOp, account : Account, secret : {None}, rows : SUBSET Cred]
      BY <1>1, <2>2, TxShape DEF TxFields
    <3>2. QED
      BY <3>1 DEF Transaction, RevokeOp
  <2>3. QED
    BY <2>1, <2>2
<1>4. t # Idle
  BY <1>2 DEF Idle, PutOp, RevokeOp
<1> HIDE DEF t
<1>5. tx'[c] = t /\ \A d \in Call \ {c} : tx'[d] = tx[d]
  BY <1>1
<1>6. QED
  BY <1>1, <1>2, <1>3, <1>4, <1>5

\* A transaction that opens, or ends: the record t takes its place.
LEMMA OpenEffect ==
  ASSUME TypeOK, NEW c \in Call, NEW t \in Transaction, tx' = [tx EXCEPT ![c] = t]
  PROVE  /\ tx'[c] = t
         /\ \A d \in Call \ {c} : tx'[d] = tx[d]
         /\ tx' \in [Call -> Transaction]
  BY DEF TypeOK, VaultTypeOK

LEMMA RequestEffect ==
  ASSUME TypeOK, NEW c \in Call, NEW t \in Request, request' = [request EXCEPT ![c] = t]
  PROVE  /\ request'[c] = t
         /\ \A d \in Call \ {c} : request'[d] = request[d]
         /\ request' \in [Call -> Request]
  BY DEF TypeOK, Request

----------------------------------------------------------------------------
\* The statement that a transaction goes on to: nothing is visible yet, and a put loses
\* no row that is still active.
LEMMA AdvanceStep ==
  ASSUME IInv, NEW c \in Call, NEW op, NEW rows \in SUBSET Cred, Advance(c, op, rows),
         \/ /\ tx[c].op \in PutOp /\ op \in PutOp
            /\ rows \subseteq tx[c].rows
            /\ tx[c].rows \cap Active(tx[c].account) \subseteq rows
         \/ tx[c].op \in RevokeOp /\ op \in RevokeOp,
         \A k \in rows : cred[k].subject = tx[c].account,
         UNCHANGED <<account, cred, providerVars>>
  PROVE  IInv'
<1> USE DEF IInv
<1>1. /\ tx'[c].op = op /\ tx'[c].rows = rows
      /\ tx'[c].account = tx[c].account /\ tx'[c].secret = tx[c].secret /\ tx'[c] # Idle
      /\ \A d \in Call \ {c} : tx'[d] = tx[d]
      /\ tx' \in [Call -> Transaction]
  BY AdvanceEffect
<1>2. UNCHANGED <<account, cred, request, accepted, expired, issued, lost>>
  BY DEF providerVars
<1>3. tx[c] # Idle /\ (tx'[c].op \in PutOp <=> tx[c].op \in PutOp)
  BY <1>1, TxShape DEF PutOp, RevokeOp, Idle
<1>4. TypeOK'
  BY <1>1, <1>2 DEF TypeOK, VaultTypeOK
<1>5. NewestKept' /\ StoredOnce' /\ StartsStored' /\ ServedRefreshable'
  BY <1>2 DEF NewestKept, StoredOnce, StartsStored, ServedRefreshable, Active
<1>6. Linked'
  BY <1>1, <1>2, <1>3 DEF Linked
<1>7. OwnRows'
  BY <1>1, <1>2 DEF OwnRows
<1>8. \A d \in Call, s \in Secret : InFlight(d, s)' <=> InFlight(d, s)
  BY <1>1, <1>2, <1>3 DEF InFlight
<1>9. FreshPairs'
  BY <1>2, <1>8 DEF FreshPairs
<1>10. RotatesItsOwn'
  <2> SUFFICES ASSUME NEW d \in Call, request'[d].pc = "put", NEW k \in Active(tx[d].account)',
                      cred'[k].secret = request'[d].from
               PROVE  k \in tx'[d].rows
    BY DEF RotatesItsOwn
  <2>1. tx'[d].account = tx[d].account /\ k \in Active(tx[d].account)
    BY <1>1, <1>2 DEF Active
  <2>2. k \in tx[d].rows
    BY <1>2, <2>1 DEF RotatesItsOwn
  <2>3. CASE d = c
    <3>1. tx[c].op \in PutOp
      BY <1>2, <2>3 DEF Linked
    <3>2. tx[c].rows \cap Active(tx[c].account) \subseteq rows
      BY <3>1 DEF PutOp, RevokeOp
    <3>3. QED
      BY <1>1, <2>1, <2>2, <2>3, <3>2
  <2>4. QED
    BY <1>1, <2>2, <2>3
<1>11. QED
  BY <1>4, <1>5, <1>6, <1>7, <1>9, <1>10

LEMMA StatementStep ==
  ASSUME IInv, NEW c \in Call, UNCHANGED providerVars,
         Rotate(c) \/ Activate(c) \/ RevokeAccountRow(c) \/ RevokeRows(c)
  PROVE  IInv'
<1>1. TypeOK /\ \A k \in tx[c].rows : cred[k].subject = tx[c].account
  BY DEF IInv, OwnRows
<1>2. tx[c].rows \in SUBSET Cred
  BY <1>1, TxShape DEF TxFields
<1>3. CASE Rotate(c)
  <2>1. tx[c].rows \cap Active(tx[c].account) \in SUBSET Cred /\ tx[c].op \in PutOp
    BY <1>2, <1>3 DEF Rotate, PutOp
  <2>2. QED
    BY <1>1, <1>3, <2>1, AdvanceStep DEF Rotate, PutOp
<1>4. CASE Activate(c)
  BY <1>1, <1>2, <1>4, AdvanceStep DEF Activate, PutOp
<1>5. CASE RevokeAccountRow(c)
  <2>1. Unrevoked(tx[c].account) \in SUBSET Cred
    BY DEF Unrevoked
  <2>2. \A k \in Unrevoked(tx[c].account) : cred[k].subject = tx[c].account
    BY DEF Unrevoked
  <2>3. QED
    BY <1>5, <2>1, <2>2, AdvanceStep DEF RevokeAccountRow, RevokeOp
<1>6. CASE RevokeRows(c)
  <2>1. tx[c].rows \cap Unrevoked(tx[c].account) \in SUBSET Cred
    BY <1>2
  <2>2. QED
    BY <1>1, <1>6, <2>1, AdvanceStep DEF RevokeRows, RevokeOp
<1>7. QED
  BY <1>3, <1>4, <1>5, <1>6

\* Rows that are revoked keep what they are; nothing becomes active.
LEMMA RevokedEffect ==
  ASSUME TypeOK, NEW rows \in SUBSET Cred,
         cred' = [k \in Cred |-> IF k \in rows THEN [cred[k] EXCEPT !.revoked = TRUE] ELSE cred[k]],
         \A k \in rows : cred[k] # NoCred
  PROVE  /\ cred' \in [Cred -> CredRow]
         /\ \A k \in Cred : /\ cred'[k].subject = cred[k].subject
                            /\ cred'[k].secret = cred[k].secret
                            /\ cred'[k].rotated = cred[k].rotated
                            /\ cred'[k] = NoCred <=> cred[k] = NoCred
         /\ \A a \in Account : Active(a)' \subseteq Active(a)
<1>1. \A k \in Cred :
        /\ cred'[k] \in CredRow
        /\ cred'[k].subject = cred[k].subject /\ cred'[k].secret = cred[k].secret
        /\ cred'[k].rotated = cred[k].rotated
        /\ cred'[k] = NoCred <=> cred[k] = NoCred
        /\ ~cred'[k].revoked => ~cred[k].revoked
  <2> SUFFICES ASSUME NEW k \in Cred
               PROVE  /\ cred'[k] \in CredRow
                      /\ cred'[k].subject = cred[k].subject /\ cred'[k].secret = cred[k].secret
                      /\ cred'[k].rotated = cred[k].rotated
                      /\ cred'[k] = NoCred <=> cred[k] = NoCred
                      /\ ~cred'[k].revoked => ~cred[k].revoked
    OBVIOUS
  <2>1. CASE k \notin rows
    BY <2>1, CredShape
  <2>2. CASE k \in rows
    <3>1. cred'[k] = [cred[k] EXCEPT !.revoked = TRUE] /\ cred[k] # NoCred
      BY <2>2
    <3>2. cred[k] \in [subject : Account, secret : Secret, rotated : BOOLEAN, revoked : BOOLEAN]
      BY <3>1, CredShape DEF CredRow
    <3>3. cred'[k] \in [subject : Account, secret : Secret, rotated : BOOLEAN, revoked : BOOLEAN]
      BY <3>1, <3>2
    <3>4. /\ cred'[k].subject = cred[k].subject /\ cred'[k].secret = cred[k].secret
          /\ cred'[k].rotated = cred[k].rotated /\ cred'[k].revoked = TRUE
      BY <3>1, <3>2
    <3>5. cred'[k] # NoCred
      BY <3>4, CredShape, <3>1 DEF NoCred
    <3>6. QED
      BY <3>1, <3>3, <3>4, <3>5 DEF CredRow
  <2>3. QED
    BY <2>1, <2>2
<1>2. cred' \in [Cred -> CredRow]
  BY <1>1
<1>3. QED
  BY <1>1, <1>2 DEF Active

\* Rows are revoked: nobody can serve them any more, and nothing else changes but the
\* end of the revocation that did it.
LEMMA RevokedStep ==
  ASSUME IInv, NEW rows \in SUBSET Cred,
         cred' = [k \in Cred |-> IF k \in rows THEN [cred[k] EXCEPT !.revoked = TRUE] ELSE cred[k]],
         \A k \in rows : cred[k] # NoCred,
         account' \in [Account -> {"absent", "pending", "active", "revoked"}],
         \A a \in Account : account'[a] = "active" => account[a] = "active",
         tx' \in [Call -> Transaction],
         \A c \in Call : tx'[c] = tx[c] \/ (tx[c].op \in RevokeOp /\ tx'[c] = Idle),
         UNCHANGED providerVars
  PROVE  IInv'
<1> USE DEF IInv
<1>1. /\ cred' \in [Cred -> CredRow]
      /\ \A k \in Cred : /\ cred'[k].subject = cred[k].subject
                         /\ cred'[k].secret = cred[k].secret
                         /\ cred'[k].rotated = cred[k].rotated
                         /\ cred'[k] = NoCred <=> cred[k] = NoCred
      /\ \A a \in Account : Active(a)' \subseteq Active(a)
  BY RevokedEffect
<1>2. UNCHANGED <<request, accepted, expired, issued, lost>>
  BY DEF providerVars
<1>3. \A c \in Call : tx'[c].op \in PutOp \/ tx[c].op \in PutOp \/ request[c].pc = "put"
                      => tx'[c] = tx[c]
  BY DEF Linked, PutOp, RevokeOp, Idle
<1>4. TypeOK'
  BY <1>1, <1>2 DEF TypeOK, VaultTypeOK
<1>5. NewestKept'
  BY <1>1 DEF NewestKept
<1>6. Linked'
  BY <1>2, <1>3 DEF Linked, RevokeOp, Idle
<1>7. OwnRows'
  BY <1>1, TxShape DEF OwnRows, Idle, TxFields
<1>8. \A c \in Call, s \in Secret : InFlight(c, s)' <=> InFlight(c, s)
  BY <1>2, <1>3 DEF InFlight
<1>9. FreshPairs'
  BY <1>1, <1>2, <1>8 DEF FreshPairs
<1>10. StoredOnce'
  BY <1>1, <1>2 DEF StoredOnce
<1>11. StartsStored'
  BY <1>1, <1>2 DEF StartsStored
<1>12. RotatesItsOwn'
  <2> SUFFICES ASSUME NEW c \in Call, request'[c].pc = "put", NEW k \in Active(tx[c].account)',
                      cred'[k].secret = request'[c].from
               PROVE  k \in tx'[c].rows
    BY DEF RotatesItsOwn
  <2>1. tx'[c] = tx[c] /\ request[c].pc = "put" /\ tx[c].account \in Account /\ k \in Cred
    BY <1>2, <1>3, TxShape DEF Linked, Active
  <2>2. k \in Active(tx[c].account)
    BY <1>1, <2>1 DEF Active
  <2>3. QED
    BY <1>1, <1>2, <2>1, <2>2 DEF RotatesItsOwn
<1>13. ServedRefreshable'
  <2> SUFFICES ASSUME NEW a \in Account, NEW k \in Active(a)'
               PROVE  \/ cred'[k].secret \in accepted' \cup lost'
                      \/ \E c \in Call : /\ request'[c].pc \in {"store", "put"}
                                         /\ request'[c].from = cred'[k].secret
    BY DEF ServedRefreshable
  <2>1. k \in Active(a) /\ k \in Cred
    BY <1>1 DEF Active
  <2>2. QED
    BY <1>1, <1>2, <2>1 DEF ServedRefreshable
<1>14. QED
  BY <1>4, <1>5, <1>6, <1>7, <1>9, <1>10, <1>11, <1>12, <1>13

LEMMA RevokeCommitStep ==
  ASSUME IInv, NEW c \in Call, RevokeCommit(c), UNCHANGED providerVars
  PROVE  IInv'
<1> USE DEF IInv
<1>1. tx[c].op \in RevokeOp /\ tx[c].rows \in SUBSET Cred /\ tx[c].account \in Account
  BY TxShape DEF RevokeCommit, RevokeOp, TxFields
<1>2. \A k \in tx[c].rows : cred[k] # NoCred
  BY <1>1, CredShape DEF OwnRows
<1>3. /\ account' \in [Account -> {"absent", "pending", "active", "revoked"}]
      /\ \A a \in Account : account'[a] = "active" => account[a] = "active"
  BY DEF RevokeCommit, TypeOK, VaultTypeOK
<1>4. Idle \in Transaction
  BY DEF Transaction
<1>5. /\ tx'[c] = Idle /\ \A d \in Call \ {c} : tx'[d] = tx[d]
      /\ tx' \in [Call -> Transaction]
  BY <1>4, OpenEffect DEF RevokeCommit
<1>6. \A d \in Call : tx'[d] = tx[d] \/ (tx[d].op \in RevokeOp /\ tx'[d] = Idle)
  BY <1>1, <1>5
<1>7. QED
  BY <1>1, <1>2, <1>3, <1>5, <1>6, RevokedStep DEF RevokeCommit

LEMMA RevokeStep ==
  ASSUME IInv, NEW k \in Cred, Revoke(k)
  PROVE  IInv'
<1> USE DEF IInv
<1>1. cred' = [j \in Cred |-> IF j \in {k} THEN [cred[j] EXCEPT !.revoked = TRUE] ELSE cred[j]]
  BY CredShape DEF Revoke, RevokeCredential
<1>2. {k} \in SUBSET Cred /\ \A j \in {k} : cred[j] # NoCred
  BY DEF Revoke, RevokeCredential
<1>3. /\ account' \in [Account -> {"absent", "pending", "active", "revoked"}]
      /\ \A a \in Account : account'[a] = "active" => account[a] = "active"
      /\ tx' \in [Call -> Transaction]
      /\ \A c \in Call : tx'[c] = tx[c] \/ (tx[c].op \in RevokeOp /\ tx'[c] = Idle)
      /\ UNCHANGED providerVars
  BY DEF Revoke, RevokeCredential, TypeOK, VaultTypeOK
<1>4. QED
  BY <1>1, <1>2, <1>3, RevokedStep

----------------------------------------------------------------------------
LEMMA CreateAccountStep ==
  ASSUME IInv, NEW a \in Account, HandleCreateAccount(a)
  PROVE  IInv'
<1> USE DEF IInv, HandleCreateAccount, CreateAccount
<1>1. UNCHANGED <<cred, tx, request, accepted, expired, issued, lost>>
  BY DEF providerVars
<1>2. /\ account' \in [Account -> {"absent", "pending", "active", "revoked"}]
      /\ \A b \in Account : account'[b] = "active" => account[b] = "active"
  BY DEF TypeOK, VaultTypeOK
<1>3. TypeOK'
  BY <1>1, <1>2 DEF TypeOK, VaultTypeOK
<1>4. NewestKept'
  BY <1>1, <1>2 DEF NewestKept
<1>5. Linked' /\ OwnRows' /\ StoredOnce' /\ StartsStored'
  BY <1>1 DEF Linked, OwnRows, StoredOnce, StartsStored
<1>6. FreshPairs' /\ RotatesItsOwn' /\ ServedRefreshable'
  BY <1>1 DEF FreshPairs, InFlight, RotatesItsOwn, ServedRefreshable, Active
<1>7. QED
  BY <1>3, <1>4, <1>5, <1>6

\* The operator's put opens with a pair the provider gave out just now.
LEMMA PutAccountStep ==
  ASSUME IInv, NEW c \in Call, NEW a \in Account, NEW s \in Secret,
         HandlePutAccountCredential(c, a, s)
  PROVE  IInv'
<1> DEFINE t == [op |-> "rotate", account |-> a, secret |-> s, rows |-> Active(a)]
<1> USE DEF IInv
<1>1. /\ tx' = [tx EXCEPT ![c] = t] /\ request[c] = NoRequest /\ tx[c] = Idle
      /\ s \notin issued /\ issued' = issued \cup {s} /\ accepted' = accepted \cup {s}
      /\ UNCHANGED <<account, cred, request, expired, lost>>
  BY DEF HandlePutAccountCredential, PutCredential, Free
<1>2. /\ t \in Transaction
      /\ t.op = "rotate" /\ t.account = a /\ t.secret = s /\ t.rows = Active(a)
  BY DEF Transaction, Active
<1> HIDE DEF t
<1>3. tx'[c] = t /\ (\A d \in Call \ {c} : tx'[d] = tx[d]) /\ tx' \in [Call -> Transaction]
  BY <1>1, <1>2, OpenEffect
<1>4. TypeOK'
  BY <1>1, <1>3 DEF TypeOK, VaultTypeOK
<1>5. NewestKept' /\ StartsStored'
  BY <1>1 DEF NewestKept, StartsStored
<1>6. request[c].pc = "idle"
  BY <1>1 DEF NoRequest
<1>7. Linked'
  BY <1>1, <1>3, <1>6 DEF Linked
<1>8. OwnRows'
  BY <1>1, <1>2, <1>3 DEF OwnRows, Active
<1>9. \A q \in Secret : InFlight(c, q)' <=> q = s
  BY <1>1, <1>2, <1>3, <1>6 DEF InFlight, PutOp
<1>10. \A d \in Call \ {c}, q \in Secret : InFlight(d, q)' <=> InFlight(d, q)
  BY <1>1, <1>3 DEF InFlight
<1>11. \A k \in Cred : cred[k].secret # s
  <2> SUFFICES ASSUME NEW k \in Cred, cred[k].secret = s
               PROVE  FALSE
    OBVIOUS
  <2>1. QED
    BY <1>1, CredShape DEF StoredOnce
<1>12. \A d \in Call : ~InFlight(d, s)
  BY <1>1 DEF FreshPairs, TypeOK
<1>13. FreshPairs'
  BY <1>1, <1>9, <1>10, <1>11, <1>12 DEF FreshPairs
<1>14. StoredOnce'
  BY <1>1 DEF StoredOnce
<1>15. RotatesItsOwn'
  BY <1>1, <1>3, <1>6 DEF RotatesItsOwn, Active
<1>16. ServedRefreshable'
  BY <1>1 DEF ServedRefreshable, Active
<1>17. QED
  BY <1>4, <1>5, <1>7, <1>8, <1>13, <1>14, <1>15, <1>16

LEMMA RevokeAccountStep ==
  ASSUME IInv, NEW c \in Call, NEW a \in Account, HandleRevokeAccount(c, a)
  PROVE  IInv'
<1> DEFINE t == [op |-> "revokeAccount", account |-> a, secret |-> None, rows |-> {}]
<1> USE DEF IInv
<1>1. /\ tx' = [tx EXCEPT ![c] = t] /\ request[c] = NoRequest /\ tx[c] = Idle
      /\ UNCHANGED <<account, cred, request, accepted, expired, issued, lost>>
  BY DEF HandleRevokeAccount, RevokeAccount, Free, providerVars
<1>2. t \in Transaction /\ t.op = "revokeAccount" /\ t.rows = {}
  BY DEF Transaction
<1> HIDE DEF t
<1>3. tx'[c] = t /\ (\A d \in Call \ {c} : tx'[d] = tx[d]) /\ tx' \in [Call -> Transaction]
  BY <1>1, <1>2, OpenEffect
<1>4. TypeOK'
  BY <1>1, <1>3 DEF TypeOK, VaultTypeOK
<1>5. NewestKept' /\ StartsStored' /\ StoredOnce' /\ ServedRefreshable'
  BY <1>1 DEF NewestKept, StartsStored, StoredOnce, ServedRefreshable, Active
<1>6. request[c].pc = "idle" /\ tx[c].op = "idle"
  BY <1>1 DEF NoRequest, Idle
<1>7. Linked'
  BY <1>1, <1>3, <1>6 DEF Linked
<1>8. OwnRows'
  BY <1>1, <1>2, <1>3 DEF OwnRows
<1>9. \A d \in Call, q \in Secret : InFlight(d, q)' <=> InFlight(d, q)
  BY <1>1, <1>2, <1>3, <1>6 DEF InFlight, PutOp
<1>10. FreshPairs'
  BY <1>1, <1>9 DEF FreshPairs
<1>11. RotatesItsOwn'
  BY <1>1, <1>3, <1>6 DEF RotatesItsOwn, Active
<1>12. QED
  BY <1>4, <1>5, <1>7, <1>8, <1>10, <1>11

----------------------------------------------------------------------------
\* A request that starts, finds what it serves, or ends before its refresh: nothing of
\* it is on its way to the vault, before or after.
LEMMA RequestStep ==
  ASSUME IInv, NEW c \in Call, NEW t \in Request, request' = [request EXCEPT ![c] = t],
         tx[c] = Idle \/ t = NoRequest,
         request[c].pc \notin {"store", "put"}, t.pc \notin {"store", "put"},
         t.from # None =>
           \E k \in Cred : cred[k].secret = t.from /\ cred[k].subject = t.account,
         UNCHANGED <<vaultVars, accepted, expired, issued, lost>>
  PROVE  IInv'
<1> USE DEF IInv
<1>1. UNCHANGED <<account, cred, tx>>
  BY DEF vaultVars
<1>2. /\ request'[c] = t /\ \A d \in Call \ {c} : request'[d] = request[d]
      /\ request' \in [Call -> Request]
  BY RequestEffect
<1>3. TypeOK'
  BY <1>1, <1>2 DEF TypeOK, VaultTypeOK, Request
<1>4. NewestKept' /\ OwnRows' /\ StoredOnce'
  BY <1>1 DEF NewestKept, OwnRows, StoredOnce
<1>5. Linked'
  BY <1>1, <1>2 DEF Linked, NoRequest
<1>6. \A d \in Call, q \in Secret : InFlight(d, q)' <=> InFlight(d, q)
  BY <1>1, <1>2 DEF InFlight
<1>7. FreshPairs'
  BY <1>1, <1>6 DEF FreshPairs
<1>8. StartsStored'
  BY <1>1, <1>2 DEF StartsStored
<1>9. RotatesItsOwn'
  BY <1>1, <1>2 DEF RotatesItsOwn, Active
<1>10. ServedRefreshable'
  BY <1>1, <1>2 DEF ServedRefreshable, Active
<1>11. QED
  BY <1>3, <1>4, <1>5, <1>7, <1>8, <1>9, <1>10

LEMMA FinishIsRequest ==
  /\ NoRequest \in Request /\ NoRequest.pc = "idle" /\ NoRequest.from = None
  /\ NoRequest.to = None
  BY DEF Request, NoRequest

LEMMA ResolveStep ==
  ASSUME IInv, NEW c \in Call, NEW a \in Account, ResolveCredential(c, a)
  PROVE  IInv'
<1> DEFINE t == [NoRequest EXCEPT !.pc = "authenticate", !.account = a]
<1>1. t \in Request /\ t.pc = "authenticate" /\ t.from = None
  BY DEF Request, NoRequest
<1>2. request' = [request EXCEPT ![c] = t] /\ tx[c] = Idle /\ request[c].pc = "idle"
  BY FinishIsRequest DEF ResolveCredential, Free
<1> HIDE DEF t
<1>3. QED
  BY <1>1, <1>2, RequestStep DEF ResolveCredential

LEMMA AuthenticateStep ==
  ASSUME IInv, NEW c \in Call, Authenticate(c)
  PROVE  IInv'
<1>1. TypeOK /\ Linked
  BY DEF IInv
<1>2. request[c].pc = "authenticate" /\ tx[c] = Idle
  BY <1>1 DEF Authenticate, Linked
<1>3. PICK k \in Active(request[c].account) :
        IF cred[k].secret \in expired
        THEN request' = [request EXCEPT ![c].pc = "refresh", ![c].from = cred[k].secret]
        ELSE Finish(c)
  BY DEF Authenticate
<1>4. k \in Cred /\ cred[k].subject = request[c].account /\ request[c].account \in Account
  BY <1>1, <1>2, RequestShape DEF Active
<1>5. CASE cred[k].secret \in expired
  <2> DEFINE t == [request[c] EXCEPT !.pc = "refresh", !.from = cred[k].secret]
  <2>1. request' = [request EXCEPT ![c] = t]
    BY <1>1, <1>3, <1>5, RequestShape
  <2>2. request[c] \in RequestFields /\ request[c].to = None /\ cred[k].secret \in Secret
    BY <1>1, <1>2, <1>4, CredShape, RequestShape
  <2>3. /\ t.pc = "refresh" /\ t.from = cred[k].secret
        /\ t.account = request[c].account
        /\ t \in Request
    BY <1>4, <2>2 DEF RequestFields, Request
  <2> HIDE DEF t
  <2>4. QED
    BY <1>2, <1>4, <2>1, <2>3, RequestStep DEF Authenticate
<1>6. CASE cred[k].secret \notin expired
  BY <1>2, <1>3, <1>6, FinishIsRequest, RequestStep DEF Authenticate, Finish
<1>7. QED
  BY <1>5, <1>6

LEMMA NothingServedStep ==
  ASSUME IInv, NEW c \in Call, NotConfigured(c) \/ RefreshFails(c)
  PROVE  IInv'
<1>1. request[c].pc \notin {"store", "put"} /\ request' = [request EXCEPT ![c] = NoRequest]
  BY DEF NotConfigured, RefreshFails, Finish
<1>2. UNCHANGED <<vaultVars, accepted, expired, issued, lost>>
  BY DEF NotConfigured, RefreshFails
<1>3. QED
  BY <1>1, <1>2, FinishIsRequest, RequestStep

----------------------------------------------------------------------------
\* What the provider's answer means: the new pair is nobody's yet, and the pair it takes
\* away, if it does, is a stored one.
LEMMA GrantEffect ==
  ASSUME IInv, NEW c \in Call, request[c].pc = "refresh", NEW from, from = request[c].from,
         NEW to \in Secret, Granted(from, to)
  PROVE  /\ from \in Secret /\ to \in accepted' /\ issued' = issued \cup {to}
         /\ accepted \ {from} \subseteq accepted' /\ accepted' \subseteq issued'
         /\ \A k \in Cred : cred[k].secret # to
         /\ \A d \in Call : ~InFlight(d, to)
         /\ \A d \in Call, s \in Secret : InFlight(d, s) => s # from
<1> USE DEF IInv
<1>1. from \in Secret /\ from # None
  BY RequestShape, CredentialsAssumption
<1>2. /\ to \in accepted' /\ issued' = issued \cup {to} /\ to \notin issued
      /\ accepted \ {from} \subseteq accepted' /\ accepted' \subseteq issued'
  BY <1>1 DEF Granted, TypeOK
<1>3. \A k \in Cred : cred[k].secret # to
  <2> SUFFICES ASSUME NEW k \in Cred, cred[k].secret = to
               PROVE  FALSE
    OBVIOUS
  <2>1. QED
    BY <1>2, CredShape DEF StoredOnce
<1>4. \A d \in Call : ~InFlight(d, to)
  BY <1>2 DEF FreshPairs, TypeOK
<1>5. \E k \in Cred : cred[k].secret = from
  BY <1>1 DEF StartsStored
<1>6. QED
  BY <1>1, <1>2, <1>3, <1>4, <1>5 DEF FreshPairs

LEMMA RefreshStep ==
  ASSUME IInv, NEW c \in Call, NEW to \in Secret, RefreshOAuth(c, to)
  PROVE  IInv'
<1> DEFINE t == [request[c] EXCEPT !.pc = "store", !.to = to]
           from == request[c].from
<1> USE DEF IInv
<1>1. /\ request[c].pc = "refresh" /\ Granted(from, to)
      /\ UNCHANGED <<account, cred, tx, expired, lost>>
  BY DEF RefreshOAuth, vaultVars
<1>2. request' = [request EXCEPT ![c] = t]
  BY RequestShape DEF RefreshOAuth
<1>3. /\ request[c] \in RequestFields /\ from \in Secret
      /\ request[c].account \in Account /\ tx[c] = Idle
  BY <1>1, RequestShape DEF Linked
<1>4. /\ t.pc = "store" /\ t.to = to /\ t.from = from
      /\ t.account = request[c].account /\ t \in Request
  BY <1>3 DEF RequestFields, Request
<1> HIDE DEF t
<1>5. /\ request'[c] = t /\ \A d \in Call \ {c} : request'[d] = request[d]
      /\ request' \in [Call -> Request]
  BY <1>2, <1>4, RequestEffect
<1>6. /\ to \in accepted' /\ issued' = issued \cup {to}
      /\ accepted \ {from} \subseteq accepted' /\ accepted' \subseteq issued'
      /\ \A k \in Cred : cred[k].secret # to
      /\ \A d \in Call : ~InFlight(d, to)
      /\ \A d \in Call, s \in Secret : InFlight(d, s) => s # from
  BY <1>1, GrantEffect
<1> HIDE DEF from
<1>7. TypeOK'
  BY <1>1, <1>5, <1>6 DEF TypeOK, VaultTypeOK, Request
<1>8. NewestKept' /\ OwnRows' /\ StoredOnce'
  BY <1>1, <1>6 DEF NewestKept, OwnRows, StoredOnce
<1>9. Linked'
  BY <1>1, <1>3, <1>4, <1>5 DEF Linked
<1>10. \A s \in Secret : InFlight(c, s)' <=> s = to
  BY <1>1, <1>3, <1>4, <1>5 DEF InFlight, Idle, PutOp
<1>11. \A d \in Call \ {c}, s \in Secret : InFlight(d, s)' <=> InFlight(d, s)
  BY <1>1, <1>5 DEF InFlight
<1>12. FreshPairs'
  <2> SUFFICES ASSUME NEW e \in Call, NEW s \in Secret, InFlight(e, s)'
               PROVE  /\ s \in accepted'
                      /\ \A k \in Cred : cred'[k].secret # s
                      /\ \A d \in Call \ {e} : ~InFlight(d, s)'
    BY DEF FreshPairs
  <2>1. CASE e = c
    BY <1>1, <1>6, <1>10, <1>11, <2>1
  <2>2. CASE e # c
    <3>1. InFlight(e, s) /\ s # to /\ s # from
      BY <1>6, <1>11, <2>2
    <3>2. s \in accepted'
      BY <1>6, <3>1 DEF FreshPairs
    <3>3. \A d \in Call \ {e} : ~InFlight(d, s)'
      BY <1>10, <1>11, <3>1 DEF FreshPairs
    <3>4. QED
      BY <1>1, <3>1, <3>2, <3>3 DEF FreshPairs
  <2>3. QED
    BY <2>1, <2>2
<1>13. StartsStored'
  BY <1>1, <1>4, <1>5 DEF StartsStored, from
<1>14. RotatesItsOwn'
  BY <1>1, <1>4, <1>5 DEF RotatesItsOwn, Active
<1>15. ServedRefreshable'
  <2> SUFFICES ASSUME NEW a \in Account, NEW k \in Active(a)'
               PROVE  \/ cred'[k].secret \in accepted' \cup lost'
                      \/ \E d \in Call : /\ request'[d].pc \in {"store", "put"}
                                         /\ request'[d].from = cred'[k].secret
    BY DEF ServedRefreshable
  <2>1. k \in Active(a) /\ cred' = cred
    BY <1>1 DEF Active
  <2>2. CASE cred[k].secret = from
    BY <1>4, <1>5, <2>1, <2>2
  <2>3. CASE cred[k].secret # from /\ cred[k].secret \in accepted \cup lost
    BY <1>1, <1>6, <2>1, <2>3
  <2>4. CASE \E d \in Call : request[d].pc \in {"store", "put"} /\ request[d].from = cred[k].secret
    BY <1>1, <1>5, <2>1, <2>4
  <2>5. QED
    BY <2>1, <2>2, <2>3, <2>4 DEF ServedRefreshable
<1>16. QED
  BY <1>7, <1>8, <1>9, <1>12, <1>13, <1>14, <1>15

LEMMA RefreshLostStep ==
  ASSUME IInv, NEW c \in Call, NEW to \in Secret, RefreshLost(c, to)
  PROVE  IInv'
<1> DEFINE from == request[c].from
<1> USE DEF IInv
<1>1. /\ request[c].pc = "refresh" /\ Granted(from, to)
      /\ lost' = lost \cup {from}
      /\ request' = [request EXCEPT ![c] = NoRequest]
      /\ UNCHANGED <<account, cred, tx, expired>>
  BY DEF RefreshLost, vaultVars, Finish
<1>2. /\ request'[c] = NoRequest /\ \A d \in Call \ {c} : request'[d] = request[d]
      /\ request' \in [Call -> Request]
  BY <1>1, FinishIsRequest, RequestEffect
<1>3. /\ to \in accepted' /\ issued' = issued \cup {to}
      /\ accepted \ {from} \subseteq accepted' /\ accepted' \subseteq issued'
      /\ \A d \in Call, s \in Secret : InFlight(d, s) => s # from
  BY <1>1, GrantEffect
<1>4. from \in issued
  <2>1. from # None /\ from \in Secret
    BY <1>1, RequestShape, CredentialsAssumption
  <2>2. PICK k \in Cred : cred[k].secret = from
    BY <2>1 DEF StartsStored
  <2>3. QED
    BY <2>1, <2>2, CredShape DEF StoredOnce
<1>5. request[c].pc # "put" /\ request[c].pc # "store"
  BY <1>1
<1> HIDE DEF from
<1>6. TypeOK'
  BY <1>1, <1>2, <1>3, <1>4 DEF TypeOK, VaultTypeOK, Request
<1>7. NewestKept' /\ OwnRows' /\ StoredOnce'
  BY <1>1, <1>3 DEF NewestKept, OwnRows, StoredOnce
<1>8. Linked'
  BY <1>1, <1>2, FinishIsRequest DEF Linked
<1>9. \A d \in Call, s \in Secret : InFlight(d, s)' <=> InFlight(d, s)
  BY <1>1, <1>2, <1>5, FinishIsRequest DEF InFlight
<1>10. FreshPairs'
  BY <1>1, <1>3, <1>9 DEF FreshPairs
<1>11. StartsStored'
  BY <1>1, <1>2, FinishIsRequest DEF StartsStored
<1>12. RotatesItsOwn'
  BY <1>1, <1>2, FinishIsRequest DEF RotatesItsOwn, Active
<1>13. ServedRefreshable'
  BY <1>1, <1>2, <1>3, <1>5 DEF ServedRefreshable, Active
<1>14. QED
  BY <1>6, <1>7, <1>8, <1>10, <1>11, <1>12, <1>13

\* The refreshed pair's put opens; its snapshot shows the row the refresh started from
\* if that is still active.
LEMMA StoreStep ==
  ASSUME IInv, NEW c \in Call, StoreRefreshed(c)
  PROVE  IInv'
<1> DEFINE a == request[c].account
           t == [op |-> "rotate", account |-> a, secret |-> request[c].to, rows |-> Active(a)]
           r == [request[c] EXCEPT !.pc = "put"]
<1> USE DEF IInv
<1>1. /\ request[c].pc = "store" /\ tx' = [tx EXCEPT ![c] = t]
      /\ UNCHANGED <<account, cred, accepted, expired, issued, lost>>
  BY DEF StoreRefreshed, PutCredential
<1>2. request' = [request EXCEPT ![c] = r]
  BY RequestShape DEF StoreRefreshed
<1>3. /\ request[c] \in RequestFields /\ a \in Account /\ tx[c] = Idle
      /\ request[c].from \in Secret /\ request[c].to \in Secret
  BY <1>1, RequestShape DEF Linked
<1>4. /\ r.pc = "put" /\ r.to = request[c].to /\ r.from = request[c].from
      /\ r.account = a /\ r \in Request
  BY <1>3 DEF RequestFields, Request
<1>5. /\ t \in Transaction
      /\ t.op = "rotate" /\ t.account = a /\ t.secret = request[c].to /\ t.rows = Active(a)
  BY <1>3 DEF Transaction, Active
<1> HIDE DEF t, r, a
<1>6. /\ request'[c] = r /\ \A d \in Call \ {c} : request'[d] = request[d]
      /\ request' \in [Call -> Request]
  BY <1>2, <1>4, RequestEffect
<1>7. tx'[c] = t /\ (\A d \in Call \ {c} : tx'[d] = tx[d]) /\ tx' \in [Call -> Transaction]
  BY <1>1, <1>5, OpenEffect
<1>8. TypeOK'
  BY <1>1, <1>6, <1>7 DEF TypeOK, VaultTypeOK, Request
<1>9. NewestKept' /\ StoredOnce'
  BY <1>1 DEF NewestKept, StoredOnce
<1>10. Linked'
  BY <1>4, <1>5, <1>6, <1>7 DEF Linked, PutOp
<1>11. OwnRows'
  BY <1>1, <1>5, <1>7 DEF OwnRows, Active
<1>12. \A s \in Secret : InFlight(c, s)' <=> InFlight(c, s)
  BY <1>1, <1>3, <1>4, <1>5, <1>6, <1>7 DEF InFlight, PutOp, Idle
<1>13. \A d \in Call \ {c}, s \in Secret : InFlight(d, s)' <=> InFlight(d, s)
  BY <1>6, <1>7 DEF InFlight
<1>14. FreshPairs'
  BY <1>1, <1>12, <1>13 DEF FreshPairs
<1>15. StartsStored'
  BY <1>1, <1>4, <1>6 DEF StartsStored, a
<1>16. RotatesItsOwn'
  BY <1>1, <1>5, <1>6, <1>7 DEF RotatesItsOwn, Active
<1>17. ServedRefreshable'
  BY <1>1, <1>4, <1>6 DEF ServedRefreshable, Active
<1>18. QED
  BY <1>8, <1>9, <1>10, <1>11, <1>14, <1>15, <1>16, <1>17

----------------------------------------------------------------------------
\* What a put leaves behind, row by row.
LEMMA PutEffect ==
  ASSUME IInv, NEW c \in Call, NEW k \in Cred, PutCommit(c, k)
  PROVE  /\ cred' \in [Cred -> CredRow]
         /\ k \notin tx[c].rows /\ cred[k] = NoCred
         /\ cred'[k] = Row(tx[c].account, tx[c].secret)
         /\ \A j \in Cred \ {k} : /\ cred'[j].subject = cred[j].subject
                                  /\ cred'[j].secret = cred[j].secret
                                  /\ cred'[j].revoked = cred[j].revoked
                                  /\ cred'[j] = NoCred <=> cred[j] = NoCred
                                  /\ j \in tx[c].rows => cred'[j].rotated
                                  /\ j \notin tx[c].rows => cred'[j] = cred[j]
<1> USE DEF IInv
<1>1. /\ tx[c].op \in PutOp /\ tx[c].account \in Account /\ tx[c].secret \in Secret
      /\ tx[c].rows \in SUBSET Cred /\ cred[k] = NoCred
  BY TxShape DEF PutCommit, PutOp, TxFields
<1>2. \A j \in tx[c].rows : cred[j] # NoCred
  BY <1>1, CredShape DEF OwnRows
<1>3. cred' = [j \in Cred |->
         IF j = k THEN Row(tx[c].account, tx[c].secret)
         ELSE IF j \in tx[c].rows THEN [cred[j] EXCEPT !.rotated = TRUE] ELSE cred[j]]
  BY DEF PutCommit
<1>4. /\ cred'[k] = Row(tx[c].account, tx[c].secret)
      /\ Row(tx[c].account, tx[c].secret) \in CredRow
  BY <1>1, <1>3 DEF Row, CredRow
<1>5. ASSUME NEW j \in Cred \ {k}
      PROVE  /\ cred'[j].subject = cred[j].subject /\ cred'[j].secret = cred[j].secret
             /\ cred'[j].revoked = cred[j].revoked
             /\ cred'[j] = NoCred <=> cred[j] = NoCred
             /\ j \in tx[c].rows => cred'[j].rotated
             /\ j \notin tx[c].rows => cred'[j] = cred[j]
             /\ cred'[j] \in CredRow
  <2>1. CASE j \notin tx[c].rows
    BY <1>3, <2>1, CredShape
  <2>2. CASE j \in tx[c].rows
    <3>1. cred'[j] = [cred[j] EXCEPT !.rotated = TRUE] /\ cred[j] # NoCred
      BY <1>2, <1>3, <2>2
    <3>2. cred[j] \in [subject : Account, secret : Secret, rotated : BOOLEAN, revoked : BOOLEAN]
      BY <3>1, CredShape DEF CredRow
    <3>3. cred'[j] \in [subject : Account, secret : Secret, rotated : BOOLEAN, revoked : BOOLEAN]
      BY <3>1, <3>2
    <3>4. /\ cred'[j].subject = cred[j].subject /\ cred'[j].secret = cred[j].secret
          /\ cred'[j].revoked = cred[j].revoked /\ cred'[j].rotated = TRUE
      BY <3>1, <3>2
    <3>5. cred'[j] # NoCred
      BY <3>4 DEF NoCred
    <3>6. QED
      BY <2>2, <3>1, <3>3, <3>4, <3>5 DEF CredRow
  <2>3. QED
    BY <2>1, <2>2
<1>6. cred' \in [Cred -> CredRow]
  BY <1>3, <1>4, <1>5
<1>7. QED
  BY <1>1, <1>2, <1>4, <1>5, <1>6

LEMMA PutStep ==
  ASSUME IInv, NEW c \in Call, NEW k \in Cred, Put(c, k)
  PROVE  IInv'
<1> DEFINE a == tx[c].account
           s == tx[c].secret
<1> USE DEF IInv
<1>1. /\ PutCommit(c, k) /\ request' = [request EXCEPT ![c] = NoRequest]
      /\ UNCHANGED <<accepted, expired, issued, lost>>
      /\ tx[c].op = "put" /\ tx' = [tx EXCEPT ![c] = Idle]
      /\ account' = [account EXCEPT ![a] = Activated(@)]
  BY DEF Put, PutCommit, Finish
<1>2. /\ cred' \in [Cred -> CredRow]
      /\ k \notin tx[c].rows /\ cred[k] = NoCred
      /\ cred'[k] = Row(a, s)
      /\ \A j \in Cred \ {k} : /\ cred'[j].subject = cred[j].subject
                               /\ cred'[j].secret = cred[j].secret
                               /\ cred'[j].revoked = cred[j].revoked
                               /\ cred'[j] = NoCred <=> cred[j] = NoCred
                               /\ j \in tx[c].rows => cred'[j].rotated
                               /\ j \notin tx[c].rows => cred'[j] = cred[j]
  BY <1>1, PutEffect
<1>3. a \in Account /\ s \in Secret /\ tx[c].rows \in SUBSET Cred /\ InFlight(c, s)
  BY <1>1, TxShape DEF PutOp, TxFields, InFlight
<1>4. /\ s \in accepted /\ \A j \in Cred : cred[j].secret # s
      /\ \A d \in Call \ {c} : ~InFlight(d, s)
  BY <1>3 DEF FreshPairs
<1>5. /\ cred'[k].subject = a /\ cred'[k].secret = s
      /\ cred'[k].rotated = FALSE /\ cred'[k].revoked = FALSE /\ cred'[k] # NoCred
  BY <1>2, <1>3, CredentialsAssumption DEF Row, NoCred
<1>6. cred[k].subject = None /\ cred[k].secret = None
  BY <1>2 DEF NoCred
<1>7. tx'[c] = Idle /\ (\A d \in Call \ {c} : tx'[d] = tx[d]) /\ tx' \in [Call -> Transaction]
  BY <1>1, OpenEffect DEF Transaction
<1>8. /\ request'[c] = NoRequest /\ \A d \in Call \ {c} : request'[d] = request[d]
      /\ request' \in [Call -> Request]
  BY <1>1, FinishIsRequest, RequestEffect
<1> HIDE DEF a, s
<1>9. TypeOK'
  <2>1. Activated(account[a]) \in {"absent", "pending", "active", "revoked"}
    BY <1>3 DEF TypeOK, VaultTypeOK, Activated
  <2>2. account' \in [Account -> {"absent", "pending", "active", "revoked"}]
    BY <1>1, <1>3, <2>1 DEF TypeOK, VaultTypeOK
  <2>3. QED
    BY <1>1, <1>2, <1>7, <1>8, <2>2 DEF TypeOK, VaultTypeOK, Request
<1>10. NewestKept'
  <2> SUFFICES ASSUME NEW b \in Account, account'[b] = "active"
               PROVE  \E j \in Cred : cred'[j].subject = b /\ ~cred'[j].rotated
    BY DEF NewestKept
  <2>1. CASE b = a
    BY <1>5, <2>1
  <2>2. CASE b # a
    <3>1. account[b] = "active"
      BY <1>1, <1>3, <2>2 DEF TypeOK, VaultTypeOK
    <3>2. PICK j \in Cred : cred[j].subject = b /\ ~cred[j].rotated
      BY <3>1 DEF NewestKept
    <3>3. j \notin tx[c].rows /\ j # k
      BY <1>6, <2>2, <3>2, CredentialsAssumption DEF OwnRows, a
    <3>4. QED
      BY <1>2, <3>2, <3>3
  <2>3. QED
    BY <2>1, <2>2
<1>11. Linked'
  BY <1>7, <1>8, FinishIsRequest DEF Linked
<1>12. OwnRows'
  <2> SUFFICES ASSUME NEW d \in Call, NEW j \in tx'[d].rows
               PROVE  cred'[j].subject = tx'[d].account
    BY DEF OwnRows
  <2>1. d # c /\ tx'[d] = tx[d]
    BY <1>7 DEF Idle
  <2>2. cred[j].subject = tx[d].account /\ j \in Cred
    BY <2>1, TxShape DEF OwnRows, TxFields
  <2>3. tx[d].account \in Account
    <3>1. tx[d].op # "idle"
      BY <2>1, TxShape DEF Idle
    <3>2. QED
      BY <3>1, TxShape DEF TxFields
  <2>4. j # k
    BY <1>6, <2>2, <2>3, CredentialsAssumption
  <2>5. QED
    BY <1>2, <2>1, <2>2, <2>4
<1>13. \A d \in Call, q \in Secret : InFlight(d, q)' => d # c /\ InFlight(d, q) /\ q # s
  BY <1>4, <1>7, <1>8, FinishIsRequest DEF InFlight, Idle, PutOp
<1>14. FreshPairs'
  <2> SUFFICES ASSUME NEW d \in Call, NEW q \in Secret, InFlight(d, q)'
               PROVE  /\ q \in accepted'
                      /\ \A j \in Cred : cred'[j].secret # q
                      /\ \A e \in Call \ {d} : ~InFlight(e, q)'
    BY DEF FreshPairs
  <2>1. InFlight(d, q) /\ q # s
    BY <1>13
  <2>2. \A j \in Cred : cred'[j].secret # q
    BY <1>2, <1>5, <2>1 DEF FreshPairs
  <2>3. QED
    BY <1>1, <1>13, <2>1, <2>2 DEF FreshPairs
<1>15. StoredOnce'
  <2> SUFFICES ASSUME NEW j \in Cred, cred'[j] # NoCred
               PROVE  /\ cred'[j].secret \in issued'
                      /\ \A i \in Cred \ {j} : cred'[i].secret # cred'[j].secret
    BY DEF StoredOnce
  <2>1. s \in issued
    BY <1>4 DEF TypeOK
  <2>2. CASE j = k
    BY <1>1, <1>2, <1>4, <1>5, <2>1, <2>2
  <2>3. CASE j # k
    <3>1. cred[j] # NoCred /\ cred'[j].secret = cred[j].secret /\ cred[j].secret # s
      BY <1>2, <1>4, <2>3
    <3>2. QED
      BY <1>1, <1>2, <1>5, <3>1 DEF StoredOnce
  <2>4. QED
    BY <2>2, <2>3
<1>16. StartsStored'
  <2> SUFFICES ASSUME NEW d \in Call, request'[d].from # None
               PROVE  \E j \in Cred : /\ cred'[j].secret = request'[d].from
                                      /\ cred'[j].subject = request'[d].account
    BY DEF StartsStored
  <2>1. d # c /\ request'[d] = request[d]
    BY <1>8, FinishIsRequest
  <2>2. PICK j \in Cred : cred[j].secret = request[d].from /\ cred[j].subject = request[d].account
    BY <2>1 DEF StartsStored
  <2>3. j # k
    BY <1>6, <2>1, <2>2
  <2>4. QED
    BY <1>2, <2>1, <2>2, <2>3
<1>17. RotatesItsOwn'
  <2> SUFFICES ASSUME NEW d \in Call, request'[d].pc = "put", NEW j \in Active(tx[d].account)',
                      cred'[j].secret = request'[d].from
               PROVE  j \in tx'[d].rows
    BY DEF RotatesItsOwn
  <2>1. d # c /\ request'[d] = request[d] /\ tx'[d] = tx[d] /\ j \in Cred
    BY <1>7, <1>8, FinishIsRequest DEF Active
  <2>2. PICK i \in Cred : cred[i].secret = request[d].from
    BY <2>1, RequestShape, CredentialsAssumption DEF StartsStored
  <2>3. j # k
    BY <1>4, <1>5, <2>1, <2>2
  <2>4. j \in Active(tx[d].account)
    BY <1>2, <2>1, <2>3 DEF Active
  <2>5. QED
    BY <1>2, <2>1, <2>3, <2>4 DEF RotatesItsOwn
<1>18. ServedRefreshable'
  <2> SUFFICES ASSUME NEW b \in Account, NEW j \in Active(b)'
               PROVE  \/ cred'[j].secret \in accepted' \cup lost'
                      \/ \E d \in Call : /\ request'[d].pc \in {"store", "put"}
                                         /\ request'[d].from = cred'[j].secret
    BY DEF ServedRefreshable
  <2>1. CASE j = k
    BY <1>1, <1>4, <1>5, <2>1
  <2>2. CASE j # k
    <3>1. /\ j \in Cred /\ j \notin tx[c].rows /\ cred'[j] = cred[j] /\ j \in Active(b)
      BY <1>2, <2>2 DEF Active
    <3>2. CASE cred[j].secret \in accepted \cup lost
      BY <1>1, <3>1, <3>2
    <3>3. CASE \E d \in Call : request[d].pc \in {"store", "put"} /\ request[d].from = cred[j].secret
      <4>1. PICK d \in Call : request[d].pc \in {"store", "put"} /\ request[d].from = cred[j].secret
        BY <3>3
      <4>2. CASE d # c
        BY <1>8, <3>1, <4>1, <4>2
      <4>3. CASE d = c
        \* The put that ends is the one of j's refresh: it rotated j.
        <5>1. request[c].pc = "put" /\ request[c].account = a
          BY <1>1, <4>1, <4>3 DEF Linked, Idle, a
        <5>2. PICK i \in Cred : cred[i].secret = request[c].from /\ cred[i].subject = a
          BY <4>1, <4>3, <5>1, RequestShape, CredentialsAssumption DEF StartsStored
        <5>3. cred[j] # NoCred /\ i = j
          BY <3>1, <4>1, <4>3, <5>2, CredShape DEF StoredOnce, Active
        <5>4. j \in Active(a)
          BY <3>1, <5>2, <5>3 DEF Active
        <5>5. j \in tx[c].rows
          BY <4>1, <4>3, <5>1, <5>4 DEF RotatesItsOwn, a
        <5>6. QED
          BY <3>1, <5>5
      <4>4. QED
        BY <4>2, <4>3
    <3>4. QED
      BY <3>1, <3>2, <3>3 DEF ServedRefreshable
  <2>3. QED
    BY <2>1, <2>2
<1>19. QED
  BY <1>9, <1>10, <1>11, <1>12, <1>14, <1>15, <1>16, <1>17, <1>18

LEMMA FailsStep ==
  ASSUME IInv, NEW c \in Call, Fails(c)
  PROVE  IInv'
<1> USE DEF IInv
<1>1. /\ request' = [request EXCEPT ![c] = NoRequest]
      /\ lost' = lost \cup ({request[c].from} \ {None})
      /\ UNCHANGED <<account, cred, accepted, expired, issued>>
  BY DEF Fails, Finish, Abort, vaultVars
<1>2. \/ tx' = tx
      \/ tx' = [tx EXCEPT ![c] = Idle]
  BY DEF Fails, Abort, vaultVars
<1>3. /\ request'[c] = NoRequest /\ \A d \in Call \ {c} : request'[d] = request[d]
      /\ request' \in [Call -> Request]
  BY <1>1, FinishIsRequest, RequestEffect
<1>4. /\ tx'[c] = Idle /\ \A d \in Call \ {c} : tx'[d] = tx[d]
      /\ tx' \in [Call -> Transaction]
  <2>1. CASE Abort(c)
    BY <2>1, OpenEffect DEF Abort, Transaction
  <2>2. CASE request[c].pc = "store" /\ UNCHANGED vaultVars
    BY <2>2, TxShape DEF Linked, vaultVars
  <2>3. QED
    BY <2>1, <2>2 DEF Fails
<1>5. request[c].from # None => request[c].from \in issued
  <2> HAVE request[c].from # None
  <2>1. PICK k \in Cred : cred[k].secret = request[c].from
    BY DEF StartsStored
  <2>2. cred[k] # NoCred
    BY <2>1 DEF NoCred
  <2>3. QED
    BY <2>1, <2>2 DEF StoredOnce
<1>6. TypeOK'
  BY <1>1, <1>3, <1>4, <1>5 DEF TypeOK, VaultTypeOK, Request
<1>7. NewestKept' /\ StoredOnce'
  BY <1>1 DEF NewestKept, StoredOnce
<1>8. Linked'
  BY <1>3, <1>4, FinishIsRequest DEF Linked
<1>9. OwnRows'
  BY <1>1, <1>4 DEF OwnRows, Idle
<1>10. \A d \in Call, s \in Secret : InFlight(d, s)' => InFlight(d, s)
  BY <1>3, <1>4, FinishIsRequest DEF InFlight, Idle, PutOp
<1>11. FreshPairs'
  BY <1>1, <1>10 DEF FreshPairs
<1>12. StartsStored'
  BY <1>1, <1>3, FinishIsRequest DEF StartsStored
<1>13. RotatesItsOwn'
  BY <1>1, <1>3, <1>4, FinishIsRequest DEF RotatesItsOwn, Active
<1>14. ServedRefreshable'
  <2> SUFFICES ASSUME NEW a \in Account, NEW k \in Active(a)'
               PROVE  \/ cred'[k].secret \in accepted' \cup lost'
                      \/ \E d \in Call : /\ request'[d].pc \in {"store", "put"}
                                         /\ request'[d].from = cred'[k].secret
    BY DEF ServedRefreshable
  <2>1. k \in Active(a) /\ cred[k].secret # None
    BY <1>1, CredShape, CredentialsAssumption DEF Active
  <2>2. CASE cred[k].secret = request[c].from
    BY <1>1, <2>1, <2>2
  <2>3. CASE cred[k].secret # request[c].from
    BY <1>1, <1>3, <2>1, <2>3 DEF ServedRefreshable
  <2>4. QED
    BY <2>2, <2>3
<1>15. QED
  BY <1>6, <1>7, <1>8, <1>9, <1>11, <1>12, <1>13, <1>14

LEMMA ExpireStep ==
  ASSUME IInv, NEW s \in Secret, Expire(s)
  PROVE  IInv'
<1> USE DEF IInv
<1>1. UNCHANGED <<account, cred, tx, request, accepted, issued, lost>>
  BY DEF Expire, vaultVars
<1>2. TypeOK'
  BY <1>1 DEF TypeOK, VaultTypeOK, Expire
<1>3. NewestKept' /\ Linked' /\ OwnRows' /\ StoredOnce' /\ StartsStored'
  BY <1>1 DEF NewestKept, Linked, OwnRows, StoredOnce, StartsStored
<1>4. FreshPairs' /\ RotatesItsOwn' /\ ServedRefreshable'
  BY <1>1 DEF FreshPairs, InFlight, RotatesItsOwn, ServedRefreshable, Active
<1>5. QED
  BY <1>2, <1>3, <1>4

LEMMA StutterStep ==
  ASSUME IInv, UNCHANGED vars
  PROVE  IInv'
<1> USE DEF IInv
<1>1. UNCHANGED <<account, cred, tx, request, accepted, expired, issued, lost>>
  BY DEF vars, vaultVars, providerVars
<1>2. TypeOK' /\ NewestKept' /\ Linked' /\ OwnRows' /\ StoredOnce' /\ StartsStored'
  BY <1>1 DEF TypeOK, VaultTypeOK, NewestKept, Linked, OwnRows, StoredOnce, StartsStored
<1>3. FreshPairs' /\ RotatesItsOwn' /\ ServedRefreshable'
  BY <1>1 DEF FreshPairs, InFlight, RotatesItsOwn, ServedRefreshable, Active
<1>4. QED
  BY <1>2, <1>3

----------------------------------------------------------------------------
LEMMA InvInit == Init => IInv
<1> SUFFICES ASSUME Init
             PROVE  IInv
  OBVIOUS
<1> USE DEF Init, VaultInit
<1>1. \A c \in Call : tx[c] = Idle /\ request[c] = NoRequest
  OBVIOUS
<1>2. \A k \in Cred : cred[k] = NoCred
  OBVIOUS
<1>3. TypeOK
  BY DEF TypeOK, VaultTypeOK, Transaction, CredRow
<1>4. NewestKept /\ StoredOnce
  BY <1>2 DEF NewestKept, StoredOnce
<1>5. Linked /\ OwnRows /\ StartsStored
  BY <1>1 DEF Linked, OwnRows, StartsStored, Idle, NoRequest
<1>6. FreshPairs /\ RotatesItsOwn
  BY <1>1 DEF FreshPairs, InFlight, RotatesItsOwn, Idle, NoRequest, PutOp
<1>7. ServedRefreshable
  BY <1>2, CredentialsAssumption DEF ServedRefreshable, Active, NoCred
<1>8. QED
  BY <1>3, <1>4, <1>5, <1>6, <1>7 DEF IInv

\* One case per action of Next.
LEMMA InvStep ==
  ASSUME IInv, [Next]_vars
  PROVE  IInv'
<1>1. CASE \E a \in Account : HandleCreateAccount(a)
  BY <1>1, CreateAccountStep
<1>2. ASSUME NEW c \in Call, NEW a \in Account,
             HandleRevokeAccount(c, a) \/ ResolveCredential(c, a)
      PROVE  IInv'
  BY <1>2, RevokeAccountStep, ResolveStep
<1>3. ASSUME NEW c \in Call, NEW a \in Account, NEW s \in Secret,
             HandlePutAccountCredential(c, a, s)
      PROVE  IInv'
  BY <1>3, PutAccountStep
<1>4. ASSUME NEW c \in Call, VaultStep(c)
      PROVE  IInv'
  BY <1>4, StatementStep, RevokeCommitStep DEF VaultStep
<1>5. ASSUME NEW c \in Call, Authenticate(c) \/ NotConfigured(c) \/ RefreshFails(c)
      PROVE  IInv'
  BY <1>5, AuthenticateStep, NothingServedStep
<1>6. ASSUME NEW c \in Call, StoreRefreshed(c) \/ Fails(c)
      PROVE  IInv'
  BY <1>6, StoreStep, FailsStep
<1>7. ASSUME NEW c \in Call, NEW s \in Secret, RefreshOAuth(c, s) \/ RefreshLost(c, s)
      PROVE  IInv'
  BY <1>7, RefreshStep, RefreshLostStep
<1>8. ASSUME NEW c \in Call, NEW k \in Cred, Put(c, k)
      PROVE  IInv'
  BY <1>8, PutStep
<1>9. CASE \E k \in Cred : Revoke(k)
  BY <1>9, RevokeStep
<1>10. CASE \E s \in Secret : Expire(s)
  BY <1>10, ExpireStep
<1>11. CASE UNCHANGED vars
  BY <1>11, StutterStep
<1>12. QED
  BY <1>1, <1>2, <1>3, <1>4, <1>5, <1>6, <1>7, <1>8, <1>9, <1>10, <1>11 DEF Next

\* The inductive invariant holds in every reachable state.
THEOREM Invariant == Spec => []IInv
<1>1. Init => IInv
  BY InvInit
<1>2. IInv /\ [Next]_vars => IInv'
  BY InvStep
<1>3. QED
  BY <1>1, <1>2, PTL DEF Spec

\* Accounts, credential rows, transactions and requests have their types, and the
\* provider is asked only about pairs it handed out.
THEOREM TypeCorrect == Spec => []TypeOK
<1>1. IInv => TypeOK
  BY DEF IInv
<1>2. QED
  BY <1>1, Invariant, PTL

\* However many puts to an account interleave, an active account keeps a credential that
\* was not rotated out.
THEOREM NewestIsKept == Spec => []NewestKept
<1>1. IInv => NewestKept
  BY DEF IInv
<1>2. QED
  BY <1>1, Invariant, PTL

\* However many requests refresh the same pair, the vault serves none that the provider
\* refuses, unless the pair that replaces it is on its way or its call failed.
THEOREM ServedIsRefreshable == Spec => []ServedRefreshable
<1>1. IInv => ServedRefreshable
  BY DEF IInv
<1>2. QED
  BY <1>1, Invariant, PTL

\* A revoked account stays revoked: only a put could reactivate it, and its UPDATE asks
\* for the status at the moment it holds the row.
THEOREM RevokedIsFinal == Spec => RevokedFinal
<1>1. ASSUME TypeOK, [Next]_vars, NEW a \in Account, account[a] = "revoked"
      PROVE  account'[a] = "revoked"
  <2> USE <1>1 DEF TypeOK, VaultTypeOK
  <2>1. CASE \E b \in Account : HandleCreateAccount(b)
    BY <2>1 DEF HandleCreateAccount, CreateAccount
  <2>2. CASE \E c \in Call : VaultStep(c)
    BY <2>2 DEF VaultStep, Rotate, Activate, RevokeAccountRow, RevokeRows, RevokeCommit
  <2>3. CASE \E c \in Call, k \in Cred : Put(c, k)
    BY <2>3 DEF Put, PutCommit, Activated
  <2>4. CASE UNCHANGED account
    BY <2>4
  <2>5. CASE \E c \in Call, b \in Account :
               HandleRevokeAccount(c, b) \/ ResolveCredential(c, b)
    BY <2>5, <2>4 DEF HandleRevokeAccount, RevokeAccount, ResolveCredential, vaultVars
  <2>6. CASE \E c \in Call, b \in Account, s \in Secret : HandlePutAccountCredential(c, b, s)
    BY <2>6, <2>4 DEF HandlePutAccountCredential, PutCredential
  <2>7. CASE \E c \in Call : \/ Authenticate(c) \/ NotConfigured(c) \/ RefreshFails(c)
                             \/ StoreRefreshed(c) \/ Fails(c)
    BY <2>7, <2>4
       DEF Authenticate, NotConfigured, RefreshFails, StoreRefreshed, PutCredential, Fails, Abort,
           vaultVars
  <2>8. CASE \E c \in Call, s \in Secret : RefreshOAuth(c, s) \/ RefreshLost(c, s)
    BY <2>8, <2>4 DEF RefreshOAuth, RefreshLost, vaultVars
  <2>9. CASE \E k \in Cred : Revoke(k)
    BY <2>9, <2>4 DEF Revoke, RevokeCredential
  <2>10. CASE \E s \in Secret : Expire(s)
    BY <2>10, <2>4 DEF Expire, vaultVars
  <2>11. CASE UNCHANGED vars
    BY <2>11, <2>4 DEF vars, vaultVars
  <2>12. QED
    BY <2>1, <2>2, <2>3, <2>5, <2>6, <2>7, <2>8, <2>9, <2>10, <2>11 DEF Next
<1>2. TypeOK /\ [Next]_vars
        => [\A a \in Account : account[a] = "revoked" => account'[a] = "revoked"]_vaultVars
  BY <1>1
<1>3. QED
  BY <1>2, TypeCorrect, PTL DEF Spec, RevokedFinal
=============================================================================
