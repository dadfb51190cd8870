---------------------------- MODULE Credentials ----------------------------
(***************************************************************************)
(* daemon/credentials: accounts and the vault of their credentials.        *)
(*                                                                         *)
(* PutCredential and RevokeAccount are transactions of several statements  *)
(* under READ COMMITTED that lock nothing beforehand.  An UPDATE takes the *)
(* rows its snapshot shows, waits for those another transaction holds, and *)
(* then asks its WHERE clause again of those rows only: a row inserted     *)
(* meanwhile stays unseen.  tx[c].rows is first that snapshot, then the    *)
(* rows held; writes take effect at commit.  The two take the credential   *)
(* rows and the account row in opposite order; PostgreSQL breaks the       *)
(* deadlock by aborting one, which Abort allows at any time.               *)
(***************************************************************************)
EXTENDS Naturals, FiniteSets

CONSTANTS Call, Account,
          Cred,     \* credential ids (uuids), finitely many
          Secret,   \* plaintexts; encryption is a bijection here
          None

ASSUME CredentialsAssumption == None \notin Account \cup Secret

VARIABLES account,   \* account.status
          cred,      \* credential rows
          tx         \* what each call's transaction has seen or holds

vaultVars == <<account, cred, tx>>

NoCred == [subject |-> None, secret |-> None, rotated |-> FALSE, revoked |-> FALSE]
CredRow == {NoCred} \cup [subject : Account, secret : Secret, rotated : BOOLEAN, revoked : BOOLEAN]

Idle == [op |-> "idle", account |-> None, secret |-> None, rows |-> {}]
Transaction ==
  {Idle}
    \cup [op : {"rotate", "activate", "put"}, account : Account, secret : Secret, rows : SUBSET Cred]
    \cup [op : {"revokeAccount", "revokeRows", "revoke"}, account : Account, secret : {None},
          rows : SUBSET Cred]

VaultTypeOK ==
  /\ account \in [Account -> {"absent", "pending", "active", "revoked"}]
  /\ cred \in [Cred -> CredRow]
  /\ tx \in [Call -> Transaction]

VaultInit ==
  /\ account = [a \in Account |-> "absent"]
  /\ cred = [k \in Cred |-> NoCred]
  /\ tx = [c \in Call |-> Idle]

\* The rows that PutCredential rotates and Authenticate reads.
Active(a) == {k \in Cred : cred[k].subject = a /\ ~cred[k].rotated /\ ~cred[k].revoked}
Unrevoked(a) == {k \in Cred : cred[k].subject = a /\ ~cred[k].revoked}

RowHeld(k) == \E c \in Call : tx[c].op \in {"activate", "put", "revoke"} /\ k \in tx[c].rows
AccountHeld(a) ==
  \E c \in Call :
    /\ tx[c].account = a
    /\ \/ tx[c].op \in {"revokeRows", "revoke"}
       \/ tx[c].op = "put" /\ account[a] # "revoked"

Advance(c, op, rows) == tx' = [tx EXCEPT ![c].op = op, ![c].rows = rows]

----------------------------------------------------------------------------
CreateAccount(a) ==
  /\ account[a] = "absent"
  /\ account' = [account EXCEPT ![a] = "pending"]
  /\ UNCHANGED <<cred, tx>>

\* PutCredential begins: the snapshot of the UPDATE that rotates.
PutCredential(c, a, secret) ==
  /\ tx[c] = Idle
  /\ account[a] # "absent"
  /\ tx' = [tx EXCEPT ![c] = [op |-> "rotate", account |-> a, secret |-> secret, rows |-> Active(a)]]
  /\ UNCHANGED <<account, cred>>

\* Mutant of Rotate: the UPDATE matches no row.
RotateNothing(c) ==
  /\ tx[c].op = "rotate"
  /\ Advance(c, "activate", {})
  /\ UNCHANGED <<account, cred>>

Rotate(c) ==
  /\ tx[c].op = "rotate"
  /\ \A k \in tx[c].rows : ~RowHeld(k)
  /\ Advance(c, "activate", tx[c].rows \cap Active(tx[c].account))
  /\ UNCHANGED <<account, cred>>

\* UPDATE account ... WHERE status != 'revoked': waits for the row.
Activate(c) ==
  /\ tx[c].op = "activate"
  /\ ~AccountHeld(tx[c].account)
  /\ Advance(c, "put", tx[c].rows)
  /\ UNCHANGED <<account, cred>>

\* Mutant of Activated: the UPDATE lost its status condition.
ActivatedAny(status) == "active"

Activated(status) == IF status = "revoked" THEN status ELSE "active"

Row(a, secret) == [subject |-> a, secret |-> secret, rotated |-> FALSE, revoked |-> FALSE]

\* Mutant of PutCommit: the INSERT comes before the rotation, which takes it along.
PutCommitRotated(c, k) ==
  LET a == tx[c].account IN
  /\ tx[c].op = "put"
  /\ cred[k] = NoCred
  /\ cred' = [j \in Cred |->
       IF j = k THEN [Row(a, tx[c].secret) EXCEPT !.rotated = TRUE]
       ELSE IF j \in tx[c].rows THEN [cred[j] EXCEPT !.rotated = TRUE] ELSE cred[j]]
  /\ account' = [account EXCEPT ![a] = Activated(@)]
  /\ tx' = [tx EXCEPT ![c] = Idle]

\* The rotation, the new row and the account's status appear together.
PutCommit(c, k) ==
  LET a == tx[c].account IN
  /\ tx[c].op = "put"
  /\ cred[k] = NoCred
  /\ cred' = [j \in Cred |->
       IF j = k THEN Row(a, tx[c].secret)
       ELSE IF j \in tx[c].rows THEN [cred[j] EXCEPT !.rotated = TRUE] ELSE cred[j]]
  /\ account' = [account EXCEPT ![a] = Activated(@)]
  /\ tx' = [tx EXCEPT ![c] = Idle]

\* RevokeAccount: GetAccount, by itself, finds it not yet revoked ...
RevokeAccount(c, a) ==
  /\ tx[c] = Idle
  /\ account[a] \in {"pending", "active"}
  /\ tx' = [tx EXCEPT ![c] = [op |-> "revokeAccount", account |-> a, secret |-> None, rows |-> {}]]
  /\ UNCHANGED <<account, cred>>

\* ... UPDATE account takes the row, and the UPDATE of the credentials its snapshot ...
RevokeAccountRow(c) ==
  /\ tx[c].op = "revokeAccount"
  /\ ~AccountHeld(tx[c].account)
  /\ Advance(c, "revokeRows", Unrevoked(tx[c].account))
  /\ UNCHANGED <<account, cred>>

RevokeRows(c) ==
  /\ tx[c].op = "revokeRows"
  /\ \A k \in tx[c].rows : ~RowHeld(k)
  /\ Advance(c, "revoke", tx[c].rows \cap Unrevoked(tx[c].account))
  /\ UNCHANGED <<account, cred>>

RevokeCommit(c) ==
  /\ tx[c].op = "revoke"
  /\ account' = [account EXCEPT ![tx[c].account] = "revoked"]
  /\ cred' = [k \in Cred |->
       IF k \in tx[c].rows THEN [cred[k] EXCEPT !.revoked = TRUE] ELSE cred[k]]
  /\ tx' = [tx EXCEPT ![c] = Idle]

\* One conditional UPDATE by id.
RevokeCredential(k) ==
  /\ cred[k] # NoCred /\ ~cred[k].revoked
  /\ ~RowHeld(k)
  /\ cred' = [cred EXCEPT ![k].revoked = TRUE]
  /\ UNCHANGED <<account, tx>>

\* A statement fails, the request ends, PostgreSQL breaks a deadlock or the daemon
\* dies: the transaction rolls back.
Abort(c) ==
  /\ tx[c] # Idle
  /\ tx' = [tx EXCEPT ![c] = Idle]
  /\ UNCHANGED <<account, cred>>

----------------------------------------------------------------------------
(* Properties *)

\* Rotation never takes the last one: an active account has a credential that was not
\* rotated out, however its puts interleave, since each rotates and inserts at once.
NewestKept ==
  \A a \in Account :
    account[a] = "active" => \E k \in Cred : cred[k].subject = a /\ ~cred[k].rotated

\* A revoked account is never active again: the put that waited for the revocation
\* asks for the status again, and a second revocation changes nothing.
RevokedFinal == [][\A a \in Account : account[a] = "revoked" => account'[a] = "revoked"]_vaultVars

\* The comment in Authenticate: exactly one row per subject is active at any time.
OneActive == \A a \in Account : Cardinality(Active(a)) <= 1
=============================================================================
