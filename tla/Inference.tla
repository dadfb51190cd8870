----------------------------- MODULE Inference -----------------------------
(***************************************************************************)
(* daemon/inference over daemon/credentials: resolving a provider to the   *)
(* credential of one of its accounts, and refreshing an OAuth token that   *)
(* has run out.                                                            *)
(*                                                                         *)
(* resolveCredential is four separate steps: GetActiveAccountByProvider,   *)
(* Authenticate, the refresh call to the provider, and PutCredential.      *)
(* Operators put and revoke beside it.  A secret stands for a credential   *)
(* envelope, the token pair of one login or refresh; the provider is       *)
(* external.                                                               *)
(***************************************************************************)
EXTENDS Credentials

VARIABLES request,    \* where each resolveCredential is
          accepted,   \* envelopes whose refresh token the provider still takes
          expired,    \* envelopes whose access token has run out
          issued,     \* envelopes the provider ever handed out
          lost        \* history: envelopes whose refresh never reached the vault

providerVars == <<request, accepted, expired, issued, lost>>
vars == <<vaultVars, providerVars>>

NoRequest == [pc |-> "idle", account |-> None, from |-> None, to |-> None]

TypeOK ==
  /\ VaultTypeOK
  /\ request \in [Call -> {NoRequest}
       \cup [pc : {"authenticate"}, account : Account, from : {None}, to : {None}]
       \cup [pc : {"refresh"}, account : Account, from : Secret, to : {None}]
       \cup [pc : {"store", "put"}, account : Account, from : Secret, to : Secret]]
  /\ accepted \subseteq issued /\ expired \subseteq issued /\ lost \subseteq issued
  /\ issued \subseteq Secret

Init ==
  /\ VaultInit
  /\ request = [c \in Call |-> NoRequest]
  /\ accepted = {} /\ expired = {} /\ issued = {} /\ lost = {}

Free(c) == request[c] = NoRequest /\ tx[c] = Idle
Finish(c) == request' = [request EXCEPT ![c] = NoRequest]

----------------------------------------------------------------------------
(* The control plane's account routes. *)
HandleCreateAccount(a) == CreateAccount(a) /\ UNCHANGED providerVars

\* The operator stores what a fresh vendor login gave.
HandlePutAccountCredential(c, a, s) ==
  /\ Free(c)
  /\ s \notin issued
  /\ PutCredential(c, a, s)
  /\ issued' = issued \cup {s}
  /\ accepted' = accepted \cup {s}
  /\ UNCHANGED <<request, expired, lost>>

HandleRevokeAccount(c, a) == Free(c) /\ RevokeAccount(c, a) /\ UNCHANGED providerVars

\* The statements of the transactions these and resolveCredential open.
VaultStep(c) ==
  /\ Rotate(c) \/ Activate(c) \/ RevokeAccountRow(c) \/ RevokeRows(c) \/ RevokeCommit(c)
  /\ UNCHANGED providerVars

Revoke(k) == RevokeCredential(k) /\ UNCHANGED providerVars

----------------------------------------------------------------------------
(* resolveCredential *)

\* GetActiveAccountByProvider: created_at says which; any active one may be it.
ResolveCredential(c, a) ==
  /\ Free(c)
  /\ account[a] = "active"
  /\ request' = [request EXCEPT ![c] = [NoRequest EXCEPT !.pc = "authenticate", !.account = a]]
  /\ UNCHANGED <<vaultVars, accepted, expired, issued, lost>>

\* Authenticate: the first active row; its token serves as it is, or has run out.
Authenticate(c) ==
  /\ request[c].pc = "authenticate"
  /\ \E k \in Active(request[c].account) :
       IF cred[k].secret \in expired
       THEN request' = [request EXCEPT ![c].pc = "refresh", ![c].from = cred[k].secret]
       ELSE Finish(c)
  /\ UNCHANGED <<vaultVars, accepted, expired, issued, lost>>

NotConfigured(c) ==
  /\ request[c].pc = "authenticate"
  /\ Active(request[c].account) = {}
  /\ Finish(c)
  /\ UNCHANGED <<vaultVars, accepted, expired, issued, lost>>

\* The provider takes the refresh token and answers with a new pair; the old refresh
\* token goes on working where providers do not rotate it.  A provider that sends no new one
\* is of these: the pair stored then has the old refresh token, and both go on working.
Granted(from, to) ==
  /\ from \in accepted
  /\ to \notin issued
  /\ issued' = issued \cup {to}
  /\ accepted' \in {accepted \cup {to}, (accepted \ {from}) \cup {to}}

RefreshOAuth(c, to) ==
  /\ request[c].pc = "refresh"
  /\ Granted(request[c].from, to)
  /\ request' = [request EXCEPT ![c].pc = "store", ![c].to = to]
  /\ UNCHANGED <<vaultVars, expired, lost>>

\* The provider granted it and the answer did not arrive: timeout, or a daemon crash.
RefreshLost(c, to) ==
  /\ request[c].pc = "refresh"
  /\ Granted(request[c].from, to)
  /\ lost' = lost \cup {request[c].from}
  /\ Finish(c)
  /\ UNCHANGED <<vaultVars, expired>>

\* The provider refuses, or was not reached.
RefreshFails(c) ==
  /\ request[c].pc = "refresh"
  /\ Finish(c)
  /\ UNCHANGED <<vaultVars, accepted, expired, issued, lost>>

StoreRefreshed(c) ==
  /\ request[c].pc = "store"
  /\ PutCredential(c, request[c].account, request[c].to)
  /\ request' = [request EXCEPT ![c].pc = "put"]
  /\ UNCHANGED <<accepted, expired, issued, lost>>

\* Either put commits, the operator's or the refresh's.
Put(c, k) ==
  /\ PutCommit(c, k)
  /\ Finish(c)
  /\ UNCHANGED <<accepted, expired, issued, lost>>

\* A call ends early; a refreshed pair that was not stored is gone.
Fails(c) ==
  /\ Abort(c) \/ (request[c].pc = "store" /\ UNCHANGED vaultVars)
  /\ lost' = lost \cup ({request[c].from} \ {None})
  /\ Finish(c)
  /\ UNCHANGED <<accepted, expired, issued>>

Expire(s) ==
  /\ s \in issued \ expired
  /\ expired' = expired \cup {s}
  /\ UNCHANGED <<vaultVars, request, accepted, issued, lost>>

----------------------------------------------------------------------------
Next ==
  \/ \E a \in Account : HandleCreateAccount(a)
  \/ \E c \in Call, a \in Account :
       \/ HandleRevokeAccount(c, a) \/ ResolveCredential(c, a)
       \/ \E s \in Secret : HandlePutAccountCredential(c, a, s)
  \/ \E c \in Call :
       \/ VaultStep(c) \/ Authenticate(c) \/ NotConfigured(c)
       \/ RefreshFails(c) \/ StoreRefreshed(c) \/ Fails(c)
       \/ \E s \in Secret : RefreshOAuth(c, s) \/ RefreshLost(c, s)
       \/ \E k \in Cred : Put(c, k)
  \/ \E k \in Cred : Revoke(k)
  \/ \E s \in Secret : Expire(s)

Spec == Init /\ [][Next]_vars

----------------------------------------------------------------------------
(* Properties *)

\* Concurrent refreshes lock nobody out: every token pair the vault serves is one the
\* provider still refreshes, or a call that replaced it is about to store the new one,
\* or that call failed.  A put always rotates the row its refresh started from.
ServedRefreshable ==
  \A a \in Account : \A k \in Active(a) :
    \/ cred[k].secret \in accepted \cup lost
    \/ \E c \in Call : request[c].pc \in {"store", "put"} /\ request[c].from = cred[k].secret
=============================================================================
