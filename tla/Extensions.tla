---------------------------- MODULE Extensions ----------------------------
(***************************************************************************)
(* daemon/extensions: the lifecycle of extension instances (id@version)    *)
(* from their manifests to their disposal, their processes, their          *)
(* capability tokens and the keys that sign manifests.                     *)
(*                                                                         *)
(* Nothing is locked.  Activate, Quiesce, Dispose and RegisterContextEffect*)
(* read the row, check it, and write it by unconditional UPDATEs, each     *)
(* statement a step of its own; call[c] is where call c is.  A request     *)
(* whose context ends, or whose statement fails, leaves everything as it   *)
(* stands.  Rows survive a daemon crash, and so do launched processes and  *)
(* containers; the launcher's table of live processes does not.            *)
(*                                                                         *)
(* A launch is named by the run-time handle it will get, a member of       *)
(* Launch; the token minted for it is named the same.                      *)
(***************************************************************************)
EXTENDS Semver, FiniteSets

CONSTANTS Call, Ext, Capability,
          Id,          \* the id of each id@version
          Key,         \* ids of signing keys
          Manifest,    \* manifests that may be posted
          Says,        \* what each of them says
          CoreVersion,
          RequireSignatures,
          Launch,      \* launches, finitely many
          MaxEffects,  \* bound on a context's undisposed effects
          MaxCrashes,
          Operator,    \* the operator's role token
          None

\* A signature names a key; it was made over one manifest's content with the private
\* half of one key.
Signature == [keyId : Key, of : Manifest, by : Key]
ASSUME ExtensionsAssumption ==
  /\ \A m \in Manifest :
       /\ Says[m].ext \in Ext
       /\ Says[m].isolation \in {"in_process", "process", "container"}
       /\ Says[m].amhCore \subseteq Clause
       /\ \A p \in Says[m].provides : p.cap \in Capability /\ p.version \in Version
       /\ \A n \in Says[m].needs : n.cap \in Capability /\ n.range \subseteq Clause
       /\ Says[m].signature \in Signature \cup {None}
  /\ CoreVersion \in Version
  /\ RequireSignatures \in BOOLEAN
  /\ MaxEffects \in Nat
  /\ MaxCrashes \in Nat
  /\ {None, Operator} \cap (Launch \cup Ext \cup Manifest \cup Signature) = {}
  /\ None # Operator

VARIABLES key,       \* trusted_signing_key
          manifest,  \* the manifest of each extension row
          status,    \* extension.status
          handle,    \* extension.runtime_handle
          token,     \* extension_capability_token
          effects,   \* undisposed extension_context_effect rows
          owner,     \* the extension each launch was for
          alive,     \* processes that run, containers that exist
          held,      \* the launcher's table: the live process of each extension
          call, crashes

rows == <<manifest, status, handle, token, effects>>
world == <<owner, alive>>
vars == <<key, rows, world, held, call, crashes>>

Free == [pc |-> "idle", ext |-> None, launch |-> None, arg |-> None]
Step == {"discover", "rollDispose", "rollActivate", "require", "activate", "mint", "launch", "mark", "fail", "revokeFailed",
         "dependents", "quiesce",
         "outstanding", "teardown", "revoke", "revokeTorn", "dispose", "setFailed", "insert"}

TypeOK ==
  /\ key \in [Key -> {"unknown", "trusted", "revoked"}]
  /\ manifest \in [Ext -> Manifest \cup {None}]
  /\ status \in [Ext -> {"absent", "discovered", "activating", "active",
                         "quiescing", "disposed", "failed"}]
  /\ handle \in [Ext -> Launch \cup {None}]
  /\ token \in [Ext -> Launch \cup {None}]
  /\ effects \in [Ext -> 0..MaxEffects]
  /\ owner \in [Launch -> Ext \cup {None}]
  /\ alive \subseteq Launch
  /\ held \in [Ext -> Launch \cup {None}]
  /\ call \in [Call -> {Free} \cup [pc : Step, ext : Ext, launch : Launch \cup {None},
                                   arg : Ext \cup Manifest \cup {None}]]
  /\ crashes \in 0..MaxCrashes

Init ==
  /\ key = [k \in Key |-> "unknown"]
  /\ manifest = [x \in Ext |-> None]
  /\ status = [x \in Ext |-> "absent"]
  /\ handle = [x \in Ext |-> None]
  /\ token = [x \in Ext |-> None]
  /\ effects = [x \in Ext |-> 0]
  /\ owner = [i \in Launch |-> None]
  /\ alive = {}
  /\ held = [x \in Ext |-> None]
  /\ call = [c \in Call |-> Free]
  /\ crashes = 0

Active == {x \in Ext : status[x] = "active"}
Begin(c, x, pc) == call' = [call EXCEPT ![c] = [Free EXCEPT !.pc = pc, !.ext = x]]
Go(c, from, to) == call[c].pc = from /\ call' = [call EXCEPT ![c].pc = to]
\* What follows in Rollback, and nothing in a call of its own.
Then(c, from, next) ==
  /\ call[c].pc = from
  /\ call' = [call EXCEPT ![c] = IF @.arg = None THEN Free ELSE [@ EXCEPT !.pc = next]]
End(c, from) == call[c].pc = from /\ call' = [call EXCEPT ![c] = Free]
SetStatus(c, s) == status' = [status EXCEPT ![call[c].ext] = s]

Isolation(x) == Says[manifest[x]].isolation
Provides(x) == {p.cap : p \in Says[manifest[x]].provides}
Needs(x) == {n.cap : n \in Says[manifest[x]].needs}

----------------------------------------------------------------------------
(* The trust store: a key id is registered once and revoked for good.        *)
RegisterKey(k) ==
  /\ key[k] = "unknown"
  /\ key' = [key EXCEPT ![k] = "trusted"]
  /\ UNCHANGED <<rows, world, held, call, crashes>>

RevokeKey(k) ==
  /\ key[k] = "trusted"
  /\ key' = [key EXCEPT ![k] = "revoked"]
  /\ UNCHANGED <<rows, world, held, call, crashes>>

(* Discover: the core this manifest wants, its signature, then the row.      *)
checkCompatibility(m) == satisfiesRange(CoreVersion, Says[m].amhCore)

\* Mutant of checkSignature: the declared digest is not recomputed.
checkDeclared(m) ==
  LET sig == Says[m].signature IN
  IF sig = None THEN ~RequireSignatures
  ELSE key[sig.keyId] = "trusted" /\ sig.by = sig.keyId

checkSignature(m) ==
  LET sig == Says[m].signature IN
  IF sig = None THEN ~RequireSignatures
  ELSE sig.of = m /\ key[sig.keyId] = "trusted" /\ sig.by = sig.keyId

Discover(c, m) ==
  /\ checkCompatibility(m)
  /\ checkSignature(m)
  /\ call' = [call EXCEPT ![c] =
       [pc |-> "discover", ext |-> Says[m].ext, launch |-> None, arg |-> m]]
  /\ UNCHANGED <<key, rows, world, held, crashes>>

\* An id@version discovered before keeps its row, whatever manifest comes now.
InsertExtension(c) ==
  LET x == call[c].ext IN
  /\ End(c, "discover")
  /\ manifest[x] = None
  /\ manifest' = [manifest EXCEPT ![x] = call[c].arg]
  /\ SetStatus(c, "discovered")
  /\ UNCHANGED <<key, handle, token, effects, world, held, crashes>>

(* Activate: the state check, the requirements, 'activating', the token, the *)
(* launch, 'active'.                                                         *)
Activate(c, x) ==
  /\ status[x] \in {"discovered", "disposed", "failed"}
  /\ Begin(c, x, "require")
  /\ UNCHANGED <<key, rows, world, held, crashes>>

RequirementsSatisfied(c) ==
  /\ Go(c, "require", "activate")
  /\ \A n \in Says[manifest[call[c].ext]].needs :
       \E y \in Active : \E p \in Says[manifest[y]].provides :
         p.cap = n.cap /\ satisfiesRange(p.version, n.range)
  /\ UNCHANGED <<key, rows, world, held, crashes>>

SetActivating(c) ==
  /\ Go(c, "activate", "mint")
  /\ SetStatus(c, "activating")
  /\ UNCHANGED <<key, manifest, handle, token, effects, world, held, crashes>>

\* Mutant of MintCapabilityToken: ON CONFLICT DO NOTHING.
MintOnce(c, i) ==
  LET x == call[c].ext IN
  /\ call[c].pc = "mint"
  /\ owner[i] = None
  /\ owner' = [owner EXCEPT ![i] = x]
  /\ token' = IF Isolation(x) = "in_process" \/ token[x] # None
              THEN token ELSE [token EXCEPT ![x] = i]
  /\ call' = [call EXCEPT ![c].pc = "launch", ![c].launch = i]
  /\ UNCHANGED <<key, manifest, status, handle, effects, alive, held, crashes>>

\* An upsert: the token of an earlier activation stops verifying here.
MintCapabilityToken(c, i) ==
  LET x == call[c].ext IN
  /\ call[c].pc = "mint"
  /\ owner[i] = None
  /\ owner' = [owner EXCEPT ![i] = x]
  /\ token' = IF Isolation(x) = "in_process" THEN token ELSE [token EXCEPT ![x] = i]
  /\ call' = [call EXCEPT ![c].pc = "launch", ![c].launch = i]
  /\ UNCHANGED <<key, manifest, status, handle, effects, alive, held, crashes>>

\* docker refuses a container whose name is taken; the launcher's table keeps the
\* last process started.
NameFree(x) == \A i \in alive : owner[i] # x
Launched(c) ==
  LET x == call[c].ext
      i == call[c].launch IN
  /\ Go(c, "launch", "mark")
  /\ Isolation(x) = "container" => NameFree(x)
  /\ alive' = IF Isolation(x) = "in_process" THEN alive ELSE alive \cup {i}
  /\ held' = IF Isolation(x) = "process" THEN [held EXCEPT ![x] = i] ELSE held
  /\ UNCHANGED <<key, rows, owner, crashes>>

\* The launch fails, or the operation's tracking does before it.  A docker client
\* killed with the request may leave its container.
LaunchFails(c) ==
  LET x == call[c].ext IN
  /\ Go(c, "launch", "fail")
  /\ \/ UNCHANGED alive
     \/ Isolation(x) = "container" /\ NameFree(x) /\ alive' = alive \cup {call[c].launch}
  /\ UNCHANGED <<key, rows, owner, held, crashes>>

MintFails(c) ==
  /\ Go(c, "mint", "setFailed")
  /\ UNCHANGED <<key, rows, world, held, crashes>>

SetFailed(c) ==
  /\ Go(c, "fail", "revokeFailed")
  /\ SetStatus(c, "failed")
  /\ UNCHANGED <<key, manifest, handle, token, effects, world, held, crashes>>

RevokeFailed(c) ==
  /\ End(c, "revokeFailed")
  /\ token' = [token EXCEPT ![call[c].ext] = None]
  /\ UNCHANGED <<key, manifest, status, handle, effects, world, held, crashes>>

SetActive(c) ==
  /\ SetStatus(c, "active")
  /\ handle' = [handle EXCEPT ![call[c].ext] = call[c].launch]

MarkActive(c) ==
  /\ End(c, "mark")
  /\ SetActive(c)
  /\ UNCHANGED <<key, manifest, token, effects, world, held, crashes>>

----------------------------------------------------------------------------
(* teardown kills what the launcher's table holds, whatever the handle says; *)
(* for a container the handle is enough.                                     *)
TornDown(x, i) ==
  CASE Isolation(x) = "in_process" -> UNCHANGED <<alive, held>>
    [] Isolation(x) = "process" -> /\ held[x] # None
                                   /\ alive' = alive \ {held[x]}
                                   /\ held' = [held EXCEPT ![x] = None]
    [] OTHER -> alive' = alive \ {i} /\ UNCHANGED held

\* 'active' was not written, or its acknowledgement was lost: tear down again, and leave
\* the row and the token as they are.
MarkActiveFails(c) ==
  LET x == call[c].ext IN
  /\ End(c, "mark")
  /\ SetActive(c) \/ UNCHANGED <<status, handle>>
  /\ \/ TornDown(x, call[c].launch)
     \/ /\ Isolation(x) = "container" \/ (Isolation(x) = "process" /\ held[x] = None)
        /\ UNCHANGED <<alive, held>>
  /\ UNCHANGED <<key, manifest, token, effects, owner, crashes>>

(* Quiesce *)
Quiesce(c, x) ==
  /\ status[x] = "active"
  /\ Begin(c, x, "dependents")
  /\ UNCHANGED <<key, rows, world, held, crashes>>

\* Mutant of NoActiveDependents: Quiesce asks nobody.
DependentsIgnored(c) ==
  /\ Go(c, "dependents", "quiesce")
  /\ UNCHANGED <<key, rows, world, held, crashes>>

NoActiveDependents(c) ==
  /\ Go(c, "dependents", "quiesce")
  /\ \A y \in Active \ {call[c].ext} : Needs(y) \cap Provides(call[c].ext) = {}
  /\ UNCHANGED <<key, rows, world, held, crashes>>

SetQuiescing(c) ==
  /\ Then(c, "quiesce", "rollDispose")
  /\ SetStatus(c, "quiescing")
  /\ UNCHANGED <<key, manifest, handle, token, effects, world, held, crashes>>

(* Dispose: the state check (and the handle it read), the outstanding        *)
(* effects, the teardown, the token, the verdict.                            *)
Dispose(c, x) ==
  /\ status[x] = "quiescing"
  /\ call' = [call EXCEPT ![c] =
       [Free EXCEPT !.pc = "outstanding", !.ext = x, !.launch = handle[x]]]
  /\ UNCHANGED <<key, rows, world, held, crashes>>

NoOutstandingEffects(c) ==
  /\ Go(c, "outstanding", "teardown")
  /\ effects[call[c].ext] = 0
  /\ UNCHANGED <<key, rows, world, held, crashes>>

Teardown(c) ==
  /\ Go(c, "teardown", "revoke")
  /\ TornDown(call[c].ext, call[c].launch)
  /\ UNCHANGED <<key, rows, owner, crashes>>

\* No process in the table, docker fails, or the operation's tracking does.
TeardownFails(c) ==
  /\ Go(c, "teardown", "revokeTorn")
  /\ UNCHANGED <<key, rows, world, held, crashes>>

\* Whatever came of the teardown; an error here is dropped.
RevokeCapabilityToken(c) ==
  /\ \/ Go(c, "revoke", "dispose")
     \/ Go(c, "revokeTorn", "setFailed")
  /\ token' \in {token, [token EXCEPT ![call[c].ext] = None]}
  /\ UNCHANGED <<key, manifest, status, handle, effects, world, held, crashes>>

SetDisposed(c) ==
  /\ Then(c, "dispose", "rollActivate")
  /\ SetStatus(c, "disposed")
  /\ UNCHANGED <<key, manifest, handle, token, effects, world, held, crashes>>

SetFailedAtLast(c) ==
  /\ End(c, "setFailed")
  /\ SetStatus(c, "failed")
  /\ UNCHANGED <<key, manifest, handle, token, effects, world, held, crashes>>

----------------------------------------------------------------------------
(* Rollback: Quiesce and Dispose of one version, Activate of another, each   *)
(* with its own checks; whichever fails ends it where it stands.             *)
Rollback(c, x, y) ==
  /\ Id[x] = Id[y]
  /\ status[x] = "active"
  /\ call' = [call EXCEPT ![c] = [Free EXCEPT !.pc = "dependents", !.ext = x, !.arg = y]]
  /\ UNCHANGED <<key, rows, world, held, crashes>>

RollbackDispose(c) ==
  /\ call[c].pc = "rollDispose"
  /\ status[call[c].ext] = "quiescing"
  /\ call' = [call EXCEPT ![c].pc = "outstanding", ![c].launch = handle[call[c].ext]]
  /\ UNCHANGED <<key, rows, world, held, crashes>>

RollbackActivate(c) ==
  /\ call[c].pc = "rollActivate"
  /\ status[call[c].arg] \in {"discovered", "disposed", "failed"}
  /\ call' = [call EXCEPT ![c] = [Free EXCEPT !.pc = "require", !.ext = call[c].arg]]
  /\ UNCHANGED <<key, rows, world, held, crashes>>

----------------------------------------------------------------------------
(* RegisterContextEffect and DisposeContextEffect *)
\* Mutant of RegisterContextEffect: the row's status is not looked at.
RegisterAnywhere(c, x) ==
  /\ status[x] # "absent"
  /\ Begin(c, x, "insert")
  /\ UNCHANGED <<key, rows, world, held, crashes>>

RegisterContextEffect(c, x) ==
  /\ status[x] = "active"
  /\ Begin(c, x, "insert")
  /\ UNCHANGED <<key, rows, world, held, crashes>>

InsertContextEffect(c) ==
  /\ End(c, "insert")
  /\ effects[call[c].ext] < MaxEffects
  /\ effects' = [effects EXCEPT ![call[c].ext] = @ + 1]
  /\ UNCHANGED <<key, manifest, status, handle, token, world, held, crashes>>

\* Mutant of DisposeContextEffect: an effect is disposed twice.
DisposeTwice(x) ==
  /\ status[x] # "absent"
  /\ effects' = [effects EXCEPT ![x] = @ - 1]
  /\ UNCHANGED <<key, manifest, status, handle, token, world, held, call, crashes>>

DisposeContextEffect(x) ==
  /\ effects[x] > 0
  /\ effects' = [effects EXCEPT ![x] = @ - 1]
  /\ UNCHANGED <<key, manifest, status, handle, token, world, held, call, crashes>>

\* A check refuses, the request's context ends or a statement fails; once launched,
\* Activate goes on to MarkActive or its failure.
ReturnError(c) ==
  /\ call[c].pc \notin {"idle", "mark"}
  /\ call' = [call EXCEPT ![c] = Free]
  /\ UNCHANGED <<key, rows, world, held, crashes>>

ProcessExits(i) ==
  /\ i \in alive /\ Isolation(owner[i]) = "process"
  /\ alive' = alive \ {i}
  /\ UNCHANGED <<key, rows, owner, held, call, crashes>>

\* The daemon dies and is restarted: start-up leaves extension rows alone.
Crash ==
  /\ crashes < MaxCrashes
  /\ crashes' = crashes + 1
  /\ held' = [x \in Ext |-> None]
  /\ call' = [c \in Call |-> Free]
  /\ UNCHANGED <<key, rows, world>>

----------------------------------------------------------------------------
(* The admin routes: each hands its request to the registry.  The context-   *)
(* effect routes are open to an operator and to whoever shows the token of   *)
(* that very instance, checked before the registry reads the row.            *)
authorizeAsExtension(x, shown) == shown \in {Operator, token[x]} \ {None}

HandleDiscoverExtension(c, m) == call[c] = Free /\ Discover(c, m)
HandleActivateExtension(c, x) == call[c] = Free /\ Activate(c, x)
HandleQuiesceExtension(c, x) == call[c] = Free /\ Quiesce(c, x)
HandleDisposeExtension(c, x) == call[c] = Free /\ Dispose(c, x)
HandleRollbackExtension(c, x, y) == call[c] = Free /\ Rollback(c, x, y)

HandleRegisterContextEffect(c, x, shown) ==
  call[c] = Free /\ authorizeAsExtension(x, shown) /\ RegisterContextEffect(c, x)

HandleDisposeContextEffect(x, shown) ==
  authorizeAsExtension(x, shown) /\ DisposeContextEffect(x)

HandleRegisterTrustedKey(k) == RegisterKey(k)
HandleRevokeTrustedKey(k) == RevokeKey(k)

----------------------------------------------------------------------------
Activating(c) ==
  \/ RequirementsSatisfied(c) \/ SetActivating(c) \/ MintFails(c)
  \/ \E i \in Launch : MintCapabilityToken(c, i)
  \/ Launched(c) \/ LaunchFails(c) \/ SetFailed(c) \/ RevokeFailed(c)
  \/ MarkActive(c) \/ MarkActiveFails(c) \/ RollbackActivate(c)

Disposing(c) ==
  \/ NoActiveDependents(c) \/ SetQuiescing(c) \/ RollbackDispose(c)
  \/ NoOutstandingEffects(c) \/ Teardown(c) \/ TeardownFails(c)
  \/ RevokeCapabilityToken(c) \/ SetDisposed(c) \/ SetFailedAtLast(c)

Route(c) ==
  \/ \E m \in Manifest : HandleDiscoverExtension(c, m)
  \/ \E x, y \in Ext : HandleRollbackExtension(c, x, y)
  \/ \E x \in Ext :
       \/ HandleActivateExtension(c, x) \/ HandleQuiesceExtension(c, x)
       \/ HandleDisposeExtension(c, x)
       \/ \E shown \in Launch \cup {Operator} : HandleRegisterContextEffect(c, x, shown)

Next ==
  \/ \E k \in Key : HandleRegisterTrustedKey(k) \/ HandleRevokeTrustedKey(k)
  \/ \E x \in Ext, shown \in Launch \cup {Operator} : HandleDisposeContextEffect(x, shown)
  \/ \E c \in Call :
       \/ Route(c) \/ InsertExtension(c) \/ Activating(c) \/ Disposing(c)
       \/ InsertContextEffect(c) \/ ReturnError(c)
  \/ \E i \in Launch : ProcessExits(i)
  \/ Crash

Spec == Init /\ [][Next]_vars

----------------------------------------------------------------------------
(* Properties *)

\* What is in the registry was let in: written for this core, and, where it is signed
\* at all, signed for the very content it has by a key an operator has trusted.
AdmittedGenuine ==
  \A x \in Ext : manifest[x] # None =>
    LET m == manifest[x]
        sig == Says[m].signature
    IN
    /\ InRange(CoreVersion, Says[m].amhCore)
    /\ sig = None => ~RequireSignatures
    /\ sig # None => sig.of = m /\ sig.by = sig.keyId /\ key[sig.keyId] # "unknown"

\* The doc comment of Quiesce: you cannot remove a provider out from under an
\* active dependent.
ProviderKept ==
  [][\A p \in Active : status'[p] = "quiescing" =>
       \A y \in Active \ {p} : Needs(y) \cap Provides(p) = {}]_vars
=============================================================================
