------------------------- MODULE ExtensionsProofs -------------------------
(***************************************************************************)
(* Proofs about Semver, Extensions and ExtensionRaces, for all versions,   *)
(* manifests, keys and launches and any number of concurrent calls.  What  *)
(* is in the registry was let in, and what an extension that is active, or *)
(* disposed, may count on holds whatever calls race, fail or die with the  *)
(* daemon: the history tells what the races before may have broken, and no *)
(* run is excluded.                                                        *)
(***************************************************************************)
EXTENDS ExtensionRaces, TLAPS

(* Semver *)

\* compare is the order on versions: the sign of its result says which comes first.
LEMMA CompareIsOrder ==
  ASSUME NEW a \in Version, NEW b \in Version
  PROVE  /\ compare(a, b) \in Int
         /\ compare(a, b) < 0 <=> Before(a, b)
         /\ compare(a, b) > 0 <=> Before(b, a)
         /\ compare(a, b) = 0 <=> a = b
<1>1. /\ a.major \in Nat /\ a.minor \in Nat /\ a.patch \in Nat
      /\ b.major \in Nat /\ b.minor \in Nat /\ b.patch \in Nat
  BY DEF Version
<1>2. a = b <=> a.major = b.major /\ a.minor = b.minor /\ a.patch = b.patch
  BY DEF Version
<1>3. QED
  BY <1>1, <1>2 DEF compare, Before

\* What the caret's test means: the versions from its base up to the next that may break.
LEMMA CaretIsInterval ==
  ASSUME NEW v \in Version, NEW base \in Version
  PROVE  (~Before(v, base) /\ Before(v, CaretEnd(base))) <=>
         (~Before(v, base) /\ IF base.major > 0 THEN v.major = base.major
                              ELSE v.major = 0 /\ v.minor = base.minor)
<1>1. /\ v.major \in Nat /\ v.minor \in Nat /\ v.patch \in Nat
      /\ base.major \in Nat /\ base.minor \in Nat /\ base.patch \in Nat
  BY DEF Version
<1>2. CASE base.major > 0
  BY <1>1, <1>2 DEF Before, CaretEnd, V
<1>3. CASE ~(base.major > 0)
  <2>1. base.major = 0
    BY <1>1, <1>3
  <2>2. QED
    BY <1>1, <1>3, <2>1 DEF Before, CaretEnd, V
<1>4. QED
  BY <1>2, <1>3

LEMMA ClauseIsMeant ==
  ASSUME NEW v \in Version, NEW clause \in Clause
  PROVE  satisfiesClause(v, clause) <=> Meant(v, clause)
<1> DEFINE base == clause.base
<1>1. base \in Version /\ clause.op \in Comparator
  BY DEF Clause
<1>2. /\ compare(v, base) \in Int
      /\ compare(v, base) >= 0 <=> ~Before(v, base)
      /\ compare(v, base) <= 0 <=> ~Before(base, v)
      /\ compare(v, base) > 0 <=> Before(base, v)
      /\ compare(v, base) < 0 <=> Before(v, base)
      /\ compare(v, base) = 0 <=> v = base
  <2>1. /\ compare(v, base) \in Int
        /\ compare(v, base) < 0 <=> Before(v, base)
        /\ compare(v, base) > 0 <=> Before(base, v)
        /\ compare(v, base) = 0 <=> v = base
    BY <1>1, CompareIsOrder
  <2>2. QED
    BY <2>1
<1>3. CASE clause.op = "^"
  BY <1>1, <1>2, <1>3, CaretIsInterval DEF satisfiesClause, Meant
<1>4. CASE clause.op # "^"
  BY <1>1, <1>2, <1>4 DEF satisfiesClause, Meant, Comparator
<1>5. QED
  BY <1>3, <1>4

\* satisfiesRange decides the grammar in its comment, for every version and every range.
THEOREM RangeIsMeant ==
  ASSUME NEW v \in Version, NEW range \in SUBSET Clause
  PROVE  satisfiesRange(v, range) <=> InRange(v, range)
  BY ClauseIsMeant DEF satisfiesRange, InRange


\* Versions are totally ordered, so that each clause of a range is an interval of them.
THEOREM VersionsAreOrdered ==
  ASSUME NEW a \in Version, NEW b \in Version, NEW c \in Version
  PROVE  /\ Before(a, b) /\ Before(b, c) => Before(a, c)
         /\ Before(a, b) \/ a = b \/ Before(b, a)
         /\ ~(Before(a, b) /\ Before(b, a))
         /\ ~Before(a, a)
<1>1. /\ a.major \in Nat /\ a.minor \in Nat /\ a.patch \in Nat
      /\ b.major \in Nat /\ b.minor \in Nat /\ b.patch \in Nat
      /\ c.major \in Nat /\ c.minor \in Nat /\ c.patch \in Nat
  BY DEF Version
<1>2. a = b <=> a.major = b.major /\ a.minor = b.minor /\ a.patch = b.patch
  BY DEF Version
<1>3. QED
  BY <1>1, <1>2 DEF Before

----------------------------------------------------------------------------
(* The registry, for any number of calls.                                  *)

StatusSet == {"absent", "discovered", "activating", "active", "quiescing", "disposed", "failed"}
CallRow == [pc : Step, ext : Ext, launch : Launch \cup {None}, arg : Ext \cup Manifest \cup {None}]

\* What no property but the type invariant asks of.
DataOK ==
  /\ handle \in [Ext -> Launch \cup {None}]
  /\ token \in [Ext -> Launch \cup {None}]
  /\ effects \in [Ext -> 0..MaxEffects]
  /\ owner \in [Launch -> Ext \cup {None}]
  /\ alive \subseteq Launch
  /\ held \in [Ext -> Launch \cup {None}]

\* A manifest that checkCompatibility and checkSignature let in, now or earlier: a key
\* once trusted is never unknown again.
Genuine(m) ==
  LET sig == Says[m].signature IN
  /\ InRange(CoreVersion, Says[m].amhCore)
  /\ sig = None => ~RequireSignatures
  /\ sig # None => sig.of = m /\ sig.by = sig.keyId /\ key[sig.keyId] # "unknown"

\* The parts of a Rollback before its Activate carry the version it goes to.
Rolling == {"dependents", "quiesce", "rollDispose", "outstanding", "teardown", "revoke",
            "dispose", "rollActivate"}

\* What a call has in hand, and that its row is there.
ArgsOf(c) ==
  /\ call[c].pc = "discover" => call[c].arg \in Manifest
  /\ \A m \in Manifest : call[c].pc = "discover" /\ call[c].arg = m => Genuine(m)
  /\ call[c].pc \in Rolling => call[c].arg \in Ext \cup {None}
  /\ call[c].pc \in {"rollDispose", "rollActivate"} => call[c].arg \in Ext
  /\ call[c].pc \in {"launch", "mark"} => call[c].launch \in Launch
  /\ \A x \in Ext : call[c].pc \notin {"idle", "discover"} /\ call[c].ext = x
                      => status[x] # "absent"

\* A row has its manifest, and a genuine one.
Registered ==
  \A x \in Ext :
    /\ status[x] = "absent" <=> manifest[x] = None
    /\ \A m \in Manifest : manifest[x] = m => Genuine(m)

IInv == TypeOK /\ Registered /\ \A c \in Call : ArgsOf(c)

\* TypeOK, in the names used below.
LEMMA Shapes ==
  TypeOK <=>
    /\ key \in [Key -> {"unknown", "trusted", "revoked"}]
    /\ manifest \in [Ext -> Manifest \cup {None}]
    /\ status \in [Ext -> StatusSet]
    /\ DataOK
    /\ call \in [Call -> {Free} \cup CallRow]
    /\ crashes \in 0..MaxCrashes
  BY DEF TypeOK, StatusSet, DataOK, CallRow

\* The same of the next state.
LEMMA ShapesNext ==
  TypeOK' <=>
    /\ key' \in [Key -> {"unknown", "trusted", "revoked"}]
    /\ manifest' \in [Ext -> Manifest \cup {None}]
    /\ status' \in [Ext -> StatusSet]
    /\ DataOK'
    /\ call' \in [Call -> {Free} \cup CallRow]
    /\ crashes' \in 0..MaxCrashes
  BY DEF TypeOK, StatusSet, DataOK, CallRow

LEMMA NoneIsNobody == None \notin Launch /\ None \notin Ext /\ None \notin Manifest
                      /\ None \notin Signature /\ Operator \notin Launch
  BY ExtensionsAssumption

\* AdmittedGenuine, row by row.
LEMMA GenuineRows ==
  ASSUME TypeOK
  PROVE  AdmittedGenuine <=> \A x \in Ext : manifest[x] # None => Genuine(manifest[x])
  BY DEF AdmittedGenuine, Genuine

\* What the checks of Discover establish.
LEMMA ChecksAdmit ==
  ASSUME TypeOK, NEW m \in Manifest, checkCompatibility(m), checkSignature(m)
  PROVE  Genuine(m)
<1>1. InRange(CoreVersion, Says[m].amhCore)
  <2>1. CoreVersion \in Version /\ Says[m].amhCore \in SUBSET Clause
    BY ExtensionsAssumption
  <2>2. QED
    BY <2>1, RangeIsMeant DEF checkCompatibility
<1>2. QED
  BY <1>1 DEF Genuine, checkSignature

\* A key that an operator trusted was trusted, whatever became of it.
LEMMA GenuineKept ==
  ASSUME \A k \in Key : key[k] # "unknown" => key'[k] # "unknown",
         NEW m \in Manifest, Genuine(m)
  PROVE  Genuine(m)'
<1>1. Says[m].signature # None => Says[m].signature.keyId \in Key
  BY ExtensionsAssumption DEF Signature
<1>2. QED
  BY <1>1 DEF Genuine

----------------------------------------------------------------------------
(* How a call moves.                                                        *)
LEMMA Freed == Free.pc = "idle" /\ Free.ext = None /\ Free.launch = None /\ Free.arg = None
  BY DEF Free

\* A call that is under way has a row's extension.
LEMMA Busy ==
  ASSUME TypeOK, NEW c \in Call, call[c].pc # "idle"
  PROVE  call[c] \in CallRow /\ call[c].ext \in Ext /\ call[c].pc \in Step
  BY Shapes, Freed DEF CallRow

LEMMA CallSet ==
  ASSUME TypeOK, NEW c \in Call, NEW r \in {Free} \cup CallRow, call' = [call EXCEPT ![c] = r]
  PROVE  /\ call'[c] = r
         /\ \A d \in Call \ {c} : call'[d] = call[d]
         /\ call' \in [Call -> {Free} \cup CallRow]
  BY Shapes

LEMMA GoEffect ==
  ASSUME TypeOK, NEW c \in Call, NEW from \in Step, NEW to \in Step, Go(c, from, to)
  PROVE  /\ call[c].pc = from /\ call[c].ext \in Ext
         /\ call'[c].pc = to /\ call'[c].ext = call[c].ext
         /\ call'[c].launch = call[c].launch /\ call'[c].arg = call[c].arg
         /\ \A d \in Call \ {c} : call'[d] = call[d]
         /\ call' \in [Call -> {Free} \cup CallRow]
<1> DEFINE r == [call[c] EXCEPT !.pc = to]
<1>1. call[c].pc = from /\ from # "idle"
  BY DEF Go, Step
<1>2. call[c] \in CallRow /\ call[c].ext \in Ext
  BY <1>1, Busy
<1>3. /\ r \in CallRow /\ r.pc = to /\ r.ext = call[c].ext
      /\ r.launch = call[c].launch /\ r.arg = call[c].arg
  BY <1>2 DEF CallRow
<1>4. call' = [call EXCEPT ![c] = r]
  BY Shapes DEF Go
<1> HIDE DEF r
<1>5. QED
  BY <1>1, <1>2, <1>3, <1>4, CallSet

LEMMA FreeEffect ==
  ASSUME TypeOK, NEW c \in Call, call' = [call EXCEPT ![c] = Free]
  PROVE  /\ call'[c].pc = "idle" /\ call'[c].ext = None
         /\ \A d \in Call \ {c} : call'[d] = call[d]
         /\ call' \in [Call -> {Free} \cup CallRow]
  BY CallSet, Freed

\* What follows a Quiesce or a Dispose: the rest of a Rollback, or nothing.
LEMMA ThenEffect ==
  ASSUME TypeOK, NEW c \in Call, NEW from \in Step, NEW next \in Step, Then(c, from, next)
  PROVE  /\ call[c].pc = from
         /\ \/ call[c].arg = None /\ call' = [call EXCEPT ![c] = Free]
            \/ call[c].arg # None /\ Go(c, from, next)
  BY Shapes DEF Then, Go

\* A call that begins, at pc, on the row of x.
LEMMA BeginEffect ==
  ASSUME TypeOK, NEW c \in Call, NEW x \in Ext, NEW pc \in Step,
         NEW i \in Launch \cup {None}, NEW a \in Ext \cup Manifest \cup {None},
         call' = [call EXCEPT ![c] = [pc |-> pc, ext |-> x, launch |-> i, arg |-> a]]
  PROVE  /\ call'[c].pc = pc /\ call'[c].ext = x /\ call'[c].launch = i /\ call'[c].arg = a
         /\ \A d \in Call \ {c} : call'[d] = call[d]
         /\ call' \in [Call -> {Free} \cup CallRow]
<1> DEFINE r == [pc |-> pc, ext |-> x, launch |-> i, arg |-> a]
<1>1. r \in CallRow /\ r.pc = pc /\ r.ext = x /\ r.launch = i /\ r.arg = a
  BY DEF CallRow
<1> HIDE DEF r
<1>2. call' = [call EXCEPT ![c] = r]
  BY DEF r
<1>3. QED
  BY <1>1, <1>2, CallSet


----------------------------------------------------------------------------
\* Rows neither appear nor disappear, and no manifest or key changes: what every step
\* but InsertExtension and the key routes leaves.
RowsStay ==
  /\ UNCHANGED <<key, manifest>>
  /\ status' \in [Ext -> StatusSet]
  /\ \A x \in Ext : status'[x] = "absent" <=> status[x] = "absent"
  /\ DataOK'
  /\ crashes' \in 0..MaxCrashes

LEMMA CallStep ==
  ASSUME IInv, NEW c \in Call, RowsStay,
         call' \in [Call -> {Free} \cup CallRow],
         \A d \in Call \ {c} : call'[d] = call[d],
         ArgsOf(c)'
  PROVE  IInv'
<1> USE DEF IInv
<1>1. TypeOK'
  BY Shapes, ShapesNext DEF RowsStay
<1>2. \A m \in Manifest : Genuine(m) => Genuine(m)'
  BY GenuineKept DEF RowsStay
<1>3. Registered'
  BY <1>2 DEF Registered, RowsStay
<1>4. ASSUME NEW d \in Call \ {c} PROVE ArgsOf(d)'
  <2>1. ArgsOf(d) /\ call'[d] = call[d]
    OBVIOUS
  <2>2. QED
    BY <1>2, <2>1 DEF ArgsOf, RowsStay
<1>5. QED
  BY <1>1, <1>3, <1>4

\* A call takes its next step on the row it is on.
LEMMA GoStep ==
  ASSUME IInv, NEW c \in Call, NEW from \in Step, NEW to \in Step, Go(c, from, to), RowsStay,
         from # "discover", to # "discover",
         to \in Rolling => from \in Rolling,
         to \in {"rollDispose", "rollActivate"} => call[c].arg # None,
         to \in {"launch", "mark"} => from \in {"launch", "mark"}
  PROVE  IInv'
<1>1. /\ call[c].pc = from /\ call[c].ext \in Ext
      /\ call'[c].pc = to /\ call'[c].ext = call[c].ext
      /\ call'[c].launch = call[c].launch /\ call'[c].arg = call[c].arg
      /\ \A d \in Call \ {c} : call'[d] = call[d]
      /\ call' \in [Call -> {Free} \cup CallRow]
  BY GoEffect DEF IInv
<1>2. ArgsOf(c) /\ from # "idle"
  BY DEF IInv, Step
<1>3. to \in {"rollDispose", "rollActivate"} => to \in Rolling
  BY DEF Rolling
<1>4. ArgsOf(c)'
  BY <1>1, <1>2, <1>3 DEF ArgsOf, RowsStay
<1>5. QED
  BY <1>1, <1>4, CallStep

\* A call returns.
LEMMA FreeStep ==
  ASSUME IInv, NEW c \in Call, call' = [call EXCEPT ![c] = Free], RowsStay
  PROVE  IInv'
<1>1. /\ call'[c].pc = "idle"
      /\ \A d \in Call \ {c} : call'[d] = call[d]
      /\ call' \in [Call -> {Free} \cup CallRow]
  BY FreeEffect DEF IInv
<1>2. ArgsOf(c)'
  BY <1>1 DEF ArgsOf, Rolling
<1>3. QED
  BY <1>1, <1>2, CallStep

LEMMA ThenStep ==
  ASSUME IInv, NEW c \in Call, RowsStay,
         \/ Then(c, "quiesce", "rollDispose")
         \/ Then(c, "dispose", "rollActivate")
  PROVE  IInv'
<1>1. {"quiesce", "dispose", "rollDispose", "rollActivate"} \subseteq Step
  BY DEF Step
<1>2. {"quiesce", "dispose"} \subseteq Rolling
  BY DEF Rolling
<1>3. CASE call' = [call EXCEPT ![c] = Free]
  BY <1>3, FreeStep
<1>4. CASE call[c].arg # None /\ Go(c, "quiesce", "rollDispose")
  BY <1>1, <1>2, <1>4, GoStep
<1>5. CASE call[c].arg # None /\ Go(c, "dispose", "rollActivate")
  BY <1>1, <1>2, <1>5, GoStep
<1>6. QED
  BY <1>1, <1>3, <1>4, <1>5, ThenEffect DEF IInv

\* A call begins on a row that is there; or a Rollback turns to its next part.
LEMMA BeginStep ==
  ASSUME IInv, NEW c \in Call, NEW r \in CallRow, call' = [call EXCEPT ![c] = r], RowsStay,
         r.pc \in {"require", "dependents", "outstanding", "insert"},
         r.arg \in Ext \cup {None}, status[r.ext] # "absent"
  PROVE  IInv'
<1>1. /\ call'[c] = r
      /\ \A d \in Call \ {c} : call'[d] = call[d]
      /\ call' \in [Call -> {Free} \cup CallRow]
  BY CallSet DEF IInv
<1>2. r.ext \in Ext
  BY DEF CallRow
<1>3. ArgsOf(c)'
  BY <1>1, <1>2 DEF ArgsOf, RowsStay
<1>4. QED
  BY <1>1, <1>3, CallStep

\* The status of a row that is there becomes another than absent.
LEMMA StatusSet1 ==
  ASSUME IInv, NEW c \in Call, NEW s \in StatusSet \ {"absent"}, call[c].ext \in Ext,
         SetStatus(c, s)
  PROVE  /\ status'[call[c].ext] = s
         /\ \A x \in Ext \ {call[c].ext} : status'[x] = status[x]
         /\ status' \in [Ext -> StatusSet]
  BY Shapes DEF IInv, SetStatus

LEMMA StatusWrite ==
  ASSUME IInv, NEW c \in Call, NEW s \in StatusSet \ {"absent"}, SetStatus(c, s),
         call[c].pc \notin {"idle", "discover"},
         UNCHANGED <<key, manifest, crashes>>, DataOK'
  PROVE  RowsStay
<1>1. call[c].ext \in Ext
  BY Busy DEF IInv
<1>2. status[call[c].ext] # "absent"
  BY <1>1 DEF IInv, ArgsOf
<1>3. crashes \in 0..MaxCrashes
  BY Shapes DEF IInv
<1>4. QED
  BY <1>1, <1>2, <1>3, StatusSet1 DEF RowsStay

LEMMA StatusKept ==
  ASSUME IInv, UNCHANGED <<key, manifest, status, crashes>>, DataOK'
  PROVE  RowsStay
  BY Shapes DEF IInv, RowsStay

LEMMA DataKept ==
  ASSUME IInv, UNCHANGED <<handle, token, effects, owner, alive, held>>
  PROVE  DataOK'
  BY Shapes DEF IInv, DataOK


LEMMA NothingWritten ==
  ASSUME IInv, UNCHANGED <<key, rows, world, held, crashes>>
  PROVE  RowsStay
  BY StatusKept, DataKept DEF rows, world

----------------------------------------------------------------------------
(* The steps.                                                               *)
LEMMA KeyStep ==
  ASSUME IInv, NEW k \in Key, RegisterKey(k) \/ RevokeKey(k)
  PROVE  IInv'
<1> USE DEF IInv
<1>1. UNCHANGED <<rows, world, held, call, crashes>>
  BY DEF RegisterKey, RevokeKey
<1>2. key \in [Key -> {"unknown", "trusted", "revoked"}]
  BY Shapes
<1>3. /\ key' \in [Key -> {"unknown", "trusted", "revoked"}]
      /\ \A j \in Key : key[j] # "unknown" => key'[j] # "unknown"
  BY <1>2 DEF RegisterKey, RevokeKey
<1>4. TypeOK'
  BY <1>1, <1>3, DataKept, Shapes, ShapesNext DEF rows, world
<1>5. \A m \in Manifest : Genuine(m) => Genuine(m)'
  BY <1>3, GenuineKept
<1>6. Registered'
  BY <1>1, <1>5 DEF Registered, rows
<1>7. ASSUME NEW c \in Call PROVE ArgsOf(c)'
  <2>1. ArgsOf(c)
    OBVIOUS
  <2>2. QED
    BY <1>1, <1>5, <2>1 DEF ArgsOf, rows
<1>8. QED
  BY <1>4, <1>6, <1>7

LEMMA DiscoverStep ==
  ASSUME IInv, NEW c \in Call, NEW m \in Manifest, Discover(c, m)
  PROVE  IInv'
<1>1. Says[m].ext \in Ext /\ "discover" \in Step
  BY ExtensionsAssumption DEF Step
<1>2. call' = [call EXCEPT ![c] =
        [pc |-> "discover", ext |-> Says[m].ext, launch |-> None, arg |-> m]]
  BY DEF Discover
<1>3. /\ call'[c].pc = "discover" /\ call'[c].arg = m
      /\ \A d \in Call \ {c} : call'[d] = call[d]
      /\ call' \in [Call -> {Free} \cup CallRow]
  BY <1>1, <1>2, BeginEffect DEF IInv
<1>4. RowsStay
  BY NothingWritten DEF Discover
<1>5. Genuine(m)'
  BY <1>4, ChecksAdmit, GenuineKept DEF IInv, Discover, RowsStay
<1>6. ArgsOf(c)'
  BY <1>3, <1>5 DEF ArgsOf, Rolling
<1>7. QED
  BY <1>3, <1>4, <1>6, CallStep

\* The one write of a manifest: on an id@version that has none.
LEMMA InsertStep ==
  ASSUME IInv, NEW c \in Call, InsertExtension(c)
  PROVE  IInv'
<1> USE DEF IInv
<1>1. call[c].pc = "discover" /\ call' = [call EXCEPT ![c] = Free]
      /\ UNCHANGED <<key, handle, token, effects, owner, alive, held, crashes>>
  BY DEF InsertExtension, End, world
<1>2. call[c].ext \in Ext /\ call[c].arg \in Manifest
  BY <1>1, Busy DEF ArgsOf
<1> DEFINE x == call[c].ext
           m == call[c].arg
<1>3. /\ manifest[x] = None /\ manifest' = [manifest EXCEPT ![x] = m]
      /\ status' = [status EXCEPT ![x] = "discovered"]
  BY DEF InsertExtension, SetStatus
<1>4. Genuine(m)
  BY <1>1, <1>2 DEF ArgsOf
<1>5. x \in Ext /\ m \in Manifest /\ m # None
  BY <1>2, NoneIsNobody
<1> HIDE DEF x, m
<1>6. /\ manifest'[x] = m /\ \A y \in Ext \ {x} : manifest'[y] = manifest[y]
      /\ manifest' \in [Ext -> Manifest \cup {None}]
  BY <1>3, <1>5, Shapes
<1>7. /\ status'[x] = "discovered" /\ \A y \in Ext \ {x} : status'[y] = status[y]
      /\ status' \in [Ext -> StatusSet]
  BY <1>3, <1>5, Shapes DEF StatusSet
<1>8. /\ call'[c].pc = "idle"
      /\ \A d \in Call \ {c} : call'[d] = call[d]
      /\ call' \in [Call -> {Free} \cup CallRow]
  BY <1>1, FreeEffect
<1>9. TypeOK'
  BY <1>1, <1>6, <1>7, <1>8, DataKept, Shapes, ShapesNext
<1>10. \A n \in Manifest : Genuine(n) => Genuine(n)'
  BY <1>1, GenuineKept
<1>11. Registered'
  <2> SUFFICES ASSUME NEW y \in Ext
               PROVE  /\ status'[y] = "absent" <=> manifest'[y] = None
                      /\ \A n \in Manifest : manifest'[y] = n => Genuine(n)'
    BY DEF Registered
  <2>1. CASE y = x
    <3>1. \A n \in Manifest : manifest'[y] = n => Genuine(n)
      BY <1>4, <1>6, <2>1 DEF m
    <3>2. QED
      BY <1>5, <1>6, <1>7, <1>10, <2>1, <3>1
  <2>2. CASE y # x
    BY <1>6, <1>7, <1>10, <2>2 DEF Registered
  <2>3. QED
    BY <2>1, <2>2
<1>12. ASSUME NEW d \in Call PROVE ArgsOf(d)'
  <2>1. CASE d = c
    BY <1>8, <2>1 DEF ArgsOf, Rolling
  <2>2. CASE d # c
    <3>1. ArgsOf(d) /\ call'[d] = call[d]
      BY <1>8, <2>2
    <3>2. QED
      BY <1>7, <1>10, <3>1 DEF ArgsOf
  <2>3. QED
    BY <2>1, <2>2
<1>13. QED
  BY <1>9, <1>11, <1>12

LEMMA RouteStep ==
  ASSUME IInv, NEW c \in Call, Route(c)
  PROVE  IInv'
<1>1. handle \in [Ext -> Launch \cup {None}]
  BY Shapes DEF IInv, DataOK
<1>2. ASSUME NEW x \in Ext, NEW pc \in {"require", "dependents", "insert"}, Begin(c, x, pc),
             status[x] # "absent", RowsStay
      PROVE  IInv'
  <2> DEFINE r == [Free EXCEPT !.pc = pc, !.ext = x]
  <2>1. r \in CallRow /\ r.pc = pc /\ r.ext = x /\ r.arg = None
    BY DEF Free, CallRow, Step
  <2>2. call' = [call EXCEPT ![c] = r]
    BY <1>2 DEF Begin
  <2> HIDE DEF r
  <2>3. QED
    BY <1>2, <2>1, <2>2, BeginStep
<1>3. ASSUME NEW x \in Ext, Activate(c, x) \/ Quiesce(c, x) \/ RegisterContextEffect(c, x)
      PROVE  IInv'
  BY <1>2, <1>3, NothingWritten DEF Activate, Quiesce, RegisterContextEffect
<1>4. ASSUME NEW x \in Ext, Dispose(c, x)
      PROVE  IInv'
  <2> DEFINE r == [Free EXCEPT !.pc = "outstanding", !.ext = x, !.launch = handle[x]]
  <2>1. r \in CallRow /\ r.pc = "outstanding" /\ r.ext = x /\ r.arg = None
    BY <1>1 DEF Free, CallRow, Step
  <2>2. call' = [call EXCEPT ![c] = r] /\ status[x] # "absent" /\ RowsStay
    BY <1>4, NothingWritten DEF Dispose
  <2> HIDE DEF r
  <2>3. QED
    BY <2>1, <2>2, BeginStep
<1>5. ASSUME NEW x \in Ext, NEW y \in Ext, Rollback(c, x, y)
      PROVE  IInv'
  <2> DEFINE r == [Free EXCEPT !.pc = "dependents", !.ext = x, !.arg = y]
  <2>1. r \in CallRow /\ r.pc = "dependents" /\ r.ext = x /\ r.arg = y
    BY DEF Free, CallRow, Step
  <2>2. call' = [call EXCEPT ![c] = r] /\ status[x] # "absent" /\ RowsStay
    BY <1>5, NothingWritten DEF Rollback
  <2> HIDE DEF r
  <2>3. QED
    BY <2>1, <2>2, BeginStep
<1>6. QED
  BY <1>3, <1>4, <1>5, DiscoverStep
     DEF Route, HandleDiscoverExtension, HandleRollbackExtension, HandleActivateExtension,
         HandleQuiesceExtension, HandleDisposeExtension, HandleRegisterContextEffect

\* The parts of an activation, a disposal and a rollback that write nothing.
LEMMA ReadOnlyStep ==
  ASSUME IInv, NEW c \in Call,
         \/ RequirementsSatisfied(c) \/ MintFails(c) \/ NoActiveDependents(c)
         \/ NoOutstandingEffects(c) \/ TeardownFails(c)
  PROVE  IInv'
<1>1. RowsStay
  BY NothingWritten
     DEF RequirementsSatisfied, MintFails, NoActiveDependents, NoOutstandingEffects, TeardownFails
<1>2. {"require", "activate", "mint", "setFailed", "dependents", "quiesce", "outstanding",
       "teardown", "revokeTorn"} \subseteq Step
  BY DEF Step
<1>3. \/ Go(c, "require", "activate") \/ Go(c, "mint", "setFailed")
      \/ Go(c, "dependents", "quiesce") \/ Go(c, "outstanding", "teardown")
      \/ Go(c, "teardown", "revokeTorn")
  BY DEF RequirementsSatisfied, MintFails, NoActiveDependents, NoOutstandingEffects, TeardownFails
<1>4. {"dependents", "outstanding"} \subseteq Rolling
      /\ {"activate", "setFailed", "revokeTorn"} \cap Rolling = {}
  BY DEF Rolling
<1>5. QED
  BY <1>1, <1>2, <1>3, <1>4, GoStep

LEMMA StatusStep ==
  ASSUME IInv, NEW c \in Call,
         \/ SetActivating(c) \/ SetFailed(c) \/ SetFailedAtLast(c)
         \/ SetQuiescing(c) \/ SetDisposed(c)
  PROVE  IInv'
<1>1. UNCHANGED <<key, manifest, crashes>> /\ DataOK'
  BY DataKept DEF SetActivating, SetFailed, SetFailedAtLast, SetQuiescing, SetDisposed, world
<1>2. call[c].pc \notin {"idle", "discover"}
  BY DEF SetActivating, SetFailed, SetFailedAtLast, SetQuiescing, SetDisposed, Go, End, Then
<1>3. \E s \in StatusSet \ {"absent"} : SetStatus(c, s)
  BY DEF SetActivating, SetFailed, SetFailedAtLast, SetQuiescing, SetDisposed, StatusSet
<1>4. RowsStay
  BY <1>1, <1>2, <1>3, StatusWrite
<1>5. {"activate", "mint", "fail", "revokeFailed"} \subseteq Step
  BY DEF Step
<1>6. {"mint", "revokeFailed"} \cap Rolling = {}
  BY DEF Rolling
<1>7. CASE Go(c, "activate", "mint") \/ Go(c, "fail", "revokeFailed")
  BY <1>4, <1>5, <1>6, <1>7, GoStep
<1>8. CASE call' = [call EXCEPT ![c] = Free]
  BY <1>4, <1>8, FreeStep
<1>9. CASE Then(c, "quiesce", "rollDispose") \/ Then(c, "dispose", "rollActivate")
  BY <1>4, <1>9, ThenStep
<1>10. QED
  BY <1>7, <1>8, <1>9
     DEF SetActivating, SetFailed, SetFailedAtLast, SetQuiescing, SetDisposed, End


\* Nothing that a call, a row or a key is changes.
LEMMA Aside ==
  ASSUME IInv, UNCHANGED <<key, manifest, status, call, crashes>>, DataOK'
  PROVE  IInv'
<1>1. TypeOK'
  BY Shapes, ShapesNext DEF IInv
<1>2. QED
  BY <1>1 DEF IInv, Registered, ArgsOf, Genuine


LEMMA MintStep ==
  ASSUME IInv, NEW c \in Call, NEW i \in Launch, MintCapabilityToken(c, i)
  PROVE  IInv'
<1> DEFINE r == [call[c] EXCEPT !.pc = "launch", !.launch = i]
           x == call[c].ext
<1>1. call[c].pc = "mint"
  BY DEF MintCapabilityToken
<1>2. call[c] \in CallRow /\ x \in Ext /\ status[x] # "absent"
  BY <1>1, Busy DEF IInv, ArgsOf
<1>3. r \in CallRow /\ r.pc = "launch" /\ r.launch = i /\ r.ext = x
  BY <1>2 DEF CallRow, Step
<1>4. call' = [call EXCEPT ![c] = r]
  BY Shapes DEF MintCapabilityToken, IInv
<1>5. DataOK
  BY Shapes DEF IInv
<1>6. /\ owner' = [owner EXCEPT ![i] = x]
      /\ token' = token \/ token' = [token EXCEPT ![x] = i]
      /\ UNCHANGED <<key, manifest, status, handle, effects, alive, held, crashes>>
  BY DEF MintCapabilityToken
<1> HIDE DEF r, x
<1>7. DataOK'
  BY <1>2, <1>5, <1>6 DEF DataOK
<1>8. RowsStay
  BY <1>6, <1>7, StatusKept
<1>9. /\ call'[c].pc = "launch" /\ call'[c].launch = i /\ call'[c].ext = x
      /\ \A d \in Call \ {c} : call'[d] = call[d]
      /\ call' \in [Call -> {Free} \cup CallRow]
  BY <1>3, <1>4, CallSet DEF IInv
<1>10. ArgsOf(c)'
  BY <1>2, <1>6, <1>9 DEF ArgsOf, Rolling
<1>11. QED
  BY <1>8, <1>9, <1>10, CallStep

LEMMA LaunchStep ==
  ASSUME IInv, NEW c \in Call, Launched(c) \/ LaunchFails(c)
  PROVE  IInv'
<1>1. {"launch", "mark", "fail"} \subseteq Step /\ {"mark", "fail"} \cap Rolling = {}
  BY DEF Step, Rolling
<1>2. Go(c, "launch", "mark") \/ Go(c, "launch", "fail")
  BY DEF Launched, LaunchFails
<1>3. call[c].ext \in Ext /\ call[c].launch \in Launch
  BY <1>2, Busy DEF Go, IInv, ArgsOf
<1>4. DataOK
  BY Shapes DEF IInv
<1>5. /\ alive' \in {alive, alive \cup {call[c].launch}}
      /\ held' = held \/ held' = [held EXCEPT ![call[c].ext] = call[c].launch]
      /\ UNCHANGED <<key, manifest, status, handle, token, effects, owner, crashes>>
  BY DEF Launched, LaunchFails, rows
<1>6. DataOK'
  BY <1>3, <1>4, <1>5 DEF DataOK
<1>7. RowsStay
  BY <1>5, <1>6, StatusKept
<1>8. QED
  BY <1>1, <1>2, <1>7, GoStep

LEMMA TokenStep ==
  ASSUME IInv, NEW c \in Call, RevokeFailed(c) \/ RevokeCapabilityToken(c)
  PROVE  IInv'
<1>1. {"revoke", "dispose", "revokeTorn", "setFailed"} \subseteq Step
      /\ {"revoke", "dispose"} \subseteq Rolling /\ "setFailed" \notin Rolling
  BY DEF Step, Rolling
<1>2. \/ call[c].pc = "revokeFailed" /\ call' = [call EXCEPT ![c] = Free]
      \/ Go(c, "revoke", "dispose") \/ Go(c, "revokeTorn", "setFailed")
  BY DEF RevokeFailed, RevokeCapabilityToken, End
<1>3. DataOK
  BY Shapes DEF IInv
<1>4. /\ token' = token \/ token' = [token EXCEPT ![call[c].ext] = None]
      /\ UNCHANGED <<key, manifest, status, handle, effects, owner, alive, held, crashes>>
  BY DEF RevokeFailed, RevokeCapabilityToken, world
<1>5. DataOK'
  BY <1>3, <1>4 DEF DataOK
<1>6. RowsStay
  BY <1>4, <1>5, StatusKept
<1>7. QED
  BY <1>1, <1>2, <1>6, GoStep, FreeStep

LEMMA MarkStep ==
  ASSUME IInv, NEW c \in Call, MarkActive(c)
  PROVE  IInv'
<1>1. call[c].pc = "mark" /\ call' = [call EXCEPT ![c] = Free] /\ SetStatus(c, "active")
  BY DEF MarkActive, SetActive, End
<1>2. call[c].ext \in Ext /\ call[c].launch \in Launch
  BY <1>1, Busy DEF IInv, ArgsOf
<1>3. DataOK
  BY Shapes DEF IInv
<1>4. /\ handle' = [handle EXCEPT ![call[c].ext] = call[c].launch]
      /\ UNCHANGED <<key, manifest, token, effects, owner, alive, held, crashes>>
  BY DEF MarkActive, SetActive, world
<1>5. DataOK'
  BY <1>2, <1>3, <1>4 DEF DataOK
<1>6. "active" \in StatusSet \ {"absent"}
  BY DEF StatusSet
<1>7. RowsStay
  BY <1>1, <1>4, <1>5, <1>6, StatusWrite
<1>8. QED
  BY <1>1, <1>7, FreeStep

\* A teardown, complete or not, takes processes and containers away; 'active' may stand
\* though its writer does not know.
LEMMA TearingStep ==
  ASSUME IInv, NEW c \in Call, Teardown(c) \/ MarkActiveFails(c)
  PROVE  IInv'
<1>1. {"teardown", "revoke"} \subseteq Step /\ {"teardown", "revoke"} \subseteq Rolling
  BY DEF Step, Rolling
<1>2. \/ Go(c, "teardown", "revoke")
      \/ call[c].pc = "mark" /\ call' = [call EXCEPT ![c] = Free]
  BY DEF Teardown, MarkActiveFails, End
<1>3. DataOK
  BY Shapes DEF IInv
<1>4. /\ UNCHANGED <<key, manifest, token, effects, owner, crashes>>
      /\ \/ UNCHANGED <<status, handle>>
         \/ call[c].pc = "mark" /\ SetActive(c)
  BY DEF Teardown, MarkActiveFails, End, rows
<1>5. /\ alive' \subseteq alive
      /\ held' = held \/ held' = [held EXCEPT ![call[c].ext] = None]
  BY DEF Teardown, MarkActiveFails, TornDown
<1>6. call[c].pc = "mark" => call[c].launch \in Launch
  BY DEF IInv, ArgsOf
<1>7. handle' = handle \/ \E i \in Launch : handle' = [handle EXCEPT ![call[c].ext] = i]
  BY <1>4, <1>6 DEF SetActive
<1>8. DataOK'
  BY <1>3, <1>4, <1>5, <1>7 DEF DataOK
<1>9. RowsStay
  <2>1. CASE UNCHANGED status
    BY <1>4, <1>8, <2>1, StatusKept
  <2>2. CASE call[c].pc = "mark" /\ SetStatus(c, "active")
    BY <1>4, <1>8, <2>2, StatusWrite DEF StatusSet
  <2>3. QED
    BY <1>4, <2>1, <2>2 DEF SetActive
<1>10. QED
  BY <1>1, <1>2, <1>9, GoStep, FreeStep

LEMMA RollingStep ==
  ASSUME IInv, NEW c \in Call, RollbackDispose(c) \/ RollbackActivate(c)
  PROVE  IInv'
<1>1. RowsStay /\ DataOK
  BY NothingWritten, Shapes DEF RollbackDispose, RollbackActivate, IInv
<1>2. CASE RollbackActivate(c)
  <2> DEFINE y == call[c].arg
             r == [Free EXCEPT !.pc = "require", !.ext = y]
  <2>1. call[c].pc = "rollActivate" /\ y \in Ext /\ status[y] # "absent"
    BY <1>2 DEF RollbackActivate, IInv, ArgsOf
  <2>2. call' = [call EXCEPT ![c] = r]
    BY <1>2 DEF RollbackActivate
  <2> HIDE DEF y
  <2>3. r \in CallRow /\ r.pc = "require" /\ r.ext = y /\ r.arg = None
    BY <2>1 DEF Free, CallRow, Step
  <2> HIDE DEF r
  <2>4. QED
    BY <1>1, <2>1, <2>2, <2>3, BeginStep
<1>3. CASE RollbackDispose(c)
  <2> DEFINE x == call[c].ext
             r == [call[c] EXCEPT !.pc = "outstanding", !.launch = handle[x]]
  <2>1. call[c].pc = "rollDispose"
    BY <1>3 DEF RollbackDispose
  <2>2. call[c] \in CallRow /\ x \in Ext /\ status[x] # "absent" /\ call[c].arg \in Ext
    BY <2>1, Busy DEF IInv, ArgsOf
  <2>3. r \in CallRow /\ r.pc = "outstanding" /\ r.ext = x /\ r.arg = call[c].arg
    BY <1>1, <2>2 DEF CallRow, Step, DataOK
  <2>4. call' = [call EXCEPT ![c] = r]
    BY <1>3, Shapes DEF RollbackDispose, IInv
  <2> HIDE DEF r, x
  <2>5. /\ call'[c].pc = "outstanding" /\ call'[c].ext = x /\ call'[c].arg = call[c].arg
        /\ \A d \in Call \ {c} : call'[d] = call[d]
        /\ call' \in [Call -> {Free} \cup CallRow]
    BY <2>3, <2>4, CallSet DEF IInv
  <2>6. ArgsOf(c)'
    BY <1>1, <2>2, <2>5 DEF ArgsOf, RowsStay
  <2>7. QED
    BY <1>1, <2>5, <2>6, CallStep
<1>4. QED
  BY <1>2, <1>3

LEMMA EffectStep ==
  ASSUME IInv
  PROVE  /\ \A c \in Call : InsertContextEffect(c) \/ ReturnError(c) => IInv'
         /\ \A x \in Ext : DisposeContextEffect(x) => IInv'
         /\ \A i \in Launch : ProcessExits(i) => IInv'
<1>1. DataOK /\ MaxEffects \in Nat
  BY Shapes, ExtensionsAssumption DEF IInv
<1>2. ASSUME NEW c \in Call, ReturnError(c) PROVE IInv'
  BY <1>2, NothingWritten, FreeStep DEF ReturnError
<1>3. ASSUME NEW c \in Call, InsertContextEffect(c) PROVE IInv'
  <2>1. /\ effects' = [effects EXCEPT ![call[c].ext] = @ + 1]
        /\ call[c].pc = "insert" /\ effects[call[c].ext] < MaxEffects
        /\ call' = [call EXCEPT ![c] = Free]
        /\ UNCHANGED <<key, manifest, status, handle, token, owner, alive, held, crashes>>
    BY <1>3 DEF InsertContextEffect, End, world
  <2>2. call[c].ext \in Ext
    BY <2>1, Busy DEF IInv
  <2>3. effects[call[c].ext] + 1 \in 0..MaxEffects
    BY <1>1, <2>1, <2>2 DEF DataOK
  <2>4. DataOK'
    BY <1>1, <2>1, <2>2, <2>3 DEF DataOK
  <2>5. QED
    BY <2>1, <2>4, StatusKept, FreeStep
<1>4. ASSUME NEW x \in Ext, DisposeContextEffect(x) PROVE IInv'
  <2>1. /\ effects' = [effects EXCEPT ![x] = @ - 1] /\ effects[x] > 0
        /\ UNCHANGED <<key, manifest, status, handle, token, owner, alive, held, call, crashes>>
    BY <1>4 DEF DisposeContextEffect, world
  <2>2. effects[x] - 1 \in 0..MaxEffects
    BY <1>1, <2>1 DEF DataOK
  <2>3. DataOK'
    BY <1>1, <2>1, <2>2 DEF DataOK
  <2>4. QED
    BY <2>1, <2>3, Aside
<1>5. ASSUME NEW i \in Launch, ProcessExits(i) PROVE IInv'
  <2>1. alive' \subseteq alive
        /\ UNCHANGED <<key, manifest, status, handle, token, effects, owner, held, call, crashes>>
    BY <1>5 DEF ProcessExits, rows
  <2>2. DataOK'
    BY <1>1, <2>1 DEF DataOK
  <2>3. QED
    BY <2>1, <2>2, Aside
<1>6. QED
  BY <1>2, <1>3, <1>4, <1>5

LEMMA CrashStep ==
  ASSUME IInv, Crash
  PROVE  IInv'
<1>1. DataOK /\ crashes' \in 0..MaxCrashes
  BY Shapes, ExtensionsAssumption DEF IInv, Crash
<1>2. UNCHANGED <<key, manifest, status, handle, token, effects, owner, alive>>
      /\ held' = [x \in Ext |-> None] /\ call' = [c \in Call |-> Free]
  BY DEF Crash, rows, world
<1>3. DataOK'
  BY <1>1, <1>2 DEF DataOK
<1>4. TypeOK'
  BY <1>1, <1>2, <1>3, Shapes, ShapesNext DEF IInv
<1>5. Registered'
  BY <1>2 DEF Registered, Genuine, IInv
<1>6. \A c \in Call : ArgsOf(c)'
  BY <1>2, Freed DEF ArgsOf, Rolling
<1>7. QED
  BY <1>4, <1>5, <1>6 DEF IInv

LEMMA InvInit == Init => IInv
<1> SUFFICES ASSUME Init PROVE IInv
  OBVIOUS
<1> USE DEF Init
<1>1. TypeOK
  <2>1. 0 \in 0..MaxEffects /\ 0 \in 0..MaxCrashes
    BY ExtensionsAssumption
  <2>2. QED
    BY <2>1, Shapes DEF DataOK, StatusSet
<1>2. Registered
  BY NoneIsNobody DEF Registered
<1>3. \A c \in Call : ArgsOf(c)
  BY Freed DEF ArgsOf, Rolling
<1>4. QED
  BY <1>1, <1>2, <1>3 DEF IInv

LEMMA CallsStep ==
  ASSUME IInv, NEW c \in Call,
         \/ Route(c) \/ InsertExtension(c) \/ Activating(c) \/ Disposing(c)
         \/ InsertContextEffect(c) \/ ReturnError(c)
  PROVE  IInv'
<1>1. CASE Activating(c)
  BY <1>1, ReadOnlyStep, StatusStep, MintStep, LaunchStep, TokenStep, MarkStep, TearingStep,
     RollingStep DEF Activating
<1>2. CASE Disposing(c)
  BY <1>2, ReadOnlyStep, StatusStep, TearingStep, TokenStep, RollingStep DEF Disposing
<1>3. QED
  BY <1>1, <1>2, RouteStep, InsertStep, EffectStep

LEMMA InvStep == IInv /\ [Next]_vars => IInv'
<1> SUFFICES ASSUME IInv, [Next]_vars PROVE IInv'
  OBVIOUS
<1>1. CASE \E k \in Key : HandleRegisterTrustedKey(k) \/ HandleRevokeTrustedKey(k)
  BY <1>1, KeyStep DEF HandleRegisterTrustedKey, HandleRevokeTrustedKey
<1>2. CASE \E x \in Ext, shown \in Launch \cup {Operator} : HandleDisposeContextEffect(x, shown)
  BY <1>2, EffectStep DEF HandleDisposeContextEffect
<1>3. CASE \E c \in Call : \/ Route(c) \/ InsertExtension(c) \/ Activating(c) \/ Disposing(c)
                           \/ InsertContextEffect(c) \/ ReturnError(c)
  BY <1>3, CallsStep
<1>4. CASE \E i \in Launch : ProcessExits(i)
  BY <1>4, EffectStep
<1>5. CASE UNCHANGED vars
  BY <1>5, Aside, DataKept DEF vars, rows, world
<1>6. QED
  BY <1>1, <1>2, <1>3, <1>4, <1>5, CrashStep DEF Next

\* The inductive invariant holds in every state, for any number of calls.
THEOREM Invariant == Spec => []IInv
<1>1. Init => IInv
  BY InvInit
<1>2. IInv /\ [Next]_vars => IInv'
  BY InvStep
<1>3. QED
  BY <1>1, <1>2, PTL DEF Spec

\* Rows, launches and calls have their types.
THEOREM TypeCorrect == Spec => []TypeOK
<1>1. IInv => TypeOK
  BY DEF IInv
<1>2. QED
  BY <1>1, Invariant, PTL

\* However many calls race and whichever keys are revoked meanwhile, the registry holds
\* no manifest that was not let in.
THEOREM AdmittedIsGenuine == Spec => []AdmittedGenuine
<1>1. IInv => AdmittedGenuine
  <2> SUFFICES ASSUME IInv PROVE AdmittedGenuine
    OBVIOUS
  <2>1. manifest \in [Ext -> Manifest \cup {None}]
    BY Shapes DEF IInv
  <2>2. QED
    BY <2>1, GenuineRows DEF IInv, Registered
<1>2. QED
  BY <1>1, Invariant, PTL

----------------------------------------------------------------------------
(* What calls found of their rows, in spite of the races.                   *)

\* The history only observes: every call does what it does in Extensions, so that what is
\* proved there holds here too.
THEOREM HistoryObserves == WatchedSpec => Spec
<1>1. WatchedInit => Init
  BY DEF WatchedInit
<1>2. [WatchedNext]_watchedVars => [Next]_vars
  BY DEF WatchedNext, watchedVars
<1>3. QED
  BY <1>1, <1>2, PTL DEF WatchedSpec, Spec

\* What an active row proves.
Proves(x) == Isolation(x) # "in_process" => token[x] # None /\ token[x] = handle[x]

\* What call c found of the row x, and what it has done to it, still stands.
HoldsAt(c, x) ==
  /\ call[c].pc \in {"require", "activate"} => status[x] \in {"discovered", "disposed", "failed"}
  /\ call[c].pc \in {"mint", "launch", "mark", "fail"} => status[x] = "activating"
  /\ call[c].pc \in {"dependents", "quiesce"} => status[x] = "active"
  /\ call[c].pc \in {"outstanding", "teardown", "revoke", "revokeTorn", "dispose"}
       => status[x] = "quiescing"
  /\ call[c].pc = "setFailed" => status[x] \in {"activating", "quiescing"}
  /\ call[c].pc = "revokeFailed" => status[x] = "failed"
  /\ call[c].pc \in {"launch", "mark"} /\ Isolation(x) # "in_process"
       => token[x] = call[c].launch

\* The row of a call that has had it to itself is as that call left it.
RowOK ==
  /\ \A c \in Call, x \in Ext \ raced : call[c].ext = x => HoldsAt(c, x)
  /\ ActiveHoldsToken

RowInv == IInv /\ Contended \subseteq raced /\ RowOK

\* Of the history's step: what was raced for is remembered while a call is at work on it.
Kept ==
  \A x \in Ext : x \in raced /\ x \in (Active \cup RowsAt(AtWork))' => x \in raced'

LEMMA AtWorkIs ==
  AtWork = {"require", "activate", "mint", "launch", "mark", "fail", "revokeFailed",
            "dependents", "quiesce", "outstanding", "teardown", "revoke", "revokeTorn",
            "dispose", "setFailed"}
  BY DEF AtWork, Step

LEMMA NotRaced ==
  ASSUME Kept, NEW x \in Ext, x \notin raced',
         \/ status'[x] = "active"
         \/ \E c \in Call : call'[c].pc \in AtWork /\ call'[c].ext = x
  PROVE  x \notin raced
  BY DEF Kept, RowsAt, Active

\* A call that is not at work on a row claims nothing of it.
LEMMA NothingClaimed ==
  ASSUME NEW c \in Call, NEW x \in Ext, call'[c].pc \notin AtWork
  PROVE  HoldsAt(c, x)'
  BY AtWorkIs DEF HoldsAt

\* A write to the row that a call is at work on, or to one that nobody can be, leaves the
\* other calls what they found.
LEMMA OneRowMoves ==
  ASSUME RowInv, Kept, NEW c \in Call, NEW x \in Ext,
         \/ call[c].pc \in AtWork /\ call[c].ext = x
         \/ status[x] = "absent",
         \A y \in Ext \ {x} : /\ status'[y] = status[y] /\ manifest'[y] = manifest[y]
                              /\ token'[y] = token[y] /\ handle'[y] = handle[y],
         \A d \in Call \ {c} : call'[d] = call[d],
         \A y \in Ext \ raced' : call'[c].ext = y => HoldsAt(c, y)',
         x \notin raced' /\ status'[x] = "active" => Proves(x)'
  PROVE  RowOK'
<1>1. ASSUME NEW d \in Call \ {c}, NEW y \in Ext \ raced', call'[d].ext = y
      PROVE  HoldsAt(d, y)'
  <2>1. ArgsOf(d) /\ call'[d] = call[d]
    BY DEF RowInv, IInv
  <2>2. CASE call[d].pc \in AtWork
    <3>1. y \notin raced
      BY <1>1, <2>1, <2>2, NotRaced
    <3>2. y # x
      BY <1>1, <2>1, <2>2, <3>1, AtWorkIs DEF RowInv, Contended, ArgsOf
    <3>3. HoldsAt(d, y)
      BY <1>1, <2>1, <3>1 DEF RowInv, RowOK
    <3>4. QED
      BY <2>1, <3>2, <3>3 DEF HoldsAt, Isolation
  <2>3. CASE call[d].pc \notin AtWork
    BY <2>1, <2>3, NothingClaimed
  <2>4. QED
    BY <2>2, <2>3
<1>2. ASSUME NEW y \in Ext \ raced', status'[y] = "active"
      PROVE  Proves(y)'
  <2>1. CASE y = x
    BY <1>2, <2>1
  <2>2. CASE y # x
    <3>1. y \notin raced
      BY <1>2, NotRaced
    <3>2. Proves(y)
      BY <1>2, <2>2, <3>1 DEF RowInv, RowOK, ActiveHoldsToken, Proves, Active
    <3>3. QED
      BY <2>2, <3>2 DEF Proves, Isolation
  <2>3. QED
    BY <2>1, <2>2
<1>3. ActiveHoldsToken'
  BY <1>2 DEF ActiveHoldsToken, Proves, Active
<1>4. QED
  BY <1>1, <1>3 DEF RowOK

\* The rows are as they were: only the call that moved has to be looked at.
LEMMA RowsKept ==
  ASSUME RowInv, Kept, UNCHANGED <<manifest, status, handle, token>>,
         \A d \in Call : call'[d] = call[d] \/ \A y \in Ext \ raced' : call'[d].ext = y => HoldsAt(d, y)'
  PROVE  RowOK'
<1>1. ASSUME NEW d \in Call, NEW y \in Ext \ raced', call'[d].ext = y
      PROVE  HoldsAt(d, y)'
  <2>1. CASE call'[d] = call[d] /\ call[d].pc \in AtWork
    <3>1. y \notin raced
      BY <1>1, <2>1, NotRaced
    <3>2. HoldsAt(d, y)
      BY <1>1, <2>1, <3>1 DEF RowInv, RowOK
    <3>3. QED
      BY <2>1, <3>2 DEF HoldsAt, Isolation
  <2>2. CASE call'[d] = call[d] /\ call[d].pc \notin AtWork
    BY <2>2, NothingClaimed
  <2>3. QED
    BY <1>1, <2>1, <2>2
<1>2. ASSUME NEW y \in Ext \ raced', status'[y] = "active"
      PROVE  Proves(y)'
  <2>1. y \notin raced
    BY <1>2, NotRaced
  <2>2. QED
    BY <1>2, <2>1 DEF RowInv, RowOK, ActiveHoldsToken, Proves, Active, Isolation
<1>3. ActiveHoldsToken'
  BY <1>2 DEF ActiveHoldsToken, Proves, Active
<1>4. QED
  BY <1>1, <1>3 DEF RowOK

\* A call goes on without a write to the rows.
LEMMA UnwrittenGo ==
  ASSUME RowInv, Kept, NEW c \in Call,
         \/ RequirementsSatisfied(c) \/ MintFails(c) \/ Launched(c) \/ LaunchFails(c)
         \/ NoActiveDependents(c) \/ NoOutstandingEffects(c) \/ Teardown(c) \/ TeardownFails(c)
  PROVE  RowOK'
<1>1. UNCHANGED <<manifest, status, handle, token>>
  BY DEF RequirementsSatisfied, MintFails, Launched, LaunchFails, NoActiveDependents,
     NoOutstandingEffects, Teardown, TeardownFails, rows
<1>2. PICK from \in AtWork, to \in AtWork :
        /\ Go(c, from, to)
        /\ <<from, to>> \in {<<"require", "activate">>, <<"mint", "setFailed">>,
             <<"launch", "mark">>, <<"launch", "fail">>, <<"dependents", "quiesce">>,
             <<"outstanding", "teardown">>, <<"teardown", "revoke">>, <<"teardown", "revokeTorn">>}
  BY AtWorkIs DEF RequirementsSatisfied, MintFails, Launched, LaunchFails, NoActiveDependents,
     NoOutstandingEffects, Teardown, TeardownFails
<1>3. /\ call[c].pc = from /\ call'[c].pc = to
      /\ call'[c].ext = call[c].ext /\ call'[c].launch = call[c].launch
      /\ \A d \in Call \ {c} : call'[d] = call[d]
  BY <1>2, GoEffect DEF RowInv, IInv, AtWork
<1>4. ASSUME NEW y \in Ext \ raced', call'[c].ext = y
      PROVE  HoldsAt(c, y)'
  <2>1. y \notin raced
    BY <1>3, <1>4, NotRaced
  <2>2. HoldsAt(c, y)
    BY <1>3, <1>4, <2>1 DEF RowInv, RowOK
  <2>3. QED
    BY <1>1, <1>2, <1>3, <2>2 DEF HoldsAt, Isolation
<1>5. QED
  BY <1>1, <1>3, <1>4, RowsKept

\* A call begins, or a Rollback turns to its next part: its row is in the state that this
\* part asks for.
Begun(c) ==
  \/ call'[c].pc = "discover"
  \/ call'[c].pc = "require" /\ status[call'[c].ext] \in {"discovered", "disposed", "failed"}
  \/ call'[c].pc \in {"dependents", "insert"} /\ status[call'[c].ext] = "active"
  \/ call'[c].pc = "outstanding" /\ status[call'[c].ext] = "quiescing"

LEMMA Beginnings ==
  ASSUME TypeOK, NEW c \in Call, ArgsOf(c), Route(c) \/ RollbackDispose(c) \/ RollbackActivate(c)
  PROVE  /\ UNCHANGED <<manifest, status, handle, token, effects>>
         /\ \A d \in Call \ {c} : call'[d] = call[d]
         /\ Begun(c)
<1> DEFINE Goal == Begun(c) /\ \A d \in Call \ {c} : call'[d] = call[d]
<1>1. UNCHANGED <<manifest, status, handle, token, effects>>
  BY DEF Route, HandleDiscoverExtension, Discover, HandleRollbackExtension, Rollback,
     HandleActivateExtension, Activate, HandleQuiesceExtension, Quiesce, HandleDisposeExtension,
     Dispose, HandleRegisterContextEffect, RegisterContextEffect, RollbackDispose,
     RollbackActivate, rows
<1>2. call \in [Call -> {Free} \cup CallRow]
  BY Shapes
<1>3. ASSUME NEW r, call' = [call EXCEPT ![c] = r],
             \/ r.pc = "discover"
             \/ r.pc = "require" /\ status[r.ext] \in {"discovered", "disposed", "failed"}
             \/ r.pc \in {"dependents", "insert"} /\ status[r.ext] = "active"
             \/ r.pc = "outstanding" /\ status[r.ext] = "quiescing"
      PROVE  Goal
  <2>1. call'[c] = r /\ \A d \in Call \ {c} : call'[d] = call[d]
    BY <1>2, <1>3
  <2>2. QED
    BY <1>3, <2>1 DEF Begun
<1> SUFFICES Goal
  BY <1>1
<1> HIDE DEF Goal
<1>4. ASSUME NEW m \in Manifest, Discover(c, m) PROVE Goal
  <2> DEFINE r == [pc |-> "discover", ext |-> Says[m].ext, launch |-> None, arg |-> m]
  <2>1. call' = [call EXCEPT ![c] = r] /\ r.pc = "discover"
    BY <1>4 DEF Discover
  <2> HIDE DEF r
  <2>2. QED
    BY <2>1, <1>3
<1>5. ASSUME NEW x \in Ext, NEW pc \in {"require", "dependents", "insert"}, Begin(c, x, pc),
             pc = "require" => status[x] \in {"discovered", "disposed", "failed"},
             pc \in {"dependents", "insert"} => status[x] = "active"
      PROVE  Goal
  <2> DEFINE r == [Free EXCEPT !.pc = pc, !.ext = x]
  <2>1. call' = [call EXCEPT ![c] = r] /\ r.pc = pc /\ r.ext = x
    BY <1>5 DEF Begin, Free
  <2> HIDE DEF r
  <2>2. QED
    BY <2>1, <1>3, <1>5
<1>6. ASSUME NEW x \in Ext, Activate(c, x) \/ Quiesce(c, x) \/ RegisterContextEffect(c, x)
      PROVE  Goal
  BY <1>5, <1>6 DEF Activate, Quiesce, RegisterContextEffect
<1>7. ASSUME NEW x \in Ext, Dispose(c, x) PROVE Goal
  <2> DEFINE r == [Free EXCEPT !.pc = "outstanding", !.ext = x, !.launch = handle[x]]
  <2>1. call' = [call EXCEPT ![c] = r] /\ r.pc = "outstanding" /\ r.ext = x
    BY <1>7 DEF Dispose, Free
  <2>2. status[x] = "quiescing"
    BY <1>7 DEF Dispose
  <2> HIDE DEF r
  <2>3. QED
    BY <2>1, <2>2, <1>3
<1>8. ASSUME NEW x \in Ext, NEW y \in Ext, Rollback(c, x, y) PROVE Goal
  <2> DEFINE r == [Free EXCEPT !.pc = "dependents", !.ext = x, !.arg = y]
  <2>1. call' = [call EXCEPT ![c] = r] /\ r.pc = "dependents" /\ r.ext = x
    BY <1>8 DEF Rollback, Free
  <2>2. status[x] = "active"
    BY <1>8 DEF Rollback
  <2> HIDE DEF r
  <2>3. QED
    BY <2>1, <2>2, <1>3
<1>9. CASE RollbackActivate(c)
  <2> DEFINE y == call[c].arg
             r == [Free EXCEPT !.pc = "require", !.ext = y]
  <2>1. call' = [call EXCEPT ![c] = r] /\ status[y] \in {"discovered", "disposed", "failed"}
    BY <1>9 DEF RollbackActivate
  <2>2. y \in Ext
    BY <1>9 DEF RollbackActivate, ArgsOf
  <2> HIDE DEF y
  <2>3. r.pc = "require" /\ r.ext = y
    BY <2>2 DEF Free
  <2> HIDE DEF r
  <2>4. QED
    BY <2>1, <2>3, <1>3
<1>10. CASE RollbackDispose(c)
  <2> DEFINE r == [call[c] EXCEPT !.pc = "outstanding", !.launch = handle[call[c].ext]]
  <2>1. call[c] \in CallRow /\ status[call[c].ext] = "quiescing"
    BY <1>10, Busy DEF RollbackDispose
  <2>2. call' = [call EXCEPT ![c] = r]
    BY <1>2, <1>10 DEF RollbackDispose
  <2>3. r.pc = "outstanding" /\ r.ext = call[c].ext
    BY <2>1 DEF CallRow
  <2> HIDE DEF r
  <2>4. QED
    BY <2>1, <2>2, <2>3, <1>3
<1>11. QED
  BY <1>4, <1>6, <1>7, <1>8, <1>9, <1>10
     DEF Route, HandleDiscoverExtension, HandleRollbackExtension, HandleActivateExtension,
         HandleQuiesceExtension, HandleDisposeExtension, HandleRegisterContextEffect

LEMMA UnwrittenBegin ==
  ASSUME RowInv, Kept, NEW c \in Call, Route(c) \/ RollbackDispose(c) \/ RollbackActivate(c)
  PROVE  RowOK'
<1>1. /\ UNCHANGED <<manifest, status, handle, token>>
      /\ \A d \in Call \ {c} : call'[d] = call[d]
      /\ Begun(c)
  BY Beginnings DEF RowInv, IInv
<1>2. \A y \in Ext \ raced' : call'[c].ext = y => HoldsAt(c, y)'
  BY <1>1 DEF Begun, HoldsAt
<1>3. QED
  BY <1>1, <1>2, RowsKept

\* A call returns, and leaves the rows.
LEMMA UnwrittenEnd ==
  ASSUME RowInv, Kept, NEW c \in Call, call' = [call EXCEPT ![c] = Free],
         UNCHANGED <<manifest, status, handle, token>>
  PROVE  RowOK'
<1>1. call'[c].pc = "idle" /\ \A d \in Call \ {c} : call'[d] = call[d]
  BY FreeEffect DEF RowInv, IInv
<1>2. QED
  BY <1>1, NothingClaimed, RowsKept, AtWorkIs

\* Insert writes a row that was not there.
LEMMA InsertRow ==
  ASSUME RowInv, Kept, NEW c \in Call, InsertExtension(c)
  PROVE  RowOK'
<1> DEFINE x == call[c].ext
<1>1. /\ call[c].pc = "discover" /\ call' = [call EXCEPT ![c] = Free] /\ manifest[x] = None
      /\ manifest' = [manifest EXCEPT ![x] = call[c].arg]
      /\ status' = [status EXCEPT ![x] = "discovered"]
      /\ UNCHANGED <<handle, token>>
  BY DEF InsertExtension, End, SetStatus
<1>2. x \in Ext /\ status \in [Ext -> StatusSet] /\ manifest \in [Ext -> Manifest \cup {None}]
  BY <1>1, Busy, Shapes DEF RowInv, IInv
<1>3. status[x] = "absent"
  BY <1>1, <1>2 DEF RowInv, IInv, Registered
<1> HIDE DEF x
<1>4. /\ \A y \in Ext \ {x} : status'[y] = status[y] /\ manifest'[y] = manifest[y]
      /\ status'[x] = "discovered"
  BY <1>1, <1>2
<1>5. call'[c].pc = "idle" /\ \A d \in Call \ {c} : call'[d] = call[d]
  BY <1>1, FreeEffect DEF RowInv, IInv
<1>6. \A y \in Ext : HoldsAt(c, y)'
  BY <1>5, NothingClaimed, AtWorkIs
<1>7. QED
  BY <1>1, <1>2, <1>3, <1>4, <1>5, <1>6, OneRowMoves

\* What a write of a status leaves of the call that makes it.
LEMMA StatusMoves ==
  ASSUME IInv, NEW c \in Call,
         SetActivating(c) \/ SetFailed(c) \/ SetFailedAtLast(c) \/ SetQuiescing(c) \/ SetDisposed(c)
  PROVE  /\ UNCHANGED <<manifest, handle, token, effects>>
         /\ call[c].pc \in AtWork /\ call[c].ext \in Ext
         /\ \A d \in Call \ {c} : call'[d] = call[d]
         /\ \A y \in Ext \ {call[c].ext} : status'[y] = status[y]
         /\ \/ /\ call[c].pc = "activate" /\ status'[call[c].ext] = "activating"
               /\ call'[c].pc = "mint" /\ call'[c].ext = call[c].ext
            \/ /\ call[c].pc = "fail" /\ status'[call[c].ext] = "failed"
               /\ call'[c].pc = "revokeFailed" /\ call'[c].ext = call[c].ext
            \/ /\ call[c].pc = "setFailed" /\ status'[call[c].ext] = "failed"
               /\ call'[c].pc = "idle"
            \/ /\ call[c].pc = "quiesce" /\ status'[call[c].ext] = "quiescing"
               /\ call'[c].pc \in {"idle", "rollDispose"}
            \/ /\ call[c].pc = "dispose" /\ status'[call[c].ext] = "disposed"
               /\ call'[c].pc \in {"idle", "rollActivate"}
<1> DEFINE x == call[c].ext
<1>1. UNCHANGED <<manifest, handle, token, effects>>
  BY DEF SetActivating, SetFailed, SetFailedAtLast, SetQuiescing, SetDisposed
<1>2. call[c].pc \in AtWork
  BY AtWorkIs DEF SetActivating, SetFailed, SetFailedAtLast, SetQuiescing, SetDisposed, Go, End, Then
<1>3. x \in Ext /\ status \in [Ext -> StatusSet]
  BY <1>2, Busy, Shapes, AtWorkIs DEF IInv
<1>4. TypeOK /\ {"activate", "mint", "fail", "revokeFailed", "quiesce", "rollDispose",
                 "dispose", "rollActivate"} \subseteq Step
  BY DEF IInv, Step
<1>5. CASE SetActivating(c)
  <2>1. status' = [status EXCEPT ![x] = "activating"] /\ Go(c, "activate", "mint")
    BY <1>5 DEF SetActivating, SetStatus
  <2>2. /\ call[c].pc = "activate" /\ call'[c].pc = "mint" /\ call'[c].ext = x
        /\ \A d \in Call \ {c} : call'[d] = call[d]
    BY <1>4, <2>1, GoEffect
  <2> HIDE DEF x
  <2>3. QED
    BY <1>1, <1>2, <1>3, <2>1, <2>2 DEF x
<1>6. CASE SetFailed(c)
  <2>1. status' = [status EXCEPT ![x] = "failed"] /\ Go(c, "fail", "revokeFailed")
    BY <1>6 DEF SetFailed, SetStatus
  <2>2. /\ call[c].pc = "fail" /\ call'[c].pc = "revokeFailed" /\ call'[c].ext = x
        /\ \A d \in Call \ {c} : call'[d] = call[d]
    BY <1>4, <2>1, GoEffect
  <2>3. QED
    BY <1>1, <1>2, <1>3, <2>1, <2>2
<1>7. CASE SetFailedAtLast(c)
  <2>1. /\ status' = [status EXCEPT ![x] = "failed"] /\ call' = [call EXCEPT ![c] = Free]
        /\ call[c].pc = "setFailed"
    BY <1>7 DEF SetFailedAtLast, SetStatus, End
  <2>2. call'[c].pc = "idle" /\ \A d \in Call \ {c} : call'[d] = call[d]
    BY <1>4, <2>1, FreeEffect
  <2>3. QED
    BY <1>1, <1>2, <1>3, <2>1, <2>2
<1>8. CASE SetQuiescing(c)
  <2>1. status' = [status EXCEPT ![x] = "quiescing"] /\ Then(c, "quiesce", "rollDispose")
    BY <1>8 DEF SetQuiescing, SetStatus
  <2>2. /\ call[c].pc = "quiesce"
        /\ call' = [call EXCEPT ![c] = Free] \/ Go(c, "quiesce", "rollDispose")
    BY <1>4, <2>1, ThenEffect
  <2>3. /\ call'[c].pc \in {"idle", "rollDispose"}
        /\ \A d \in Call \ {c} : call'[d] = call[d]
    BY <1>4, <2>2, FreeEffect, GoEffect
  <2>4. QED
    BY <1>1, <1>2, <1>3, <2>1, <2>2, <2>3
<1>9. CASE SetDisposed(c)
  <2>1. status' = [status EXCEPT ![x] = "disposed"] /\ Then(c, "dispose", "rollActivate")
    BY <1>9 DEF SetDisposed, SetStatus
  <2>2. /\ call[c].pc = "dispose"
        /\ call' = [call EXCEPT ![c] = Free] \/ Go(c, "dispose", "rollActivate")
    BY <1>4, <2>1, ThenEffect
  <2>3. /\ call'[c].pc \in {"idle", "rollActivate"}
        /\ \A d \in Call \ {c} : call'[d] = call[d]
    BY <1>4, <2>2, FreeEffect, GoEffect
  <2>4. QED
    BY <1>1, <1>2, <1>3, <2>1, <2>2, <2>3
<1>10. QED
  BY <1>5, <1>6, <1>7, <1>8, <1>9

\* The status of the row a call is at work on changes to one that is not active.
LEMMA StatusRow ==
  ASSUME RowInv, Kept, NEW c \in Call,
         SetActivating(c) \/ SetFailed(c) \/ SetFailedAtLast(c) \/ SetQuiescing(c) \/ SetDisposed(c)
  PROVE  RowOK'
<1> DEFINE x == call[c].ext
<1>1. /\ UNCHANGED <<manifest, handle, token>>
      /\ call[c].pc \in AtWork /\ x \in Ext
      /\ \A d \in Call \ {c} : call'[d] = call[d]
      /\ \A y \in Ext \ {x} : status'[y] = status[y]
      /\ status'[x] # "active"
      /\ \/ call'[c].pc = "mint" /\ status'[x] = "activating" /\ call'[c].ext = x
         \/ call'[c].pc = "revokeFailed" /\ status'[x] = "failed" /\ call'[c].ext = x
         \/ call'[c].pc \in {"idle", "rollDispose", "rollActivate"}
  BY StatusMoves DEF RowInv
<1> HIDE DEF x
<1>2. \A y \in Ext : call'[c].ext = y => HoldsAt(c, y)'
  BY <1>1 DEF HoldsAt
<1>3. QED
  BY <1>1, <1>2, OneRowMoves DEF x

\* The token of the activation, minted while the row is 'activating'.
LEMMA MintRow ==
  ASSUME RowInv, Kept, NEW c \in Call, NEW i \in Launch, MintCapabilityToken(c, i)
  PROVE  RowOK'
<1> DEFINE x == call[c].ext
           r == [call[c] EXCEPT !.pc = "launch", !.launch = i]
<1>1. /\ UNCHANGED <<manifest, status, handle>> /\ call[c].pc = "mint"
      /\ token' = IF Isolation(x) = "in_process" THEN token ELSE [token EXCEPT ![x] = i]
  BY DEF MintCapabilityToken
<1>2. x \in Ext /\ call[c] \in CallRow /\ token \in [Ext -> Launch \cup {None}]
  BY <1>1, Busy, Shapes DEF RowInv, IInv, DataOK
<1>3. r.pc = "launch" /\ r.launch = i /\ r.ext = x
  BY <1>2 DEF CallRow
<1>4. call' = [call EXCEPT ![c] = r] /\ call \in [Call -> {Free} \cup CallRow]
  BY Shapes DEF MintCapabilityToken, RowInv, IInv
<1>5. x \notin raced => status[x] = "activating"
  BY <1>1, <1>2 DEF RowInv, RowOK, HoldsAt
<1>6. call[c].pc \in AtWork /\ call[c].ext = x
  BY <1>1, AtWorkIs
<1> HIDE DEF r, x
<1>7. /\ call'[c].pc = "launch" /\ call'[c].launch = i /\ call'[c].ext = x
      /\ \A d \in Call \ {c} : call'[d] = call[d]
  BY <1>3, <1>4
<1>8. /\ Isolation(x) # "in_process" => token'[x] = i
      /\ \A y \in Ext \ {x} : token'[y] = token[y]
  BY <1>1, <1>2
<1>9. x \notin raced' => x \notin raced
  BY <1>2, <1>7, NotRaced, AtWorkIs
<1>10. \A y \in Ext \ raced' : call'[c].ext = y => HoldsAt(c, y)'
  BY <1>1, <1>5, <1>7, <1>8, <1>9 DEF HoldsAt, Isolation
<1>11. x \notin raced' => status'[x] # "active"
  BY <1>1, <1>5, <1>9
<1>12. QED
  BY <1>1, <1>2, <1>6, <1>7, <1>8, <1>10, <1>11, OneRowMoves

\* A token is revoked only while its row is not active.
LEMMA RevokeRow ==
  ASSUME RowInv, Kept, NEW c \in Call, RevokeFailed(c) \/ RevokeCapabilityToken(c)
  PROVE  RowOK'
<1> DEFINE x == call[c].ext
<1>1. /\ UNCHANGED <<manifest, status, handle>>
      /\ call[c].pc \in {"revokeFailed", "revoke", "revokeTorn"}
      /\ token' = token \/ token' = [token EXCEPT ![x] = None]
  BY DEF RevokeFailed, RevokeCapabilityToken, End, Go
<1>2. /\ x \in Ext /\ token \in [Ext -> Launch \cup {None}]
      /\ call[c].pc \in AtWork /\ call[c].ext = x
  BY <1>1, Busy, Shapes, AtWorkIs DEF RowInv, IInv, DataOK
<1>3. x \notin raced => status[x] \in {"failed", "quiescing"} /\ HoldsAt(c, x)
  BY <1>1, <1>2 DEF RowInv, RowOK, HoldsAt
<1>4. /\ \A d \in Call \ {c} : call'[d] = call[d]
      /\ \/ call'[c].pc = "idle"
         \/ /\ call'[c].ext = x
            /\ \/ call[c].pc = "revoke" /\ call'[c].pc = "dispose"
               \/ call[c].pc = "revokeTorn" /\ call'[c].pc = "setFailed"
  <2>1. CASE RevokeFailed(c)
    BY <2>1, FreeEffect DEF RevokeFailed, End, RowInv, IInv
  <2>2. CASE RevokeCapabilityToken(c)
    BY <2>2, GoEffect DEF RevokeCapabilityToken, RowInv, IInv, Step
  <2>3. QED
    BY <2>1, <2>2
<1> HIDE DEF x
<1>5. \A y \in Ext \ {x} : /\ status'[y] = status[y] /\ manifest'[y] = manifest[y]
                           /\ token'[y] = token[y] /\ handle'[y] = handle[y]
  BY <1>1, <1>2
<1>6. ASSUME NEW y \in Ext \ raced', call'[c].ext = y PROVE HoldsAt(c, y)'
  <2>1. CASE call'[c].pc = "idle"
    BY <2>1, NothingClaimed, AtWorkIs
  <2>2. CASE call'[c].pc \in {"dispose", "setFailed"} /\ call'[c].ext = x
    <3>1. y = x /\ x \notin raced
      BY <1>6, <2>2, NotRaced, AtWorkIs
    <3>2. HoldsAt(c, x)
      BY <1>3, <3>1
    <3>3. QED
      BY <1>1, <1>2, <1>4, <2>2, <3>1, <3>2 DEF HoldsAt
  <2>3. QED
    BY <1>4, <2>1, <2>2
<1>7. x \notin raced' => status'[x] # "active"
  BY <1>1, <1>2, <1>3, NotRaced
<1>8. QED
  BY <1>2, <1>4, <1>5, <1>6, <1>7, OneRowMoves

\* The row becomes active with its own token, whether or not its writer knows.
LEMMA MarkRow ==
  ASSUME RowInv, Kept, NEW c \in Call, End(c, "mark"), SetActive(c), UNCHANGED <<manifest, token>>
  PROVE  RowOK'
<1> DEFINE x == call[c].ext
           i == call[c].launch
<1>1. /\ call[c].pc = "mark" /\ call' = [call EXCEPT ![c] = Free]
      /\ status' = [status EXCEPT ![x] = "active"] /\ handle' = [handle EXCEPT ![x] = i]
  BY DEF SetActive, SetStatus, End
<1>2. /\ x \in Ext /\ i \in Launch /\ i # None
      /\ status \in [Ext -> StatusSet] /\ handle \in [Ext -> Launch \cup {None}]
      /\ call[c].pc \in AtWork /\ call[c].ext = x
  BY <1>1, Busy, Shapes, NoneIsNobody, AtWorkIs DEF RowInv, IInv, DataOK, ArgsOf
<1>3. x \notin raced => (Isolation(x) # "in_process" => token[x] = i)
  BY <1>1, <1>2 DEF RowInv, RowOK, HoldsAt
<1> HIDE DEF x, i
<1>4. /\ status'[x] = "active" /\ \A y \in Ext \ {x} : status'[y] = status[y]
      /\ handle'[x] = i /\ \A y \in Ext \ {x} : handle'[y] = handle[y]
  BY <1>1, <1>2
<1>5. \A y \in Ext : y = x /\ y \notin raced' => Proves(y)'
  BY <1>2, <1>3, <1>4, NotRaced DEF Proves, Isolation
<1>6. call'[c].pc = "idle" /\ \A d \in Call \ {c} : call'[d] = call[d]
  BY <1>1, FreeEffect DEF RowInv, IInv
<1>7. \A y \in Ext : HoldsAt(c, y)'
  BY <1>6, NothingClaimed, AtWorkIs
<1>8. QED
  BY <1>2, <1>4, <1>5, <1>6, <1>7, OneRowMoves

\* The call is over after these, and only MarkActiveFails may have written the row.
LEMMA EndRow ==
  ASSUME RowInv, Kept, NEW c \in Call,
         MarkActive(c) \/ MarkActiveFails(c) \/ ReturnError(c) \/ InsertContextEffect(c)
  PROVE  RowOK'
<1>1. CASE End(c, "mark") /\ SetActive(c) /\ UNCHANGED <<manifest, token>>
  BY <1>1, MarkRow
<1>2. CASE call' = [call EXCEPT ![c] = Free] /\ UNCHANGED <<manifest, status, handle, token>>
  BY <1>2, UnwrittenEnd
<1>3. QED
  BY <1>1, <1>2 DEF MarkActive, MarkActiveFails, ReturnError, InsertContextEffect, End, rows

\* Keys, effects, processes and the daemon come and go beside the rows.
LEMMA BesideRows ==
  ASSUME \/ \E k \in Key : RegisterKey(k) \/ RevokeKey(k)
         \/ \E x \in Ext, shown \in Launch \cup {Operator} : HandleDisposeContextEffect(x, shown)
         \/ \E i \in Launch : ProcessExits(i)
         \/ Crash \/ UNCHANGED vars
  PROVE  /\ UNCHANGED <<manifest, status, handle, token>>
         /\ call' = call \/ \A c \in Call : call'[c].pc = "idle"
  BY Freed DEF RegisterKey, RevokeKey, HandleDisposeContextEffect, DisposeContextEffect,
     ProcessExits, Crash, vars, rows

LEMMA RowInit == WatchedInit => RowInv
<1> SUFFICES ASSUME WatchedInit PROVE RowInv
  OBVIOUS
<1> USE DEF WatchedInit
<1>1. IInv
  BY InvInit
<1>2. \A c \in Call : call[c].pc = "idle"
  BY Freed DEF Init
<1>3. Contended \subseteq raced
  BY <1>2, AtWorkIs DEF Contended
<1>4. \A c \in Call, x \in Ext : HoldsAt(c, x)
  BY <1>2 DEF HoldsAt
<1>5. ActiveHoldsToken
  BY DEF Init, ActiveHoldsToken, Active
<1>6. QED
  BY <1>1, <1>3, <1>4, <1>5 DEF RowInv, RowOK

LEMMA RowStep == RowInv /\ [WatchedNext]_watchedVars => RowInv'
<1> SUFFICES ASSUME RowInv, [WatchedNext]_watchedVars PROVE RowInv'
  OBVIOUS
<1>1. IInv'
  BY InvStep DEF RowInv, WatchedNext, watchedVars
<1>2. CASE UNCHANGED watchedVars
  BY <1>1, <1>2 DEF watchedVars, vars, rows, history, RowInv, RowOK, Contended, HoldsAt,
     ActiveHoldsToken, Active, Isolation
<1>3. CASE WatchedNext
  <2>1. Kept /\ Contended' \subseteq raced'
    BY <1>3 DEF WatchedNext, Remember, Kept
  <2>2. ASSUME NEW c \in Call, Activating(c) PROVE RowOK'
    BY <2>1, <2>2, UnwrittenGo, UnwrittenBegin, EndRow, StatusRow, MintRow, RevokeRow DEF Activating
  <2>3. ASSUME NEW c \in Call, Disposing(c) PROVE RowOK'
    BY <2>1, <2>3, UnwrittenGo, UnwrittenBegin, StatusRow, RevokeRow DEF Disposing
  <2>4. ASSUME NEW c \in Call,
               Route(c) \/ InsertExtension(c) \/ InsertContextEffect(c) \/ ReturnError(c)
        PROVE  RowOK'
    BY <2>1, <2>4, UnwrittenBegin, InsertRow, EndRow
  <2>5. ASSUME \/ \E x \in Ext, shown \in Launch \cup {Operator} : HandleDisposeContextEffect(x, shown)
               \/ \E k \in Key : RegisterKey(k) \/ RevokeKey(k)
               \/ \E i \in Launch : ProcessExits(i)
               \/ Crash
        PROVE  RowOK'
    <3>1. /\ UNCHANGED <<manifest, status, handle, token>>
          /\ call' = call \/ \A c \in Call : call'[c].pc = "idle"
      BY <2>5, BesideRows
    <3>2. \A c \in Call : call'[c] = call[c] \/ \A y \in Ext : HoldsAt(c, y)'
      BY <3>1, NothingClaimed, AtWorkIs
    <3>3. QED
      BY <2>1, <3>1, <3>2, RowsKept
  <2>6. RowOK'
    BY <1>3, <2>2, <2>3, <2>4, <2>5
       DEF WatchedNext, Next, HandleRegisterTrustedKey, HandleRevokeTrustedKey
  <2>7. QED
    BY <1>1, <2>1, <2>6 DEF RowInv
<1>4. QED
  BY <1>2, <1>3

\* What each call found of a row that it has had to itself still stands.
THEOREM RowInvariant == WatchedSpec => []RowInv
  BY RowInit, RowStep, PTL DEF WatchedSpec

\* However many calls run, race, fail or die with the daemon, an active instance holds the
\* token of the launch that its row names, unless two calls have been at work on that row
\* since it last was inactive and at rest.
THEOREM ActiveCanProve == WatchedSpec => []ActiveHoldsToken
<1>1. RowInv => ActiveHoldsToken
  BY DEF RowInv, RowOK
<1>2. QED
  BY <1>1, RowInvariant, PTL

----------------------------------------------------------------------------
(* What the step of a call is, seen from the rows: all that the two          *)
(* invariants below ask of the actions.                                      *)

Admitting == {"activate", "mint", "launch", "mark"}
Tearing == {"teardown", "revoke", "dispose"}

Moves(c) ==
  /\ \A d \in Call \ {c} : call'[d] = call[d]
  /\ \A x \in Ext : status[x] # "absent" => manifest'[x] = manifest[x]
  \* its row becomes active, or disposed, or leaves; no other row does
  /\ \A x \in Ext : status'[x] = "active" => status[x] = "active" \/ (call[c].ext = x /\ call[c].pc = "mark")
  /\ \A x \in Ext : status'[x] = "disposed" => status[x] = "disposed" \/ (call[c].ext = x /\ call[c].pc = "dispose")
  /\ \A x \in Ext : status[x] = "active" /\ status'[x] # "active" =>
       /\ call[c].ext = x /\ call[c].pc \in {"activate", "fail", "setFailed", "dispose", "quiesce"}
       /\ call[c].pc = "quiesce" => call'[c].pc \in {"idle", "rollDispose"}
  \* it gets where it is by the checks before
  /\ call'[c].pc \in Admitting =>
       call'[c].ext = call[c].ext /\ (call[c].pc \in Admitting \/ RequirementsSatisfied(c))
  /\ call'[c].pc = "quiesce" => call'[c].ext = call[c].ext /\ NoActiveDependents(c)
  /\ call'[c].pc = "insert" => status'[call'[c].ext] = "active"
  /\ call'[c].pc \in Tearing =>
       call'[c].ext = call[c].ext /\ (call[c].pc \in Tearing \/ effects[call[c].ext] = 0)
  \* it counts effects on its row only
  /\ \A x \in Ext : effects'[x] = effects[x] \/ (call[c].ext = x /\ call[c].pc = "insert")

\* A call that begins, or a Rollback that turns to its next part.
LEMMA BeginMoves ==
  ASSUME IInv, NEW c \in Call, Route(c) \/ RollbackDispose(c) \/ RollbackActivate(c)
  PROVE  Moves(c)
<1>1. /\ UNCHANGED <<manifest, status, effects>>
      /\ \A d \in Call \ {c} : call'[d] = call[d]
      /\ Begun(c)
  BY Beginnings DEF IInv
<1>2. QED
  BY <1>1 DEF Moves, Begun, Admitting, Tearing

\* A call that goes on without a write to the rows but of its token.
LEMMA GoMoves ==
  ASSUME IInv, NEW c \in Call,
         \/ RequirementsSatisfied(c) \/ MintFails(c) \/ Launched(c) \/ LaunchFails(c)
         \/ NoActiveDependents(c) \/ NoOutstandingEffects(c) \/ Teardown(c) \/ TeardownFails(c)
         \/ RevokeCapabilityToken(c)
  PROVE  Moves(c)
<1>1. UNCHANGED <<manifest, status, effects>>
  BY DEF RequirementsSatisfied, MintFails, Launched, LaunchFails, NoActiveDependents,
     NoOutstandingEffects, Teardown, TeardownFails, RevokeCapabilityToken, rows
<1>2. PICK from \in Step, to \in Step :
        /\ Go(c, from, to)
        /\ \/ from = "require" /\ to = "activate" /\ RequirementsSatisfied(c)
           \/ from = "dependents" /\ to = "quiesce" /\ NoActiveDependents(c)
           \/ from = "outstanding" /\ to = "teardown" /\ effects[call[c].ext] = 0
           \/ <<from, to>> \in {<<"mint", "setFailed">>, <<"launch", "mark">>, <<"launch", "fail">>,
                <<"teardown", "revoke">>, <<"teardown", "revokeTorn">>,
                <<"revoke", "dispose">>, <<"revokeTorn", "setFailed">>}
  BY DEF Step, RequirementsSatisfied, MintFails, Launched, LaunchFails, NoActiveDependents,
     NoOutstandingEffects, Teardown, TeardownFails, RevokeCapabilityToken
<1>3. /\ call[c].pc = from /\ call'[c].pc = to /\ call'[c].ext = call[c].ext
      /\ \A d \in Call \ {c} : call'[d] = call[d]
  BY <1>2, GoEffect DEF IInv
<1>4. QED
  BY <1>1, <1>2, <1>3 DEF Moves, Admitting, Tearing

\* A call that writes the status of its row.
LEMMA StatusMoved ==
  ASSUME IInv, NEW c \in Call,
         SetActivating(c) \/ SetFailed(c) \/ SetFailedAtLast(c) \/ SetQuiescing(c) \/ SetDisposed(c)
  PROVE  Moves(c)
<1> DEFINE x == call[c].ext
<1>1. /\ UNCHANGED <<manifest, effects>> /\ x \in Ext
      /\ \A d \in Call \ {c} : call'[d] = call[d]
      /\ \A y \in Ext \ {x} : status'[y] = status[y]
      /\ \/ /\ call[c].pc = "activate" /\ status'[x] = "activating"
            /\ call'[c].pc = "mint" /\ call'[c].ext = x
         \/ /\ call[c].pc = "fail" /\ status'[x] = "failed" /\ call'[c].pc = "revokeFailed"
         \/ /\ call[c].pc = "setFailed" /\ status'[x] = "failed" /\ call'[c].pc = "idle"
         \/ /\ call[c].pc = "quiesce" /\ status'[x] = "quiescing"
            /\ call'[c].pc \in {"idle", "rollDispose"}
         \/ /\ call[c].pc = "dispose" /\ status'[x] = "disposed"
            /\ call'[c].pc \in {"idle", "rollActivate"}
  BY StatusMoves
<1>2. call[c].ext = x
  OBVIOUS
<1> HIDE DEF x
<1>3. QED
  BY <1>1, <1>2 DEF Moves, Admitting, Tearing

LEMMA MintMoves ==
  ASSUME IInv, NEW c \in Call, NEW i \in Launch, MintCapabilityToken(c, i)
  PROVE  Moves(c)
<1> DEFINE r == [call[c] EXCEPT !.pc = "launch", !.launch = i]
<1>1. /\ UNCHANGED <<manifest, status, effects>> /\ call[c].pc = "mint"
      /\ call' = [call EXCEPT ![c] = r] /\ call \in [Call -> {Free} \cup CallRow]
  BY Shapes DEF MintCapabilityToken, IInv
<1>2. call[c] \in CallRow
  BY <1>1, Busy DEF IInv
<1>3. r.pc = "launch" /\ r.ext = call[c].ext
  BY <1>2 DEF CallRow
<1> HIDE DEF r
<1>4. QED
  BY <1>1, <1>3 DEF Moves, Admitting, Tearing

\* A call that is over.
LEMMA EndMoves ==
  ASSUME IInv, NEW c \in Call,
         \/ MarkActive(c) \/ MarkActiveFails(c) \/ RevokeFailed(c) \/ ReturnError(c)
         \/ InsertExtension(c) \/ InsertContextEffect(c)
  PROVE  Moves(c)
<1> DEFINE x == call[c].ext
<1>1. call' = [call EXCEPT ![c] = Free]
  BY DEF MarkActive, MarkActiveFails, RevokeFailed, ReturnError, InsertExtension,
     InsertContextEffect, End
<1>2. call'[c].pc = "idle" /\ \A d \in Call \ {c} : call'[d] = call[d]
  BY <1>1, FreeEffect DEF IInv
<1>3. /\ manifest \in [Ext -> Manifest \cup {None}] /\ status \in [Ext -> StatusSet]
      /\ effects \in [Ext -> 0..MaxEffects]
      /\ call[c].pc # "idle" => x \in Ext
  BY Shapes, Busy DEF IInv, DataOK
<1>4. CASE UNCHANGED <<manifest, status, effects>>
  BY <1>2, <1>4 DEF Moves, Admitting, Tearing
<1>5. CASE UNCHANGED <<manifest, effects>> /\ call[c].pc = "mark" /\ SetStatus(c, "active")
  <2>1. /\ x \in Ext /\ status'[x] = "active" /\ \A y \in Ext \ {x} : status'[y] = status[y]
        /\ call[c].ext = x
    BY <1>3, <1>5 DEF SetStatus
  <2> HIDE DEF x
  <2>2. QED
    BY <1>2, <1>5, <2>1 DEF Moves, Admitting, Tearing
<1>6. CASE InsertExtension(c)
  <2>1. /\ call[c].pc = "discover" /\ manifest[x] = None
        /\ manifest' = [manifest EXCEPT ![x] = call[c].arg]
        /\ status' = [status EXCEPT ![x] = "discovered"]
        /\ UNCHANGED effects
    BY <1>6 DEF InsertExtension, End, SetStatus
  <2>2. x \in Ext /\ status[x] = "absent"
    BY <1>3, <2>1 DEF IInv, Registered
  <2> HIDE DEF x
  <2>3. /\ status'[x] = "discovered" /\ \A y \in Ext \ {x} : status'[y] = status[y]
        /\ \A y \in Ext \ {x} : manifest'[y] = manifest[y]
    BY <1>3, <2>1, <2>2
  <2>4. QED
    BY <1>2, <2>1, <2>2, <2>3 DEF Moves, Admitting, Tearing
<1>7. CASE InsertContextEffect(c)
  <2>1. /\ call[c].pc = "insert" /\ UNCHANGED <<manifest, status>>
        /\ effects' = [effects EXCEPT ![x] = @ + 1]
    BY <1>7 DEF InsertContextEffect, End
  <2>2. x \in Ext /\ call[c].ext = x
    BY <1>3, <2>1
  <2> HIDE DEF x
  <2>3. \A y \in Ext \ {x} : effects'[y] = effects[y]
    BY <1>3, <2>1
  <2>4. QED
    BY <1>2, <2>1, <2>2, <2>3 DEF Moves, Admitting, Tearing
<1>8. CASE RevokeFailed(c) \/ ReturnError(c)
  BY <1>4, <1>8 DEF RevokeFailed, ReturnError, rows
<1>9. CASE MarkActive(c) \/ MarkActiveFails(c)
  BY <1>4, <1>5, <1>9 DEF MarkActive, MarkActiveFails, SetActive, End
<1>10. QED
  BY <1>6, <1>7, <1>8, <1>9

\* A step is one call's, or leaves the rows as they are and adds no effect.
Beside ==
  /\ UNCHANGED <<manifest, status>>
  /\ call' = call \/ \A c \in Call : call'[c].pc = "idle"
  /\ \A x \in Ext : effects'[x] = effects[x] \/ effects[x] > 0

LEMMA StepMoves ==
  ASSUME IInv, [Next]_vars
  PROVE  Beside \/ \E c \in Call : Moves(c)
<1>1. ASSUME NEW c \in Call, Activating(c) PROVE Moves(c)
  BY <1>1, BeginMoves, GoMoves, StatusMoved, MintMoves, EndMoves DEF Activating
<1>2. ASSUME NEW c \in Call, Disposing(c) PROVE Moves(c)
  BY <1>2, BeginMoves, GoMoves, StatusMoved DEF Disposing
<1>3. ASSUME NEW c \in Call,
             Route(c) \/ InsertExtension(c) \/ InsertContextEffect(c) \/ ReturnError(c)
      PROVE  Moves(c)
  BY <1>3, BeginMoves, EndMoves
<1>4. ASSUME NEW x \in Ext, NEW shown \in Launch \cup {Operator}, HandleDisposeContextEffect(x, shown)
      PROVE  Beside
  <2>1. /\ UNCHANGED <<manifest, status, call>> /\ effects[x] > 0
        /\ effects' = [effects EXCEPT ![x] = @ - 1]
    BY <1>4 DEF HandleDisposeContextEffect, DisposeContextEffect
  <2>2. effects \in [Ext -> 0..MaxEffects]
    BY Shapes DEF IInv, DataOK
  <2>3. QED
    BY <2>1, <2>2 DEF Beside
<1>5. CASE \/ \E k \in Key : RegisterKey(k) \/ RevokeKey(k)
           \/ \E i \in Launch : ProcessExits(i)
           \/ Crash \/ UNCHANGED vars
  BY <1>5, Freed DEF Beside, RegisterKey, RevokeKey, ProcessExits, Crash, vars, rows
<1>6. QED
  BY <1>1, <1>2, <1>3, <1>4, <1>5 DEF Next, HandleRegisterTrustedKey, HandleRevokeTrustedKey

----------------------------------------------------------------------------
(* Effects and disposal.                                                    *)

\* What a Dispose has counted, or disposed of, has no effects and nobody adds one.
EffectInv ==
  /\ IInv
  /\ \A x \in Ext \ late : x \in Gone => effects[x] = 0 /\ x \notin RowsAt({"insert"})

LEMMA EffectsKept == EffectInv /\ [WatchedNext]_watchedVars => EffectInv'
<1> SUFFICES ASSUME EffectInv, [WatchedNext]_watchedVars PROVE EffectInv'
  OBVIOUS
<1>1. [Next]_vars
  BY DEF WatchedNext, watchedVars
<1>2. IInv'
  BY <1>1, InvStep DEF EffectInv
<1>3. CASE UNCHANGED watchedVars
  BY <1>2, <1>3 DEF watchedVars, vars, rows, history, EffectInv, Gone, RowsAt
<1>4. CASE WatchedNext
  <2> SUFFICES ASSUME NEW x \in Ext \ late', x \in Gone'
               PROVE  effects'[x] = 0 /\ x \notin RowsAt({"insert"})'
    BY <1>2 DEF EffectInv
  <2>1. effects \in [Ext -> 0..MaxEffects] /\ effects' \in [Ext -> 0..MaxEffects] /\ MaxEffects \in Nat
    BY <1>2, Shapes, ShapesNext, ExtensionsAssumption DEF EffectInv, IInv, DataOK
  <2>2. Beside \/ \E c \in Call : Moves(c)
    BY <1>1, StepMoves DEF EffectInv
  <2>3. x \notin Gone => effects'[x] = 0 \/ x \in RowsAt({"insert"})
    <3>1. SUFFICES ASSUME x \notin Gone PROVE effects'[x] = 0 \/ x \in RowsAt({"insert"})
      OBVIOUS
    <3>2. CASE Beside
      BY <3>1, <3>2 DEF Beside, Gone, RowsAt
    <3>3. ASSUME NEW c \in Call, Moves(c) PROVE effects'[x] = 0 \/ x \in RowsAt({"insert"})
      <4>1. effects'[x] = effects[x] \/ x \in RowsAt({"insert"})
        BY <3>3 DEF Moves, RowsAt
      <4>2. effects[x] = 0
        <5>1. CASE status'[x] = "disposed"
          BY <3>1, <3>3, <5>1 DEF Moves, Gone, RowsAt
        <5>2. CASE status'[x] # "disposed"
          <6>1. PICK d \in Call : call'[d].ext = x /\ call'[d].pc \in Tearing
            BY <5>2 DEF Gone, RowsAt, Tearing
          <6>2. ~(call[d].ext = x /\ call[d].pc \in Tearing)
            BY <3>1 DEF Gone, RowsAt, Tearing
          <6>3. QED
            BY <3>3, <6>1, <6>2 DEF Moves
        <5>3. QED
          BY <5>1, <5>2
      <4>3. QED
        BY <4>1, <4>2
    <3>4. QED
      BY <2>2, <3>2, <3>3
  <2>4. effects[x] = 0 => effects'[x] = 0 \/ x \in RowsAt({"insert"})
    BY <2>2 DEF Beside, Moves, RowsAt
  <2>5. x \in RowsAt({"insert"})' => x \in RowsAt({"insert"}) \/ x \in Active'
    BY <2>2 DEF Beside, Moves, RowsAt, Active
  <2>6. CASE x \notin Laden'
    BY <2>1, <2>6 DEF Laden
  <2>7. CASE x \notin late /\ x \notin Active' /\ x \notin RowsAt({"insert"}) \ Gone
    BY <2>3, <2>4, <2>5, <2>7 DEF EffectInv
  <2>8. QED
    BY <1>4, <2>6, <2>7 DEF WatchedNext, Remember
<1>5. QED
  BY <1>3, <1>4

\* However calls race, a row that a Dispose has counted has no effects but those that the
\* history tells of.
THEOREM EffectInvariant == WatchedSpec => []EffectInv
<1>1. WatchedInit => EffectInv
  BY InvInit, Freed DEF WatchedInit, Init, EffectInv, Gone, RowsAt
<1>2. QED
  BY <1>1, EffectsKept, PTL DEF WatchedSpec

\* Whatever races: what outlives an extension was registered by a call that had found its
\* row active before the Dispose counted, or while that Dispose went on.
THEOREM DisposedIsClean == WatchedSpec => []DisposedClean
<1>1. EffectInv => DisposedClean
  BY DEF EffectInv, DisposedClean, Gone
<1>2. QED
  BY <1>1, EffectInvariant, PTL

----------------------------------------------------------------------------
(* What extensions rely on of each other.                                   *)

\* The requirements of x are met by what is active.
Served(x) ==
  \A n \in Says[manifest[x]].needs :
    \E y \in Active : \E p \in Says[manifest[y]].provides :
      p.cap = n.cap /\ InRange(p.version, n.range)

\* Nothing active needs what x provides, but what is let down.
Unneeded(x) == \A z \in Active \ (letDown \cup {x}) : ~NeedsOf(z, x)

PeerOK ==
  /\ \A x \in Ext \ (raced \cup letDown) : x \in Active \cup Admitted => Served(x)
  /\ \A c \in Call, x \in Ext \ raced : call[c].ext = x /\ call[c].pc = "quiesce" => Unneeded(x)

PeerInv == RowInv /\ Overtaken \subseteq letDown /\ PeerOK

\* What serves x goes on serving it while what it needs stays active.
LEMMA ServedKept ==
  ASSUME NEW x \in Ext, Served(x), manifest'[x] = manifest[x],
         \A y \in Active : NeedsOf(x, y) => status'[y] = "active",
         \A y \in Active : manifest'[y] = manifest[y]
  PROVE  Served(x)'
<1> SUFFICES ASSUME NEW n \in Says[manifest[x]].needs
             PROVE  \E y \in Active' : \E p \in Says[manifest'[y]].provides :
                      p.cap = n.cap /\ InRange(p.version, n.range)
  BY DEF Served
<1>1. PICK y \in Active : \E p \in Says[manifest[y]].provides :
                            p.cap = n.cap /\ InRange(p.version, n.range)
  BY DEF Served
<1>2. PICK p \in Says[manifest[y]].provides : p.cap = n.cap /\ InRange(p.version, n.range)
  BY <1>1
<1>3. n.cap \in Needs(x) /\ p.cap \in Provides(y)
  BY DEF Needs, Provides
<1>4. NeedsOf(x, y)
  BY <1>2, <1>3 DEF NeedsOf
<1>5. y \in Active' /\ manifest'[y] = manifest[y]
  BY <1>4 DEF Active
<1>6. QED
  BY <1>2, <1>5

\* The requirements that RequirementsSatisfied accepts are met in the manifest's meaning.
LEMMA RequiredIsServed ==
  ASSUME IInv, NEW c \in Call, RequirementsSatisfied(c), NEW x \in Ext, call[c].ext = x,
         status[x] # "absent"
  PROVE  Served(x)
<1>1. manifest \in [Ext -> Manifest \cup {None}]
  BY Shapes DEF IInv
<1>2. \A y \in Ext : status[y] # "absent" => manifest[y] \in Manifest
  BY <1>1 DEF IInv, Registered
<1>3. ASSUME NEW n \in Says[manifest[x]].needs
      PROVE  \E y \in Active : \E p \in Says[manifest[y]].provides :
               p.cap = n.cap /\ InRange(p.version, n.range)
  <2>1. PICK y \in Active : \E p \in Says[manifest[y]].provides :
               p.cap = n.cap /\ satisfiesRange(p.version, n.range)
    BY <1>3 DEF RequirementsSatisfied
  <2>2. PICK p \in Says[manifest[y]].provides :
               p.cap = n.cap /\ satisfiesRange(p.version, n.range)
    BY <2>1
  <2>3. manifest[y] \in Manifest /\ manifest[x] \in Manifest
    BY <1>2 DEF Active
  <2>4. p.version \in Version /\ n.range \in SUBSET Clause
    BY <2>3, ExtensionsAssumption
  <2>5. QED
    BY <2>2, <2>4, RangeIsMeant
<1>4. QED
  BY <1>3 DEF Served

\* What RequirementsSatisfied lets in is on a row that is there.
LEMMA AdmittedRows ==
  ASSUME IInv, NEW x \in Active \cup Admitted
  PROVE  x \in Ext /\ status[x] # "absent"
<1>1. CASE x \in Active
  BY <1>1 DEF Active
<1>2. CASE x \in Admitted
  <2>1. PICK c \in Call : call[c].ext = x /\ call[c].pc \in Admitting
    BY <1>2 DEF Admitted, RowsAt, Admitting
  <2>2. x \in Ext
    BY <2>1, Busy DEF IInv, Admitting
  <2>3. QED
    BY <2>1, <2>2 DEF IInv, ArgsOf, Admitting
<1>3. QED
  BY <1>1, <1>2

\* Of the history's step: what is let down stays so while it is active or about to be.
StillDown ==
  \A x \in Ext : x \in letDown /\ x \in (Active \cup Admitted)' => x \in letDown'

\* A provider leaves only when what needs it is let down or about to be: it was raced for,
\* or nothing active needed it when NoActiveDependents asked and nothing needs it that has
\* been let in since.
LEMMA LeavesUnneeded ==
  ASSUME PeerInv, Kept, NEW c \in Call, Moves(c), NEW y \in Active, status'[y] # "active",
         NEW x \in Active \cup Admitted, x \notin letDown, x \notin raced', x \notin raced,
         x \in (Active \cup Admitted)'
  PROVE  ~NeedsOf(x, y)
<1>1. /\ y \in Ext /\ status[y] = "active"
      /\ call[c].ext = y /\ call[c].pc \in {"activate", "fail", "setFailed", "dispose", "quiesce"}
      /\ call[c].pc = "quiesce" => call'[c].pc \in {"idle", "rollDispose"}
      /\ \A d \in Call \ {c} : call'[d] = call[d]
  BY DEF Moves, Active
<1>2. CASE y \in raced
  BY <1>2 DEF PeerInv, Overtaken
<1>3. CASE y \notin raced
  <2>1. HoldsAt(c, y)
    BY <1>1, <1>3 DEF PeerInv, RowInv, RowOK
  <2>2. call[c].pc = "quiesce"
    BY <1>1, <2>1 DEF HoldsAt
  <2>3. Unneeded(y) /\ y \in Leaving
    BY <1>1, <1>3, <2>2 DEF PeerInv, PeerOK, Leaving, RowsAt
  <2>4. CASE x \in Admitted
    BY <2>3, <2>4 DEF PeerInv, Overtaken
  <2>5. CASE x \in Active /\ x # y
    BY <2>3, <2>5 DEF Unneeded
  <2>6. CASE x = y
    <3>1. x \in Admitted'
      BY <2>6 DEF Active
    <3>2. PICK d \in Call : call'[d].ext = x /\ call'[d].pc \in Admitting
      BY <3>1 DEF Admitted, RowsAt, Admitting
    <3>3. d # c
      BY <1>1, <2>2, <3>2 DEF Admitting
    <3>4. call[d].ext = x /\ call[d].pc \in AtWork
      BY <1>1, <3>2, <3>3, AtWorkIs DEF Admitting
    <3>5. QED
      BY <1>1, <1>3, <2>2, <2>6, <3>3, <3>4, AtWorkIs DEF PeerInv, RowInv, Contended
  <2>7. QED
    BY <2>4, <2>5, <2>6
<1>4. QED
  BY <1>2, <1>3

LEMMA PeerMoves ==
  ASSUME PeerInv, Kept, StillDown, RowInv', NEW c \in Call, Moves(c)
  PROVE  PeerOK'
<1>1. \A y \in Active : y \in Ext /\ manifest'[y] = manifest[y]
  BY DEF Moves, Active
<1>2. ASSUME NEW x \in Ext, x \notin raced', x \notin letDown', x \in (Active \cup Admitted)'
      PROVE  Served(x)'
  <2>1. x \notin letDown
    BY <1>2 DEF StillDown
  <2>2. x \notin raced
    <3>1. CASE x \in Active'
      BY <1>2, <3>1, NotRaced DEF Active
    <3>2. CASE x \in Admitted'
      <4>1. PICK d \in Call : call'[d].ext = x /\ call'[d].pc \in Admitting
        BY <3>2 DEF Admitted, RowsAt, Admitting
      <4>2. QED
        BY <1>2, <4>1, NotRaced, AtWorkIs DEF Admitting
    <3>3. QED
      BY <1>2, <3>1, <3>2
  <2>3. CASE x \in Active \cup Admitted
    <3>1. Served(x)
      BY <2>1, <2>2, <2>3 DEF PeerInv, PeerOK
    <3>2. status[x] # "absent"
      BY <2>3, AdmittedRows DEF PeerInv, RowInv
    <3>3. \A y \in Active : NeedsOf(x, y) => status'[y] = "active"
      BY <1>2, <2>1, <2>2, <2>3, LeavesUnneeded
    <3>4. manifest'[x] = manifest[x]
      BY <3>2 DEF Moves
    <3>5. QED
      BY <1>1, <3>1, <3>3, <3>4, ServedKept
  <2>4. CASE x \notin Active \cup Admitted
    <3>1. x \notin Active'
      BY <2>4 DEF Moves, Active, Admitted, RowsAt
    <3>2. PICK d \in Call : call'[d].ext = x /\ call'[d].pc \in Admitting
      BY <1>2, <3>1 DEF Admitted, RowsAt, Admitting
    <3>3. ~(call[d].ext = x /\ call[d].pc \in Admitting)
      BY <2>4 DEF Admitted, RowsAt, Admitting
    <3>4. d = c /\ call[c].ext = x /\ RequirementsSatisfied(c)
      BY <3>2, <3>3 DEF Moves
    <3>5. status[x] # "absent"
      BY <3>4 DEF PeerInv, RowInv, IInv, ArgsOf, RequirementsSatisfied, Go
    <3>6. Served(x)
      BY <3>4, <3>5, RequiredIsServed DEF PeerInv, RowInv
    <3>7. UNCHANGED <<manifest, status>>
      BY <3>4 DEF RequirementsSatisfied, rows
    <3>8. QED
      BY <3>6, <3>7, ServedKept DEF Active
  <2>5. QED
    BY <2>3, <2>4
<1>3. ASSUME NEW d \in Call, NEW y \in Ext, y \notin raced', call'[d].ext = y, call'[d].pc = "quiesce",
             NEW z \in Active', z \notin letDown', z # y
      PROVE  ~NeedsOf(z, y)'
  <2>1. y \notin raced
    BY <1>3, NotRaced, AtWorkIs
  <2>2. z \in Ext /\ z \in Active \cup Admitted /\ z \notin letDown
    <3>1. z \in Ext /\ z \notin letDown
      BY <1>3 DEF StillDown, Active
    <3>2. QED
      BY <1>3, <3>1 DEF Moves, Active, Admitted, RowsAt
  <2>3. status[z] # "absent"
    BY <2>2, AdmittedRows DEF PeerInv, RowInv
  <2>4. \/ call[d].pc = "quiesce" /\ call[d].ext = y
        \/ d = c /\ NoActiveDependents(c) /\ call[c].ext = y
    BY <1>3 DEF Moves
  <2>5. status[y] # "absent"
    BY <2>4 DEF PeerInv, RowInv, IInv, ArgsOf, NoActiveDependents, Go
  <2>6. manifest'[z] = manifest[z] /\ manifest'[y] = manifest[y]
    BY <2>2, <2>3, <2>5 DEF Moves
  <2>7. CASE call[d].pc = "quiesce" /\ call[d].ext = y
    <3>1. z \in Active => ~NeedsOf(z, y)
      BY <1>3, <2>1, <2>2, <2>7 DEF PeerInv, PeerOK, Unneeded
    <3>2. z \in Admitted => ~NeedsOf(z, y)
      BY <2>2, <2>7 DEF PeerInv, Overtaken, Leaving, RowsAt
    <3>3. QED
      BY <2>2, <2>6, <3>1, <3>2 DEF NeedsOf, Needs, Provides
  <2>8. CASE NoActiveDependents(c) /\ call[c].ext = y
    <3>1. status' = status
      BY <2>8 DEF NoActiveDependents, rows
    <3>2. z \in Active
      BY <1>3, <3>1 DEF Active
    <3>3. QED
      BY <1>3, <2>6, <2>8, <3>2 DEF NoActiveDependents, NeedsOf, Needs, Provides
  <2>9. QED
    BY <2>4, <2>7, <2>8
<1>4. \A d \in Call, y \in Ext \ raced' : call'[d].ext = y /\ call'[d].pc = "quiesce" => Unneeded(y)'
  BY <1>3 DEF Unneeded
<1>5. QED
  BY <1>2, <1>4 DEF PeerOK

LEMMA PeerBeside ==
  ASSUME PeerInv, Kept, StillDown, Beside
  PROVE  PeerOK'
<1>1. UNCHANGED <<manifest, status>> /\ (call' = call \/ \A c \in Call : call'[c].pc = "idle")
  BY DEF Beside
<1>2. Active' = Active /\ Admitted' \subseteq Admitted
  BY <1>1 DEF Active, Admitted, RowsAt
<1>3. ASSUME NEW x \in Ext, x \notin raced', x \notin letDown', x \in (Active \cup Admitted)'
      PROVE  Served(x)'
  <2>1. x \in Active \cup Admitted /\ x \notin letDown
    BY <1>2, <1>3 DEF StillDown
  <2>2. status'[x] = "active" \/ \E d \in Call : call'[d].ext = x /\ call'[d].pc \in AtWork
    BY <1>3, AtWorkIs DEF Active, Admitted, RowsAt
  <2>3. x \notin raced
    BY <1>3, <2>2, NotRaced
  <2>4. Served(x)
    BY <2>1, <2>3 DEF PeerInv, PeerOK
  <2>5. QED
    BY <1>1, <2>4, ServedKept DEF Active
<1>4. ASSUME NEW d \in Call, NEW y \in Ext, y \notin raced', call'[d].ext = y, call'[d].pc = "quiesce"
      PROVE  Unneeded(y)'
  <2>1. y \notin raced
    BY <1>4, NotRaced, AtWorkIs
  <2>2. call' = call
    BY <1>1, <1>4
  <2>3. Unneeded(y)
    BY <1>4, <2>1, <2>2 DEF PeerInv, PeerOK
  <2>4. \A z \in Active : z \in Ext /\ (z \notin letDown' => z \notin letDown)
    BY <1>2 DEF StillDown, Active
  <2>5. QED
    BY <1>1, <1>2, <2>3, <2>4 DEF Unneeded, NeedsOf, Needs, Provides
<1>5. QED
  BY <1>3, <1>4 DEF PeerOK

LEMMA PeerInit == WatchedInit => PeerInv
<1> SUFFICES ASSUME WatchedInit PROVE PeerInv
  OBVIOUS
<1>1. \A c \in Call : call[c].pc = "idle"
  BY Freed DEF WatchedInit, Init
<1>2. Active \cup Admitted = {}
  BY <1>1 DEF WatchedInit, Init, Active, Admitted, RowsAt
<1>3. QED
  BY <1>1, <1>2, RowInit DEF PeerInv, PeerOK, Overtaken

LEMMA PeerStep == PeerInv /\ [WatchedNext]_watchedVars => PeerInv'
<1> SUFFICES ASSUME PeerInv, [WatchedNext]_watchedVars PROVE PeerInv'
  OBVIOUS
<1>1. RowInv'
  BY RowStep DEF PeerInv
<1>2. CASE WatchedNext
  <2>1. Kept /\ StillDown /\ Overtaken' \subseteq letDown'
    BY <1>2 DEF WatchedNext, Remember, Kept, StillDown
  <2>2. Beside \/ \E c \in Call : Moves(c)
    BY <1>2, StepMoves DEF WatchedNext, PeerInv, RowInv
  <2>3. QED
    BY <1>1, <2>1, <2>2, PeerMoves, PeerBeside DEF PeerInv
<1>3. CASE UNCHANGED watchedVars
  <2>1. UNCHANGED <<manifest, status, call, raced, letDown>>
    BY <1>3 DEF watchedVars, vars, rows, history
  <2>2. Active' = Active /\ Admitted' = Admitted /\ Leaving' = Leaving
    BY <2>1 DEF Active, Admitted, Leaving, RowsAt
  <2>3. Overtaken' = Overtaken
    BY <2>1, <2>2 DEF Overtaken, NeedsOf, Needs, Provides
  <2>4. PeerOK'
    BY <2>1, <2>2 DEF PeerInv, PeerOK, Served, Unneeded, NeedsOf, Needs, Provides
  <2>5. QED
    BY <1>1, <2>1, <2>3, <2>4 DEF PeerInv
<1>4. QED
  BY <1>2, <1>3

\* What extensions found of their providers still stands, but for those let down.
THEOREM PeerInvariant == WatchedSpec => []PeerInv
  BY PeerInit, PeerStep, PTL DEF WatchedSpec

\* For any number of calls, with all their races and crashes: an active extension that neither
\* was raced for nor is let down finds what it needs.
THEOREM DependentsAreServed == WatchedSpec => []DependentsServed
<1>1. PeerInv => DependentsServed
  <2> SUFFICES ASSUME PeerInv PROVE DependentsServed
    OBVIOUS
  <2>1. \A x \in Active \ (raced \cup letDown) : Served(x)
    BY DEF PeerInv, PeerOK, Active
  <2>2. QED
    BY <2>1 DEF DependentsServed, Served
<1>2. QED
  BY <1>1, PeerInvariant, PTL

\* The history is of rows there are, and of no more than can matter.
THEOREM WatchedTypeCorrect == WatchedSpec => []WatchedTypeOK
<1> DEFINE HistoryOK == /\ raced \subseteq Active \cup RowsAt(AtWork)
                        /\ letDown \subseteq Active \cup Admitted
                        /\ late \subseteq Gone \cap Laden
<1>1. WatchedInit => HistoryOK
  BY DEF WatchedInit
<1>2. HistoryOK /\ [WatchedNext]_watchedVars => HistoryOK'
  <2>1. Contended' \subseteq RowsAt(AtWork)' /\ Overtaken' \subseteq (Active \cup Admitted)'
    BY DEF Contended, Overtaken, RowsAt
  <2>2. WatchedNext => HistoryOK'
    BY <2>1 DEF WatchedNext, Remember
  <2>3. HistoryOK /\ UNCHANGED watchedVars => HistoryOK'
    BY DEF watchedVars, vars, rows, history, Active, Admitted, RowsAt, Gone, Laden
  <2>4. QED
    BY <2>2, <2>3
<1>3. RowInv /\ HistoryOK => WatchedTypeOK
  BY DEF RowInv, IInv, WatchedTypeOK
<1> HIDE DEF HistoryOK
<1>4. WatchedSpec => []HistoryOK
  BY <1>1, <1>2, PTL DEF WatchedSpec
<1>5. QED
  BY <1>3, <1>4, RowInvariant, PTL
=============================================================================
