---------------------------- MODULE MCExtensions ----------------------------
(* A small instance of ExtensionRaces: the older version of an extension,    *)
(* inside the daemon, and the newer one, a process that needs what the older *)
(* provides or, by another manifest, a container on its own.  A forgery wears*)
(* the newer one's signature, a manifest has none, and another is written    *)
(* for a later core.  Two calls race on either row, and on both.             *)
EXTENDS ExtensionRaces, TLC

CONSTANTS older, newer, cap, k, mOlder, mNewer, mBoxed, mForged, mUnsigned, mLater

Core == {[op |-> ">=", base |-> V(0, 1, 0)]}
LaterCore == {[op |-> "^", base |-> V(0, 2, 0)]}

Manifested(x, isolation, core, provides, needs, signature) ==
  [ext |-> x, isolation |-> isolation, amhCore |-> core,
   provides |-> provides, needs |-> needs, signature |-> signature]
Offer(v) == {[cap |-> cap, version |-> v]}
Want(range) == {[cap |-> cap, range |-> range]}
Signed(m) == [keyId |-> k, of |-> m, by |-> k]
Newer == Want({[op |-> "^", base |-> V(1, 1, 0)]})

MCSays == [m \in Manifest |->
  CASE m = mOlder -> Manifested(older, "in_process", Core, Offer(V(1, 2, 0)), {}, Signed(mOlder))
    [] m = mForged -> Manifested(newer, "in_process", Core, {}, {}, Signed(mNewer))
    [] m = mUnsigned -> Manifested(newer, "in_process", Core, {}, {}, None)
    [] m = mLater -> Manifested(older, "in_process", LaterCore, Offer(V(1, 3, 0)), {}, Signed(mLater))
    [] m = mBoxed -> Manifested(newer, "container", Core, {}, {}, Signed(mBoxed))
    [] OTHER -> Manifested(newer, "process", Core, {}, Newer, Signed(mNewer))]

MCId == [x \in Ext |-> "pack"]
MCCore == V(0, 1, 0)

\* Bounds.  A revocation is looked at before any row is activated: no call reads a key but
\* Discover.  The older one's context effects are left out: only a row's own Dispose counts
\* its effects.  The container has the registry to itself: no other row has to do with it.
Explored ==
  /\ key[k] = "revoked" => \A x \in Ext : status[x] \in {"absent", "discovered"}
  /\ effects[older] = 0
  /\ manifest[newer] = mBoxed => manifest[older] = None

Symmetry == Permutations(Call) \cup Permutations(Launch)
=============================================================================
