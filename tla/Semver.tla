------------------------------- MODULE Semver -------------------------------
(***************************************************************************)
(* daemon/extensions' versions and version ranges: MAJOR.MINOR.PATCH       *)
(* triples under a lexicographic comparison, and ranges that are           *)
(* conjunctions of clauses.  Pre-release and build metadata are cut off    *)
(* before either is looked at, so they have no place here.                 *)
(***************************************************************************)
EXTENDS Integers

Version == [major : Nat, minor : Nat, patch : Nat]
V(a, b, c) == [major |-> a, minor |-> b, patch |-> c]

Comparator == {"^", ">=", "<=", ">", "<", "="}
Clause == [op : Comparator, base : Version]

\* a.compare(b) as the sign of a difference: of the first components that differ.
compare(a, b) ==
  IF a.major # b.major THEN a.major - b.major
  ELSE IF a.minor # b.minor THEN a.minor - b.minor
  ELSE a.patch - b.patch

satisfiesClause(v, clause) ==
  LET base == clause.base IN
  CASE clause.op = "^"  -> /\ compare(v, base) >= 0
                           /\ IF base.major > 0 THEN v.major = base.major
                              ELSE v.major = 0 /\ v.minor = base.minor
    [] clause.op = ">=" -> compare(v, base) >= 0
    [] clause.op = "<=" -> compare(v, base) <= 0
    [] clause.op = ">"  -> compare(v, base) > 0
    [] clause.op = "<"  -> compare(v, base) < 0
    [] clause.op = "="  -> compare(v, base) = 0

satisfiesRange(v, range) == \A clause \in range : satisfiesClause(v, clause)

----------------------------------------------------------------------------
(* What the grammar in the comment of satisfiesRange says of a range.        *)

\* The order on versions.
Before(a, b) ==
  \/ a.major < b.major
  \/ a.major = b.major /\ a.minor < b.minor
  \/ a.major = b.major /\ a.minor = b.minor /\ a.patch < b.patch

\* "^1.2.3" == ">=1.2.3 <2.0.0", or "<0.(minor+1).0" for major 0.
CaretEnd(base) ==
  IF base.major > 0 THEN V(base.major + 1, 0, 0) ELSE V(0, base.minor + 1, 0)

Meant(v, clause) ==
  LET base == clause.base IN
  CASE clause.op = "^"  -> ~Before(v, base) /\ Before(v, CaretEnd(base))
    [] clause.op = ">=" -> ~Before(v, base)
    [] clause.op = "<=" -> ~Before(base, v)
    [] clause.op = ">"  -> Before(base, v)
    [] clause.op = "<"  -> Before(v, base)
    [] clause.op = "="  -> v = base

InRange(v, range) == \A clause \in range : Meant(v, clause)
=============================================================================
