----------------------------- MODULE Migrations -----------------------------
(***************************************************************************)
(* daemon/store: schema migrations.  Open applies every *.sql file that    *)
(* schema_migrations does not record, in filename order, each in a         *)
(* transaction with its record; Rollback undoes one, with its down file.   *)
(* Several processes may run either at once, releases bring new files, and *)
(* a process may die anywhere.                                             *)
(***************************************************************************)
EXTENDS Integers

CONSTANTS File,        \* migration files, as numbers in filename order
          Reversible,  \* those with a down file
          Opener       \* processes that run the daemon's binary

ASSUME MigrationsAssumption == File \subseteq Nat /\ Reversible \subseteq File

VARIABLES dir,       \* files of the migrations directory, as the release has them
          recorded,  \* schema_migrations: a filename is a primary key
          schema,    \* files whose statements are in effect in the database
          opener     \* where each process stands

migrationVars == <<dir, recorded, schema, opener>>

Off == [at |-> "off"]
OpenerState ==
  {Off}
    \cup [at : {"migrate", "applying"}, todo : SUBSET File, read : SUBSET File]
    \cup [at : {"open"}, read : SUBSET File]
    \cup [at : {"undo", "undoing"}, file : File]

MigrationsTypeOK ==
  /\ dir \subseteq File
  /\ recorded \subseteq File
  /\ schema \subseteq File
  /\ opener \in [Opener -> OpenerState]

\* A release is deployed before its first start.
MigrationsInit ==
  /\ dir \in SUBSET File
  /\ recorded = {}
  /\ schema = {}
  /\ opener = [o \in Opener |-> Off]

Ends(o) == opener' = [opener EXCEPT ![o] = Off]

\* The file that comes first, in filename order, of those an opener has ahead of it.
Upcoming(o, f) == f \in opener[o].todo /\ \A g \in opener[o].todo : f <= g

Touching(o, f) ==
  \/ opener[o].at = "applying" /\ Upcoming(o, f)
  \/ opener[o].at = "undoing" /\ opener[o].file = f

\* DDL takes exclusive locks: whoever comes second waits for the first to end.
Unlocked(o, f) == \A q \in Opener \ {o} : ~Touching(q, f)

\* A new release may number a file below the last one applied: a late merge.
Deploy(f) ==
  /\ dir' = dir \cup {f}
  /\ UNCHANGED <<recorded, schema, opener>>

----------------------------------------------------------------------------
(* Open: read the directory, sort, and take the files one by one.            *)
Open(o) ==
  /\ opener[o] = Off
  /\ opener' = [opener EXCEPT ![o] =
       [at |-> "migrate", todo |-> dir, read |-> dir]]
  /\ UNCHANGED <<dir, recorded, schema>>

\* Mutant of Pending: whatever sorts below the newest record counts as applied.
PendingAbove(f) == \A g \in recorded : g < f
Pending(f) == f \notin recorded

Migrating(o, f) == opener[o].at = "migrate" /\ Upcoming(o, f)

SkipApplied(o, f) ==
  /\ Migrating(o, f)
  /\ ~Pending(f)
  /\ opener' = [opener EXCEPT ![o].todo = @ \ {f}]
  /\ UNCHANGED <<dir, recorded, schema>>

\* Mutant of Apply: the statements run outside the transaction.
ApplyAutocommit(o, f) ==
  /\ Migrating(o, f) /\ Pending(f) /\ Unlocked(o, f) /\ f \notin schema
  /\ schema' = schema \cup {f}
  /\ opener' = [opener EXCEPT ![o].at = "applying"]
  /\ UNCHANGED <<dir, recorded>>

Apply(o, f) ==
  /\ Migrating(o, f) /\ Pending(f) /\ Unlocked(o, f) /\ f \notin schema
  /\ opener' = [opener EXCEPT ![o].at = "applying"]
  /\ UNCHANGED <<dir, recorded, schema>>

\* Another process applied it since Pending was checked: CREATE TABLE fails.
ApplyFails(o, f) ==
  /\ Migrating(o, f) /\ Unlocked(o, f) /\ f \in schema
  /\ Ends(o)
  /\ UNCHANGED <<dir, recorded, schema>>

\* The statements and the record, whose primary key refuses a second one, at once.
CommitApplied(o, f) ==
  /\ opener[o].at = "applying" /\ Upcoming(o, f)
  /\ f \notin recorded
  /\ schema' = schema \cup {f}
  /\ recorded' = recorded \cup {f}
  /\ opener' = [opener EXCEPT ![o].at = "migrate", ![o].todo = @ \ {f}]
  /\ UNCHANGED dir

Opened(o) ==
  /\ opener[o].at = "migrate" /\ opener[o].todo = {}
  /\ opener' = [opener EXCEPT ![o] = [at |-> "open", read |-> opener[o].read]]
  /\ UNCHANGED <<dir, recorded, schema>>

----------------------------------------------------------------------------
(* Rollback: one step of amh-daemon -rollback-migration.                     *)

\* ORDER BY filename DESC LIMIT 1.
MostRecent(f) == f \in recorded /\ \A g \in recorded : g <= f

Rollback(o, f) ==
  /\ opener[o] = Off
  /\ MostRecent(f)
  /\ f \in Reversible
  /\ opener' = [opener EXCEPT ![o] = [at |-> "undo", file |-> f]]
  /\ UNCHANGED <<dir, recorded, schema>>

Undo(o) ==
  /\ opener[o].at = "undo" /\ Unlocked(o, opener[o].file) /\ opener[o].file \in schema
  /\ opener' = [opener EXCEPT ![o].at = "undoing"]
  /\ UNCHANGED <<dir, recorded, schema>>

UndoFails(o) ==
  /\ opener[o].at = "undo" /\ Unlocked(o, opener[o].file) /\ opener[o].file \notin schema
  /\ Ends(o)
  /\ UNCHANGED <<dir, recorded, schema>>

CommitUndone(o) ==
  LET f == opener[o].file IN
  /\ opener[o].at = "undoing"
  /\ schema' = schema \ {f}
  /\ recorded' = recorded \ {f}
  /\ Ends(o)
  /\ UNCHANGED dir

\* A statement fails, or the process dies: its transaction rolls back.
OpenerDies(o) ==
  /\ opener[o] # Off
  /\ Ends(o)
  /\ UNCHANGED <<dir, recorded, schema>>

----------------------------------------------------------------------------
(* Properties *)

\* The record tells the truth: a file's statements are in effect exactly when
\* schema_migrations lists it, whoever applies, undoes or dies at once.
RecordTrue == schema = recorded
=============================================================================
