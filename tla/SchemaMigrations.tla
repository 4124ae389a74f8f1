-------------------------- MODULE SchemaMigrations --------------------------
(***************************************************************************)
(* apply_migrations of db/migrate.py, run by several processes that start, *)
(* stop and start again: the bootstrap in autocommit mode, then each file  *)
(* of db/migrations in a transaction of its own with its record in         *)
(* dbo.schema_migrations.  Between two runs a file may be edited.          *)
(*                                                                         *)
(* A file is its checksum.  External, and modelled from the use made of    *)
(* it: SQL Server at READ COMMITTED, where creating an object, inserting a *)
(* key and reading a row all wait for the transaction that holds the name, *)
(* the key or the row, and a transaction that does not commit leaves       *)
(* nothing.  What a transaction holds follows from how far its runner is,  *)
(* so it has no variable of its own.                                       *)
(***************************************************************************)
EXTENDS Naturals

CONSTANTS
  Runners,    \* the processes that may run apply_migrations
  Last,       \* the number of the last migration; 0 is the bootstrap
  Checksums,  \* what a file may contain
  MaxStarts,  \* bound of this model: starts in all
  MaxEdits    \* bound of this model: edits of a file

Versions == 0 .. Last
Scripts == 1 .. Last  \* those that run in a transaction
Missing == "missing"

ASSUME MigrationAssumption ==
  /\ Last \in Nat
  /\ MaxStarts \in Nat
  /\ MaxEdits \in Nat
  /\ Checksums # {}
  /\ Missing \notin Checksums

VARIABLES
  files,     \* the migration files in the working tree
  pc,        \* how far each runner is
  at,        \* the migration each runner is at
  loaded,    \* the files as each runner read them
  database,  \* how much of the bootstrap is there: 2 is all of it
  ledger,    \* committed: the checksums in dbo.schema_migrations
  applied,   \* committed: the file whose SQL made the objects of a migration
  starts,    \* starts so far
  edits      \* edits so far

vars == <<files, pc, at, loaded, database, ledger, applied, starts, edits>>

InFlight == {"bootstrap", "check", "recheck", "execute", "record", "commit"}

\* The types of all variables.
TypeOK ==
  /\ files \in [Versions -> Checksums]
  /\ pc \in [Runners -> InFlight \cup {"off", "done", "failed"}]
  /\ at \in [Runners -> 0 .. Last + 1]
  /\ loaded \in [Runners -> [Versions -> Checksums]]
  /\ database \in 0 .. 2
  /\ ledger \in [Versions -> Checksums \cup {Missing}]
  /\ applied \in [Scripts -> Checksums \cup {Missing}]
  /\ starts \in 0 .. MaxStarts
  /\ edits \in 0 .. MaxEdits

Init ==
  /\ files \in [Versions -> Checksums]
  /\ \A v, w \in Versions : files[v] = files[w]
  /\ pc = [r \in Runners |-> "off"]
  /\ at = [r \in Runners |-> 0]
  /\ loaded = [r \in Runners |-> files]
  /\ database = 0
  /\ ledger = [v \in Versions |-> Missing]
  /\ applied = [v \in Scripts |-> Missing]
  /\ starts = 0
  /\ edits = 0

-----------------------------------------------------------------------------
(* What the transactions of the other runners hold.                         *)

\* The objects of migration v: made by its SQL, until the transaction ends.
ObjectsHeld(r, v) ==
  \E s \in Runners \ {r} : at[s] = v /\ pc[s] \in {"record", "commit"}

\* The row of migration v in the ledger.
RowHeld(r, v) == \E s \in Runners \ {r} : at[s] = v /\ pc[s] = "commit"

-----------------------------------------------------------------------------
Go(r, step) == pc' = [pc EXCEPT ![r] = step]

NextMigration(r) ==
  /\ at' = [at EXCEPT ![r] = @ + 1]
  /\ Go(r, IF at[r] = Last THEN "done" ELSE "check")

Edit(v) ==
  /\ edits < MaxEdits
  /\ \E x \in Checksums \ {files[v]} : files' = [files EXCEPT ![v] = x]
  /\ edits' = edits + 1
  /\ UNCHANGED <<pc, at, loaded, database, ledger, applied, starts>>

\* A process starts and reads the files.
Start(r) ==
  /\ pc[r] \notin InFlight
  /\ starts < MaxStarts
  /\ starts' = starts + 1
  /\ Go(r, "bootstrap")
  /\ at' = [at EXCEPT ![r] = 0]
  /\ loaded' = [loaded EXCEPT ![r] = files]
  /\ UNCHANGED <<files, database, ledger, applied, edits>>

\* Autocommit: the database, then the ledger's table, each if it is not there.
Bootstrap(r) ==
  /\ pc[r] = "bootstrap"
  /\ IF database < 2
     THEN database' = database + 1 /\ UNCHANGED pc
     ELSE Go(r, "recheck") /\ UNCHANGED database
  /\ UNCHANGED <<files, at, loaded, ledger, applied, starts, edits>>

\* Mutant of CheckApplied: any record will do.
CheckAppliedByVersion(r, step) ==
  /\ ~RowHeld(r, at[r])
  /\ \/ ledger[at[r]] = Missing /\ Go(r, step) /\ UNCHANGED at
     \/ ledger[at[r]] # Missing /\ NextMigration(r)

\* _check_applied: on to step without a record, to the next migration with its
\* own, and an error with another one.
CheckApplied(r, step) ==
  /\ ~RowHeld(r, at[r])
  /\ \/ ledger[at[r]] = Missing /\ Go(r, step) /\ UNCHANGED at
     \/ ledger[at[r]] = loaded[r][at[r]] /\ NextMigration(r)
     \/ ledger[at[r]] \notin {Missing, loaded[r][at[r]]} /\ Go(r, "failed") /\ UNCHANGED at

\* The look before the transaction, and the one in it.
Check(r) ==
  /\ pc[r] = "check"
  /\ CheckApplied(r, "recheck")
  /\ UNCHANGED <<files, loaded, database, ledger, applied, starts, edits>>

Recheck(r) ==
  /\ pc[r] = "recheck"
  /\ CheckApplied(r, IF at[r] = 0 THEN "record" ELSE "execute")
  /\ UNCHANGED <<files, loaded, database, ledger, applied, starts, edits>>

\* Mutant of Execute: the SQL runs in autocommit mode.
ExecuteAutocommit(r) ==
  /\ pc[r] = "execute"
  /\ ~ObjectsHeld(r, at[r])
  /\ IF applied[at[r]] = Missing
     THEN /\ Go(r, "record")
          /\ applied' = [applied EXCEPT ![at[r]] = loaded[r][at[r]]]
     ELSE Go(r, "failed") /\ UNCHANGED applied
  /\ UNCHANGED <<files, at, loaded, database, ledger, starts, edits>>

\* Mutant of Execute: objects that are there are waited for.
ExecuteWhenMissing(r) ==
  /\ pc[r] = "execute"
  /\ ~ObjectsHeld(r, at[r])
  /\ applied[at[r]] = Missing
  /\ Go(r, "record")
  /\ UNCHANGED <<files, at, loaded, database, ledger, applied, starts, edits>>

\* The SQL of the migration, which fails where its objects are there already.
Execute(r) ==
  /\ pc[r] = "execute"
  /\ ~ObjectsHeld(r, at[r])
  /\ Go(r, IF applied[at[r]] = Missing THEN "record" ELSE "failed")
  /\ UNCHANGED <<files, at, loaded, database, ledger, applied, starts, edits>>

\* _record, which fails on a second row of the same version.
Record(r) ==
  /\ pc[r] = "record"
  /\ ~RowHeld(r, at[r])
  /\ Go(r, IF ledger[at[r]] = Missing THEN "commit" ELSE "failed")
  /\ UNCHANGED <<files, at, loaded, database, ledger, applied, starts, edits>>

Commit(r) ==
  /\ pc[r] = "commit"
  /\ ledger' = [ledger EXCEPT ![at[r]] = loaded[r][at[r]]]
  /\ applied' = [v \in Scripts |-> IF v = at[r] THEN loaded[r][v] ELSE applied[v]]
  /\ NextMigration(r)
  /\ UNCHANGED <<files, loaded, database, starts, edits>>

\* The process dies, or an exception ends it: an unreachable server, a lost
\* race in the bootstrap.  Its transaction is rolled back.
Fails(r) ==
  /\ pc[r] \in InFlight
  /\ Go(r, "failed")
  /\ UNCHANGED <<files, at, loaded, database, ledger, applied, starts, edits>>

Step(r) ==
  Bootstrap(r) \/ Check(r) \/ Recheck(r) \/ Execute(r) \/ Record(r) \/ Commit(r)

Next ==
  \/ \E v \in Versions : Edit(v)
  \/ \E r \in Runners : Start(r) \/ Step(r) \/ Fails(r)

Spec == Init /\ [][Next]_vars

\* A process goes on when the database lets it.
Fairness == \A r \in Runners : WF_vars(Step(r))

FairSpec == Spec /\ Fairness

-----------------------------------------------------------------------------
(* The ledger is the schema: a migration is recorded exactly when its SQL   *)
(* is in effect, with the checksum of the SQL that ran, and no migration    *)
(* before one that is recorded is missing - with runners in any order, and  *)
(* a process that dies anywhere (migrate.py:153-157).                       *)
LedgerExact ==
  /\ \A v \in Scripts : ledger[v] = applied[v]
  /\ \A v, w \in Versions : v < w /\ ledger[w] # Missing => ledger[v] # Missing

(* A run that succeeded leaves a schema made of the files it read, whichever *)
(* runner applied them: the services that start after it (compose's          *)
(* service_completed_successfully) meet no other (migrate.py:92-101).        *)
DoneMeansCurrent ==
  \A r \in Runners : pc[r] = "done" =>
    \A v \in Scripts : applied[v] = loaded[r][v]

(* Every run ends, done or failed: runners that wait for one another's      *)
(* locks never wait for ever.                                               *)
RunnersEnd == \A r \in Runners : pc[r] \in InFlight ~> pc[r] \notin InFlight
=============================================================================
