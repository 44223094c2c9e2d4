----------------------------- MODULE Migrations -----------------------------
(***************************************************************************)
(* The schema and its migrations (store/migrate.go): processes of          *)
(* different builds that migrate one database at once, fail, or die.       *)
(*                                                                         *)
(* A migration is known by its position among the files of a build, and    *)
(* its text by a checksum.                                                 *)
(***************************************************************************)
EXTENDS Integers, Sequences, FiniteSets

CONSTANTS
  Migrators,  \* the processes that call Migrate
  Files,      \* the checksums of the migrations that each of them was built with
  None        \* no process, no row

ASSUME MigrationsAssumption == \A m \in Migrators : Files[m] \in Seq(STRING)
(* How a call of Migrate can end. *)
Results == {"ok", "changed", "conflict", "failed", "cancelled"}

ASSUME NoneAssumption == None \notin Migrators \cup STRING \cup Results

VARIABLES
  step,     \* where each call of Migrate is
  holder,   \* who holds the advisory lock
  recorded, \* the rows of schema_migrations: a checksum or None
  schema,   \* the migrations the database has been through: a history variable
  applied,  \* the rows that each call has read
  at,       \* the migration that each call has come to
  result    \* how each call ended, while its process lasts

migrateVars == <<step, holder, recorded, schema, applied, at, result>>

Versions == UNION {DOMAIN Files[m] : m \in Migrators}

MigrateInit ==
  /\ step = [m \in Migrators |-> "lock"]
  /\ holder = None
  /\ recorded = [v \in Versions |-> None]
  /\ schema = <<>>
  /\ applied = [m \in Migrators |-> recorded]
  /\ at = [m \in Migrators |-> 1]
  /\ result = [m \in Migrators |-> None]

(* PendingMigrations: the versions of a build that are not recorded, and   *)
(* those that were recorded with another text.                             *)
PendingMigrations(files, rows) == {v \in DOMAIN files : rows[v] = None}
Changed(files, rows) == {v \in DOMAIN files : rows[v] \notin {None, files[v]}}

-----------------------------------------------------------------------------

Ends(m, how) ==
  /\ result' = [result EXCEPT ![m] = how]
  /\ step' = [step EXCEPT ![m] = "unlock"]

(* Mistake: the lock is not waited for. *)
AnyoneMayLock == TRUE

LockIsFree == holder = None

(* pg_advisory_lock, with a context that may end while it waits. *)
Lock(m) ==
  /\ step[m] = "lock" /\ LockIsFree
  /\ holder' = m
  /\ step' = [step EXCEPT ![m] = "read"]
  /\ UNCHANGED <<recorded, schema, applied, at, result>>

GiveUp(m) ==
  /\ step[m] = "lock"
  /\ result' = [result EXCEPT ![m] = "cancelled"]
  /\ step' = [step EXCEPT ![m] = "close"]
  /\ UNCHANGED <<holder, recorded, schema, applied, at>>

(* The table is created if need be, and read. *)
ReadApplied(m) ==
  /\ step[m] = "read"
  /\ \/ /\ applied' = [applied EXCEPT ![m] = recorded]
        /\ step' = [step EXCEPT ![m] = "next"]
        /\ UNCHANGED result
     \/ Ends(m, "failed") /\ UNCHANGED applied
  /\ UNCHANGED <<holder, recorded, schema, at>>

(* The loop: skip what is recorded, refuse what was edited. *)
NextMigration(m) ==
  LET v == at[m]
      files == Files[m]
  IN /\ step[m] = "next"
     /\ \/ /\ v > Len(files)
           /\ Ends(m, "ok") /\ UNCHANGED at
        \/ /\ v \in Changed(files, applied[m])
           /\ Ends(m, "changed") /\ UNCHANGED at
        \/ /\ v \in PendingMigrations(files, applied[m])
           /\ step' = [step EXCEPT ![m] = "apply"] /\ UNCHANGED <<result, at>>
        \/ /\ v \in DOMAIN files /\ applied[m][v] = files[v]
           /\ at' = [at EXCEPT ![m] = v + 1] /\ UNCHANGED <<step, result>>
     /\ UNCHANGED <<holder, recorded, schema, applied>>

(* The statements of a migration, in a transaction: they wait for another  *)
(* that creates the same tables, and fail if those exist.                  *)
Apply(m) ==
  LET v == at[m]
  IN /\ step[m] = "apply"
     /\ ~\E o \in Migrators \ {m} : step[o] = "commit" /\ at[o] = v
     /\ \/ \E i \in DOMAIN schema : schema[i][1] = v /\ Ends(m, "conflict")
        \/ Ends(m, "failed")
        \/ /\ \A i \in DOMAIN schema : schema[i][1] # v
           /\ step' = [step EXCEPT ![m] = "commit"] /\ UNCHANGED result
     /\ UNCHANGED <<holder, recorded, schema, applied, at>>

(* The row is recorded in the same transaction.  One that fails leaves     *)
(* nothing; one whose answer is lost has been committed all the same.      *)
Commit(m, committed, answered) ==
  LET v == at[m]
      checksum == Files[m][v]
  IN /\ step[m] = "commit" /\ (answered \/ committed)
     /\ recorded' = IF committed THEN [recorded EXCEPT ![v] = checksum] ELSE recorded
     /\ schema' = IF committed THEN Append(schema, <<v, checksum>>) ELSE schema
     /\ IF committed /\ answered
        THEN /\ at' = [at EXCEPT ![m] = v + 1]
             /\ step' = [step EXCEPT ![m] = "next"] /\ UNCHANGED result
        ELSE Ends(m, "failed") /\ UNCHANGED at
     /\ UNCHANGED <<holder, applied>>

(* The deferred unlock, whose error is ignored: the lock is then held until *)
(* the process closes its pool.                                            *)
Unlock(m, ok) ==
  /\ step[m] = "unlock"
  /\ holder' = IF ok /\ holder = m THEN None ELSE holder
  /\ step' = [step EXCEPT ![m] = "close"]
  /\ UNCHANGED <<recorded, schema, applied, at, result>>

(* The process ends, in its own time or not: PostgreSQL rolls back what it *)
(* had open and drops its locks.  What the call knew is gone with it.      *)
Exit(m) ==
  /\ step[m] # "done"
  /\ holder' = IF holder = m THEN None ELSE holder
  /\ step' = [step EXCEPT ![m] = "done"]
  /\ applied' = [applied EXCEPT ![m] = [v \in Versions |-> None]]
  /\ at' = [at EXCEPT ![m] = 1]
  /\ result' = [result EXCEPT ![m] = None]
  /\ UNCHANGED <<recorded, schema>>

Migrating == \E m \in Migrators : step[m] # "done"

MigrateNext ==
  \E m \in Migrators :
    \/ Lock(m) \/ GiveUp(m) \/ ReadApplied(m) \/ NextMigration(m) \/ Apply(m) \/ Exit(m)
    \/ \E ok \in BOOLEAN : Unlock(m, ok)
    \/ \E committed, answered \in BOOLEAN : Commit(m, committed, answered)

-----------------------------------------------------------------------------
(* However many processes migrate, fail or die: the database has been      *)
(* through the migrations once each, in order, and records exactly those;  *)
(* a call that reports success has left a schema that agrees with its own  *)
(* files; and no call fails because another one was faster ("both trying   *)
(* to create the same table is not a useful failure", Migrate).            *)
MigratedOnce ==
  /\ schema = [i \in 1..Len(schema) |-> <<i, recorded[i]>>]
  /\ \A v \in Versions : v > Len(schema) => recorded[v] = None
  /\ \A m \in Migrators :
       /\ result[m] = "ok" => \A v \in DOMAIN Files[m] : recorded[v] = Files[m][v]
       /\ result[m] # "conflict"

=============================================================================
