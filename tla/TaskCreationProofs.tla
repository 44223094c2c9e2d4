------------------------- MODULE TaskCreationProofs -------------------------
(***************************************************************************)
(* What is decided when a task is created, and the algorithms that decide  *)
(* it on one input (MCAlgorithms).                                         *)
(*                                                                         *)
(* Proofs about Migrations and TaskCreation, for any number of processes,  *)
(* builds, branches, commits and requests: the schema goes through every   *)
(* migration once and in order (MigratedOnce), what creation checked holds *)
(* of the task it stored (CreatedAsChecked), and the operator's setting    *)
(* stands (SettingsStand).                                                 *)
(*                                                                         *)
(* Proofs about ProtectedPaths, LogPages and TestSelection, for any        *)
(* patterns, paths, texts and arguments: what a task protects is reported  *)
(* when it is touched, the pages of a log fit together, a step reports     *)
(* every changed file that it would run, and creation refuses a step that  *)
(* names a missing one of them.                                            *)
(***************************************************************************)
EXTENDS TaskCreation, MCAlgorithms, SequenceTheorems, FiniteSetTheorems, TLAPS

-----------------------------------------------------------------------------
(*                         The inductive invariant                         *)

Rows == [Versions -> STRING \cup {None}]

MigrateTypes ==
  /\ step \in [Migrators -> {"lock", "read", "next", "apply", "commit", "unlock",
                             "close", "done"}]
  /\ holder \in Migrators \cup {None}
  /\ recorded \in Rows
  /\ schema \in Seq(Nat \X STRING)
  /\ applied \in [Migrators -> Rows]
  /\ at \in [Migrators -> Nat \ {0}]
  /\ result \in [Migrators -> Results \cup {None}]

(* Whoever is between the lock and the unlock holds the lock. *)
LockInv ==
  \A m \in Migrators : step[m] \in {"read", "next", "apply", "commit", "unlock"} => holder = m

(* The rows are those of the migrations the database has been through. *)
SchemaInv ==
  /\ \A i \in 1..Len(schema) : i \in Versions /\ schema[i] = <<i, recorded[i]>>
  /\ \A v \in Versions : recorded[v] # None <=> v \in 1..Len(schema)

(* A call in its loop has found its own files up to where it is, and what  *)
(* it read of the rest is still so.                                        *)
PlaceInv ==
  \A m \in Migrators :
    /\ step[m] \in {"lock", "read"} => at[m] = 1
    /\ step[m] \in {"next", "apply", "commit"} =>
         /\ \A v \in 1..(at[m] - 1) : v \in DOMAIN Files[m] /\ recorded[v] = Files[m][v]
         /\ \A v \in Versions : v >= at[m] => applied[m][v] = recorded[v]
    /\ step[m] \in {"apply", "commit"} => at[m] \in DOMAIN Files[m] /\ recorded[at[m]] = None

ResultInv ==
  \A m \in Migrators :
    /\ result[m] = "ok" => \A v \in DOMAIN Files[m] : recorded[v] = Files[m][v]
    /\ result[m] # "conflict"

MigrateInv == MigrateTypes /\ LockInv /\ SchemaInv /\ PlaceInv /\ ResultInv

ProjectRow == [mode : Modes, branch : Branches]

Steps == {"idle", "validate", "look up", "pins", "ensure", "insert", "base", "check", "build",
          "store", "refused", "registered", "not found", "created"}

CallRow ==
  [at : Steps, request : CreateTaskInput \cup {None}, began : [Branches -> Nat] \cup {None},
   pins : BOOLEAN \cup {None}, branch : Branches \cup {None},
   snapshot : ProjectRow \cup {None}, project : ProjectRow \cup {None}, base : Nat]

TaskRow ==
  [by : Creators, request : CreateTaskInput, mode : Modes, base : Nat, default : Branches]

CreateTypes ==
  /\ refs \in [Branches -> Nat] /\ checked \in Branches
  /\ project \in ProjectRow \cup {None} /\ chosen \in Modes \cup {None}
  /\ call \in [Creators -> CallRow]
  /\ held \in [Creators -> SUBSET Modes]
  /\ tasks \subseteq TaskRow

(* A row that a call may be using has a mode the project had meanwhile. *)
Known(c, row) == row # None => row.mode \in held[c]

(* What a call that was let in knows. *)
WorkInv(c) ==
  /\ call[c].request \in CreateTaskInput
  /\ call[c].began \in [Branches -> Nat]
  /\ \A b \in Branches : call[c].began[b] <= refs[b]
  /\ \A v \in DOMAIN Build : recorded[v] = Build[v]
  /\ Known(c, project)

(* The base is one its branch had during the call. *)
BaseInv(base, began, branch) == began[branch] <= base /\ base <= refs[branch]

CallInv(c) ==
  /\ call[c].at \in {"validate", "look up", "pins", "ensure", "insert", "base", "check",
                     "build", "store"} => WorkInv(c)
  /\ call[c].at = "insert" => call[c].branch \in Branches /\ Known(c, call[c].snapshot)
  /\ call[c].at \in {"base", "check", "build", "store"} =>
       call[c].project \in ProjectRow /\ call[c].project.mode \in held[c]
  /\ call[c].at \in {"check", "build", "store"} =>
       BaseInv(call[c].base, call[c].began,
               EffectiveBaseRef(call[c].request.ref, call[c].project.branch))
  /\ call[c].at \in {"build", "store"} =>
       (Mode(c) = "clean" \/ call[c].request.expectFail => ~HasGitlinks(call[c].base))
  /\ call[c].at = "store" => (call[c].request.needsRunner => HasPathAtCommit(call[c].base))

(* What is true of a task that was stored. *)
TaskInv(t) ==
  /\ call[t.by].at = "created"
  /\ call[t.by].began \in [Branches -> Nat]
  /\ BaseInv(t.base, call[t.by].began, EffectiveBaseRef(t.request.ref, t.default))
  /\ t.mode = "clean" \/ t.request.expectFail => ~HasGitlinks(t.base)
  /\ t.request.needsRunner => HasPathAtCommit(t.base)
  /\ \A v \in DOMAIN Build : recorded[v] = Build[v]
  /\ IF t.request.mode # None THEN t.mode = t.request.mode ELSE t.mode \in held[t.by]

RunInv(r) == r.moved \/ (r.judged /\ (r.gate => ~HasGitlinks(r.base)))

CreateInv ==
  /\ CreateTypes
  /\ chosen # None => project # None /\ project.mode = chosen
  /\ \A c \in Creators : CallInv(c)
  /\ \A t \in tasks : TaskInv(t)
  /\ \A r \in runs : RunInv(r)

IInv == MigrateInv /\ CreateInv

-----------------------------------------------------------------------------
(*                             The migrations                              *)

(* A row that was recorded is never changed. *)
RowsStay == \A v \in Versions : recorded[v] # None => recorded'[v] = recorded[v]

(* The files of every build are among the versions. *)
LEMMA FilesAreVersions ==
  ASSUME NEW m \in Migrators
  PROVE  /\ DOMAIN Files[m] \subseteq Versions
         /\ DOMAIN Files[m] = 1..Len(Files[m]) /\ Len(Files[m]) \in Nat
         /\ \A v \in DOMAIN Files[m] : Files[m][v] \in STRING
  BY MigrationsAssumption DEF Versions

(* A version is the position of a file. *)
LEMMA VersionsAreNumbers == Versions \subseteq Nat \ {0}
  BY FilesAreVersions DEF Versions

(* None is no process, no checksum and no result. *)
LEMMA NoneIsNothing ==
  None \notin Migrators /\ None \notin STRING /\ None # "ok" /\ None # "conflict"
  BY NoneAssumption DEF Results

(* At first nothing is recorded and every call waits for the lock. *)
LEMMA MigrateStarts == MigrateInit => MigrateInv
<1> SUFFICES ASSUME MigrateInit PROVE MigrateInv
  OBVIOUS
<1> schema = <<>> /\ Len(schema) = 0
  BY DEF MigrateInit
<1>1. MigrateTypes
  BY NoneAssumption DEF MigrateInit, MigrateTypes, Results, Rows
<1>2. LockInv /\ PlaceInv
  BY DEF MigrateInit, LockInv, PlaceInv
<1>3. SchemaInv
  BY DEF MigrateInit, SchemaInv
<1>4. ResultInv
  BY NoneIsNothing DEF MigrateInit, ResultInv
<1> QED
  BY <1>1, <1>2, <1>3, <1>4 DEF MigrateInv

(* The steps of a call that write nothing to the database. *)
LEMMA QuietStep ==
  ASSUME MigrateInv, NEW m \in Migrators,
         \/ Lock(m) \/ GiveUp(m) \/ ReadApplied(m) \/ NextMigration(m) \/ Apply(m) \/ Exit(m)
         \/ \E ok \in BOOLEAN : Unlock(m, ok)
  PROVE  MigrateInv' /\ RowsStay
<1> USE FilesAreVersions, NoneIsNothing
<1>0. recorded' = recorded /\ schema' = schema
  BY DEF Lock, GiveUp, ReadApplied, NextMigration, Apply, Exit, Unlock, Ends
<1>1. CASE Lock(m)
  BY <1>0, <1>1 DEF Lock, LockIsFree, MigrateInv, MigrateTypes, Results, LockInv, SchemaInv, PlaceInv, ResultInv, RowsStay
<1>2. CASE GiveUp(m)
  BY <1>0, <1>2 DEF GiveUp, MigrateInv, MigrateTypes, Results, LockInv, SchemaInv, PlaceInv, ResultInv, RowsStay
<1>3. CASE ReadApplied(m)
  <2>1. MigrateTypes'
    <3> recorded \in Rows
      BY DEF MigrateInv, MigrateTypes
    <3> HIDE FilesAreVersions
    <3> QED
      BY <1>0, <1>3 DEF ReadApplied, Ends, MigrateInv, MigrateTypes, Results
  <2>2. LockInv'
    BY <1>0, <1>3 DEF ReadApplied, Ends, MigrateInv, MigrateTypes, Results, LockInv
  <2>3. PlaceInv'
    BY <1>0, <1>3 DEF ReadApplied, Ends, MigrateInv, MigrateTypes, Results, Rows, LockInv, SchemaInv, PlaceInv
  <2>4. ResultInv'
    BY <1>0, <1>3 DEF ReadApplied, Ends, MigrateInv, MigrateTypes, Results, SchemaInv, PlaceInv, ResultInv
  <2>5. SchemaInv' /\ RowsStay
    BY <1>0 DEF MigrateInv, SchemaInv, RowsStay
  <2> QED
    BY <2>1, <2>2, <2>3, <2>4, <2>5 DEF MigrateInv
<1>4. CASE NextMigration(m)
  <2> DEFINE v == at[m]
  <2>0. /\ step[m] = "next" /\ UNCHANGED <<holder, applied>>
        /\ v \in Nat \ {0} /\ m \in DOMAIN step /\ m \in DOMAIN result /\ m \in DOMAIN at
        /\ \/ v > Len(Files[m]) /\ Ends(m, "ok") /\ at' = at
           \/ Ends(m, "changed") /\ at' = at
           \/ /\ v \in DOMAIN Files[m] /\ applied[m][v] = None
              /\ step' = [step EXCEPT ![m] = "apply"] /\ UNCHANGED <<result, at>>
           \/ /\ v \in DOMAIN Files[m] /\ applied[m][v] = Files[m][v]
              /\ at' = [at EXCEPT ![m] = v + 1] /\ UNCHANGED <<step, result>>
    BY <1>4 DEF NextMigration, PendingMigrations, Changed, MigrateInv, MigrateTypes
  <2> HIDE DEF v
  <2>1. MigrateTypes'
    <3> at \in [Migrators -> Nat \ {0}] /\ at' \in [Migrators -> Nat \ {0}]
      <4>1. at \in [Migrators -> Nat \ {0}] /\ v + 1 \in Nat \ {0}
        BY <2>0 DEF MigrateInv, MigrateTypes
      <4>2. at' = at \/ at' = [at EXCEPT ![m] = v + 1]
        BY <2>0
      <4> QED
        BY <4>1, <4>2
    <3> QED
      BY <1>0, <2>0 DEF Ends, MigrateInv, MigrateTypes, Results
  <2>2. LockInv'
    BY <1>0, <2>0 DEF Ends, MigrateInv, MigrateTypes, LockInv
  <2>3. ASSUME NEW n \in Migrators PROVE PlaceInv!(n)'
    <3>1. CASE n # m
      BY <1>0, <2>0, <3>1, SMTT(30) DEF Ends, MigrateInv, MigrateTypes, PlaceInv
    <3>2. CASE n = m
      <4>1. /\ at[m] = v /\ step[m] = "next"
            /\ \A w \in 1..(v - 1) : w \in DOMAIN Files[m] /\ recorded[w] = Files[m][w]
            /\ \A w \in Versions : w >= v => applied[m][w] = recorded[w]
        BY <2>0 DEF MigrateInv, PlaceInv, v
      <4>2. CASE step'[m] = "unlock"
        BY <3>2, <4>2
      <4>3. CASE /\ v \in DOMAIN Files[m] /\ applied[m][v] = None
                 /\ step'[m] = "apply" /\ at'[m] = v
        BY <1>0, <2>0, <3>2, <4>1, <4>3
      <4>4. CASE /\ v \in DOMAIN Files[m] /\ applied[m][v] = Files[m][v]
                 /\ step'[m] = "next" /\ at'[m] = v + 1
        <5>1. \A w \in 1..v : w \in DOMAIN Files[m] /\ recorded[w] = Files[m][w]
          BY <2>0, <4>1, <4>4
        <5> QED
          BY <1>0, <2>0, <3>2, <4>1, <4>4, <5>1, VersionsAreNumbers
      <4> QED
        BY <2>0, <4>1, <4>2, <4>3, <4>4 DEF Ends, v
    <3> QED
      BY <3>1, <3>2
  <2>4. ASSUME NEW n \in Migrators PROVE ResultInv!(n)'
    <3>1. CASE n # m
      BY <1>0, <2>0, <3>1 DEF Ends, MigrateInv, MigrateTypes, ResultInv
    <3>2. CASE n = m
      <4>1. v > Len(Files[m]) => \A w \in DOMAIN Files[m] : recorded[w] = Files[m][w]
        BY <2>0 DEF MigrateInv, PlaceInv, v
      <4> QED
        BY <1>0, <2>0, <3>2, <4>1 DEF Ends, MigrateInv, MigrateTypes, ResultInv
    <3> QED
      BY <3>1, <3>2
  <2>5. SchemaInv' /\ RowsStay
    BY <1>0 DEF MigrateInv, SchemaInv, RowsStay
  <2> QED
    BY <2>1, <2>2, <2>3, <2>4, <2>5 DEF MigrateInv, PlaceInv, ResultInv
<1>5. CASE Apply(m)
  <2>1. MigrateTypes'
    BY <1>0, <1>5 DEF Apply, Ends, MigrateInv, MigrateTypes, Results, Rows
  <2>2. LockInv'
    BY <1>0, <1>5 DEF Apply, Ends, MigrateInv, MigrateTypes, Results, LockInv
  <2>3. PlaceInv'
    BY <1>0, <1>5 DEF Apply, Ends, MigrateInv, MigrateTypes, Results, Rows, LockInv, SchemaInv, PlaceInv
  <2>4. ResultInv'
    <3>1. ASSUME NEW i \in DOMAIN schema, schema[i][1] = at[m] PROVE FALSE
      <4>1. at[m] \in DOMAIN Files[m] /\ recorded[at[m]] = None
        BY <1>5 DEF Apply, MigrateInv, PlaceInv
      <4>2. i \in 1..Len(schema)
        BY DEF MigrateInv, MigrateTypes
      <4>3. schema[i] = <<i, recorded[i]>> /\ i \in Versions /\ recorded[i] # None
        BY <4>2 DEF MigrateInv, SchemaInv
      <4> QED
        BY <3>1, <4>1, <4>3
    <3> QED
      BY <1>0, <1>5, <3>1 DEF Apply, Ends, MigrateInv, MigrateTypes, ResultInv
  <2>5. SchemaInv' /\ RowsStay
    BY <1>0 DEF MigrateInv, SchemaInv, RowsStay
  <2> QED
    BY <2>1, <2>2, <2>3, <2>4, <2>5 DEF MigrateInv
<1>6. CASE Exit(m)
  <2>1. MigrateTypes'
    BY <1>0, <1>6 DEF Exit, MigrateInv, MigrateTypes, Results, Rows
  <2>2. LockInv'
    BY <1>0, <1>6 DEF Exit, MigrateInv, MigrateTypes, Results, LockInv
  <2>3. PlaceInv'
    BY <1>0, <1>6 DEF Exit, MigrateInv, MigrateTypes, Results, Rows, LockInv, SchemaInv, PlaceInv
  <2>4. ResultInv'
    BY <1>0, <1>6 DEF Exit, MigrateInv, MigrateTypes, Results, SchemaInv, PlaceInv, ResultInv
  <2>5. SchemaInv' /\ RowsStay
    BY <1>0 DEF MigrateInv, SchemaInv, RowsStay
  <2> QED
    BY <2>1, <2>2, <2>3, <2>4, <2>5 DEF MigrateInv
<1>7. ASSUME NEW ok \in BOOLEAN, Unlock(m, ok) PROVE MigrateInv' /\ RowsStay
  BY <1>0, <1>7 DEF Unlock, MigrateInv, MigrateTypes, Results, LockInv, SchemaInv, PlaceInv, ResultInv, RowsStay
<1> QED
  BY <1>1, <1>2, <1>3, <1>4, <1>5, <1>6, <1>7

(* A sequence that has grown by one. *)
LEMMA Appended ==
  ASSUME NEW S, NEW seq \in Seq(S), NEW row \in S, NEW longer, longer = Append(seq, row)
  PROVE  /\ longer \in Seq(S)
         /\ Len(longer) = Len(seq) + 1
         /\ \A i \in 1..Len(seq) : longer[i] = seq[i]
         /\ longer[Len(seq) + 1] = row
<1>1. /\ Append(seq, row) \in Seq(S)
      /\ Len(Append(seq, row)) = Len(seq) + 1
      /\ \A i \in 1..Len(seq) : Append(seq, row)[i] = seq[i]
      /\ Append(seq, row)[Len(seq) + 1] = row
  BY AppendProperties
<1> QED
  BY <1>1, Zenon

(* Recording a migration: it is the next one, and the only call that may   *)
(* be in its loop is the one that records it.                              *)
LEMMA CommitStep ==
  ASSUME MigrateInv, NEW m \in Migrators, NEW committed \in BOOLEAN, NEW answered \in BOOLEAN,
         Commit(m, committed, answered)
  PROVE  MigrateInv' /\ RowsStay
<1> USE FilesAreVersions, NoneIsNothing, VersionsAreNumbers
<1> DEFINE v == at[m]
           checksum == Files[m][v]
<1>0. /\ step[m] = "commit" /\ holder' = holder /\ applied' = applied
      /\ v \in Nat \ {0} /\ v \in DOMAIN Files[m] /\ v \in Versions /\ checksum \in STRING
      /\ recorded[v] = None
      /\ \A w \in 1..(v - 1) : w \in DOMAIN Files[m] /\ recorded[w] = Files[m][w]
      /\ \A w \in Versions : w >= v => applied[m][w] = recorded[w]
  BY DEF Commit, MigrateInv, MigrateTypes, PlaceInv
<1>1. \/ recorded' = recorded /\ schema' = schema /\ Ends(m, "failed") /\ at' = at
      \/ /\ recorded' = [recorded EXCEPT ![v] = checksum]
         /\ schema' = Append(schema, <<v, checksum>>)
         /\ \/ Ends(m, "failed") /\ at' = at
            \/ /\ at' = [at EXCEPT ![m] = v + 1]
               /\ step' = [step EXCEPT ![m] = "next"] /\ result' = result
  BY DEF Commit
<1>2. Len(schema) \in Nat /\ Len(schema) + 1 = v
  <2>1. Len(schema) \in Nat
    BY DEF MigrateInv, MigrateTypes
  <2>2. v \notin 1..Len(schema)
    BY <1>0 DEF MigrateInv, SchemaInv
  <2>3. ASSUME NEW w \in 1..(v - 1) PROVE w \in 1..Len(schema)
    BY <1>0 DEF MigrateInv, SchemaInv
  <2> QED
    BY <1>0, <2>1, <2>2, <2>3
<1>3. \A n \in Migrators \ {m} : step[n] \notin {"read", "next", "apply", "commit", "unlock"}
  BY <1>0 DEF MigrateInv, LockInv
<1> HIDE DEF v, checksum
<1>4. /\ v + 1 \in Nat \ {0} /\ <<v, checksum>> \in Nat \X STRING
      /\ recorded \in Rows /\ schema \in Seq(Nat \X STRING) /\ at \in [Migrators -> Nat \ {0}]
      /\ step \in [Migrators -> {"lock", "read", "next", "apply", "commit", "unlock",
                                 "close", "done"}]
      /\ result \in [Migrators -> Results \cup {None}]
  BY <1>0 DEF MigrateInv, MigrateTypes
<1>5. recorded' \in Rows /\ RowsStay
  BY <1>0, <1>1, <1>4 DEF Rows, RowsStay
<1>6. MigrateTypes'
  <2>1. schema' \in Seq(Nat \X STRING)
    <3>1. CASE schema' = schema
      BY <1>4, <3>1
    <3>2. CASE schema' = Append(schema, <<v, checksum>>)
      BY <1>4, <3>2, Appended
    <3> QED
      BY <1>1, <3>1, <3>2
  <2>2. at' \in [Migrators -> Nat \ {0}]
    BY <1>1, <1>4
  <2>3. /\ step' \in [Migrators -> {"lock", "read", "next", "apply", "commit", "unlock",
                                    "close", "done"}]
        /\ result' \in [Migrators -> Results \cup {None}]
    BY <1>1, <1>4 DEF Ends, Results
  <2> QED
    BY <1>0, <1>5, <2>1, <2>2, <2>3 DEF MigrateInv, MigrateTypes
<1>7. LockInv'
  BY <1>0, <1>1, <1>4 DEF Ends, MigrateInv, LockInv
<1>8. SchemaInv'
  <2>1. CASE recorded' = recorded /\ schema' = schema
    BY <2>1 DEF MigrateInv, SchemaInv
  <2>2. CASE /\ recorded' = [recorded EXCEPT ![v] = checksum]
             /\ schema' = Append(schema, <<v, checksum>>)
    <3>1. /\ Len(schema') = v
          /\ \A i \in 1..(v - 1) : schema'[i] = schema[i]
          /\ schema'[v] = <<v, checksum>>
      <4>1. /\ Len(schema') = Len(schema) + 1
            /\ \A i \in 1..Len(schema) : schema'[i] = schema[i]
            /\ schema'[Len(schema) + 1] = <<v, checksum>>
        BY <1>4, <2>2, Appended
      <4>2. Len(schema) = v - 1
        BY <1>0, <1>2
      <4> QED
        BY <1>2, <4>1, <4>2
    <3>2. recorded'[v] = checksum /\ checksum # None
      BY <1>0, <1>4, <2>2 DEF Rows
    <3>3. \A w \in Versions : w # v => recorded'[w] = recorded[w]
      BY <1>4, <2>2 DEF Rows
    <3>4. /\ \A i \in 1..(v - 1) : i \in Versions /\ schema[i] = <<i, recorded[i]>>
          /\ \A w \in Versions : recorded[w] # None <=> w \in 1..(v - 1)
      <4>1. Len(schema) = v - 1
        BY <1>0, <1>2
      <4>2. /\ \A i \in 1..Len(schema) : i \in Versions /\ schema[i] = <<i, recorded[i]>>
            /\ \A w \in Versions : recorded[w] # None <=> w \in 1..Len(schema)
        BY <1>0 DEF MigrateInv, SchemaInv
      <4> QED
        BY <4>1, <4>2
    <3>5. ASSUME NEW i \in 1..v PROVE i \in Versions /\ schema'[i] = <<i, recorded'[i]>>
      <4>1. CASE i = v
        BY <1>0, <3>1, <3>2, <4>1
      <4>2. CASE i # v
        <5>1. i \in 1..(v - 1)
          BY <1>0, <4>2
        <5> QED
          BY <3>1, <3>3, <3>4, <4>2, <5>1
      <4> QED
        BY <4>1, <4>2
    <3>6. ASSUME NEW w \in Versions PROVE recorded'[w] # None <=> w \in 1..v
      BY <1>0, <3>2, <3>3, <3>4
    <3> QED
      BY <3>1, <3>5, <3>6 DEF SchemaInv
  <2> QED
    BY <1>1, <2>1, <2>2
<1>9. ASSUME NEW n \in Migrators PROVE PlaceInv!(n)'
  <2>1. CASE n # m
    BY <1>1, <1>3, <1>4, <2>1 DEF Ends, MigrateInv, PlaceInv
  <2>2. CASE n = m
    <3>1. CASE step'[m] = "unlock"
      BY <2>2, <3>1
    <3>2. CASE /\ recorded' = [recorded EXCEPT ![v] = checksum]
               /\ at'[m] = v + 1 /\ step'[m] = "next"
      <4>1. \A w \in 1..v : w \in DOMAIN Files[m] /\ recorded'[w] = Files[m][w]
        <5>1. recorded'[v] = Files[m][v]
          BY <1>0, <1>4, <3>2 DEF Rows, checksum
        <5>2. ASSUME NEW w \in 1..v, w # v PROVE w \in DOMAIN Files[m] /\ recorded'[w] = Files[m][w]
          <6>1. w \in 1..(v - 1)
            BY <1>0, <5>2
          <6> QED
            BY <1>0, <1>4, <3>2, <5>2, <6>1 DEF Rows
        <5> QED
          BY <1>0, <5>1, <5>2
      <4>2. \A w \in Versions : w >= v + 1 => applied'[m][w] = recorded'[w]
        BY <1>0, <1>4, <3>2 DEF Rows
      <4> QED
        BY <1>0, <2>2, <3>2, <4>1, <4>2
    <3> QED
      BY <1>1, <1>4, <3>1, <3>2 DEF Ends
  <2> QED
    BY <2>1, <2>2
<1>10. ASSUME NEW n \in Migrators PROVE ResultInv!(n)'
  <2>1. (result'[n] = "ok" => result[n] = "ok") /\ result'[n] # "conflict"
    BY <1>1, <1>4 DEF Ends, MigrateInv, ResultInv
  <2>2. ASSUME result[n] = "ok", NEW w \in DOMAIN Files[n]
        PROVE  recorded'[w] = Files[n][w]
    <3>1. recorded[w] = Files[n][w] /\ w \in Versions
      BY <2>2 DEF MigrateInv, ResultInv
    <3>2. Files[n][w] # None
      OBVIOUS
    <3> QED
      BY <1>5, <3>1, <3>2 DEF RowsStay
  <2> QED
    BY <2>1, <2>2
<1> QED
  BY <1>5, <1>6, <1>7, <1>8, <1>9, <1>10 DEF MigrateInv, PlaceInv, ResultInv

(* Whatever the migrations do. *)
LEMMA MigrateStep ==
  ASSUME MigrateInv, MigrateNext
  PROVE  MigrateInv' /\ RowsStay
  BY QuietStep, CommitStep DEF MigrateNext

-----------------------------------------------------------------------------
(*                       What others do to a call                          *)

RefsGrow == refs' \in [Branches -> Nat] /\ \A b \in Branches : refs[b] <= refs'[b]

(* The settings the project has had are remembered for d. *)
HeldGrows(d) ==
  /\ held[d] \subseteq held'[d]
  /\ project' = project \/ project'.mode \in held'[d]

(* A branch that is asked for is one of the repository. *)
LEMMA RefIsBranch ==
  ASSUME NEW request \in CreateTaskInput, NEW default \in Branches
  PROVE  EffectiveBaseRef(request.ref, default) \in Branches
  BY DEF CreateTaskInput, EffectiveBaseRef

(* What a call knows outlives what everybody else does. *)
LEMMA CallStays ==
  ASSUME MigrateInv, CreateInv, NEW d \in Creators, call'[d] = call[d],
         RowsStay, RefsGrow, HeldGrows(d)
  PROVE  CallInv(d)'
<1>1. /\ CallInv(d) /\ call[d] \in CallRow /\ refs \in [Branches -> Nat]
      /\ project \in ProjectRow \cup {None}
  BY DEF CreateInv, CreateTypes
<1>2. ASSUME WorkInv(d) PROVE WorkInv(d)'
  <2>1. ASSUME NEW b \in Branches PROVE call'[d].began[b] <= refs'[b]
    BY <1>1, <1>2 DEF WorkInv, RefsGrow
  <2>2. ASSUME NEW v \in DOMAIN Build PROVE recorded'[v] = Build[v]
    <3>1. v \in Versions /\ Build[v] \in STRING /\ recorded[v] = Build[v]
      BY <1>2, TaskCreationAssumption DEF WorkInv
    <3> QED
      BY <3>1, NoneIsNothing DEF RowsStay
  <2> QED
    BY <1>2, <2>1, <2>2 DEF WorkInv, Known, HeldGrows
<1>3. ASSUME NEW base \in Nat, NEW began \in [Branches -> Nat], NEW b \in Branches,
             BaseInv(base, began, b)
      PROVE  BaseInv(base, began, b)'
  BY <1>1, <1>3 DEF BaseInv, RefsGrow
<1>4. ASSUME call[d].at \in {"check", "build", "store"}
      PROVE  BaseInv(call[d].base, call[d].began,
                     EffectiveBaseRef(call[d].request.ref, call[d].project.branch))'
  <2> DEFINE b == EffectiveBaseRef(call[d].request.ref, call[d].project.branch)
  <2>1. b \in Branches /\ call[d].began \in [Branches -> Nat] /\ call[d].base \in Nat
    BY <1>1, <1>4, RefIsBranch DEF CallInv, WorkInv, ProjectRow, CallRow
  <2>2. BaseInv(call[d].base, call[d].began, b)
    BY <1>1, <1>4 DEF CallInv
  <2> QED
    BY <1>3, <2>1, <2>2 DEF BaseInv, EffectiveBaseRef
<1>5. /\ (call[d].at \in {"base", "check", "build", "store"} =>
             call[d].project \in ProjectRow /\ call[d].project.mode \in held[d])'
      /\ (call[d].at = "insert" => call[d].branch \in Branches /\ Known(d, call[d].snapshot))'
      /\ (call[d].at \in {"build", "store"} =>
            (Mode(d) = "clean" \/ call[d].request.expectFail => ~HasGitlinks(call[d].base)))'
      /\ (call[d].at = "store" =>
            (call[d].request.needsRunner => HasPathAtCommit(call[d].base)))'
  BY <1>1 DEF CallInv, Known, HeldGrows, Mode, HasGitlinks, HasPathAtCommit
<1> QED
  BY <1>1, <1>2, <1>4, <1>5 DEF CallInv

(* So does what is true of a task that was stored. *)
LEMMA TaskStays ==
  ASSUME MigrateInv, CreateInv, NEW t \in tasks, call'[t.by] = call[t.by],
         RowsStay, RefsGrow, held[t.by] \subseteq held'[t.by]
  PROVE  TaskInv(t)'
<1>1. TaskInv(t) /\ t \in TaskRow /\ refs \in [Branches -> Nat]
  BY DEF CreateInv, CreateTypes
<1>2. \A v \in DOMAIN Build : recorded'[v] = Build[v]
  BY <1>1, TaskCreationAssumption, NoneIsNothing DEF TaskInv, RowsStay
<1>3. BaseInv(t.base, call[t.by].began, EffectiveBaseRef(t.request.ref, t.default))'
  <2> DEFINE b == EffectiveBaseRef(t.request.ref, t.default)
  <2>1. b \in Branches /\ call[t.by].began \in [Branches -> Nat] /\ t.base \in Nat
    BY <1>1, RefIsBranch DEF TaskInv, TaskRow
  <2>2. BaseInv(t.base, call[t.by].began, b)
    BY <1>1 DEF TaskInv
  <2> QED
    BY <1>1, <2>1, <2>2 DEF BaseInv, RefsGrow, EffectiveBaseRef
<1> QED
  BY <1>1, <1>2, <1>3 DEF TaskInv, HasGitlinks, HasPathAtCommit

(* A step of one call that writes nothing. *)
LEMMA QuietCall ==
  ASSUME MigrateInv, CreateInv, NEW c \in Creators, NEW row \in CallRow,
         call' = [call EXCEPT ![c] = row], call[c].at # "created", CallInv(c)',
         UNCHANGED <<recorded, repoVars, project, chosen, held, tasks, runs>>
  PROVE  CreateInv'
<1>1. call \in [Creators -> CallRow] /\ call' \in [Creators -> CallRow]
  BY DEF CreateInv, CreateTypes
<1>2. CreateTypes'
  BY <1>1 DEF CreateInv, CreateTypes, repoVars
<1>3. RowsStay /\ RefsGrow /\ \A d \in Creators : HeldGrows(d)
  BY DEF RowsStay, RefsGrow, HeldGrows, repoVars, CreateInv, CreateTypes
<1>4. ASSUME NEW d \in Creators PROVE CallInv(d)'
  BY <1>1, <1>3, CallStays
<1>5. ASSUME NEW t \in tasks PROVE TaskInv(t)'
  <2>1. t.by \in Creators /\ call[t.by].at = "created"
    BY DEF CreateInv, CreateTypes, TaskRow, TaskInv
  <2>2. call'[t.by] = call[t.by]
    BY <1>1, <2>1
  <2> QED
    BY <1>3, <2>2, TaskStays
<1>6. \A r \in runs : RunInv(r)'
  BY DEF CreateInv, RunInv, HasGitlinks
<1> QED
  BY <1>2, <1>4, <1>5, <1>6 DEF CreateInv

(* A call that is over claims nothing. *)
LEMMA OverRow ==
  ASSUME NEW c, NEW how \in {"refused", "registered", "not found", "created"}
  PROVE  Over(c, how) \in CallRow /\ Over(c, how).at = how
  BY DEF Over, Idle, CallRow, Steps

(* A call that goes on keeps what it knows. *)
LEMMA NextRow ==
  ASSUME NEW row \in CallRow, NEW to \in Steps
  PROVE  /\ [row EXCEPT !.at = to] \in CallRow
         /\ [row EXCEPT !.at = to].at = to
         /\ [row EXCEPT !.at = to].request = row.request
         /\ [row EXCEPT !.at = to].began = row.began
         /\ [row EXCEPT !.at = to].project = row.project
         /\ [row EXCEPT !.at = to].base = row.base
  BY DEF CallRow

(* The end of a call that stored nothing. *)
LEMMA CallEnds ==
  ASSUME MigrateInv, CreateInv, NEW c \in Creators,
         NEW how \in {"refused", "registered", "not found"},
         call' = [call EXCEPT ![c] = Over(c, how)], call[c].at # "created",
         UNCHANGED <<recorded, repoVars, project, chosen, held, tasks, runs>>
  PROVE  CreateInv'
<1>1. Over(c, how) \in CallRow /\ Over(c, how).at = how
  BY OverRow
<1>2. call'[c].at = how
  BY <1>1 DEF CreateInv, CreateTypes
<1>3. CallInv(c)'
  BY <1>2 DEF CallInv
<1> QED
  BY <1>1, <1>3, QuietCall

-----------------------------------------------------------------------------
(*                            The steps of a call                          *)

(* A command that is let in finds its own schema. *)
LEMMA OpenAppStep ==
  ASSUME MigrateInv, CreateInv, NEW c \in Creators, NEW q \in Requests, OpenApp(c, q)
  PROVE  CreateInv'
<1> DEFINE row == [Idle EXCEPT !.at = "validate", !.request = q, !.began = refs]
<1>1. /\ call \in [Creators -> CallRow] /\ held \in [Creators -> SUBSET Modes]
      /\ refs \in [Branches -> Nat] /\ project \in ProjectRow \cup {None}
      /\ q \in CreateTaskInput /\ call[c].at = "idle"
  BY TaskCreationAssumption DEF CreateInv, CreateTypes, OpenApp
<1>2. /\ row \in CallRow /\ row.at = "validate" /\ row.request = q /\ row.began = refs
  BY <1>1 DEF Idle, CallRow, Steps
<1> HIDE DEF row
<1>3. \/ call' = [call EXCEPT ![c] = Over(c, "refused")]
      \/ /\ call' = [call EXCEPT ![c] = row]
         /\ PendingMigrations(Build, recorded) = {} /\ Changed(Build, recorded) = {}
  BY DEF OpenApp, row
<1>4. /\ held' = [held EXCEPT ![c] = IF project = None THEN {} ELSE {project.mode}]
      /\ UNCHANGED <<recorded, refs, checked, project, chosen, tasks, runs>>
  BY DEF OpenApp, migrateVars, repoVars
<1>5. CreateTypes'
  <2>1. call' \in [Creators -> CallRow]
    BY <1>1, <1>2, <1>3, OverRow
  <2>2. held' \in [Creators -> SUBSET Modes]
    BY <1>1, <1>4 DEF ProjectRow
  <2> QED
    BY <1>4, <2>1, <2>2 DEF CreateInv, CreateTypes
<1>6. /\ RowsStay /\ RefsGrow
      /\ \A d \in Creators : d # c => call'[d] = call[d] /\ HeldGrows(d)
  BY <1>1, <1>3, <1>4 DEF RowsStay, RefsGrow, HeldGrows
<1>7. CallInv(c)'
  <2>1. CASE call' = [call EXCEPT ![c] = Over(c, "refused")]
    BY <1>1, <2>1, OverRow DEF CallInv
  <2>2. CASE /\ call' = [call EXCEPT ![c] = row]
             /\ PendingMigrations(Build, recorded) = {} /\ Changed(Build, recorded) = {}
    <3>1. call'[c] = row
      BY <1>1, <2>2
    <3>2. \A v \in DOMAIN Build : recorded[v] = Build[v]
      BY <2>2 DEF PendingMigrations, Changed
    <3>3. Known(c, project)'
      BY <1>1, <1>4 DEF Known
    <3>4. WorkInv(c)'
      BY <1>1, <1>2, <1>4, <3>1, <3>2, <3>3 DEF WorkInv
    <3> QED
      BY <1>2, <3>1, <3>4 DEF CallInv
  <2> QED
    BY <1>3, <2>1, <2>2
<1>8. ASSUME NEW t \in tasks PROVE TaskInv(t)'
  <2>1. t.by \in Creators /\ call[t.by].at = "created"
    BY DEF CreateInv, CreateTypes, TaskRow, TaskInv
  <2>2. call'[t.by] = call[t.by] /\ HeldGrows(t.by)
    BY <1>1, <1>6, <2>1
  <2> QED
    BY <1>6, <2>2, TaskStays DEF HeldGrows
<1>9. ASSUME NEW d \in Creators PROVE CallInv(d)'
  BY <1>6, <1>7, CallStays
<1>10. \A r \in runs : RunInv(r)'
  BY DEF CreateInv, RunInv, HasGitlinks
<1> QED
  BY <1>4, <1>5, <1>8, <1>9, <1>10 DEF CreateInv

(* Whatever is refused before anything is written. *)
LEMMA RefusedStep ==
  ASSUME MigrateInv, CreateInv, NEW c \in Creators, Goes(c, "refused"), call[c].at # "created",
         UNCHANGED <<recorded, repoVars, project, chosen, held, tasks, runs>>
  PROVE  CreateInv'
  BY CallEnds DEF Goes

(* The checks that let a call go on change no row: it need only know what  *)
(* the next step asks for.                                                 *)
LEMMA ForwardStep ==
  ASSUME MigrateInv, CreateInv, NEW c \in Creators,
         NEW to \in {"look up", "pins", "build", "store"}, Goes(c, to), call[c].at # "created",
         WorkInv(c),
         to \in {"build", "store"} =>
           /\ call[c].at \in {"check", "build"}
           /\ Mode(c) = "clean" \/ call[c].request.expectFail => ~HasGitlinks(call[c].base),
         to = "store" => (call[c].request.needsRunner => HasPathAtCommit(call[c].base)),
         UNCHANGED <<recorded, repoVars, project, chosen, held, tasks, runs>>
  PROVE  CreateInv'
<1> DEFINE row == [call[c] EXCEPT !.at = to]
<1>1. call \in [Creators -> CallRow] /\ call[c] \in CallRow
  BY DEF CreateInv, CreateTypes
<1>2. /\ row \in CallRow /\ row.at = to /\ row.request = call[c].request
      /\ row.began = call[c].began /\ row.project = call[c].project /\ row.base = call[c].base
  <2>1. to \in Steps
    BY DEF Steps
  <2> QED
    BY <1>1, <2>1, NextRow
<1>3. call' = [call EXCEPT ![c] = row]
  BY DEF Goes
<1> HIDE DEF row
<1>4. call'[c] = row
  BY <1>1, <1>3
<1>5. WorkInv(c)'
  BY <1>2, <1>4 DEF WorkInv, Known, repoVars
<1>6. CASE to \in {"look up", "pins"}
  BY <1>1, <1>2, <1>3, <1>4, <1>5, <1>6, QuietCall DEF CallInv
<1>7. CASE to \in {"build", "store"}
  <2>1. /\ call[c].project \in ProjectRow /\ call[c].project.mode \in held[c]
        /\ BaseInv(call[c].base, call[c].began,
                   EffectiveBaseRef(call[c].request.ref, call[c].project.branch))
    BY <1>7 DEF CreateInv, CallInv
  <2>2. (call[c].project \in ProjectRow /\ call[c].project.mode \in held[c])'
    BY <1>2, <1>4, <2>1
  <2>3. BaseInv(call[c].base, call[c].began,
                EffectiveBaseRef(call[c].request.ref, call[c].project.branch))'
    BY <1>2, <1>4, <2>1 DEF BaseInv, repoVars, EffectiveBaseRef
  <2>4. (Mode(c) = "clean" \/ call[c].request.expectFail => ~HasGitlinks(call[c].base))'
    BY <1>2, <1>4, <1>7 DEF Mode, HasGitlinks
  <2>5. (to = "store" => (call[c].request.needsRunner => HasPathAtCommit(call[c].base)))'
    BY <1>2, <1>4, <1>7 DEF HasPathAtCommit
  <2>6. CallInv(c)'
    BY <1>2, <1>4, <1>5, <1>7, <2>2, <2>3, <2>4, <2>5 DEF CallInv
  <2> QED
    BY <1>2, <1>3, <2>6, QuietCall
<1> QED
  BY <1>6, <1>7

(* The first checks. *)
LEMMA ValidateStep ==
  ASSUME MigrateInv, CreateInv, NEW c \in Creators, NEW ok \in BOOLEAN, Validate(c, ok)
  PROVE  CreateInv'
<1>1. call[c].at = "validate" /\ WorkInv(c)
  BY DEF Validate, CreateInv, CallInv
<1>2. UNCHANGED <<recorded, repoVars, project, chosen, held, tasks, runs>>
  BY DEF Validate, migrateVars
<1>3. Goes(c, "refused") \/ Goes(c, "look up") \/ Goes(c, "pins")
  BY DEF Validate
<1> QED
  BY <1>1, <1>2, <1>3, RefusedStep, ForwardStep

(* The checks of the base. *)
LEMMA CheckStep ==
  ASSUME MigrateInv, CreateInv, NEW c \in Creators,
         CheckGitlinks(c) \/ \E ok \in BOOLEAN : BuildTask(c, ok)
  PROVE  CreateInv'
<1>1. CASE CheckGitlinks(c)
  <2>1. call[c].at = "check" /\ WorkInv(c)
    BY <1>1 DEF CheckGitlinks, CreateInv, CallInv
  <2>2. UNCHANGED <<recorded, repoVars, project, chosen, held, tasks, runs>>
    BY <1>1 DEF CheckGitlinks, migrateVars
  <2>3. \/ Goes(c, "refused")
        \/ /\ Goes(c, "build")
           /\ Mode(c) = "clean" \/ call[c].request.expectFail => ~HasGitlinks(call[c].base)
    BY <1>1 DEF CheckGitlinks, CheckedCommit
  <2> QED
    BY <2>1, <2>2, <2>3, RefusedStep, ForwardStep
<1>2. ASSUME NEW ok \in BOOLEAN, BuildTask(c, ok) PROVE CreateInv'
  <2>1. /\ call[c].at = "build" /\ WorkInv(c)
        /\ Mode(c) = "clean" \/ call[c].request.expectFail => ~HasGitlinks(call[c].base)
    BY <1>2 DEF BuildTask, CreateInv, CallInv
  <2>2. UNCHANGED <<recorded, repoVars, project, chosen, held, tasks, runs>>
    BY <1>2 DEF BuildTask, migrateVars
  <2>3. \/ Goes(c, "refused")
        \/ /\ Goes(c, "store")
           /\ call[c].request.needsRunner => HasPathAtCommit(call[c].base)
    BY <1>2 DEF BuildTask, CheckedCommit
  <2> QED
    BY <2>1, <2>2, <2>3, RefusedStep, ForwardStep
<1> QED
  BY <1>1, <1>2

(* A read that fails. *)
LEMMA FailsStep ==
  ASSUME MigrateInv, CreateInv, NEW c \in Creators, Fails(c)
  PROVE  CreateInv'
<1>1. /\ call[c].at # "created" /\ Goes(c, "refused")
      /\ UNCHANGED <<recorded, repoVars, project, chosen, held, tasks, runs>>
  BY DEF Fails, migrateVars
<1> QED
  BY <1>1, RefusedStep

(* GetProjectByPath *)
LEMMA LookUpStep ==
  ASSUME MigrateInv, CreateInv, NEW c \in Creators, LookUp(c)
  PROVE  CreateInv'
<1>1. /\ call[c].at = "look up" /\ WorkInv(c) /\ call[c] \in CallRow
      /\ call \in [Creators -> CallRow] /\ project \in ProjectRow \cup {None}
  BY DEF LookUp, CreateInv, CreateTypes, CallInv
<1>2. UNCHANGED <<recorded, repoVars, project, chosen, held, tasks, runs>>
  BY DEF LookUp, migrateVars
<1> DEFINE on == [call[c] EXCEPT !.at = "pins"]
           row == [call[c] EXCEPT !.at = "base", !.project = project]
<1>3. call[c].request.add \in BOOLEAN
  BY <1>1 DEF WorkInv, CreateTaskInput
<1>4. \/ call' = [call EXCEPT ![c] = on]
      \/ call' = [call EXCEPT ![c] = Over(c, "registered")]
      \/ call' = [call EXCEPT ![c] = Over(c, "refused")]
      \/ project # None /\ call' = [call EXCEPT ![c] = row]
  <2>1. CASE project = None
    BY <1>3, <2>1 DEF LookUp
  <2>2. CASE project # None
    BY <1>3, <2>2 DEF LookUp
  <2> QED
    BY <2>1, <2>2
<1>5. CASE call' = [call EXCEPT ![c] = on]
  BY <1>1, <1>2, <1>5, ForwardStep DEF Goes
<1>6. CASE project # None /\ call' = [call EXCEPT ![c] = row]
  <2>1. /\ row \in CallRow /\ row.at = "base" /\ row.request = call[c].request
        /\ row.began = call[c].began /\ row.project = project
    BY <1>1 DEF CallRow, Steps
  <2> HIDE DEF row
  <2>2. call'[c] = row
    BY <1>1, <1>6
  <2>3. WorkInv(c)'
    BY <1>1, <1>2, <2>1, <2>2 DEF WorkInv, Known, repoVars
  <2>4. (call[c].project \in ProjectRow /\ call[c].project.mode \in held[c])'
    BY <1>1, <1>2, <1>6, <2>1, <2>2 DEF WorkInv, Known
  <2>5. CallInv(c)'
    BY <2>1, <2>2, <2>3, <2>4 DEF CallInv
  <2> QED
    BY <1>1, <1>2, <1>6, <2>1, <2>5, QuietCall
<1> QED
  BY <1>1, <1>2, <1>4, <1>5, <1>6, CallEnds

(* PinsSubmodules, and the beginning of the insert. *)
LEMMA EnsureStep ==
  ASSUME MigrateInv, CreateInv, NEW c \in Creators, PinsSubmodules(c) \/ EnsureBegins(c)
  PROVE  CreateInv'
<1>1. /\ call[c].at \in {"pins", "ensure"} /\ WorkInv(c) /\ call[c] \in CallRow
      /\ call \in [Creators -> CallRow] /\ project \in ProjectRow \cup {None}
      /\ checked \in Branches
  BY DEF PinsSubmodules, EnsureBegins, CreateInv, CreateTypes, CallInv
<1>2. UNCHANGED <<recorded, repoVars, project, chosen, held, tasks, runs>>
  BY DEF PinsSubmodules, EnsureBegins, migrateVars
<1>3. CASE PinsSubmodules(c)
  <2> DEFINE pins == refs[checked] # 0 /\ HasGitlinks(refs[checked])
             row == [call[c] EXCEPT !.at = "ensure", !.pins = pins]
  <2>1. call' = [call EXCEPT ![c] = row]
    BY <1>1, <1>3 DEF PinsSubmodules, CallRow
  <2>2. pins \in BOOLEAN
    OBVIOUS
  <2> HIDE DEF pins
  <2>3. /\ row \in CallRow /\ row.at = "ensure" /\ row.request = call[c].request
        /\ row.began = call[c].began
    BY <1>1, <2>2 DEF CallRow, Steps
  <2> HIDE DEF row
  <2>4. call'[c] = row
    BY <1>1, <2>1
  <2>5. CallInv(c)'
    BY <1>1, <1>2, <2>3, <2>4 DEF CallInv, WorkInv, Known, repoVars
  <2> QED
    BY <1>1, <1>2, <2>1, <2>3, <2>5, QuietCall
<1>4. CASE EnsureBegins(c)
  <2> DEFINE row == [call[c] EXCEPT !.at = "insert", !.branch = checked, !.snapshot = project]
  <2>1. call' = [call EXCEPT ![c] = row]
    BY <1>1, <1>4 DEF EnsureBegins, CallRow
  <2>2. /\ row \in CallRow /\ row.at = "insert" /\ row.request = call[c].request
        /\ row.began = call[c].began /\ row.branch = checked /\ row.snapshot = project
    BY <1>1 DEF CallRow, Steps
  <2> HIDE DEF row
  <2>3. call'[c] = row
    BY <1>1, <2>1
  <2>4. CallInv(c)'
    BY <1>1, <1>2, <2>2, <2>3 DEF CallInv, WorkInv, Known, repoVars
  <2> QED
    BY <1>1, <1>2, <2>1, <2>2, <2>4, QuietCall
<1> QED
  BY <1>3, <1>4

(* ResolveCommit *)
LEMMA ResolveStep ==
  ASSUME MigrateInv, CreateInv, NEW c \in Creators, ResolveBase(c)
  PROVE  CreateInv'
<1> DEFINE branch == EffectiveBaseRef(call[c].request.ref, call[c].project.branch)
           row == [call[c] EXCEPT !.at = "check", !.base = refs[branch]]
<1>1. /\ call[c].at = "base" /\ WorkInv(c) /\ call[c] \in CallRow
      /\ call \in [Creators -> CallRow] /\ refs \in [Branches -> Nat]
      /\ call[c].project \in ProjectRow /\ call[c].project.mode \in held[c]
  BY DEF ResolveBase, CreateInv, CreateTypes, CallInv
<1>2. UNCHANGED <<recorded, repoVars, project, chosen, held, tasks, runs>>
  BY DEF ResolveBase, migrateVars
<1>3. branch \in Branches
  BY <1>1, RefIsBranch DEF WorkInv, ProjectRow
<1>4. \/ call' = [call EXCEPT ![c] = Over(c, "refused")]
      \/ call' = [call EXCEPT ![c] = row]
  BY DEF ResolveBase
<1> HIDE DEF branch
<1>5. /\ row \in CallRow /\ row.at = "check" /\ row.request = call[c].request
      /\ row.began = call[c].began /\ row.project = call[c].project
      /\ row.base = refs[branch]
  BY <1>1, <1>3 DEF CallRow, Steps
<1> HIDE DEF row
<1>6. CASE call' = [call EXCEPT ![c] = row]
  <2>1. call'[c] = row
    BY <1>1, <1>6
  <2>2. WorkInv(c)'
    BY <1>1, <1>2, <1>5, <2>1 DEF WorkInv, Known, repoVars
  <2>3. BaseInv(refs[branch], call[c].began, branch)
    BY <1>1, <1>3 DEF BaseInv, WorkInv
  <2>4. BaseInv(call[c].base, call[c].began,
                EffectiveBaseRef(call[c].request.ref, call[c].project.branch))'
    BY <1>2, <1>5, <2>1, <2>3 DEF BaseInv, repoVars, EffectiveBaseRef, branch
  <2>5. CallInv(c)'
    BY <1>1, <1>2, <1>5, <2>1, <2>2, <2>4 DEF CallInv
  <2> QED
    BY <1>1, <1>2, <1>5, <1>6, <2>5, QuietCall
<1> QED
  BY <1>1, <1>2, <1>4, <1>6, CallEnds

(* EnsureProject leaves a row that is there alone. *)
LEMMA InsertStep ==
  ASSUME MigrateInv, CreateInv, NEW c \in Creators, NEW answered \in BOOLEAN,
         EnsureInserts(c, answered)
  PROVE  CreateInv'
<1> DEFINE new == [mode |-> IF call[c].pins THEN "in_place" ELSE "clean",
                   branch |-> call[c].branch]
           answer == IF project = None THEN new ELSE call[c].snapshot
           row == [call[c] EXCEPT !.at = "base", !.project = answer]
<1>1. /\ call[c].at = "insert" /\ WorkInv(c) /\ call[c] \in CallRow
      /\ call \in [Creators -> CallRow] /\ project \in ProjectRow \cup {None}
      /\ held \in [Creators -> SUBSET Modes] /\ refs \in [Branches -> Nat]
      /\ call[c].branch \in Branches /\ Known(c, call[c].snapshot)
      /\ call[c].snapshot \in ProjectRow \cup {None}
  BY DEF EnsureInserts, CreateInv, CreateTypes, CallInv, CallRow
<1>2. UNCHANGED <<recorded, refs, checked, chosen, tasks, runs>>
  BY DEF EnsureInserts, migrateVars, repoVars
<1>3. new \in ProjectRow /\ None \notin ProjectRow
  BY <1>1, TaskCreationAssumption DEF ProjectRow, Modes
<1>4. /\ project' = IF project = None THEN new ELSE project
      /\ held' = [d \in Creators |-> held[d] \cup {project'.mode}]
  BY DEF EnsureInserts, InsertOrNothing
<1> HIDE DEF new
<1>5. /\ project' \in ProjectRow /\ project'.mode \in Modes
      /\ project # None => project' = project
  BY <1>1, <1>3, <1>4 DEF ProjectRow
<1>6. call[c].request.add \in BOOLEAN
  BY <1>1 DEF WorkInv, CreateTaskInput
<1>7. \/ call' = [call EXCEPT ![c] = Over(c, "refused")]
      \/ call' = [call EXCEPT ![c] = Over(c, "not found")]
      \/ call' = [call EXCEPT ![c] = Over(c, "registered")]
      \/ answer # None /\ call' = [call EXCEPT ![c] = row]
  <2>1. CASE ~answered
    BY <2>1 DEF EnsureInserts
  <2>2. CASE answered /\ answer = None
    BY <2>2 DEF EnsureInserts, new
  <2>3. CASE answered /\ answer # None
    BY <1>6, <2>3 DEF EnsureInserts, new
  <2> QED
    BY <2>1, <2>2, <2>3
<1>8. answer \in ProjectRow \cup {None} /\ (answer # None => answer.mode \in held'[c])
  <2>1. CASE project = None
    BY <1>3, <1>4, <2>1
  <2>2. CASE project # None
    BY <1>1, <1>4, <2>2 DEF Known
  <2> QED
    BY <2>1, <2>2
<1> HIDE DEF answer
<1>9. /\ row \in CallRow /\ row.at = "base" /\ row.request = call[c].request
      /\ row.began = call[c].began /\ row.project = answer
  BY <1>1, <1>8 DEF CallRow, Steps
<1> HIDE DEF row
<1>10. call' \in [Creators -> CallRow] /\ held' \in [Creators -> SUBSET Modes]
  <2>1. PICK now \in CallRow : call' = [call EXCEPT ![c] = now]
    <3>1. \A how \in {"refused", "not found", "registered"} : Over(c, how) \in CallRow
      BY <1>1, OverRow
    <3> QED
      BY <1>7, <1>9, <3>1
  <2>2. call' \in [Creators -> CallRow]
    BY <1>1, <2>1
  <2>3. held' \in [Creators -> SUBSET Modes]
    BY <1>1, <1>4, <1>5
  <2> QED
    BY <2>2, <2>3
<1>11. CreateTypes'
  BY <1>2, <1>5, <1>10 DEF CreateInv, CreateTypes
<1>12. /\ RowsStay /\ RefsGrow /\ \A d \in Creators : HeldGrows(d)
       /\ \A d \in Creators : d # c => call'[d] = call[d]
  <2>1. RowsStay /\ RefsGrow
    BY <1>1, <1>2 DEF RowsStay, RefsGrow
  <2>2. ASSUME NEW d \in Creators PROVE HeldGrows(d)
    BY <1>1, <1>4, Zenon DEF HeldGrows
  <2>3. ASSUME NEW d \in Creators, d # c PROVE call'[d] = call[d]
    BY <1>1, <1>7, <2>3
  <2> QED
    BY <2>1, <2>2, <2>3
<1>13. CallInv(c)'
  <2>1. CASE call'[c].at \in {"refused", "not found", "registered"}
    BY <2>1 DEF CallInv
  <2>2. CASE answer # None /\ call' = [call EXCEPT ![c] = row]
    <3>1. call'[c] = row
      BY <1>1, <2>2
    <3>2. WorkInv(c)'
      BY <1>1, <1>2, <1>4, <1>9, <3>1 DEF WorkInv, Known
    <3>3. (call[c].project \in ProjectRow /\ call[c].project.mode \in held[c])'
      BY <1>8, <1>9, <2>2, <3>1
    <3> QED
      BY <1>9, <3>1, <3>2, <3>3 DEF CallInv
  <2>3. \A how \in {"refused", "not found", "registered"} : Over(c, how).at = how
    BY OverRow
  <2> QED
    BY <1>1, <1>7, <2>1, <2>2, <2>3
<1>14. ASSUME NEW t \in tasks PROVE TaskInv(t)'
  <2>1. t.by \in Creators /\ call[t.by].at = "created"
    BY DEF CreateInv, CreateTypes, TaskRow, TaskInv
  <2>2. call'[t.by] = call[t.by] /\ HeldGrows(t.by)
    BY <1>1, <1>12, <2>1
  <2> QED
    BY <1>12, <2>2, TaskStays DEF HeldGrows
<1>15. ASSUME NEW d \in Creators PROVE CallInv(d)'
  BY <1>12, <1>13, CallStays
<1>16. \A r \in runs : RunInv(r)'
  BY DEF CreateInv, RunInv, HasGitlinks
<1>17. chosen' # None => project' # None /\ project'.mode = chosen'
  BY <1>2, <1>3, <1>5 DEF CreateInv
<1> QED
  BY <1>2, <1>11, <1>14, <1>15, <1>16, <1>17 DEF CreateInv

(* The task is stored as it was checked. *)
LEMMA StoreStep ==
  ASSUME MigrateInv, CreateInv, NEW c \in Creators, NEW ok \in BOOLEAN, StoreTask(c, ok)
  PROVE  CreateInv'
<1> DEFINE new == [by |-> c, request |-> call[c].request, mode |-> Mode(c),
                   base |-> call[c].base, default |-> call[c].project.branch]
           row == [Over(c, "created") EXCEPT !.began = call[c].began]
<1>1. /\ call[c].at = "store" /\ WorkInv(c) /\ call[c] \in CallRow /\ CallInv(c)
      /\ call \in [Creators -> CallRow] /\ refs \in [Branches -> Nat]
      /\ call[c].project \in ProjectRow /\ call[c].project.mode \in held[c]
      /\ call[c].request \in CreateTaskInput /\ call[c].began \in [Branches -> Nat]
  BY DEF StoreTask, CreateInv, CreateTypes, CallInv, WorkInv
<1>2. UNCHANGED <<recorded, repoVars, project, chosen, held, runs>>
  BY DEF StoreTask, migrateVars
<1>3. CASE ~ok
  BY <1>1, <1>2, <1>3, RefusedStep DEF StoreTask
<1>4. CASE ok
  <2>1. tasks' = tasks \cup {new} /\ call' = [call EXCEPT ![c] = row]
    BY <1>4 DEF StoreTask, Goes
  <2>2. row \in CallRow /\ row.at = "created" /\ row.began = call[c].began
    BY <1>1 DEF Over, Idle, CallRow, Steps
  <2>3. /\ new \in TaskRow /\ new.by = c /\ new.request = call[c].request /\ new.mode = Mode(c)
        /\ new.base = call[c].base /\ new.default = call[c].project.branch
    BY <1>1 DEF Mode, TaskRow, CallRow, CreateTaskInput, ProjectRow
  <2> HIDE DEF new, row
  <2>4. call' \in [Creators -> CallRow] /\ call'[c] = row
        /\ \A d \in Creators : d # c => call'[d] = call[d]
    BY <1>1, <2>1, <2>2
  <2>5. CreateTypes'
    BY <1>2, <2>1, <2>3, <2>4 DEF CreateInv, CreateTypes, repoVars
  <2>6. RowsStay /\ RefsGrow /\ \A d \in Creators : HeldGrows(d)
    BY <1>1, <1>2 DEF RowsStay, RefsGrow, HeldGrows, repoVars
  <2>7. CallInv(c)'
    BY <2>2, <2>4 DEF CallInv
  <2>8. ASSUME NEW d \in Creators PROVE CallInv(d)'
    BY <2>4, <2>6, <2>7, CallStays
  <2>9. ASSUME NEW t \in tasks PROVE TaskInv(t)'
    <3>1. t.by \in Creators /\ call[t.by].at = "created"
      BY DEF CreateInv, CreateTypes, TaskRow, TaskInv
    <3>2. call'[t.by] = call[t.by] /\ HeldGrows(t.by)
      BY <1>1, <2>4, <2>6, <3>1
    <3> QED
      BY <2>6, <3>2, TaskStays DEF HeldGrows
  <2>10. ASSUME NEW t, t = new PROVE TaskInv(t)'
    <3>1. /\ BaseInv(t.base, call[c].began, EffectiveBaseRef(t.request.ref, t.default))
          /\ t.mode = "clean" \/ t.request.expectFail => ~HasGitlinks(t.base)
          /\ t.request.needsRunner => HasPathAtCommit(t.base)
          /\ \A v \in DOMAIN Build : recorded[v] = Build[v]
      BY <1>1, <2>3, <2>10 DEF CallInv, WorkInv
    <3>2. IF t.request.mode # None THEN t.mode = t.request.mode ELSE t.mode \in held[c]
      BY <1>1, <2>3, <2>10 DEF Mode
    <3>3. t.by = c /\ call'[t.by].at = "created" /\ call'[t.by].began = call[c].began
      BY <2>2, <2>3, <2>4, <2>10
    <3> QED
      BY <1>1, <1>2, <3>1, <3>2, <3>3
      DEF TaskInv, BaseInv, EffectiveBaseRef, repoVars, HasGitlinks, HasPathAtCommit
  <2>11. \A r \in runs : RunInv(r)'
    BY DEF CreateInv, RunInv, HasGitlinks
  <2> QED
    BY <1>2, <2>1, <2>5, <2>8, <2>9, <2>10, <2>11 DEF CreateInv
<1> QED
  BY <1>3, <1>4

-----------------------------------------------------------------------------
(*                               Everybody else                            *)

(* A run of a task; an operator's choice; a person's commit or switch. *)
LEMMA OtherStep ==
  ASSUME MigrateInv, CreateInv,
         \/ \E t \in tasks : RunTask(t)
         \/ \E mode \in Modes : ChooseMode(mode)
         \/ \E b \in Branches : PersonCommits(b) \/ PersonSwitches(b)
  PROVE  CreateInv'
<1>1. call' = call /\ tasks' = tasks /\ recorded' = recorded
  BY DEF RunTask, ChooseMode, PersonCommits, PersonSwitches, migrateVars
<1>2. /\ refs \in [Branches -> Nat] /\ held \in [Creators -> SUBSET Modes]
      /\ project \in ProjectRow \cup {None} /\ tasks \subseteq TaskRow
      /\ None \notin Modes /\ None \notin ProjectRow
  BY TaskCreationAssumption DEF CreateInv, CreateTypes, ProjectRow
<1>3. RowsStay
  BY <1>1 DEF RowsStay
<1>4. ASSUME CreateTypes', RefsGrow, \A d \in Creators : HeldGrows(d),
             chosen' # None => project' # None /\ project'.mode = chosen',
             \A r \in runs' : RunInv(r)'
      PROVE  CreateInv'
  <2>1. ASSUME NEW d \in Creators PROVE CallInv(d)'
    BY <1>1, <1>3, <1>4, CallStays
  <2>2. ASSUME NEW t \in tasks PROVE TaskInv(t)'
    BY <1>1, <1>2, <1>3, <1>4, TaskStays DEF HeldGrows, TaskRow
  <2> QED
    BY <1>1, <1>4, <2>1, <2>2 DEF CreateInv
<1>5. ASSUME NEW t \in tasks, RunTask(t) PROVE CreateInv'
  <2> DEFINE base == refs[EffectiveBaseRef(t.request.ref, project.branch)]
             new == [task |-> t, base |-> base, moved |-> base # t.base,
                     gate |-> t.request.expectFail,
                     judged |-> ~(t.mode = "clean" /\ HasGitlinks(base))]
  <2>1. /\ runs' = runs \cup {new}
        /\ UNCHANGED <<refs, checked, project, chosen, held>>
    BY <1>5 DEF RunTask, repoVars
  <2>2. CreateTypes' /\ RefsGrow /\ \A d \in Creators : HeldGrows(d)
    BY <1>1, <1>2, <2>1 DEF CreateInv, CreateTypes, RefsGrow, HeldGrows
  <2>3. ASSUME NEW r, r = new PROVE RunInv(r)
    <3>1. t.mode = "clean" \/ t.request.expectFail => ~HasGitlinks(t.base)
      BY DEF CreateInv, TaskInv
    <3>2. CASE base # t.base
      BY <2>3, <3>2 DEF RunInv
    <3>3. CASE base = t.base
      <4>1. /\ r.base = t.base /\ r.gate = t.request.expectFail
            /\ r.judged = ~(t.mode = "clean" /\ HasGitlinks(t.base))
        BY <2>3, <3>3
      <4> QED
        BY <3>1, <4>1 DEF RunInv
    <3> QED
      BY <3>2, <3>3
  <2>4. \A r \in runs' : RunInv(r)'
    BY <2>1, <2>3 DEF CreateInv, RunInv, HasGitlinks
  <2> QED
    BY <1>4, <2>1, <2>2, <2>4 DEF CreateInv
<1>6. ASSUME NEW mode \in Modes, ChooseMode(mode) PROVE CreateInv'
  <2>1. /\ project' = [project EXCEPT !.mode = mode] /\ project \in ProjectRow
        /\ chosen' = mode
        /\ held' = [c \in Creators |-> held[c] \cup {mode}]
        /\ UNCHANGED <<refs, checked, runs>>
    BY <1>2, <1>6 DEF ChooseMode, repoVars
  <2>2. project' \in ProjectRow /\ project'.mode = mode
    BY <2>1 DEF ProjectRow
  <2>3. CreateTypes'
    BY <1>1, <1>2, <2>1, <2>2 DEF CreateInv, CreateTypes
  <2>4. RefsGrow /\ \A d \in Creators : HeldGrows(d)
    BY <1>2, <2>1, <2>2 DEF RefsGrow, HeldGrows
  <2>5. \A r \in runs' : RunInv(r)'
    BY <2>1 DEF CreateInv, RunInv, HasGitlinks
  <2> QED
    BY <1>2, <1>4, <2>1, <2>2, <2>3, <2>4, <2>5
<1>7. ASSUME NEW b \in Branches, PersonCommits(b) \/ PersonSwitches(b) PROVE CreateInv'
  <2>1. UNCHANGED <<project, chosen, held, runs>>
    BY <1>7 DEF PersonCommits, PersonSwitches
  <2>2. RefsGrow /\ checked' \in Branches
    <3>1. CASE PersonCommits(b)
      <4>1. PICK n \in (refs[b] + 1)..Len(History) : refs' = [refs EXCEPT ![b] = n]
        BY <3>1 DEF PersonCommits
      <4>2. n \in Nat /\ refs[b] <= n /\ checked' = checked
        BY <1>2, <3>1, <4>1, TaskCreationAssumption DEF PersonCommits
      <4> QED
        BY <1>2, <4>1, <4>2 DEF RefsGrow, CreateInv, CreateTypes
    <3>2. CASE PersonSwitches(b)
      BY <1>2, <3>2 DEF PersonSwitches, RefsGrow
    <3> QED
      BY <1>7, <3>1, <3>2
  <2>3. CreateTypes'
    BY <1>1, <1>2, <2>1, <2>2 DEF CreateInv, CreateTypes, RefsGrow
  <2>4. (\A d \in Creators : HeldGrows(d)) /\ \A r \in runs' : RunInv(r)'
    BY <2>1 DEF HeldGrows, CreateInv, RunInv, HasGitlinks
  <2> QED
    BY <1>4, <2>1, <2>2, <2>3, <2>4 DEF CreateInv
<1> QED
  BY <1>5, <1>6, <1>7

-----------------------------------------------------------------------------
(*                               The theorems                              *)

(* Every creation, registration, run, choice and commit keeps the          *)
(* invariant.                                                              *)
LEMMA CreateStep ==
  ASSUME MigrateInv, CreateInv, CreateNext
  PROVE  CreateInv'
  BY OpenAppStep, ValidateStep, CheckStep, FailsStep, LookUpStep, EnsureStep, ResolveStep,
     InsertStep, StoreStep, OtherStep DEF CreateNext

(* A creation leaves the migrations alone. *)
LEMMA CreateLeavesMigrations == CreateNext => UNCHANGED migrateVars
  BY ZenonT(30) DEF CreateNext, OpenApp, Validate, BuildTask, StoreTask, EnsureInserts, LookUp,
         PinsSubmodules, EnsureBegins, ResolveBase, CheckGitlinks, Fails, RunTask, ChooseMode,
         PersonCommits, PersonSwitches

(* The invariant speaks of the state only. *)
LEMMA MigrateStutters == MigrateInv /\ UNCHANGED migrateVars => MigrateInv'
  BY DEF MigrateInv, MigrateTypes, LockInv, SchemaInv, PlaceInv, ResultInv, migrateVars

(* A migration leaves what creation knows: a row that agrees with a build  *)
(* still does.                                                             *)
LEMMA CreateUnderMigration ==
  ASSUME MigrateInv, CreateInv, RowsStay, UNCHANGED createVars
  PROVE  CreateInv'
<1>1. UNCHANGED <<refs, checked, project, chosen, call, held, tasks, runs>>
  BY DEF createVars, repoVars
<1>2. RefsGrow /\ \A d \in Creators : HeldGrows(d)
  BY <1>1 DEF CreateInv, CreateTypes, RefsGrow, HeldGrows
<1>3. \A d \in Creators : CallInv(d)'
  BY <1>1, <1>2, CallStays
<1>4. \A t \in tasks : TaskInv(t)'
  BY <1>1, <1>2, TaskStays DEF HeldGrows, CreateInv, CreateTypes, TaskRow
<1>5. CreateTypes' /\ \A r \in runs' : RunInv(r)'
  BY <1>1 DEF CreateInv, CreateTypes, RunInv, HasGitlinks
<1> QED
  BY <1>1, <1>3, <1>4, <1>5 DEF CreateInv

(* The invariant holds at first. *)
LEMMA Starts == Init => IInv
<1> SUFFICES ASSUME Init PROVE IInv
  OBVIOUS
<1>1. MigrateInv
  BY MigrateStarts DEF Init
<1>2. refs \in [Branches -> Nat]
  BY DEF Init
<1>3. Idle \in CallRow /\ Idle.at = "idle"
  BY DEF Idle, CallRow, Steps
<1>4. CreateTypes
  BY <1>2, <1>3 DEF Init, CreateTypes
<1>5. \A c \in Creators : CallInv(c)
  BY <1>3 DEF Init, CallInv
<1> QED
  BY <1>1, <1>4, <1>5 DEF Init, IInv, CreateInv

(* The migrations and the creations keep the invariant, in any order and   *)
(* for any number of them (Migrate, CreateTask, EnsureProject).            *)
THEOREM Invariance == Spec => []IInv
<1>1. Init => IInv
  BY Starts
<1>2. IInv /\ [Next]_vars => IInv'
  <2> SUFFICES ASSUME IInv, [Next]_vars PROVE IInv'
    OBVIOUS
  <2>1. MigrateInv /\ CreateInv
    BY DEF IInv
  <2>2. CASE MigrateNext /\ UNCHANGED createVars
    BY <2>1, <2>2, MigrateStep, CreateUnderMigration DEF IInv
  <2>3. CASE CreateNext
    BY <2>1, <2>3, CreateStep, CreateLeavesMigrations, MigrateStutters DEF IInv
  <2>4. CASE UNCHANGED vars
    <3>1. UNCHANGED migrateVars /\ UNCHANGED createVars
      BY <2>4 DEF vars
    <3>2. RowsStay
      BY <3>1 DEF migrateVars, RowsStay
    <3> QED
      BY <2>1, <3>1, <3>2, MigrateStutters, CreateUnderMigration DEF IInv
  <2> QED
    BY <2>2, <2>3, <2>4 DEF Next
<1> QED
  BY <1>1, <1>2, PTL DEF Spec

(* The database goes through every migration once and in order, a call     *)
(* that reports success leaves a schema that agrees with its files, and no *)
(* call fails because another was faster, for any number of processes of   *)
(* any builds that fail or die anywhere (Migrate).                         *)
THEOREM MigrationsOnce == Spec => []MigratedOnce
<1>1. IInv => MigratedOnce
  <2> SUFFICES ASSUME IInv PROVE MigratedOnce
    OBVIOUS
  <2>1. schema \in Seq(Nat \X STRING) /\ SchemaInv /\ ResultInv
    BY DEF IInv, MigrateInv, MigrateTypes
  <2>2. schema = [i \in 1..Len(schema) |-> <<i, recorded[i]>>]
    <3>1. /\ schema = [i \in 1..Len(schema) |-> schema[i]]
      BY <2>1
    <3> QED
      BY <2>1, <3>1 DEF SchemaInv
  <2>3. \A v \in Versions : v > Len(schema) => recorded[v] = None
    BY <2>1, VersionsAreNumbers DEF SchemaInv
  <2> QED
    BY <2>1, <2>2, <2>3 DEF MigratedOnce, ResultInv
<1> QED
  BY <1>1, Invariance, PTL

(* Whatever creation checked holds of the commit the task records, and a   *)
(* run whose base has not moved since can be judged, for any number of     *)
(* creators, branches and commits (CreateTask, prepareWorktree).           *)
THEOREM ChecksHold == Spec => []CreatedAsChecked
<1>1. IInv => CreatedAsChecked
  BY DEF IInv, CreateInv, TaskInv, RunInv, BaseInv, CreatedAsChecked
<1> QED
  BY <1>1, Invariance, PTL

(* The operator's setting survives every registration, and a task has the  *)
(* mode it was asked for or one its project had meanwhile (EnsureProject,  *)
(* SetProjectVerificationMode, CreateTask).                                *)
THEOREM SettingStands == Spec => []SettingsStand
<1>1. IInv => SettingsStand
  BY DEF IInv, CreateInv, TaskInv, SettingsStand
<1> QED
  BY <1>1, Invariance, PTL

-----------------------------------------------------------------------------
(*                   The algorithms: numbers and sets                      *)

(* Every set of numbers that is not empty has a least one. *)
LEMMA LeastNumber ==
  ASSUME NEW T \in SUBSET Nat, T # {}
  PROVE  \E x \in T : \A y \in T : x <= y
  <1>1. PICK x \in T : \A y \in T : ~(<<y, x>> \in OpToRel(<, Nat))
    BY NatLessThanWellFounded, WFMin
  <1>2. \A y \in T : ~(<<y, x>> \in OpToRel(<, Nat)) => x <= y
    BY DEF OpToRel
  <1> QED BY <1>1, <1>2

-----------------------------------------------------------------------------
(*                 The algorithms: protected patterns                      *)

(* What Match computes of the i-th segment, given what it computes of the  *)
(* next one.                                                               *)
Places(pattern, path, i, next) ==
  IF i > Len(pattern) THEN {Len(path) + 1}
  ELSE IF pattern[i] = P!AnyDepth THEN {j \in 1..(Len(path) + 1) : \E k \in next : j <= k}
  ELSE {j \in DOMAIN path : P!MatchesSeg(pattern[i], path[j]) /\ j + 1 \in next}

AllPlaces(pattern, path, f) ==
  [i \in 1..(Len(pattern) + 1) |-> Places(pattern, path, i, f[i + 1])]

LEMMA MatchIsPlaces ==
  ASSUME NEW pattern, NEW path, NEW h, h = AllPlaces(pattern, path, h)
  PROVE  \E f : f = AllPlaces(pattern, path, f) /\ P!Match(pattern, path) = (1 \in f[1])
  <1>1. PICK f : f = (CHOOSE g : g = AllPlaces(pattern, path, g))
    OBVIOUS
  <1>2. f = AllPlaces(pattern, path, f)
    BY <1>1
  <1>3. P!Match(pattern, path) = (1 \in (CHOOSE g : g = AllPlaces(pattern, path, g))[1])
    BY Zenon DEF P!Match, Places, AllPlaces
  <1> QED BY <1>1, <1>2, <1>3

(* The places exist: they are found from the last segment up. *)
LEMMA PlacesExist ==
  ASSUME NEW pattern, NEW path, Len(pattern) \in Nat
  PROVE  \E f : f = AllPlaces(pattern, path, f)
  <1> DEFINE last == Len(pattern) + 1
             Found(f, n) == \A i \in n..last : f[i] = Places(pattern, path, i, f[i + 1])
             missing == {x \in 0..Len(pattern) :
                           ~\E f : DOMAIN f = 1..last /\ Found(f, last - x)}
  <1>1. missing = {}
    <2> SUFFICES ASSUME missing # {} PROVE FALSE
      OBVIOUS
    <2>0. missing \in SUBSET Nat
      OBVIOUS
    <2>1. PICK x \in missing : \A y \in missing : x <= y
      <3> HIDE DEF missing
      <3> QED BY <2>0, LeastNumber
    <2>2. ~\E f : DOMAIN f = 1..last /\ Found(f, last - x)
      BY <2>1
    <2>3. CASE x = 0
      <3>1. PICK g : g = [i \in 1..last |-> Places(pattern, path, i, {})]
        OBVIOUS
      <3>2. Found(g, last)
        BY <3>1 DEF Places
      <3> QED BY <3>1, <3>2, <2>2, <2>3
    <2>4. CASE x > 0
      <3>1. PICK g : DOMAIN g = 1..last /\ Found(g, last - (x - 1))
        <4>1. x - 1 \in 0..Len(pattern) /\ ~(x <= x - 1)
          BY <2>4
        <4>2. x - 1 \notin missing
          <5> HIDE DEF missing
          <5> QED BY <4>1, <2>1
        <4> QED BY <4>1, <4>2
      <3>2. PICK h : h = [i \in 1..last |->
                            IF i = last - x THEN Places(pattern, path, i, g[i + 1]) ELSE g[i]]
        OBVIOUS
      <3>3. Found(h, last - x)
        <4> SUFFICES ASSUME NEW i \in (last - x)..last
                     PROVE  h[i] = Places(pattern, path, i, h[i + 1])
          OBVIOUS
        <4>1. i \in 1..last /\ last - x \in 1..last
          BY <2>1
        <4>2. CASE i = last
          <5>1. h[i] = g[i]
            BY <4>1, <4>2, <2>4, <3>2
          <5>2. i \in (last - (x - 1))..last
            BY <4>1, <4>2, <2>4
          <5>3. g[i] = Places(pattern, path, i, g[i + 1])
            BY <3>1, <5>2
          <5> QED BY <5>1, <5>3, <4>2 DEF Places
        <4>3. CASE i # last
          <5>1. i + 1 \in 1..last /\ i + 1 # last - x
            BY <4>1, <4>3
          <5>2. h[i + 1] = g[i + 1]
            BY <5>1, <3>2
          <5>3. i # last - x => g[i] = Places(pattern, path, i, g[i + 1])
            <6>1. i # last - x => i \in (last - (x - 1))..last
              BY <4>1
            <6> QED BY <3>1, <6>1
          <5> QED BY <5>2, <5>3, <4>1, <3>2
        <4> QED BY <4>2, <4>3
      <3>4. DOMAIN h = 1..last
        BY <3>2
      <3> QED BY <2>2, <3>3, <3>4
    <2> QED BY <2>1, <2>3, <2>4
  <1>2. PICK f : DOMAIN f = 1..last /\ Found(f, 1)
    <2>1. Len(pattern) \in 0..Len(pattern) /\ last - Len(pattern) = 1
      OBVIOUS
    <2>2. Len(pattern) \notin missing
      BY <1>1
    <2> QED BY <2>1, <2>2
  <1>3. PICK h : h = [i \in 1..last |-> f[i]]
    OBVIOUS
  <1>4. \A i \in 1..last : h[i] = Places(pattern, path, i, h[i + 1])
    BY <1>2, <1>3 DEF Places
  <1>5. h = AllPlaces(pattern, path, h)
    BY <1>3, <1>4 DEF AllPlaces
  <1> QED BY <1>5

(* Match, by the places from which on a pattern matches. *)
LEMMA MatchUnfolds ==
  ASSUME NEW pattern, NEW path, Len(pattern) \in Nat
  PROVE  \E f : /\ \A i \in 1..(Len(pattern) + 1) : f[i] = Places(pattern, path, i, f[i + 1])
                /\ P!Match(pattern, path) = (1 \in f[1])
  <1>1. PICK f : f = AllPlaces(pattern, path, f) /\ P!Match(pattern, path) = (1 \in f[1])
    BY MatchIsPlaces, PlacesExist
  <1>2. \A i \in 1..(Len(pattern) + 1) : f[i] = Places(pattern, path, i, f[i + 1])
    BY <1>1 DEF AllPlaces
  <1> QED BY <1>1, <1>2

(* A pattern of one segment matches the names that the segment matches.    *)
LEMMA MatchOneName ==
  ASSUME NEW seg, NEW name
  PROVE  P!Match(<<seg>>, <<name>>) <=> P!MatchesSeg(seg, name)
  <1> DEFINE pattern == <<seg>>
             path == <<name>>
  <1>0. Len(pattern) = 1 /\ Len(path) = 1 /\ DOMAIN path = {1} /\ pattern[1] = seg /\ path[1] = name
    OBVIOUS
  <1> HIDE DEF pattern, path
  <1>1. PICK f : /\ \A i \in 1..(Len(pattern) + 1) : f[i] = Places(pattern, path, i, f[i + 1])
                 /\ P!Match(pattern, path) = (1 \in f[1])
    BY <1>0, MatchUnfolds
  <1>2. f[2] = {2} /\ f[1] = Places(pattern, path, 1, f[2])
    BY <1>0, <1>1 DEF Places
  <1>3. (1 \in f[1]) <=> P!MatchesSeg(seg, name)
    <2>1. CASE seg = P!AnyDepth
      <3>1. P!MatchesSeg(seg, name)
        BY <2>1 DEF P!MatchesSeg, P!Wild, P!AnyDepth, P!Seg
      <3>2. f[1] = {j \in 1..2 : \E k \in {2} : j <= k}
        BY <1>0, <1>2, <2>1 DEF Places
      <3> QED BY <3>1, <3>2
    <2>2. CASE seg # P!AnyDepth
      <3>1. f[1] = {j \in {1} : P!MatchesSeg(seg, path[j]) /\ j + 1 \in {2}}
        BY <1>0, <1>2, <2>2 DEF Places
      <3> QED BY <3>1, <1>0
    <2> QED BY <2>1, <2>2
  <1> QED BY <1>1, <1>3 DEF pattern, path

(* A segment matches the name that stands for it.                          *)
LEMMA PlaceholderMatches ==
  ASSUME NEW seg
  PROVE  /\ P!MatchesSeg(seg, P!magicPlaceholder(seg))
         /\ P!Wild(seg) => P!magicPlaceholder(seg) # seg
  <1>1. CASE ~P!Wild(seg)
    BY <1>1 DEF P!MatchesSeg, P!magicPlaceholder
  <1>2. CASE P!Wild(seg)
    <2>1. P!magicPlaceholder(seg) = [stem |-> "__aidev_protected_probe__", ext |-> seg.ext]
      BY <1>2 DEF P!magicPlaceholder, P!probe, P!Seg
    <2>2. P!MatchesSeg(seg, P!magicPlaceholder(seg))
      BY <1>2, <2>1 DEF P!MatchesSeg
    <2>3. P!magicPlaceholder(seg) # seg
      BY <1>2, <2>1 DEF P!Wild
    <2> QED BY <2>2, <2>3
  <1> QED BY <1>1, <1>2

(* A pattern matches the path that stands for it.                          *)
LEMMA ResolvedMatches ==
  ASSUME NEW S, NEW pattern \in Seq(S)
  PROVE  P!Match(pattern, P!resolveMagic(pattern))
  <1>1. PICK path : path = P!resolveMagic(pattern)
    OBVIOUS
  <1>2. /\ Len(pattern) \in Nat /\ Len(path) = Len(pattern) /\ DOMAIN path = 1..Len(pattern)
        /\ \A i \in 1..Len(pattern) : path[i] = P!magicPlaceholder(pattern[i])
    BY <1>1 DEF P!resolveMagic
  <1>3. PICK f : /\ \A i \in 1..(Len(pattern) + 1) : f[i] = Places(pattern, path, i, f[i + 1])
                 /\ P!Match(pattern, path) = (1 \in f[1])
    BY <1>2, MatchUnfolds
  <1> DEFINE last == Len(pattern) + 1
             bad == {x \in 0..Len(pattern) : last - x \notin f[last - x]}
  <1>4. bad = {}
    <2> SUFFICES ASSUME bad # {} PROVE FALSE
      OBVIOUS
    <2>0. bad \in SUBSET Nat
      OBVIOUS
    <2>1. PICK x \in bad : \A y \in bad : x <= y
      <3> HIDE DEF bad
      <3> QED BY <2>0, LeastNumber
    <2>2. x \in 0..Len(pattern) /\ last - x \notin f[last - x]
      BY <2>1
    <2>3. x # 0
      <3>1. last \in 1..(Len(pattern) + 1) /\ last > Len(pattern)
        BY <1>2
      <3>2. f[last] = {last}
        BY <3>1, <1>2, <1>3 DEF Places
      <3> QED BY <2>2, <3>1, <3>2, <1>2
    <2>4. x - 1 \in 0..Len(pattern) /\ ~(x <= x - 1)
      BY <2>2, <2>3, <1>2
    <2>5. x - 1 \notin bad
      <3> HIDE DEF bad
      <3> QED BY <2>1, <2>4
    <2>6. PICK i : i = last - x /\ i \in 1..Len(pattern)
      BY <2>2, <2>3, <1>2
    <2>7. i + 1 \in f[i + 1]
      BY <2>4, <2>5, <2>6, <1>2
    <2>8. f[i] = Places(pattern, path, i, f[i + 1])
      BY <1>3, <2>6, <1>2
    <2>9. i \in f[i]
      <3>1. i \in 1..(Len(path) + 1) /\ i \in DOMAIN path /\ i <= Len(pattern)
        BY <2>6, <1>2
      <3>2. P!MatchesSeg(pattern[i], path[i])
        BY <2>6, <1>2, PlaceholderMatches
      <3>3. i <= i + 1
        BY <2>6
      <3> QED BY <3>1, <3>2, <3>3, <2>7, <2>8, <2>6, <1>2 DEF Places
    <2> QED BY <2>2, <2>6, <2>9
  <1>5. 1 \in f[1]
    <2>1. Len(pattern) \in 0..Len(pattern) /\ last - Len(pattern) = 1
      BY <1>2
    <2> QED BY <2>1, <1>4
  <1> QED BY <1>1, <1>3, <1>5

(* A name of a path: neither a wildcard nor what is between two slashes.   *)
IsName(name) == ~P!Wild(name) /\ name # P!Empty

(* What a changed entry is: a path of names, and whether git reported the  *)
(* directory instead of what is in it.                                     *)
Entry(c) ==
  /\ \E N : c.path \in Seq(N) /\ c.path # <<>> /\ \A i \in DOMAIN c.path : IsName(c.path[i])
  /\ c.dir \in BOOLEAN

(* An entry's own path and the directories above it are the beginnings of  *)
(* its path.                                                               *)
LEMMA Beginnings ==
  ASSUME NEW N, NEW path \in Seq(N), path # <<>>
  PROVE  {path} \cup P!ancestors(path) = {SubSeq(path, 1, k) : k \in DOMAIN path}
  <1>1. Len(path) \in Nat \ {0} /\ DOMAIN path = 1..Len(path) /\ SubSeq(path, 1, Len(path)) = path
    OBVIOUS
  <1>2. \A k \in 1..Len(path) : k \in 1..(Len(path) - 1) \/ k = Len(path)
    <2>1. PICK n : n = Len(path) /\ n \in Nat
      OBVIOUS
    <2> QED BY <2>1
  <1>3. \A k \in 1..(Len(path) - 1) : k \in 1..Len(path)
    BY <1>1
  <1>4. Len(path) \in 1..Len(path)
    BY <1>1
  <1> QED BY <1>1, <1>2, <1>3, <1>4, Zenon DEF P!ancestors

(* Of its own path and those above it a pattern matches one exactly if it  *)
(* protects the entry.                                                     *)
LEMMA OneOfThemMatches ==
  ASSUME NEW S, NEW pattern \in Seq(S), pattern # <<>>,
         NEW N, NEW path \in Seq(N), path # <<>>, \A i \in DOMAIN path : IsName(path[i])
  PROVE  P!Protects(pattern, path) <=>
           \E s \in {path} \cup P!ancestors(path) : P!matchOne(pattern, s)
  <1>1. Len(pattern) \in Nat \ {0} /\ Len(path) \in Nat \ {0} /\ DOMAIN path = 1..Len(path)
    OBVIOUS
  <1>2. (\E s \in {path} \cup P!ancestors(path) : P!matchOne(pattern, s))
        <=> \E k \in DOMAIN path : P!matchOne(pattern, SubSeq(path, 1, k))
    BY Beginnings
  <1>3. CASE P!Anchored(pattern)
    BY <1>2, <1>3 DEF P!matchOne, P!Protects
  <1>4. CASE ~P!Anchored(pattern)
    <2>0. Len(pattern) = 1
      <3>1. PICK n : n = Len(pattern) /\ n \in Nat \ {0}
        BY <1>1
      <3>2. ~(n > 1)
        BY <1>4, <3>1 DEF P!Anchored
      <3> QED BY <3>1, <3>2
    <2>1. pattern = <<pattern[1]>>
      BY <2>0
    <2>2. ASSUME NEW k \in DOMAIN path
          PROVE  P!matchOne(pattern, SubSeq(path, 1, k)) <=> P!MatchesSeg(pattern[1], path[k])
      <3>1. P!Last(SubSeq(path, 1, k)) = path[k] /\ path[k] # P!Empty
        BY <1>1 DEF P!Last, IsName
      <3>2. P!matchOne(pattern, SubSeq(path, 1, k)) <=> P!Match(pattern, <<path[k]>>)
        BY <1>4, <3>1 DEF P!matchOne, P!pathBase
      <3> QED BY <3>2, <2>1, MatchOneName
    <2> QED BY <1>2, <1>4, <2>2 DEF P!Protects
  <1> QED BY <1>3, <1>4

(* The path that stands for a pattern lies in a directory that the pattern *)
(* spells out.                                                             *)
LEMMA SpelledOut ==
  ASSUME NEW S, NEW pattern \in Seq(S), NEW N, NEW dir \in Seq(N), dir # <<>>,
         \A i \in DOMAIN dir : ~P!Wild(dir[i]),
         P!Beneath(pattern, dir), P!HasWildcard(pattern)
  PROVE  /\ P!Anchored(pattern)
         /\ P!resolveMagic(pattern) # pattern
         /\ P!IsPrefix(dir, P!resolveMagic(pattern))
  <1>1. PICK path : path = P!resolveMagic(pattern)
    OBVIOUS
  <1>2. /\ Len(pattern) \in Nat /\ Len(dir) \in Nat \ {0} /\ DOMAIN dir = 1..Len(dir)
        /\ Len(pattern) > Len(dir)
        /\ SubSeq(pattern, 1, Len(dir)) = dir /\ DOMAIN pattern = 1..Len(pattern)
    BY DEF P!Beneath
  <1>3. /\ path = [i \in 1..Len(pattern) |-> P!magicPlaceholder(pattern[i])]
        /\ Len(path) = Len(pattern) /\ DOMAIN path = 1..Len(pattern)
        /\ \A i \in 1..Len(pattern) : path[i] = P!magicPlaceholder(pattern[i])
    BY <1>1, <1>2 DEF P!resolveMagic
  <1>4. PICK w \in DOMAIN pattern : P!Wild(pattern[w])
    BY DEF P!HasWildcard
  <1>5. path[w] # pattern[w]
    BY <1>2, <1>3, <1>4, PlaceholderMatches
  <1>6. \A k \in 1..Len(dir) : path[k] = dir[k]
    <2> SUFFICES ASSUME NEW k \in 1..Len(dir) PROVE path[k] = dir[k]
      OBVIOUS
    <2>1. pattern[k] = dir[k] /\ k \in 1..Len(pattern)
      BY <1>2
    <2>2. ~P!Wild(dir[k])
      BY <1>2
    <2> QED BY <1>3, <2>1, <2>2 DEF P!magicPlaceholder
  <1>7. P!IsPrefix(dir, path)
    <2>1. SubSeq(path, 1, Len(dir)) = [i \in 1..Len(dir) |-> path[i]]
      BY <1>2, <1>3
    <2>2. SubSeq(dir, 1, Len(dir)) = [i \in 1..Len(dir) |-> dir[i]]
      BY <1>2
    <2>3. SubSeq(path, 1, Len(dir)) = SubSeq(dir, 1, Len(dir))
      BY <2>1, <2>2, <1>6
    <2> QED BY <2>3, <1>2, <1>3, SMTT(30) DEF P!IsPrefix
  <1> QED BY <1>1, <1>2, <1>5, <1>7 DEF P!Anchored

LEMMA StaysNonempty ==
  ASSUME NEW S, NEW raw \in Seq(S), raw # <<>>
  PROVE  P!normalizePattern(raw) \in Seq(S) /\ P!normalizePattern(raw) # <<>>
  <1>1. Len(raw) > 1 => P!Front(raw) \in Seq(S) /\ P!Front(raw) # <<>>
    <2>1. Len(raw) > 1 => SubSeq(raw, 1, Len(raw) - 1) \in Seq(S)
      OBVIOUS
    <2>2. Len(raw) > 1 => Len(SubSeq(raw, 1, Len(raw) - 1)) # 0
      OBVIOUS
    <2> QED BY <2>1, <2>2 DEF P!Front
  <1> QED BY <1>1 DEF P!normalizePattern

(* What a pattern protects is reported when it is touched, and of single   *)
(* files nothing else, for any entries and any list of patterns that is    *)
(* accepted; a pattern with a redundant "/" or "." is left out, and so is  *)
(* one without a wildcard beneath a directory reported as one entry        *)
(* (NormalizeProtected, Violations).                                       *)
THEOREM ProtectionComplete ==
  ASSUME NEW S, NEW patterns, \A raw \in patterns : raw \in Seq(S) /\ raw # <<>>,
         NEW changed, \A c \in changed : Entry(c)
  PROVE  P!ClaimsTouched(patterns, changed)
  <1>1. PICK stored : stored = P!NormalizeProtected(patterns)
    OBVIOUS
  <1> DEFINE violations == P!Violations(stored, changed)
  <1> SUFFICES ASSUME stored # P!Invalid, violations # P!Invalid,
                      NEW raw \in stored, NEW c \in changed,
                      NEW p, p = P!normalizePattern(raw)
               PROVE  /\ ~c.dir => (<<raw, c>> \in violations <=> P!Protects(p, c.path))
                      /\ c.dir /\ (P!Protects(p, c.path)
                                     \/ (P!Beneath(p, c.path) /\ P!HasWildcard(p)))
                           => <<raw, c>> \in violations
    BY <1>1 DEF P!ClaimsTouched
  <1>2. p \in Seq(S) /\ p # <<>>
    <2>1. PICK given \in patterns : raw = P!normalizePattern(given)
      BY <1>1 DEF P!NormalizeProtected, P!Invalid
    <2>2. raw \in Seq(S) /\ raw # <<>>
      BY <2>1, StaysNonempty
    <2> QED BY <2>2, StaysNonempty
  <1>3. PICK N : c.path \in Seq(N) /\ c.path # <<>> /\ \A i \in DOMAIN c.path : IsName(c.path[i])
    BY DEF Entry
  <1>4. c.dir \in BOOLEAN
    BY DEF Entry
  <1>5. <<raw, c>> \in violations <=> P!matchesProtected(p, c)
    BY DEF P!Violations
  <1>6. P!Protects(p, c.path) <=>
          \E s \in {c.path} \cup P!ancestors(c.path) : P!matchOne(p, s)
    BY <1>2, <1>3, OneOfThemMatches
  <1>7. ~c.dir => P!Subjects(p, c) = {c.path}
    BY DEF P!Subjects
  <1>8. c.path \in P!Subjects(p, c)
    BY DEF P!Subjects
  <1>9. c.dir /\ P!Beneath(p, c.path) /\ P!HasWildcard(p) => P!matchesProtected(p, c)
    <2> SUFFICES ASSUME c.dir, P!Beneath(p, c.path), P!HasWildcard(p)
                 PROVE  P!matchesProtected(p, c)
      OBVIOUS
    <2>0. \A i \in DOMAIN c.path : ~P!Wild(c.path[i])
      BY <1>3 DEF IsName
    <2>1. P!resolveMagic(p) \in P!Subjects(p, c)
      BY <2>0, <1>2, <1>3, SpelledOut DEF P!Subjects
    <2>2. P!matchOne(p, P!resolveMagic(p))
      BY <2>0, <1>2, <1>3, SpelledOut, ResolvedMatches DEF P!matchOne
    <2> QED BY <2>1, <2>2 DEF P!matchesProtected
  <1> QED BY <1>4, <1>5, <1>6, <1>7, <1>8, <1>9 DEF P!matchesProtected

-----------------------------------------------------------------------------
(*                  The algorithms: the pages of a log                     *)

LEMMA MinOf ==
  ASSUME NEW T \in SUBSET Nat, T # {}
  PROVE  Min(T) \in T /\ \A y \in T : Min(T) <= y
  <1>1. \E x \in T : \A y \in T : x <= y
    BY LeastNumber
  <1> QED BY <1>1 DEF Min

LEMMA MaxOf ==
  ASSUME NEW n \in Nat, NEW T \in SUBSET (0..n), T # {}
  PROVE  Max(T) \in T /\ \A y \in T : y <= Max(T)
  <1> DEFINE U == {x \in 0..n : n - x \in T}
  <1>1. U \in SUBSET Nat /\ U # {}
    <2>1. PICK t \in T : TRUE
      OBVIOUS
    <2>2. n - t \in 0..n /\ n - (n - t) = t
      BY <2>1
    <2>3. n - t \in U
      BY <2>1, <2>2
    <2> QED BY <2>3
  <1>2. PICK u \in U : \A y \in U : u <= y
    <2> HIDE DEF U
    <2> QED BY <1>1, LeastNumber
  <1>3. n - u \in T /\ u \in 0..n
    BY <1>2
  <1>4. ASSUME NEW y \in T PROVE y <= n - u
    <2>1. n - y \in 0..n /\ n - (n - y) = y
      OBVIOUS
    <2>2. n - y \in U
      BY <2>1
    <2>3. u <= n - y
      <3> HIDE DEF U
      <3> QED BY <1>2, <2>2
    <2> QED BY <2>3, <1>3, <2>1
  <1> QED BY <1>3, <1>4 DEF Max

(* Whether a character starts at a position.                               *)
Start(s, i) == i = 0 \/ s[i + 1]

(* The start of the character that a byte belongs to.                      *)
LEMMA RuneStart ==
  ASSUME NEW s \in Seq(BOOLEAN), IsText(s), NEW i \in Nat
  PROVE  /\ runeStart(s, i) \in 0..i
         /\ i >= Len(s) => runeStart(s, i) = i
         /\ i < Len(s) => /\ Start(s, runeStart(s, i))
                          /\ runeStart(s, i) >= i - 3
                          /\ \A k \in 0..i : Start(s, k) => k <= runeStart(s, i)
  <1>1. CASE i >= Len(s)
    BY <1>1 DEF runeStart
  <1>2. CASE i < Len(s)
    <2> DEFINE T == {j \in 0..i : j = 0 \/ s[j + 1]}
    <2>1. runeStart(s, i) = Max(T)
      BY <1>2 DEF runeStart
    <2>2. T \in SUBSET (0..i) /\ 0 \in T
      OBVIOUS
    <2>3. Max(T) \in T /\ \A y \in T : y <= Max(T)
      <3> HIDE DEF T
      <3> QED BY <2>2, MaxOf
    <2>4. PICK j \in (i + 1 - 3)..(i + 1) : j \in DOMAIN s /\ s[j]
      <3>1. i + 1 \in DOMAIN s
        BY <1>2
      <3> QED BY <3>1 DEF IsText
    <2>5. j - 1 \in 0..i /\ j - 1 + 1 = j
      BY <2>4
    <2>6. j - 1 \in T
      BY <2>4, <2>5
    <2>7. \A k \in 0..i : Start(s, k) => k \in T
      BY DEF Start
    <2>8. Start(s, Max(T)) /\ Max(T) \in 0..i
      BY <2>3 DEF Start
    <2>9. Max(T) >= i - 3
      <3>1. j - 1 <= Max(T)
        <4> HIDE DEF T
        <4> QED BY <2>3, <2>6
      <3> QED BY <3>1, <2>4, <2>8
    <2>10. \A k \in 0..i : Start(s, k) => k <= Max(T)
      <3> HIDE DEF T
      <3> QED BY <2>3, <2>7
    <2> HIDE DEF T
    <2> QED BY <1>2, <2>1, <2>8, <2>9, <2>10
  <1>3. Len(s) \in Nat
    OBVIOUS
  <1> QED BY <1>1, <1>2, <1>3

LEMMA RunesInOrder ==
  ASSUME NEW s \in Seq(BOOLEAN), IsText(s), NEW i \in Nat, NEW j \in Nat, i <= j
  PROVE  runeStart(s, i) <= runeStart(s, j)
  <1>1. Len(s) \in Nat
    OBVIOUS
  <1>2. runeStart(s, i) \in 0..i /\ runeStart(s, j) \in 0..j
    BY RuneStart
  <1>3. CASE j >= Len(s)
    <2>1. runeStart(s, j) = j
      BY <1>3, RuneStart
    <2> QED BY <2>1, <1>2
  <1>4. CASE j < Len(s)
    <2>1. i < Len(s)
      BY <1>1, <1>4
    <2>2. Start(s, runeStart(s, i))
      BY <2>1, RuneStart
    <2>3. runeStart(s, i) \in 0..j
      BY <1>2
    <2> QED BY <1>4, <2>2, <2>3, RuneStart
  <1> QED BY <1>1, <1>3, <1>4

(* A position where no character is cut in two.                            *)
Whole(s, i) == i \in {0, Len(s)} \/ s[i + 1]

(* The widest character of a text, as PagesFit has it.                     *)
Widths(s) == {w \in 1..4 : \E i \in 1..(Len(s) - w + 1) :
                s[i] /\ \A j \in (i + 1)..(i + w - 1) : ~s[j]}
Widest(s) == Max({0} \cup Widths(s))

LEMMA WidestIsWidest ==
  ASSUME NEW s, NEW w \in Widths(s)
  PROVE  Widest(s) \in Nat /\ w <= Widest(s)
  <1> DEFINE T == {0} \cup Widths(s)
  <1>1. T \in SUBSET (0..4) /\ T # {} /\ w \in T
    BY DEF Widths
  <1>2. Max(T) \in T /\ \A y \in T : y <= Max(T)
    <2> HIDE DEF T
    <2> QED BY <1>1, MaxOf
  <1>3. Widest(s) = Max(T)
    BY Zenon DEF Widest
  <1> HIDE DEF T
  <1>4. Max(T) \in 0..4 /\ w <= Max(T)
    BY <1>1, <1>2
  <1> QED BY <1>3, <1>4

(* One page of a section, by where it starts and by what it asks for.      *)
LEMMA Window ==
  ASSUME NEW s \in Seq(BOOLEAN), IsText(s), NEW o \in Nat, NEW max \in Nat \ {0}
  PROVE  LET page == window(s, o, max)
             start == runeStart(s, o)
         IN /\ o >= Len(s) => page = <<0, 0>>
            /\ o < Len(s) =>
                 /\ page[1] = start /\ page[2] \in (start + 1)..Len(s)
                 /\ Whole(s, page[1]) /\ Whole(s, page[2])
                 /\ o + max >= Len(s) => page[2] = Len(s)
                 /\ o + max < Len(s) => page[2] >= runeStart(s, o + max)
                 /\ o + max < Len(s) /\ max >= Widest(s) => page[2] = runeStart(s, o + max)
  <1>0. PICK L : L = Len(s) /\ L \in Nat
    OBVIOUS
  <1>1. CASE o >= L
    BY <1>0, <1>1 DEF window
  <1>2. CASE o < L
    <2>1. PICK start : start = runeStart(s, o)
      OBVIOUS
    <2>2. start \in 0..o /\ Start(s, start) /\ Whole(s, start)
      BY <1>0, <1>2, <2>1, RuneStart DEF Whole, Start
    <2>3. CASE o + max >= L
      <3>1. window(s, o, max) = <<start, L>>
        BY <1>0, <1>2, <2>1, <2>3 DEF window
      <3>2. L \in (start + 1)..L /\ Whole(s, L)
        BY <1>0, <1>2, <2>2 DEF Whole
      <3>3. ~(o >= L) /\ ~(o + max < L)
        BY <1>0, <1>2, <2>3
      <3> QED BY <1>0, <1>2, <2>1, <2>2, <2>3, <3>1, <3>2, <3>3
    <2>4. CASE o + max < L
      <3>1. PICK end : end = runeStart(s, o + max)
        OBVIOUS
      <3>2. /\ end \in 0..(o + max) /\ Start(s, end) /\ Whole(s, end) /\ start <= end
            /\ end >= o + max - 3
            /\ \A k \in 0..(o + max) : Start(s, k) => k <= end
        <4>1. o + max \in Nat /\ o <= o + max
          OBVIOUS
        <4>2. start <= end
          BY <2>1, <3>1, <4>1, RunesInOrder
        <4>3. /\ end \in 0..(o + max) /\ Start(s, end) /\ end >= o + max - 3
              /\ \A k \in 0..(o + max) : Start(s, k) => k <= end
          BY <1>0, <2>4, <3>1, <4>1, RuneStart
        <4> QED BY <4>2, <4>3 DEF Whole, Start
      <3>3. CASE end > start
        <4>1. window(s, o, max) = <<start, end>>
          BY <1>0, <1>2, <2>1, <2>4, <3>1, <3>2, <3>3 DEF window
        <4>2. end \in (start + 1)..L
          BY <1>0, <2>2, <2>4, <3>2, <3>3
        <4>3. ~(o >= L) /\ ~(o + max >= L)
          BY <1>0, <1>2, <2>4
        <4> QED BY <1>0, <1>2, <2>1, <2>2, <2>4, <3>1, <3>2, <4>1, <4>2, <4>3
      <3>4. CASE end = start
        <4> DEFINE T == {j \in (start + 1)..L : j = L \/ s[j + 1]}
        <4>1. window(s, o, max) = <<start, Min(T)>>
          BY <1>0, <1>2, <2>1, <2>4, <3>1, <3>2, <3>4 DEF window
        <4>2. T \in SUBSET Nat /\ L \in T
          BY <1>0, <1>2, <2>2
        <4>3. Min(T) \in T
          <5> HIDE DEF T
          <5> QED BY <4>2, MinOf
        <4>4. Min(T) \in (start + 1)..L /\ Whole(s, Min(T))
          BY <1>0, <4>3 DEF Whole
        <4>5. Min(T) >= end
          BY <3>4, <4>4, <2>2
        <4>6. ~(max >= Widest(s))
          <5>1. max + 1 \in 1..4
            BY <2>2, <3>2, <3>4
          <5>2. s[start + 1] = TRUE
            <6>1. start = 0 => s[start + 1]
              <7>1. 1 \in DOMAIN s
                BY <1>0, <1>2
              <7>2. PICK j \in (1 - 3)..1 : j \in DOMAIN s /\ s[j]
                BY <7>1 DEF IsText
              <7>3. j = 1
                BY <7>2
              <7> QED BY <7>2, <7>3
            <6>2. s[start + 1] \in BOOLEAN
              BY <1>0, <1>2, <2>2
            <6> QED BY <6>1, <6>2, <2>2 DEF Start
          <5>3. start + 1 \in 1..(L - (max + 1) + 1)
            BY <2>2, <2>4, <1>0
          <5>4. ASSUME NEW j \in (start + 1 + 1)..(start + 1 + (max + 1) - 1)
                PROVE  ~s[j]
            <6>1. j - 1 \in 0..(o + max) /\ j - 1 > end /\ j - 1 + 1 = j
              BY <2>2, <3>4
            <6>2. ~Start(s, j - 1)
              BY <6>1, <3>2
            <6> QED BY <6>1, <6>2 DEF Start
          <5>5. max + 1 \in Widths(s)
            BY <1>0, <5>1, <5>2, <5>3, <5>4 DEF Widths
          <5> QED BY <5>5, WidestIsWidest
        <4>7. ~(o >= L) /\ ~(o + max >= L)
          BY <1>0, <1>2, <2>4
        <4> HIDE DEF T
        <4> QED BY <1>0, <1>2, <2>1, <2>2, <2>4, <3>1, <4>1, <4>4, <4>5, <4>6, <4>7
      <3> QED BY <3>2, <3>3, <3>4, <2>2
    <2> QED BY <1>0, <2>3, <2>4
  <1> QED BY <1>0, <1>1, <1>2

(* Some section goes on behind the page at an offset.                      *)
More(texts, req, o) == \E n \in req.sections : Len(texts[n]) > o + req.maxBytes

(* The offsets from o on, given those of the next page.                    *)
From(texts, req, o, next) ==
  IF More(texts, req, o) THEN <<o>> \o next ELSE <<o>>

Offsets(texts, req, f) ==
  [o \in Nat |-> From(texts, req, o, f[o + req.maxBytes])]

LEMMA FollowIsFrom ==
  ASSUME NEW texts, NEW req, req.maxBytes \in Nat \ {0},
         NEW Sections, NEW start,
         req = [sections |-> Sections, offset |-> start, maxBytes |-> req.maxBytes],
         NEW h, h = Offsets(texts, req, h)
  PROVE  \E f : f = Offsets(texts, req, f) /\ Follow(texts, req) = f[0]
  <1> DEFINE Rec(g) == [o \in Nat |->
        LET next == nextOffset(texts, [req EXCEPT !.offset = o])
        IN IF next = 0 THEN <<o>> ELSE <<o>> \o g[next]]
  <1>1. Follow(texts, req) = (CHOOSE g : g = Rec(g))[0]
    BY Zenon DEF Follow
  <1>2. ASSUME NEW g PROVE Rec(g) = Offsets(texts, req, g)
    <2>1. ASSUME NEW o \in Nat
          PROVE  Rec(g)[o] = From(texts, req, o, g[o + req.maxBytes])
      <3>1. nextOffset(texts, [req EXCEPT !.offset = o]) =
              IF More(texts, req, o) THEN o + req.maxBytes ELSE 0
        BY DEF nextOffset, More
      <3>2. o + req.maxBytes # 0
        OBVIOUS
      <3> QED BY <3>1, <3>2 DEF From
    <2> QED BY <2>1 DEF Offsets
  <1> HIDE DEF Rec
  <1>3. PICK f : f = (CHOOSE g : g = Rec(g))
    OBVIOUS
  <1>4. h = Rec(h)
    BY <1>2
  <1>5. f = Rec(f)
    BY <1>3, <1>4
  <1> QED BY <1>1, <1>2, <1>3, <1>5

LEMMA OffsetsExist ==
  ASSUME NEW texts, NEW req, req.maxBytes \in Nat \ {0},
         NEW L \in Nat, \A o \in Nat : o >= L => ~More(texts, req, o)
  PROVE  \E f : f = Offsets(texts, req, f)
  <1> DEFINE max == req.maxBytes
             Found(f, n) == \A o \in Nat : o >= n => f[o] = From(texts, req, o, f[o + max])
             missing == {x \in 0..L : ~\E f : DOMAIN f = Nat /\ Found(f, L - x)}
  <1>1. missing = {}
    <2> SUFFICES ASSUME missing # {} PROVE FALSE
      OBVIOUS
    <2>0. missing \in SUBSET Nat
      OBVIOUS
    <2>1. PICK x \in missing : \A y \in missing : x <= y
      <3> HIDE DEF missing
      <3> QED BY <2>0, LeastNumber
    <2>2. x \in 0..L /\ ~\E f : DOMAIN f = Nat /\ Found(f, L - x)
      BY <2>1
    <2>3. CASE x = 0
      <3>1. PICK g : g = [o \in Nat |-> <<o>>]
        OBVIOUS
      <3>2. Found(g, L)
        BY <3>1 DEF From
      <3>3. L - x = L /\ DOMAIN g = Nat
        BY <3>1, <2>3
      <3> QED BY <3>2, <3>3, <2>2
    <2>4. CASE x > 0
      <3>1. PICK n : n = L - x /\ n \in Nat
        BY <2>2
      <3>2. PICK g : DOMAIN g = Nat /\ Found(g, n + 1)
        <4>1. x - 1 \in 0..L /\ ~(x <= x - 1) /\ L - (x - 1) = n + 1
          BY <2>2, <2>4, <3>1
        <4>2. x - 1 \notin missing
          <5> HIDE DEF missing
          <5> QED BY <4>1, <2>1
        <4> QED BY <4>1, <4>2
      <3>3. PICK h : h = [o \in Nat |-> IF o = n THEN From(texts, req, o, g[o + max]) ELSE g[o]]
        OBVIOUS
      <3>4. \A o \in Nat : h[o] = IF o = n THEN From(texts, req, o, g[o + max]) ELSE g[o]
        BY <3>3
      <3>5. Found(h, n)
        <4> SUFFICES ASSUME NEW o \in Nat, o >= n
                     PROVE  h[o] = From(texts, req, o, h[o + max])
          OBVIOUS
        <4>1. o + max \in Nat /\ o + max # n
          BY <3>1
        <4>2. h[o + max] = g[o + max]
          BY <4>1, <3>4
        <4>3. o # n => g[o] = From(texts, req, o, g[o + max])
          <5>1. o # n => o >= n + 1
            BY <3>1
          <5> QED BY <5>1, <3>2
        <4> QED BY <4>2, <4>3, <3>4
      <3>6. DOMAIN h = Nat
        BY <3>3
      <3> QED BY <2>2, <3>1, <3>5, <3>6
    <2> QED BY <2>2, <2>3, <2>4
  <1>2. PICK f : DOMAIN f = Nat /\ Found(f, 0)
    BY <1>1
  <1>3. PICK h : h = [o \in Nat |-> f[o]]
    OBVIOUS
  <1>4. \A o \in Nat : h[o] = From(texts, req, o, h[o + max])
    BY <1>2, <1>3
  <1>5. h = Offsets(texts, req, h)
    BY <1>3, <1>4 DEF Offsets
  <1> QED BY <1>5

(* Offsets that lead from o to the end, a page apart.                      *)
Leads(texts, req, o, s) ==
  /\ s \in Seq(Nat) /\ Len(s) > 0 /\ s[1] = o
  /\ \A k \in 1..Len(s) : More(texts, req, s[k]) <=> k < Len(s)
  /\ \A k \in 1..(Len(s) - 1) : s[k + 1] = s[k] + req.maxBytes
  /\ \A j, k \in 1..Len(s) : j < k => s[j] + req.maxBytes <= s[k]

LEMMA FollowLeads ==
  ASSUME NEW texts, NEW req, req.maxBytes \in Nat \ {0},
         NEW Sections,
         req = [sections |-> Sections, offset |-> 0, maxBytes |-> req.maxBytes],
         NEW L \in Nat, \A o \in Nat : o >= L => ~More(texts, req, o)
  PROVE  Leads(texts, req, 0, Follow(texts, req))
  <1>1. PICK f : f = Offsets(texts, req, f) /\ Follow(texts, req) = f[0]
    BY OffsetsExist, FollowIsFrom
  <1>2. \A o \in Nat : f[o] = From(texts, req, o, f[o + req.maxBytes])
    BY <1>1 DEF Offsets
  <1> DEFINE bad == {x \in 0..L : ~Leads(texts, req, L - x, f[L - x])}
  <1>3. ASSUME NEW o \in Nat, ~More(texts, req, o)
        PROVE  Leads(texts, req, o, f[o])
    <2>1. f[o] = <<o>>
      BY <1>2, <1>3 DEF From
    <2> QED BY <2>1, <1>3 DEF Leads
  <1>4. ASSUME NEW o \in Nat, More(texts, req, o), Leads(texts, req, o + req.maxBytes, f[o + req.maxBytes])
        PROVE  Leads(texts, req, o, f[o])
    <2>1. PICK t : t = f[o + req.maxBytes] /\ t \in Seq(Nat) /\ Len(t) > 0 /\ t[1] = o + req.maxBytes
      BY <1>4 DEF Leads
    <2>2. PICK s : s = f[o]
      OBVIOUS
    <2>3. s = <<o>> \o t
      BY <1>2, <1>4, <2>1, <2>2 DEF From
    <2>4. /\ s \in Seq(Nat) /\ Len(s) = Len(t) + 1 /\ s[1] = o
          /\ \A k \in 1..Len(t) : s[k + 1] = t[k]
      BY <2>1, <2>3, SMTT(30)
    <2>n. PICK n : n = Len(t) /\ n \in Nat \ {0} /\ Len(s) = n + 1
      <3>1. t \in Seq(Nat) /\ Len(t) > 0 /\ Len(s) = Len(t) + 1
        BY <2>1, <2>4
      <3>2. Len(t) \in Nat \ {0}
        BY <3>1, LenProperties
      <3> QED BY <3>1, <3>2
    <2>5. ASSUME NEW k \in 2..Len(s)
          PROVE  k - 1 \in 1..Len(t) /\ s[k] = t[k - 1] /\ t[k - 1] \in Nat
      <3>1. PICK i : i = k - 1 /\ i \in 1..Len(t) /\ i + 1 = k
        <4>1. k \in 2..(n + 1)
          BY <2>n
        <4> QED BY <4>1, <2>n
      <3>2. t[i] \in Nat
        <4>1. t \in Seq(Nat) /\ i \in 1..Len(t)
          BY <2>1, <3>1
        <4> QED BY <4>1, ElementOfSeq
      <3>3. s[i + 1] = t[i]
        BY <2>4, <3>1
      <3> QED BY <3>1, <3>2, <3>3
    <2>6. ASSUME NEW k \in 1..Len(s)
          PROVE  More(texts, req, s[k]) <=> k < Len(s)
      <3>1. CASE k = 1
        BY <3>1, <1>4, <2>1, <2>4
      <3>2. CASE k # 1
        <4>1. k \in 2..Len(s)
          BY <3>2
        <4>2. More(texts, req, t[k - 1]) <=> k - 1 < Len(t)
          BY <4>1, <1>4, <2>1, <2>5 DEF Leads
        <4>3. s[k] = t[k - 1] /\ (k - 1 < Len(t) <=> k < Len(s))
          BY <4>1, <2>5, <2>n
        <4> QED BY <4>2, <4>3
      <3> QED BY <3>1, <3>2
    <2>7. \A k \in 1..(Len(s) - 1) : s[k + 1] = s[k] + req.maxBytes
      <3> SUFFICES ASSUME NEW k \in 1..(Len(s) - 1) PROVE s[k + 1] = s[k] + req.maxBytes
        OBVIOUS
      <3>0. k \in 1..Len(t) /\ s[k + 1] = t[k]
        BY <2>1, <2>4
      <3>1. CASE k = 1
        BY <3>0, <3>1, <2>1, <2>4
      <3>2. CASE k # 1
        <4>1. PICK i : i = k - 1 /\ i \in 1..(Len(t) - 1) /\ i + 1 = k
          <5>1. k \in 1..n
            BY <2>n
          <5> QED BY <5>1, <3>2, <2>n
        <4>2. k \in 2..Len(s)
          BY <3>2, <2>4
        <4>3. t[i + 1] = t[i] + req.maxBytes
          BY <4>1, <1>4, <2>1 DEF Leads
        <4>4. s[k] = t[i]
          BY <4>1, <4>2, <2>5
        <4> QED BY <3>0, <4>1, <4>3, <4>4
      <3> QED BY <3>1, <3>2
    <2>8. \A j, k \in 1..Len(s) : j < k => s[j] + req.maxBytes <= s[k]
      <3> SUFFICES ASSUME NEW j \in 1..Len(s), NEW k \in 1..Len(s), j < k
                   PROVE  s[j] + req.maxBytes <= s[k]
        OBVIOUS
      <3>0. k \in 2..Len(s) /\ k - 1 \in 1..Len(t) /\ s[k] = t[k - 1] /\ t[k - 1] \in Nat
        <4>1. k \in 2..Len(s)
          BY <2>4
        <4> QED BY <4>1, <2>5
      <3>1. CASE j = 1
        <4>1. t[1] <= t[k - 1]
          <5>1. CASE k = 2
            BY <5>1, <2>1
          <5>2. CASE k # 2
            <6>1. 1 < k - 1 /\ 1 \in 1..Len(t)
              BY <5>2, <3>0
            <6>2. t[1] + req.maxBytes <= t[k - 1]
              BY <6>1, <3>0, <1>4, <2>1 DEF Leads
            <6> QED BY <6>2, <2>1, <3>0, SMTT(30)
          <5> QED BY <5>1, <5>2
        <4> QED BY <4>1, <3>1, <2>1, <2>4, <3>0
      <3>2. CASE j # 1
        <4>1. j \in 2..Len(s) /\ j - 1 < k - 1
          BY <3>2
        <4> QED BY <4>1, <3>0, <1>4, <2>1, <2>5 DEF Leads
      <3> QED BY <3>1, <3>2
    <2>9. Len(s) > 0
      BY <2>1, <2>4
    <2> QED BY <2>2, <2>4, <2>6, <2>7, <2>8, <2>9 DEF Leads
  <1>5. bad = {}
    <2> SUFFICES ASSUME bad # {} PROVE FALSE
      OBVIOUS
    <2>0. bad \in SUBSET Nat
      OBVIOUS
    <2>1. PICK x \in bad : \A y \in bad : x <= y
      <3> HIDE DEF bad
      <3> QED BY <2>0, LeastNumber
    <2>2. PICK o : o = L - x /\ o \in Nat /\ ~Leads(texts, req, o, f[o]) /\ x \in 0..L
      BY <2>1
    <2>3. More(texts, req, o)
      BY <1>3, <2>2
    <2>4. CASE o + req.maxBytes >= L
      <3>1. o + req.maxBytes \in Nat
        BY <2>2
      <3>2. Leads(texts, req, o + req.maxBytes, f[o + req.maxBytes])
        BY <1>3, <2>4, <3>1
      <3> QED BY <1>4, <2>2, <2>3, <3>2
    <2>5. CASE o + req.maxBytes < L
      <3>1. PICK y : y = x - req.maxBytes /\ y \in 0..L /\ ~(x <= y) /\ L - y = o + req.maxBytes
        BY <2>2, <2>5
      <3>2. y \notin bad
        <4> HIDE DEF bad
        <4> QED BY <2>1, <3>1
      <3>3. Leads(texts, req, o + req.maxBytes, f[o + req.maxBytes])
        BY <3>1, <3>2
      <3> QED BY <1>4, <2>2, <2>3, <3>3
    <2>6. o + req.maxBytes \in Int
      BY <2>2
    <2> QED BY <2>4, <2>5, <2>6
  <1>6. Leads(texts, req, 0, f[0])
    <2>1. L \in 0..L /\ L - L = 0
      OBVIOUS
    <2> QED BY <2>1, <1>5
  <1> QED BY <1>1, <1>6

(* Byte b of a section is in the page of an offset.                        *)
Covers(s, max, o, b) == window(s, o, max)[1] <= b /\ b < window(s, o, max)[2]

LEMMA PagesCover ==
  ASSUME NEW s \in Seq(BOOLEAN), IsText(s), NEW max \in Nat \ {0},
         NEW offs \in Seq(Nat), Len(offs) > 0, offs[1] = 0,
         \A k \in 1..(Len(offs) - 1) : offs[k + 1] = offs[k] + max,
         \A j, k \in 1..Len(offs) : j < k => offs[j] + max <= offs[k],
         \A k \in 1..Len(offs) : Len(s) > offs[k] + max => k < Len(offs)
  PROVE  /\ \A k \in 1..Len(offs) : /\ Whole(s, window(s, offs[k], max)[1])
                                    /\ Whole(s, window(s, offs[k], max)[2])
         /\ \A b \in 0..(Len(s) - 1) : \E k \in 1..Len(offs) : Covers(s, max, offs[k], b)
         /\ max >= Widest(s) =>
              \A b \in 0..(Len(s) - 1), j, k \in 1..Len(offs) :
                Covers(s, max, offs[j], b) /\ Covers(s, max, offs[k], b) => j = k
  <1>1. PICK L : L = Len(s) /\ L \in Nat
    OBVIOUS
  <1>2. PICK q : q = Len(offs) /\ q \in Nat \ {0} /\ \A k \in 1..q : offs[k] \in Nat
    <2>1. Len(offs) \in Nat
      OBVIOUS
    <2> QED BY <2>1, ElementOfSeq, SMTT(30)
  <1>3. \A k \in 1..q : /\ Whole(s, window(s, offs[k], max)[1])
                        /\ Whole(s, window(s, offs[k], max)[2])
    <2> SUFFICES ASSUME NEW k \in 1..q
                 PROVE  /\ Whole(s, window(s, offs[k], max)[1])
                        /\ Whole(s, window(s, offs[k], max)[2])
      OBVIOUS
    <2>1. offs[k] \in Nat
      BY <1>2
    <2>2. CASE offs[k] >= L
      <3>1. window(s, offs[k], max) = <<0, 0>>
        BY <1>1, <2>1, <2>2, Window
      <3> QED BY <3>1 DEF Whole
    <2>3. CASE offs[k] < L
      BY <1>1, <2>1, <2>3, Window
    <2> QED BY <1>1, <2>1, <2>2, <2>3
  <1>4. ASSUME NEW b \in 0..(L - 1)
        PROVE  \E k \in 1..q : Covers(s, max, offs[k], b)
    <2> DEFINE S == {k \in 1..q : runeStart(s, offs[k]) <= b}
    <2>1. S \in SUBSET (0..q)
      BY <1>2
    <2>2. 1 \in S
      <3>1. runeStart(s, 0) \in 0..0
        BY RuneStart
      <3> QED BY <3>1, <1>2
    <2>3. PICK k \in S : \A y \in S : y <= k
      <3> HIDE DEF S
      <3>1. Max(S) \in S /\ \A y \in S : y <= Max(S)
        BY <2>1, <2>2, <1>2, MaxOf
      <3> QED BY <3>1
    <2>4. k \in 1..q /\ offs[k] \in Nat /\ runeStart(s, offs[k]) <= b
      BY <2>3, <1>2
    <2>5. offs[k] < L
      <3>1. offs[k] >= L => runeStart(s, offs[k]) = offs[k]
        BY <1>1, <2>4, RuneStart
      <3> QED BY <3>1, <2>4, <1>1
    <2>6. PICK page : page = window(s, offs[k], max)
      OBVIOUS
    <2>7. /\ page[1] = runeStart(s, offs[k])
          /\ offs[k] + max >= L => page[2] = L
          /\ offs[k] + max < L => page[2] >= runeStart(s, offs[k] + max)
          /\ page[2] \in Nat
      <3>1. runeStart(s, offs[k]) \in 0..offs[k]
        BY <2>4, RuneStart
      <3>2. runeStart(s, offs[k]) \in Nat
        BY <2>4, <3>1
      <3>3. /\ page[1] = runeStart(s, offs[k]) /\ page[2] \in (runeStart(s, offs[k]) + 1)..L
            /\ offs[k] + max >= L => page[2] = L
            /\ offs[k] + max < L => page[2] >= runeStart(s, offs[k] + max)
        BY <1>1, <2>4, <2>5, <2>6, Window
      <3> QED BY <1>1, <3>2, <3>3
    <2>8. CASE offs[k] + max >= L
      BY <2>4, <2>6, <2>7, <2>8 DEF Covers
    <2>9. CASE offs[k] + max < L
      <3>1. k \in 1..(q - 1) /\ k + 1 \in 1..q /\ ~(k + 1 <= k)
        BY <1>1, <1>2, <2>4, <2>9
      <3>2. offs[k + 1] = offs[k] + max
        BY <1>2, <3>1
      <3>3. k + 1 \notin S
        <4> HIDE DEF S
        <4> QED BY <2>3, <3>1
      <3>4. ~(runeStart(s, offs[k] + max) <= b)
        BY <3>1, <3>2, <3>3
      <3>5. runeStart(s, offs[k] + max) \in Nat
        <4>1. offs[k] + max \in Nat
          BY <2>4
        <4>2. runeStart(s, offs[k] + max) \in 0..(offs[k] + max)
          BY <4>1, RuneStart
        <4> QED BY <4>1, <4>2
      <3>6. b < page[2]
        BY <2>7, <2>9, <3>4, <3>5
      <3> QED BY <2>4, <2>6, <2>7, <3>6 DEF Covers
    <2>10. offs[k] + max \in Int
      BY <2>4
    <2> QED BY <1>1, <2>8, <2>9, <2>10
  <1>5. ASSUME max >= Widest(s), NEW b \in 0..(L - 1), NEW j \in 1..q, NEW k \in 1..q, j < k,
               Covers(s, max, offs[j], b), Covers(s, max, offs[k], b)
        PROVE  FALSE
    <2>1. offs[j] \in Nat /\ offs[k] \in Nat /\ offs[j] + max \in Nat /\ offs[j] + max <= offs[k]
      BY <1>2, <1>5
    <2>2. offs[k] < L
      <3>1. offs[k] >= L => window(s, offs[k], max) = <<0, 0>>
        BY <1>1, <2>1, Window
      <3> QED BY <3>1, <1>1, <1>5, <2>1, SMTT(30) DEF Covers
    <2>3. offs[j] < L /\ offs[j] + max < L
      BY <2>1, <2>2, <1>1, SMTT(30)
    <2>4. window(s, offs[j], max)[2] = runeStart(s, offs[j] + max)
      BY <1>1, <1>5, <2>1, <2>3, Window
    <2>5. window(s, offs[k], max)[1] = runeStart(s, offs[k])
      BY <1>1, <2>1, <2>2, Window
    <2>6. runeStart(s, offs[j] + max) <= runeStart(s, offs[k])
      BY <2>1, RunesInOrder
    <2>7. runeStart(s, offs[j] + max) \in Nat /\ runeStart(s, offs[k]) \in Nat
      <3>1. runeStart(s, offs[j] + max) \in 0..(offs[j] + max)
        BY <2>1, RuneStart
      <3>2. runeStart(s, offs[k]) \in 0..offs[k]
        BY <2>1, RuneStart
      <3> QED BY <3>1, <3>2
    <2> QED BY <1>5, <2>4, <2>5, <2>6, <2>7 DEF Covers
  <1>6. \A j, k \in 1..q : j = k \/ j < k \/ k < j
    BY <1>2
  <1> QED BY <1>1, <1>2, <1>3, <1>4, <1>5, <1>6

(* What PagesFit says of the pages at a caller's offsets.                  *)
Pages(texts, req, offs) ==
  LET times(n, b) == Cardinality({k \in DOMAIN offs : Covers(texts[n], req.maxBytes, offs[k], b)})
  IN \A n \in req.sections :
       /\ \A k \in DOMAIN offs : /\ Whole(texts[n], window(texts[n], offs[k], req.maxBytes)[1])
                                /\ Whole(texts[n], window(texts[n], offs[k], req.maxBytes)[2])
       /\ \A b \in 0..(Len(texts[n]) - 1) : times(n, b) >= 1
       /\ req.maxBytes >= Widest(texts[n]) =>
            \A b \in 0..(Len(texts[n]) - 1) : times(n, b) = 1

LEMMA FitIsPages ==
  ASSUME NEW texts, NEW sections, NEW maxBytes
  PROVE  PagesFit(texts, sections, maxBytes) <=>
           LET req == parseLogRequest(sections, 0, maxBytes)
           IN req # Refused => Pages(texts, req, Follow(texts, req))
  BY Zenon DEF PagesFit, Pages, Covers, Whole, Widest, Widths

(* The pages of any texts fit together, for every size that may be asked   *)
(* for.                                                                    *)
THEOREM PagesComplete ==
  ASSUME NEW texts, \A n \in allSections : texts[n] \in Seq(BOOLEAN) /\ IsText(texts[n]),
         NEW sections, NEW maxBytes \in Int
  PROVE  PagesFit(texts, sections, maxBytes)
  <1>1. PICK req : req = parseLogRequest(sections, 0, maxBytes)
    OBVIOUS
  <1>2. PICK offs : offs = Follow(texts, req)
    OBVIOUS
  <1> SUFFICES ASSUME req # Refused PROVE Pages(texts, req, offs)
    BY <1>1, <1>2, FitIsPages
  <1>3. PICK those : req = [sections |-> those, offset |-> 0, maxBytes |-> req.maxBytes]
    BY <1>1 DEF parseLogRequest
  <1>4. req.maxBytes \in Nat \ {0} /\ req.sections \subseteq allSections
    BY <1>1, LogPagesAssumption DEF parseLogRequest, defaultSections
  <1>5. PICK L \in Nat : \A o \in Nat : o >= L => ~More(texts, req, o)
    <2>1. \A m \in allSections : Len(texts[m]) \in Nat
      OBVIOUS
    <2>2. PICK a, b, c, d, e \in Nat :
            /\ a = Len(texts["transcript"]) /\ b = Len(texts["stdout"]) /\ c = Len(texts["stderr"])
            /\ d = Len(texts["diff"]) /\ e = Len(texts["verification"])
      BY <2>1 DEF allSections
    <2>3. ASSUME NEW m \in allSections PROVE Len(texts[m]) <= a + b + c + d + e
      <3>1. Len(texts[m]) \in {a, b, c, d, e}
        BY <2>2 DEF allSections
      <3> QED BY <3>1
    <2>4. \A o \in Nat : o >= a + b + c + d + e => ~More(texts, req, o)
      BY <2>1, <2>3, <1>4 DEF More
    <2>5. a + b + c + d + e \in Nat
      OBVIOUS
    <2> QED BY <2>4, <2>5
  <1>6. Leads(texts, req, 0, offs)
    BY <1>2, <1>3, <1>4, <1>5, FollowLeads
  <1>7. offs \in Seq(Nat) /\ DOMAIN offs = 1..Len(offs) /\ Len(offs) \in Nat
    BY <1>6 DEF Leads
  <1> SUFFICES ASSUME NEW n \in req.sections
      PROVE  /\ \A k \in DOMAIN offs : /\ Whole(texts[n], window(texts[n], offs[k], req.maxBytes)[1])
                                      /\ Whole(texts[n], window(texts[n], offs[k], req.maxBytes)[2])
             /\ \A b \in 0..(Len(texts[n]) - 1) :
                  Cardinality({k \in DOMAIN offs : Covers(texts[n], req.maxBytes, offs[k], b)}) >= 1
             /\ req.maxBytes >= Widest(texts[n]) =>
                  \A b \in 0..(Len(texts[n]) - 1) :
                    Cardinality({k \in DOMAIN offs : Covers(texts[n], req.maxBytes, offs[k], b)}) = 1
    BY Zenon DEF Pages
  <1>8. texts[n] \in Seq(BOOLEAN) /\ IsText(texts[n])
    BY <1>4
  <1>9. \A k \in 1..Len(offs) : Len(texts[n]) > offs[k] + req.maxBytes => k < Len(offs)
    BY <1>6 DEF Leads, More
  <1>10. /\ \A k \in 1..Len(offs) : /\ Whole(texts[n], window(texts[n], offs[k], req.maxBytes)[1])
                                    /\ Whole(texts[n], window(texts[n], offs[k], req.maxBytes)[2])
         /\ \A b \in 0..(Len(texts[n]) - 1) :
              \E k \in 1..Len(offs) : Covers(texts[n], req.maxBytes, offs[k], b)
         /\ req.maxBytes >= Widest(texts[n]) =>
              \A b \in 0..(Len(texts[n]) - 1), j, k \in 1..Len(offs) :
                Covers(texts[n], req.maxBytes, offs[j], b) /\ Covers(texts[n], req.maxBytes, offs[k], b)
                  => j = k
    BY <1>4, <1>6, <1>8, <1>9, PagesCover DEF Leads
  <1>11. ASSUME NEW b \in 0..(Len(texts[n]) - 1), NEW pages,
                pages = {k \in DOMAIN offs : Covers(texts[n], req.maxBytes, offs[k], b)}
         PROVE  /\ Cardinality(pages) >= 1
                /\ req.maxBytes >= Widest(texts[n]) => Cardinality(pages) = 1
    <2>1. PICK k \in pages : TRUE
      BY <1>7, <1>10, <1>11
    <2>2. IsFiniteSet(pages)
      <3>1. IsFiniteSet(1..Len(offs))
        BY <1>7, FS_Interval
      <3>2. pages \subseteq 1..Len(offs)
        BY <1>7, <1>11
      <3> QED BY <3>1, <3>2, FS_Subset
    <2>3. Cardinality(pages) \in Nat /\ Cardinality(pages) # 0
      BY <2>1, <2>2, FS_CardinalityType, FS_EmptySet
    <2>4. ASSUME req.maxBytes >= Widest(texts[n]) PROVE Cardinality(pages) = 1
      <3>1. \A j \in pages : j = k
        BY <2>1, <2>4, <1>7, <1>10, <1>11
      <3>2. pages = {k}
        BY <2>1, <3>1
      <3> QED BY <3>2, FS_Singleton
    <2> QED BY <2>3, <2>4
  <1> QED BY <1>7, <1>10, <1>11

-----------------------------------------------------------------------------
(*                  The algorithms: a step's arguments                     *)

(* The argument after the i-th.                                            *)
After(valued, i) == IF i \in valued THEN i + 2 ELSE i + 1

(* The arguments from the i-th on, given those behind it.                  *)
Walks(n, valued, f) ==
  [i \in Nat |-> IF i > n THEN {} ELSE {i} \cup f[After(valued, i)]]

(* The set of the arguments that are looked at is well defined: the        *)
(* recursion ends behind the last argument.                                *)
LEMMA WalkExists ==
  ASSUME NEW n \in Nat, NEW valued
  PROVE  \E f : f = Walks(n, valued, f)
  <1>0. PICK last : last = n + 1 /\ last \in Nat
    OBVIOUS
  <1> DEFINE Found(f, m) == \A i \in Nat : i >= m =>
                   f[i] = IF i > n THEN {} ELSE {i} \cup f[After(valued, i)]
             missing == {x \in 0..last : ~\E f : DOMAIN f = Nat /\ Found(f, last - x)}
  <1>1. missing = {}
    <2> SUFFICES ASSUME missing # {} PROVE FALSE
      OBVIOUS
    <2>0. missing \in SUBSET Nat
      OBVIOUS
    <2>1. PICK x \in missing : \A y \in missing : x <= y
      <3> HIDE DEF missing
      <3> QED BY <2>0, LeastNumber
    <2>2. x \in 0..last /\ ~\E f : DOMAIN f = Nat /\ Found(f, last - x)
      BY <2>1
    <2>3. CASE x = 0
      <3>1. PICK g : g = [i \in Nat |-> {}]
        OBVIOUS
      <3>2. Found(g, last) /\ DOMAIN g = Nat /\ last - x = last
        BY <3>1, <2>3, <1>0
      <3> QED BY <3>2, <2>2
    <2>4. CASE x > 0
      <3>1. PICK m : m = last - x /\ m \in Nat
        BY <2>2, <1>0
      <3>2. PICK g : DOMAIN g = Nat /\ Found(g, m + 1)
        <4>1. x - 1 \in 0..last /\ ~(x <= x - 1) /\ last - (x - 1) = m + 1
          BY <2>2, <2>4, <3>1, <1>0
        <4>2. x - 1 \notin missing
          <5> HIDE DEF missing
          <5> QED BY <4>1, <2>1
        <4> QED BY <4>1, <4>2
      <3>3. PICK h : h = [i \in Nat |-> IF i = m THEN (IF m > n THEN {} ELSE {m} \cup g[After(valued, m)])
                                        ELSE g[i]]
        OBVIOUS
      <3>4. /\ DOMAIN h = Nat
            /\ h[m] = IF m > n THEN {} ELSE {m} \cup g[After(valued, m)]
            /\ \A i \in Nat : i # m => h[i] = g[i]
        BY <3>1, <3>3
      <3>5. \A i \in Nat : After(valued, i) \in Nat /\ After(valued, i) > i
        BY DEF After
      <3>6. Found(h, m)
        <4> SUFFICES ASSUME NEW i \in Nat, i >= m
                     PROVE  h[i] = IF i > n THEN {} ELSE {i} \cup h[After(valued, i)]
          OBVIOUS
        <4>1. PICK a : a = After(valued, i) /\ a \in Nat /\ a > i
          BY <3>5
        <4>2. h[a] = g[a]
          BY <4>1, <3>1, <3>4
        <4>3. CASE i = m
          BY <4>1, <4>2, <4>3, <3>4
        <4>4. CASE i # m
          <5>1. i >= m + 1
            BY <4>4, <3>1
          <5>2. h[i] = g[i]
            BY <4>4, <3>4
          <5> QED BY <5>1, <5>2, <4>1, <4>2, <3>2
        <4> QED BY <4>3, <4>4
      <3> QED BY <3>1, <3>4, <3>6, <2>2
    <2> QED BY <2>2, <2>3, <2>4
  <1>2. PICK f : DOMAIN f = Nat /\ Found(f, 0)
    <2>1. last \in 0..last /\ last - last = 0
      BY <1>0
    <2>2. last \notin missing
      BY <1>1
    <2> QED BY <2>1, <2>2
  <1>3. PICK h : h = Walks(n, valued, f)
    OBVIOUS
  <1>4. \A i \in Nat : h[i] = f[i]
    BY <1>2, <1>3 DEF Walks
  <1>5. \A i \in Nat : After(valued, i) \in Nat
    BY DEF After
  <1>6. h = Walks(n, valued, h)
    <2>1. \A i \in Nat : (IF i > n THEN {} ELSE {i} \cup f[After(valued, i)])
                       = (IF i > n THEN {} ELSE {i} \cup h[After(valued, i)])
      BY <1>4, <1>5
    <2> QED BY <1>3, <2>1 DEF Walks
  <1> QED BY <1>6

(* The walk from an argument on: it begins there, goes on until the        *)
(* arguments end, and comes to nothing else.                               *)
LEMMA WalkFrom ==
  ASSUME NEW n \in Nat, NEW valued, NEW f, f = Walks(n, valued, f), NEW i \in 1..(n + 2)
  PROVE  /\ f[i] \subseteq i..n
         /\ i <= n => i \in f[i]
         /\ \A j \in f[i] : After(valued, j) <= n => After(valued, j) \in f[i]
         /\ \A j \in f[i] : j = i \/ \E k \in f[i] : After(valued, k) = j
  <1> DEFINE Good(m) == /\ f[m] \subseteq m..n
                        /\ m <= n => m \in f[m]
                        /\ \A j \in f[m] : After(valued, j) <= n => After(valued, j) \in f[m]
                        /\ \A j \in f[m] : j = m \/ \E k \in f[m] : After(valued, k) = j
             bad == {x \in 0..(n + 1) : ~Good(n + 2 - x)}
  <1>0. /\ \A m \in Nat : f[m] = IF m > n THEN {} ELSE {m} \cup f[After(valued, m)]
        /\ \A m \in Nat : After(valued, m) \in {m + 1, m + 2}
    <2>1. \A m \in Nat : Walks(n, valued, f)[m] = IF m > n THEN {} ELSE {m} \cup f[After(valued, m)]
      BY DEF Walks
    <2> QED BY <2>1 DEF After
  <1>1. bad = {}
    <2> SUFFICES ASSUME bad # {} PROVE FALSE
      OBVIOUS
    <2>1. PICK x \in bad : \A y \in bad : x <= y
      <3>1. bad \in SUBSET Nat
        OBVIOUS
      <3> HIDE DEF bad
      <3> QED BY <3>1, LeastNumber
    <2>2. PICK m : m = n + 2 - x /\ m \in 1..(n + 2) /\ m \in Nat /\ ~Good(m)
      BY <2>1
    <2>3. m <= n
      <3>1. m > n => f[m] = {}
        BY <1>0, <2>2
      <3> QED BY <3>1, <2>2
    <2>4. PICK a : a = After(valued, m) /\ a \in {m + 1, m + 2}
      BY <1>0, <2>2
    <2>5. Good(a)
      <3>1. PICK y : y = n + 2 - a /\ y \in 0..(n + 1) /\ ~(x <= y) /\ n + 2 - y = a
        BY <2>1, <2>2, <2>3, <2>4
      <3>2. y \notin bad
        <4> HIDE DEF bad
        <4> QED BY <3>1, <2>1
      <3> QED BY <3>1, <3>2
    <2>6. f[m] = {m} \cup f[a]
      <3>1. m \in Nat /\ ~(m > n)
        BY <2>2, <2>3
      <3>2. f[m] = {m} \cup f[After(valued, m)]
        BY <1>0, <3>1, Zenon
      <3> QED BY <3>2, <2>4
    <2>7. f[m] \subseteq m..n /\ m \in f[m]
      BY <2>2, <2>3, <2>4, <2>5, <2>6
    <2>8. ASSUME NEW j \in f[m], After(valued, j) <= n PROVE After(valued, j) \in f[m]
      BY <2>2, <2>4, <2>5, <2>6, <2>8
    <2>9. ASSUME NEW j \in f[m] PROVE j = m \/ \E k \in f[m] : After(valued, k) = j
      BY <2>4, <2>5, <2>6, <2>9
    <2> QED BY <2>2, <2>7, <2>8, <2>9
  <1>2. n + 2 - i \in 0..(n + 1) /\ n + 2 - (n + 2 - i) = i
    OBVIOUS
  <1> QED BY <1>1, <1>2

(* Visited is that walk from the first argument.                           *)
LEMMA VisitedIsWalk ==
  ASSUME NEW args, Len(args) \in Nat, NEW valued
  PROVE  \E f : f = Walks(Len(args), valued, f) /\ Visited(args, valued) = f[1]
  <1> DEFINE Rec(g) == [i \in Nat |-> IF i > Len(args) THEN {}
                         ELSE {i} \cup g[IF i \in valued THEN i + 2 ELSE i + 1]]
  <1>1. Visited(args, valued) = (CHOOSE g : g = Rec(g))[1]
    BY Zenon DEF Visited
  <1>2. ASSUME NEW g PROVE Rec(g) = Walks(Len(args), valued, g)
    BY DEF Walks, After
  <1> HIDE DEF Rec
  <1>3. PICK f : f = (CHOOSE g : g = Rec(g))
    OBVIOUS
  <1>4. PICK h : h = Walks(Len(args), valued, h)
    BY WalkExists
  <1>5. h = Rec(h)
    BY <1>2, <1>4
  <1>6. f = Rec(f)
    BY <1>3, <1>5
  <1> QED BY <1>1, <1>2, <1>3, <1>6

(* The arguments that are looked at: the first, and after each of them the *)
(* next, past its value.                                                   *)
LEMMA Looks ==
  ASSUME NEW args, Len(args) \in Nat, NEW valued
  PROVE  /\ Visited(args, valued) \subseteq 1..Len(args)
         /\ Len(args) > 0 => 1 \in Visited(args, valued)
         /\ \A j \in Visited(args, valued) :
              After(valued, j) <= Len(args) => After(valued, j) \in Visited(args, valued)
         /\ \A j \in Visited(args, valued) :
              j = 1 \/ \E k \in Visited(args, valued) : After(valued, k) = j
  <1>1. PICK f : f = Walks(Len(args), valued, f) /\ Visited(args, valued) = f[1]
    BY VisitedIsWalk
  <1>2. 1 \in 1..(Len(args) + 2)
    OBVIOUS
  <1> QED BY <1>1, <1>2, WalkFrom

(* Two lists of arguments, the first of which keeps its values to itself:  *)
(* the walk through both goes through the first, comes to the beginning of *)
(* the second, and goes through that.                                      *)
LEMMA LooksAtTwo ==
  ASSUME NEW T, NEW b \in Seq(T), NEW c \in Seq(T), NEW V, NEW VB, NEW VC,
         \A i \in 1..Len(b) : i \in V <=> i \in VB,
         \A k \in 1..Len(c) : Len(b) + k \in V <=> k \in VC,
         \A i \in Visited(b, VB) : i \in VB => i < Len(b)
  PROVE  /\ \A i \in Visited(b \o c, V) :
              /\ i <= Len(b) => i \in Visited(b, VB)
              /\ i > Len(b) => i - Len(b) \in Visited(c, VC)
         /\ Len(c) > 0 => Len(b) + 1 \in Visited(b \o c, V)
  <1>1. PICK m : m = Len(b) /\ m \in Nat
    OBVIOUS
  <1>2. PICK n : n = Len(c) /\ n \in Nat
    OBVIOUS
  <1>3. Len(b \o c) = m + n /\ m + n \in Nat
    BY <1>1, <1>2
  <1>4. PICK walk : walk = Visited(b \o c, V)
    OBVIOUS
  <1>5. /\ walk \subseteq 1..(m + n)
        /\ m + n > 0 => 1 \in walk
        /\ \A j \in walk : After(V, j) <= m + n => After(V, j) \in walk
        /\ \A j \in walk : j = 1 \/ \E k \in walk : After(V, k) = j
    <2>1. PICK args, all : args = b \o c /\ all = m + n
      OBVIOUS
    <2>2. Len(args) = all /\ Len(args) \in Nat /\ walk = Visited(args, V)
      BY <2>1, <1>3, <1>4
    <2>3. /\ walk \subseteq 1..Len(args)
          /\ Len(args) > 0 => 1 \in walk
          /\ \A j \in walk : After(V, j) <= Len(args) => After(V, j) \in walk
          /\ \A j \in walk : j = 1 \/ \E k \in walk : After(V, k) = j
      BY <2>2, Looks
    <2> QED BY <2>1, <2>2, <2>3
  <1>0. m \in Nat /\ n \in Nat /\ walk \subseteq Nat /\ \A i \in walk : 1 <= i /\ i <= m + n
    BY <1>1, <1>2, <1>5
  <1>6. PICK wb : wb = Visited(b, VB)
    OBVIOUS
  <1>7. PICK wc : wc = Visited(c, VC)
    OBVIOUS
  <1>8. /\ wb \subseteq 1..m
        /\ m > 0 => 1 \in wb
        /\ \A j \in wb : After(VB, j) <= m => After(VB, j) \in wb
    BY <1>1, <1>6, Looks
  <1>9. /\ wc \subseteq 1..n
        /\ n > 0 => 1 \in wc
        /\ \A j \in wc : After(VC, j) <= n => After(VC, j) \in wc
    BY <1>2, <1>7, Looks
  <1>10. /\ \A i \in 1..m : i \in V <=> i \in VB
         /\ \A k \in 1..n : m + k \in V <=> k \in VC
         /\ \A i \in wb : i \in VB => i < m
    BY <1>1, <1>2, <1>6
  <1> DEFINE Split(i) == /\ i <= m => i \in wb
                         /\ i > m => i - m \in wc
             bad == {i \in walk : ~Split(i)}
  <1>11. bad = {}
    <2> SUFFICES ASSUME bad # {} PROVE FALSE
      OBVIOUS
    <2>1. PICK i \in bad : \A y \in bad : i <= y
      <3>1. bad \in SUBSET Nat
        BY <1>0
      <3> HIDE DEF bad
      <3> QED BY <3>1, LeastNumber
    <2>2. i \in walk /\ i \in 1..(m + n) /\ ~Split(i)
      BY <2>1, <1>5
    <2>3. i # 1
      BY <2>2, <1>0, <1>8, <1>9
    <2>4. PICK k \in walk : After(V, k) = i
      BY <2>2, <2>3, <1>5
    <2>5. k \in 1..(m + n) /\ k < i
      BY <2>4, <1>0, <1>5 DEF After
    <2>6. Split(k)
      <3>1. k \notin bad
        <4>1. ~(i <= k)
          BY <2>5, <2>2
        <4> HIDE DEF bad
        <4> QED BY <4>1, <2>1
      <3> QED BY <3>1, <2>4
    <2>7. CASE k <= m /\ i <= m
      <3>1. k \in wb /\ (k \in V <=> k \in VB)
        BY <2>5, <2>6, <2>7, <1>0, <1>10
      <3>2. After(VB, k) = i /\ After(VB, k) <= m
        BY <3>1, <2>4, <2>7 DEF After
      <3>3. i \in wb
        BY <3>1, <3>2, <1>8
      <3> QED BY <3>3, <2>2, <2>7, <1>0
    <2>8. CASE k <= m /\ i > m
      <3>1. k \in wb /\ (k \in V <=> k \in VB) /\ (k \in VB => k < m)
        BY <2>5, <2>6, <2>8, <1>0, <1>10
      <3>2. i = m + 1
        BY <3>1, <2>4, <2>5, <2>8, <1>1 DEF After
      <3>3. i - m = 1 /\ n > 0
        BY <3>2, <2>2, <1>0
      <3> QED BY <3>2, <3>3, <2>2, <1>0, <1>9
    <2>9. CASE k > m
      <3>0. PICK j : j = k - m
        OBVIOUS
      <3>1. j = k - m /\ j \in 1..n /\ m + j = k
        BY <3>0, <2>2, <2>5, <2>9, <1>0
      <3>2. j \in wc /\ (k \in V <=> j \in VC)
        BY <3>1, <2>6, <2>9, <1>10
      <3>3. After(VC, j) = i - m /\ i > m /\ i - m <= n
        BY <3>1, <3>2, <2>2, <2>4, <2>5, <2>9, <1>0 DEF After
      <3> QED BY <3>2, <3>3, <2>2, <1>0, <1>9
    <2> QED BY <2>2, <2>5, <2>7, <2>8, <2>9, <1>0
  <1>12. ASSUME n > 0 PROVE m + 1 \in walk
    <2>1. CASE m = 0
      BY <2>1, <1>12, <1>2, <1>5
    <2>2. CASE m > 0
      <3>1. PICK first : first = {i \in walk : i <= m}
        OBVIOUS
      <3>2. first \in SUBSET (0..m) /\ first # {}
        <4>1. 1 \in first
          BY <3>1, <2>2, <1>0, <1>5
        <4>2. \A i \in first : i \in 0..m
          BY <3>1, <1>0
        <4> QED BY <4>1, <4>2
      <3>3. PICK k : k = Max(first) /\ k \in first /\ \A y \in first : y <= k
        BY <3>2, <1>0, MaxOf
      <3>4. k \in walk /\ k \in 1..m
        BY <3>1, <3>3, <1>0, <1>5
      <3>5. k \in wb /\ (k \in V <=> k \in VB) /\ (k \in VB => k < m)
        BY <3>4, <1>0, <1>10, <1>11
      <3>6. After(V, k) \in {k + 1, k + 2} /\ After(V, k) <= m + 1
        BY <3>4, <3>5, <1>1 DEF After
      <3>7. After(V, k) \in walk
        BY <3>4, <3>6, <1>12, <1>0, <1>5
      <3>8. ~(After(V, k) <= m)
        BY <3>1, <3>3, <3>4, <3>6, <3>7, <1>0
      <3> QED BY <3>4, <3>6, <3>7, <3>8, <1>0
    <2> QED BY <2>1, <2>2, <1>0
  <1>13. \A i \in walk : Split(i)
    BY <1>11
  <1> QED BY <1>1, <1>2, <1>4, <1>6, <1>7, <1>12, <1>13

(* Options, each with its value: no operand and no "--" is looked at.      *)
OptionsOnly(args, valued) ==
  \A i \in Visited(args, valued) :
    args[i].kind \notin {"word", "--"} /\ (i \in valued => i < Len(args))

(* An element of two lists put together.                                   *)
LEMMA OfTwo ==
  ASSUME NEW T, NEW b \in Seq(T), NEW c \in Seq(T)
  PROVE  /\ b \o c \in Seq(T) /\ Len(b \o c) = Len(b) + Len(c)
         /\ \A i \in 1..Len(b) : (b \o c)[i] = b[i]
         /\ \A k \in 1..Len(c) : (b \o c)[Len(b) + k] = c[k]
  OBVIOUS

(* Options behind options are options.                                     *)
LEMMA OptionsAndOptions ==
  ASSUME NEW T, NEW b \in Seq(T), NEW c \in Seq(T), NEW V, NEW VB, NEW VC,
         \A i \in 1..Len(b) : i \in V <=> i \in VB,
         \A k \in 1..Len(c) : Len(b) + k \in V <=> k \in VC,
         OptionsOnly(b, VB), OptionsOnly(c, VC)
  PROVE  OptionsOnly(b \o c, V)
  <1>0. Len(b) \in Nat /\ Len(c) \in Nat /\ Len(b \o c) = Len(b) + Len(c)
    OBVIOUS
  <1>1. PICK m \in Nat, n \in Nat : m = Len(b) /\ n = Len(c)
    BY <1>0
  <1>2. \A i \in Visited(b \o c, V) :
          /\ i <= Len(b) => i \in Visited(b, VB)
          /\ i > Len(b) => i - Len(b) \in Visited(c, VC)
    BY LooksAtTwo DEF OptionsOnly
  <1>3. /\ Visited(b \o c, V) \subseteq 1..(m + n) /\ Visited(b, VB) \subseteq 1..m
        /\ Visited(c, VC) \subseteq 1..n
    <2>1. Len(b \o c) \in Nat
      BY <1>0
    <2> QED BY <2>1, <1>0, <1>1, Looks
  <1> SUFFICES ASSUME NEW i \in Visited(b \o c, V)
               PROVE  /\ (b \o c)[i].kind \notin {"word", "--"}
                      /\ i \in V => i < m + n
    BY <1>0, <1>1 DEF OptionsOnly
  <1>4. CASE i <= m
    <2>1. i \in Visited(b, VB) /\ i \in 1..m
      BY <1>1, <1>2, <1>3, <1>4
    <2>2. (b \o c)[i] = b[i] /\ (i \in V <=> i \in VB)
      BY <2>1, <1>1, OfTwo
    <2>3. b[i].kind \notin {"word", "--"} /\ (i \in VB => i < m)
      BY <2>1, <1>1 DEF OptionsOnly
    <2> QED BY <2>1, <2>2, <2>3, <1>1
  <1>5. CASE i > m
    <2>0. PICK k : k = i - m
      OBVIOUS
    <2>1. k \in Visited(c, VC) /\ k \in 1..n /\ m + k = i
      BY <2>0, <1>1, <1>2, <1>3, <1>5
    <2>2. (b \o c)[i] = c[k] /\ (i \in V <=> k \in VC)
      BY <2>1, <1>1, OfTwo
    <2>3. c[k].kind \notin {"word", "--"} /\ (k \in VC => k < n)
      BY <2>1, <1>1 DEF OptionsOnly
    <2> QED BY <2>1, <2>2, <2>3, <1>1
  <1> QED BY <1>1, <1>3, <1>4, <1>5

(* Where the options end: at the first "--", if there is one.              *)
StopsAt(args, valued, stop) ==
  /\ stop \in 1..(Len(args) + 1)
  /\ stop <= Len(args) => stop \in Visited(args, valued) /\ args[stop].kind = "--"
  /\ \A i \in Visited(args, valued) : args[i].kind = "--" => stop <= i

(* An operand: a word before that, or anything behind it.                  *)
IsOperand(args, valued, stop, t) ==
  \/ \E i \in Visited(args, valued) : i < stop /\ args[i].kind = "word" /\ t = args[i]
  \/ \E i \in (stop + 1)..Len(args) : t = args[i]

(* The operands are the words before the stop and all that is behind it.   *)
LEMMA OperandsUpTo ==
  ASSUME NEW args, Len(args) \in Nat, NEW valued, NEW stop, StopsAt(args, valued, stop), NEW t
  PROVE  t \in Operands(args, valued) <=> IsOperand(args, valued, stop, t)
  <1>1. PICK stops : stops = {i \in Visited(args, valued) : args[i].kind = "--"} \cup {Len(args) + 1}
    OBVIOUS
  <1>2. stops \in SUBSET Nat /\ stop \in stops /\ \A i \in stops : stop <= i
    <2>1. Visited(args, valued) \subseteq 1..Len(args)
      BY Looks
    <2> QED BY <1>1, <2>1 DEF StopsAt
  <1>3. Min(stops) = stop
    <2>1. PICK least : least = Min(stops)
      OBVIOUS
    <2>2. least \in stops /\ least <= stop
      BY <2>1, <1>2, MinOf
    <2>3. least \in Nat /\ stop \in Nat /\ stop <= least
      BY <2>2, <1>2 DEF StopsAt
    <2>4. least = stop
      BY <2>2, <2>3
    <2> QED BY <2>1, <2>4
  <1>4. Operands(args, valued) =
          {args[i] : i \in {j \in Visited(args, valued) : j < stop /\ args[j].kind = "word"}
                           \cup ((stop + 1)..Len(args))}
    BY <1>1, <1>3, Zenon DEF Operands
  <1> QED BY <1>4 DEF IsOperand

(* What is listed.                                                         *)
Listed(ops) == {ops[k] : k \in 1..Len(ops)}

(* Operands between options: they are found, and nothing else is.          *)
LEMMA OperandsBetween ==
  ASSUME NEW T, NEW b \in Seq(T), NEW ops \in Seq(T), NEW c \in Seq(T), NEW V, NEW VB, NEW VC,
         \A i \in 1..Len(b) : i \in V <=> i \in VB,
         \A k \in 1..Len(ops) : Len(b) + k \notin V /\ ops[k].kind = "word",
         \A k \in 1..Len(c) : Len(b) + Len(ops) + k \in V <=> k \in VC,
         OptionsOnly(b, VB), OptionsOnly(c, VC)
  PROVE  Operands(b \o ops \o c, V) = Listed(ops)
  <1>0. Len(b) \in Nat /\ Len(ops) \in Nat /\ Len(c) \in Nat
    OBVIOUS
  <1>1. PICK m \in Nat, n \in Nat, l \in Nat : m = Len(b) /\ n = Len(ops) /\ l = Len(c)
    BY <1>0
  <1>2. PICK args : args = b \o (ops \o c) /\ args = b \o ops \o c
    <2>1. b \o ops \o c = b \o (ops \o c)
      BY ConcatAssociative
    <2> QED BY <2>1, Zenon
  <1>3. PICK rest : rest = ops \o c
    OBVIOUS
  <1>4. /\ rest \in Seq(T) /\ Len(rest) = n + l
        /\ \A k \in 1..n : rest[k] = ops[k]
        /\ \A k \in 1..l : rest[n + k] = c[k]
    BY <1>1, <1>3, OfTwo
  <1>5. /\ args \in Seq(T) /\ Len(args) = m + (n + l) /\ args = b \o rest
        /\ \A i \in 1..m : args[i] = b[i]
        /\ \A k \in 1..(n + l) : args[m + k] = rest[k]
    <2>1. args = b \o rest /\ rest \in Seq(T)
      BY <1>2, <1>3, <1>4
    <2>2. /\ args \in Seq(T) /\ Len(args) = Len(b) + Len(rest)
          /\ \A i \in 1..Len(b) : args[i] = b[i]
          /\ \A k \in 1..Len(rest) : args[Len(b) + k] = rest[k]
      BY <2>1, OfTwo
    <2> QED BY <2>1, <2>2, <1>1, <1>4
  <1>6. PICK walk : walk = Visited(args, V)
    OBVIOUS
  <1>7. /\ walk \subseteq 1..(m + (n + l))
        /\ \A j \in walk : After(V, j) <= m + (n + l) => After(V, j) \in walk
    <2>1. Len(args) \in Nat
      BY <1>5
    <2> QED BY <2>1, <1>5, <1>6, Looks
  <1>8. PICK VR : VR = {k \in 1..(n + l) : m + k \in V}
    OBVIOUS
  <1>9. /\ \A i \in walk : /\ i <= m => i \in Visited(b, VB)
                           /\ i > m => i - m \in Visited(rest, VR)
        /\ n + l > 0 => m + 1 \in walk
    <2>1. \A k \in 1..Len(rest) : Len(b) + k \in V <=> k \in VR
      BY <1>1, <1>4, <1>8
    <2>2. \A i \in Visited(b, VB) : i \in VB => i < Len(b)
      BY DEF OptionsOnly
    <2>3. /\ \A i \in Visited(b \o rest, V) :
               /\ i <= Len(b) => i \in Visited(b, VB)
               /\ i > Len(b) => i - Len(b) \in Visited(rest, VR)
          /\ Len(rest) > 0 => Len(b) + 1 \in Visited(b \o rest, V)
      BY <2>1, <2>2, <1>4, LooksAtTwo
    <2>4. Len(b) = m /\ Len(rest) = n + l /\ Visited(b \o rest, V) = walk
      BY <1>1, <1>4, <1>5, <1>6
    <2>5. ASSUME NEW i \in walk PROVE /\ i <= m => i \in Visited(b, VB)
                                      /\ i > m => i - m \in Visited(rest, VR)
      <3>1. i \in Visited(b \o rest, V)
        BY <2>4
      <3>2. /\ i <= Len(b) => i \in Visited(b, VB)
            /\ i > Len(b) => i - Len(b) \in Visited(rest, VR)
        BY <3>1, <2>3, Zenon
      <3> QED BY <3>2, <2>4
    <2>7. n + l > 0 => m + 1 \in walk
      BY <2>3, <2>4
    <2> QED BY <2>5, <2>7
  <1>10. \A i \in Visited(rest, VR) : i > n => i - n \in Visited(c, VC)
    <2>0. PICK none : none = {}
      OBVIOUS
    <2>1. \A k \in 1..Len(ops) : k \in VR <=> k \in none
      BY <2>0, <1>1, <1>8
    <2>2. \A k \in 1..Len(c) : Len(ops) + k \in VR <=> k \in VC
      <3> SUFFICES ASSUME NEW k \in 1..l PROVE n + k \in VR <=> k \in VC
        BY <1>1
      <3>1. n + k \in 1..(n + l) /\ m + n + k = m + (n + k)
        BY <1>1
      <3>2. m + n + k \in V <=> k \in VC
        BY <1>1
      <3> QED BY <3>1, <3>2, <1>8
    <2>3. \A i \in Visited(ops, none) : i \in none => i < Len(ops)
      BY <2>0
    <2>4. \A i \in Visited(ops \o c, VR) : i > Len(ops) => i - Len(ops) \in Visited(c, VC)
      BY <2>1, <2>2, <2>3, LooksAtTwo
    <2> QED BY <2>4, <1>1, <1>3
  <1>11. ASSUME NEW i \in walk, ~(i \in (m + 1)..(m + n))
         PROVE  args[i].kind \notin {"word", "--"}
    <2>0. i \in 1..(m + (n + l))
      BY <1>7
    <2>1. CASE i <= m
      <3>1. i \in Visited(b, VB) /\ args[i] = b[i]
        BY <2>0, <2>1, <1>1, <1>5, <1>9
      <3> QED BY <3>1 DEF OptionsOnly
    <2>2. CASE i > m + n
      <3>0. PICK j : j = i - m
        OBVIOUS
      <3>1. j \in Visited(rest, VR) /\ j > n /\ j \in 1..(n + l) /\ m + j = i
        BY <3>0, <2>0, <2>2, <1>1, <1>9
      <3>2. PICK k : k = j - n
        OBVIOUS
      <3>3. k \in Visited(c, VC) /\ k \in 1..l /\ n + k = j
        BY <3>1, <3>2, <1>1, <1>10
      <3>4. args[i] = c[k]
        BY <3>1, <3>3, <1>4, <1>5
      <3> QED BY <3>3, <3>4 DEF OptionsOnly
    <2> QED BY <2>0, <2>1, <2>2, <1>11, <1>1
  <1>12. \A k \in 1..n : m + k \in walk
    <2> DEFINE lost == {k \in 1..n : m + k \notin walk}
    <2> SUFFICES ASSUME lost # {} PROVE FALSE
      OBVIOUS
    <2>1. PICK k \in lost : \A y \in lost : k <= y
      <3>1. lost \in SUBSET Nat
        OBVIOUS
      <3> HIDE DEF lost
      <3> QED BY <3>1, LeastNumber
    <2>2. k \in 1..n /\ m + k \notin walk
      BY <2>1
    <2>3. k # 1
      BY <2>2, <1>1, <1>9
    <2>4. PICK j : j = k - 1
      OBVIOUS
    <2>5. j \in 1..n /\ ~(k <= j) /\ j + 1 = k
      BY <2>2, <2>3, <2>4, <1>1
    <2>6. m + j \in walk
      <3>1. j \notin lost
        <4> HIDE DEF lost
        <4> QED BY <2>1, <2>5
      <3> QED BY <3>1, <2>5
    <2>7. m + j \notin V
      BY <2>5, <1>1
    <2>8. After(V, m + j) = m + k /\ m + k <= m + (n + l)
      <3>1. m + j + 1 = m + k /\ m + k <= m + (n + l)
        BY <2>2, <2>5
      <3> QED BY <3>1, <2>7 DEF After
    <2> QED BY <2>2, <2>6, <2>8, <1>7
  <1>13. \A k \in 1..n : args[m + k] = ops[k] /\ args[m + k].kind = "word"
    BY <1>1, <1>4, <1>5
  <1>14. PICK L : L = Len(args) /\ L = m + (n + l) /\ L \in Nat
    BY <1>1, <1>5
  <1>15. \A i \in walk : args[i].kind # "--"
    <2> SUFFICES ASSUME NEW i \in walk PROVE args[i].kind # "--"
      OBVIOUS
    <2>1. CASE i \in (m + 1)..(m + n)
      <3>0. PICK k : k = i - m
        OBVIOUS
      <3>1. k \in 1..n /\ m + k = i
        BY <3>0, <2>1, <1>1
      <3> QED BY <3>1, <1>13
    <2> QED BY <2>1, <1>11
  <1>16. \A t : t \in Operands(args, V) <=> \E i \in walk : args[i].kind = "word" /\ t = args[i]
    <2>0. PICK stop : stop = L + 1
      OBVIOUS
    <2>1. stop \in 1..(Len(args) + 1) /\ Len(args) \in Nat
      BY <2>0, <1>14
    <2>2. /\ \A i \in walk : i < stop
          /\ Visited(args, V) = walk /\ Len(args) = L
          /\ (stop + 1)..Len(args) = {}
      BY <2>0, <1>0, <1>6, <1>7, <1>14
    <2>3. StopsAt(args, V, stop)
      <3>1. stop <= Len(args) => stop \in Visited(args, V) /\ args[stop].kind = "--"
        BY <2>0, <1>14
      <3>2. \A i \in Visited(args, V) : args[i].kind = "--" => stop <= i
        BY <1>6, <1>15
      <3> QED BY <3>1, <3>2, <2>1 DEF StopsAt
    <2>4. \A t : t \in Operands(args, V) <=> IsOperand(args, V, stop, t)
      BY <2>1, <2>3, OperandsUpTo
    <2> QED BY <2>2, <2>4 DEF IsOperand
  <1>17. \A i \in walk : args[i].kind = "word" => i \in (m + 1)..(m + n)
    BY <1>11
  <1>18. ASSUME NEW k \in 1..n PROVE m + k \in walk /\ args[m + k].kind = "word" /\ args[m + k] = ops[k]
    BY <1>12, <1>13
  <1>19. ASSUME NEW t PROVE t \in Operands(args, V) <=> t \in {ops[k] : k \in 1..n}
    <2>1. ASSUME t \in Operands(args, V) PROVE t \in {ops[k] : k \in 1..n}
      <3>1. PICK i \in walk : i \in (m + 1)..(m + n) /\ t = args[i]
        BY <2>1, <1>16, <1>17
      <3>2. PICK k : k = i - m
        OBVIOUS
      <3>3. k \in 1..n /\ m + k = i
        BY <3>1, <3>2
      <3> QED BY <3>1, <3>3, <1>18
    <2>2. ASSUME NEW k \in 1..n, t = ops[k] PROVE t \in Operands(args, V)
      BY <2>2, <1>16, <1>18
    <2> QED BY <2>1, <2>2
  <1>20. Operands(args, V) = {ops[k] : k \in 1..n}
    BY <1>19
  <1> QED BY <1>1, <1>2, <1>20 DEF Listed

(* Operands behind a "--".                                                 *)
Dashed(ops) == <<Dashes>> \o ops

(* The arguments behind a "--" are operands, whatever they are.            *)
LEMMA OperandsAfterDashes ==
  ASSUME NEW T, NEW b \in Seq(T), NEW ops \in Seq(T), NEW c \in Seq(T), NEW V, NEW VB,
         c = Dashed(ops), Dashes \in T,
         \A i \in 1..Len(b) : i \in V <=> i \in VB,
         OptionsOnly(b, VB)
  PROVE  /\ Operands(b \o c, V) = Listed(ops)
         /\ StopsAt(b \o c, V, Len(b) + 1)
  <1>0. Len(b) \in Nat /\ Len(ops) \in Nat
    OBVIOUS
  <1>1. PICK m \in Nat, n \in Nat : m = Len(b) /\ n = Len(ops)
    BY <1>0
  <1>2. /\ Len(c) = 1 + n /\ c[1] = Dashes /\ c[1].kind = "--"
        /\ \A k \in 1..n : c[1 + k] = ops[k]
    BY <1>1 DEF Dashed, Dashes, Token
  <1>3. PICK args : args = b \o c
    OBVIOUS
  <1>4. /\ args \in Seq(T) /\ Len(args) = m + (1 + n)
        /\ \A i \in 1..m : args[i] = b[i]
        /\ \A k \in 1..(1 + n) : args[m + k] = c[k]
    <2>1. Len(c) = 1 + n
      BY <1>2
    <2>2. /\ b \o c \in Seq(T) /\ Len(b \o c) = Len(b) + Len(c)
          /\ \A i \in 1..Len(b) : (b \o c)[i] = b[i]
          /\ \A k \in 1..Len(c) : (b \o c)[Len(b) + k] = c[k]
      BY OfTwo
    <2> QED BY <2>1, <2>2, <1>1, <1>3
  <1>5. PICK VC : VC = {k \in 1..Len(c) : Len(b) + k \in V}
    OBVIOUS
  <1>6. PICK walk : walk = Visited(args, V)
    OBVIOUS
  <1>7. /\ \A i \in walk : i <= m => i \in Visited(b, VB)
        /\ m + 1 \in walk
        /\ walk \subseteq 1..(m + (1 + n))
    <2>1. \A k \in 1..Len(c) : Len(b) + k \in V <=> k \in VC
      BY <1>5
    <2>2. \A i \in Visited(b, VB) : i \in VB => i < Len(b)
      BY DEF OptionsOnly
    <2>3. /\ \A i \in Visited(b \o c, V) : i <= Len(b) => i \in Visited(b, VB)
          /\ Len(c) > 0 => Len(b) + 1 \in Visited(b \o c, V)
      BY <2>1, <2>2, LooksAtTwo
    <2>4. Len(args) \in Nat /\ Len(args) = m + (1 + n)
      BY <1>4
    <2>5. walk \subseteq 1..(m + (1 + n))
      BY <2>4, <1>6, Looks
    <2>6. Len(c) > 0
      BY <1>2
    <2> QED BY <2>3, <2>5, <2>6, <1>1, <1>3, <1>6
  <1>8. PICK stop : stop = m + 1 /\ stop \in Nat
    OBVIOUS
  <1>9. \A i \in walk : i < stop => args[i].kind \notin {"word", "--"}
    <2> SUFFICES ASSUME NEW i \in walk, i < stop PROVE args[i].kind \notin {"word", "--"}
      OBVIOUS
    <2>1. i \in Visited(b, VB) /\ args[i] = b[i]
      BY <1>4, <1>7, <1>8
    <2> QED BY <2>1 DEF OptionsOnly
  <1>10. PICK L : L = Len(args) /\ L = m + (1 + n) /\ L \in Nat
    BY <1>4
  <1>11. StopsAt(args, V, stop)
    <2>1. stop \in 1..(Len(args) + 1)
      BY <1>8, <1>10
    <2>2. m + 1 \in Visited(args, V) /\ args[m + 1].kind = "--"
      <3>1. 1 \in 1..(1 + n)
        OBVIOUS
      <3> QED BY <3>1, <1>2, <1>4, <1>6, <1>7
    <2>3. \A i \in Visited(args, V) : args[i].kind = "--" => stop <= i
      <3> SUFFICES ASSUME NEW i \in walk, args[i].kind = "--" PROVE stop <= i
        BY <1>6
      <3>1. ~(i < stop)
        BY <1>9
      <3>2. i \in Nat
        BY <1>7
      <3> QED BY <3>1, <3>2, <1>8
    <2> QED BY <2>1, <2>2, <2>3, <1>8 DEF StopsAt
  <1>12. \A t : t \in Operands(args, V) <=> IsOperand(args, V, stop, t)
    <2>1. Len(args) \in Nat
      BY <1>4
    <2> QED BY <2>1, <1>11, OperandsUpTo
  <1>13. ASSUME NEW t PROVE IsOperand(args, V, stop, t) <=> t \in {ops[k] : k \in 1..n}
    <2>1. IsOperand(args, V, stop, t) <=> \E i \in (m + 2)..(m + (1 + n)) : t = args[i]
      BY <1>6, <1>8, <1>9, <1>10 DEF IsOperand
    <2>2. ASSUME NEW i \in (m + 2)..(m + (1 + n)), t = args[i] PROVE t \in {ops[k] : k \in 1..n}
      <3>1. PICK k : k = i - m - 1
        OBVIOUS
      <3>2. k \in 1..n /\ 1 + k \in 1..(1 + n) /\ m + (1 + k) = i
        BY <3>1, <1>1
      <3>3. args[m + (1 + k)] = c[1 + k] /\ c[1 + k] = ops[k]
        BY <3>2, <1>2, <1>4
      <3> QED BY <3>2, <3>3, <2>2
    <2>3. ASSUME NEW k \in 1..n, t = ops[k] PROVE \E i \in (m + 2)..(m + (1 + n)) : t = args[i]
      <3>1. 1 + k \in 1..(1 + n) /\ m + (1 + k) \in (m + 2)..(m + (1 + n))
        BY <1>1
      <3>2. args[m + (1 + k)] = c[1 + k] /\ c[1 + k] = ops[k]
        BY <3>1, <1>2, <1>4
      <3> QED BY <3>1, <3>2, <2>3
    <2> QED BY <2>1, <2>2, <2>3
  <1>14. Operands(args, V) = {ops[k] : k \in 1..n}
    BY <1>12, <1>13
  <1> QED BY <1>1, <1>3, <1>8, <1>11, <1>14 DEF Listed

(* An argument that takes the next one as its value, by its own looks.     *)
Takes(t, flags, letters) ==
  \/ t.kind = "option" /\ ~t.glued /\ t.name \in flags
  \/ TakesNext(t, letters)

Taking(args, flags, letters) == FlagValued(args, flags) \cup LetterValued(args, letters)

(* An argument takes the next one by its own looks, wherever it is.        *)
LEMMA TakingIs ==
  ASSUME NEW args, NEW flags, NEW letters, NEW i
  PROVE  i \in Taking(args, flags, letters) <=> i \in DOMAIN args /\ Takes(args[i], flags, letters)
  BY DEF Taking, Takes, FlagValued, LetterValued

(* A word and a "--" take no value.                                        *)
LEMMA WordsTakeNothing ==
  ASSUME NEW t, t.kind \in {"word", "--"}, NEW flags, NEW letters
  PROVE  ~Takes(t, flags, letters)
  BY DEF Takes, TakesNext

(* Options, by their looks.                                                *)
OptionsFor(args, flags, letters) == OptionsOnly(args, Taking(args, flags, letters))

(* An argument of two lists put together takes the next one exactly when   *)
(* it does so in its own list.                                             *)
LEMMA TakingOfTwo ==
  ASSUME NEW T, NEW b \in Seq(T), NEW c \in Seq(T), NEW flags, NEW letters
  PROVE  /\ \A i \in 1..Len(b) :
              i \in Taking(b \o c, flags, letters) <=> i \in Taking(b, flags, letters)
         /\ \A k \in 1..Len(c) :
              Len(b) + k \in Taking(b \o c, flags, letters) <=> k \in Taking(c, flags, letters)
  <1>1. /\ DOMAIN (b \o c) = 1..(Len(b) + Len(c)) /\ DOMAIN b = 1..Len(b) /\ DOMAIN c = 1..Len(c)
        /\ Len(b) \in Nat /\ Len(c) \in Nat
    <2>1. b \o c \in Seq(T) /\ Len(b \o c) = Len(b) + Len(c)
      BY OfTwo
    <2>2. PICK args : args = b \o c
      OBVIOUS
    <2>3. DOMAIN args = 1..Len(args)
      BY <2>1, <2>2
    <2> QED BY <2>1, <2>2, <2>3
  <1>2. PICK m \in Nat, n \in Nat : m = Len(b) /\ n = Len(c)
    BY <1>1
  <1>3. ASSUME NEW i \in 1..m
        PROVE  i \in Taking(b \o c, flags, letters) <=> i \in Taking(b, flags, letters)
    <2>1. (b \o c)[i] = b[i] /\ i \in DOMAIN (b \o c) /\ i \in DOMAIN b
      BY <1>1, <1>2, OfTwo
    <2> QED BY <2>1, TakingIs
  <1>4. ASSUME NEW k \in 1..n
        PROVE  m + k \in Taking(b \o c, flags, letters) <=> k \in Taking(c, flags, letters)
    <2>1. (b \o c)[m + k] = c[k] /\ m + k \in DOMAIN (b \o c) /\ k \in DOMAIN c
      BY <1>1, <1>2, OfTwo
    <2> QED BY <2>1, TakingIs
  <1> QED BY <1>2, <1>3, <1>4

(* What is looked at of two lists is looked at in one of them.             *)
SeenIn(args, flags, letters, t) == \E j \in Visited(args, Taking(args, flags, letters)) : t = args[j]

(* What is looked at in two lists put together is looked at in one of      *)
(* them.                                                                   *)
LEMMA SeenOfTwo ==
  ASSUME NEW T, NEW b \in Seq(T), NEW c \in Seq(T), NEW flags, NEW letters,
         OptionsFor(b, flags, letters), NEW i \in Visited(b \o c, Taking(b \o c, flags, letters))
  PROVE  SeenIn(b, flags, letters, (b \o c)[i]) \/ SeenIn(c, flags, letters, (b \o c)[i])
  <1>1. PICK V, VB, VC : /\ V = Taking(b \o c, flags, letters)
                         /\ VB = Taking(b, flags, letters) /\ VC = Taking(c, flags, letters)
    OBVIOUS
  <1>2. /\ \A k \in 1..Len(b) : k \in V <=> k \in VB
        /\ \A k \in 1..Len(c) : Len(b) + k \in V <=> k \in VC
    BY <1>1, TakingOfTwo
  <1>3. \A k \in Visited(b, VB) : k \in VB => k < Len(b)
    BY <1>1 DEF OptionsFor, OptionsOnly
  <1>4. /\ i <= Len(b) => i \in Visited(b, VB)
        /\ i > Len(b) => i - Len(b) \in Visited(c, VC)
    <2>1. i \in Visited(b \o c, V)
      BY <1>1
    <2> QED BY <2>1, <1>2, <1>3, LooksAtTwo
  <1>5. PICK m \in Nat, n \in Nat : m = Len(b) /\ n = Len(c)
    OBVIOUS
  <1>6. i \in 1..(m + n)
    <2>1. Len(b \o c) = m + n /\ Len(b \o c) \in Nat
      BY <1>5, OfTwo
    <2>2. i \in 1..Len(b \o c)
      BY <2>1, Looks
    <2> QED BY <2>1, <2>2
  <1>7. CASE i <= m
    <2>1. i \in Visited(b, VB) /\ (b \o c)[i] = b[i]
      BY <1>4, <1>5, <1>6, <1>7, OfTwo
    <2> QED BY <2>1, <1>1 DEF SeenIn
  <1>8. CASE i > m
    <2>1. PICK j : j = i - m
      OBVIOUS
    <2>2. j \in 1..n /\ m + j = i /\ j \in Visited(c, VC)
      BY <2>1, <1>4, <1>5, <1>6, <1>8
    <2>3. (b \o c)[i] = c[j]
      BY <2>2, <1>5, OfTwo
    <2> QED BY <2>2, <2>3, <1>1 DEF SeenIn
  <1> QED BY <1>5, <1>6, <1>7, <1>8

(* What a purpose writes behind the tool and its subcommand.               *)
Rest(before, dashes, ops, after) ==
  before \o (IF dashes THEN <<Dashes>> ELSE <<>>) \o ops \o after

(* With a "--" and nothing behind the operands.                            *)
LEMMA RestDashed ==
  ASSUME NEW T, NEW before \in Seq(T), NEW ops \in Seq(T), Dashes \in T
  PROVE  /\ Rest(before, TRUE, ops, <<>>) = before \o Dashed(ops)
         /\ Dashed(ops) \in Seq(T)
  <1>1. <<Dashes>> \in Seq(T)
    OBVIOUS
  <1>2. Rest(before, TRUE, ops, <<>>) = before \o <<Dashes>> \o ops \o <<>>
    BY Zenon DEF Rest
  <1>3. before \o <<Dashes>> \o ops \o <<>> = before \o <<Dashes>> \o ops
    <2>1. before \o <<Dashes>> \o ops \in Seq(T)
      BY <1>1
    <2> QED BY <2>1
  <1>4. before \o <<Dashes>> \o ops = before \o (<<Dashes>> \o ops)
    BY <1>1, ConcatAssociative
  <1>5. <<Dashes>> \o ops \in Seq(T)
    BY <1>1
  <1> QED BY <1>2, <1>3, <1>4, <1>5, Zenon DEF Dashed

(* How a purpose is written: options around the operands, and "--" before  *)
(* them if they are last.                                                  *)
Written(before, dashes, after, flags, letters) ==
  /\ dashes \in BOOLEAN
  /\ dashes => after = <<>>
  /\ OptionsFor(before, flags, letters)
  /\ OptionsFor(after, flags, letters)

Words(ops) == \A k \in 1..Len(ops) : ops[k].kind = "word"

(* Options and their values, "--" and what comes before and after hide no  *)
(* operand and add none.                                                   *)
LEMMA RestOperands ==
  ASSUME NEW T, NEW before \in Seq(T), NEW ops \in Seq(T), NEW after \in Seq(T), Dashes \in T,
         NEW dashes, NEW flags, NEW letters, Written(before, dashes, after, flags, letters),
         Words(ops), NEW args, args = Rest(before, dashes, ops, after)
  PROVE  Operands(args, Taking(args, flags, letters)) = Listed(ops)
  <1>0. /\ dashes \in BOOLEAN /\ (dashes => after = <<>>)
        /\ OptionsFor(before, flags, letters) /\ OptionsFor(after, flags, letters)
        /\ \A k \in 1..Len(ops) : ops[k].kind = "word"
    BY DEF Written, Words
  <1>1. PICK V, VB, VC : /\ V = Taking(args, flags, letters)
                         /\ VB = Taking(before, flags, letters)
                         /\ VC = Taking(after, flags, letters)
    OBVIOUS
  <1>2. OptionsOnly(before, VB) /\ OptionsOnly(after, VC)
    BY <1>0, <1>1 DEF OptionsFor
  <1>3. CASE dashes
    <2>1. PICK c : c = Dashed(ops)
      OBVIOUS
    <2>0. c \in Seq(T) /\ args = before \o c
      <3>1. args = Rest(before, TRUE, ops, <<>>)
        BY <1>0, <1>3
      <3>2. Rest(before, TRUE, ops, <<>>) = before \o Dashed(ops) /\ Dashed(ops) \in Seq(T)
        BY RestDashed, Zenon
      <3> QED BY <2>1, <3>1, <3>2, Zenon
    <2>2. \A i \in 1..Len(before) : i \in V <=> i \in VB
      <3>1. V = Taking(before \o c, flags, letters)
        BY <1>1, <2>0
      <3> QED BY <3>1, <1>1, <2>0, TakingOfTwo
    <2>3. Operands(before \o c, V) = Listed(ops)
      BY <2>0, <2>1, <2>2, <1>2, OperandsAfterDashes
    <2> QED BY <2>0, <2>3, <1>1
  <1>4. CASE ~dashes
    <2>1. PICK c : c = ops \o after
      OBVIOUS
    <2>2. c \in Seq(T) /\ args = before \o c /\ args = before \o ops \o after
      <3>1. before \o <<>> = before
        OBVIOUS
      <3>2. args = before \o ops \o after
        BY <1>4, <3>1, Zenon DEF Rest
      <3>3. before \o ops \o after = before \o (ops \o after)
        BY ConcatAssociative
      <3>4. ops \o after \in Seq(T)
        OBVIOUS
      <3> QED BY <2>1, <3>2, <3>3, <3>4, Zenon
    <2>3. PICK m \in Nat, n \in Nat, l \in Nat : m = Len(before) /\ n = Len(ops) /\ l = Len(after)
      OBVIOUS
    <2>4. PICK VR : VR = Taking(c, flags, letters)
      OBVIOUS
    <2>5. /\ \A i \in 1..m : i \in V <=> i \in VB
          /\ \A k \in 1..Len(c) : m + k \in V <=> k \in VR
      BY <1>1, <2>2, <2>3, <2>4, TakingOfTwo
    <2>6. /\ Len(c) = n + l
          /\ \A k \in 1..n : c[k] = ops[k]
          /\ \A k \in 1..l : n + k \in VR <=> k \in VC
      BY <1>1, <2>1, <2>3, <2>4, TakingOfTwo, OfTwo
    <2>7. ASSUME NEW k \in 1..n PROVE m + k \notin V
      <3>1. k \in 1..Len(c) /\ c[k].kind = "word"
        BY <1>0, <2>3, <2>6
      <3>2. k \notin VR
        BY <3>1, <2>4, TakingIs, WordsTakeNothing
      <3> QED BY <3>1, <3>2, <2>5
    <2>8. ASSUME NEW k \in 1..l PROVE m + n + k \in V <=> k \in VC
      <3>1. n + k \in 1..Len(c) /\ m + n + k = m + (n + k)
        BY <2>6
      <3> QED BY <3>1, <2>5, <2>6
    <2>9. Operands(before \o ops \o after, V) = Listed(ops)
      <3>1. /\ \A i \in 1..Len(before) : i \in V <=> i \in VB
            /\ \A k \in 1..Len(ops) : Len(before) + k \notin V /\ ops[k].kind = "word"
            /\ \A k \in 1..Len(after) : Len(before) + Len(ops) + k \in V <=> k \in VC
        BY <1>0, <2>3, <2>5, <2>7, <2>8
      <3> QED BY <3>1, <1>2, OperandsBetween
    <2> QED BY <2>2, <2>9, <1>1
  <1> QED BY <1>3, <1>4

(* A tool whose short options take no value.                               *)
LEMMA NoLetters ==
  ASSUME NEW args, NEW flags
  PROVE  Taking(args, flags, {}) = FlagValued(args, flags)
  <1>1. LetterValued(args, {}) = {}
    BY DEF LetterValued, TakesNext
  <1> QED BY <1>1 DEF Taking

(* The patterns of packages: the arguments of the test binary come after   *)
(* them.                                                                   *)
NoArgs(args) == \A i \in Visited(args, Taking(args, goValueFlags, {})) : args[i] # Option("args")

(* The patterns of packages are the operands, for "-args" is no option     *)
(* of the go tool (goPatterns).                                            *)
LEMMA RestPatterns ==
  ASSUME NEW T, NEW before \in Seq(T), NEW ops \in Seq(T), NEW after \in Seq(T), Dashes \in T,
         NEW dashes, Written(before, dashes, after, goValueFlags, {}),
         NoArgs(before), NoArgs(after), Words(ops),
         NEW args, args = Rest(before, dashes, ops, after)
  PROVE  goPatterns(args) = Clean(Listed(ops))
  <1>0. /\ dashes \in BOOLEAN /\ (dashes => after = <<>>)
        /\ OptionsFor(before, goValueFlags, {}) /\ OptionsFor(after, goValueFlags, {})
        /\ \A k \in 1..Len(ops) : ops[k].kind = "word"
    BY DEF Written, Words
  <1>1. PICK V, VB, VC : /\ V = Taking(args, goValueFlags, {})
                         /\ VB = Taking(before, goValueFlags, {})
                         /\ VC = Taking(after, goValueFlags, {})
    OBVIOUS
  <1>2. V = FlagValued(args, goValueFlags)
    BY <1>1, NoLetters
  <1>3. Operands(args, V) = Listed(ops)
    BY <1>1, RestOperands
  <1>4. PICK ends : ends = {i \in Visited(args, V) : args[i] \in {Option("args"), Dashes}}
    OBVIOUS
  <1>5. Dashes.kind = "--" /\ Option("args").kind = "option"
    BY DEF Dashes, Option, Token
  <1>6. ends = {} \/ args[Min(ends)] = Dashes
    <2>1. CASE ~dashes
      <3>1. PICK c : c = ops \o after
        OBVIOUS
      <3>2. c \in Seq(T) /\ args = before \o c
        <4>1. before \o <<>> = before
          OBVIOUS
        <4>2. args = before \o ops \o after
          BY <2>1, <4>1, Zenon DEF Rest
        <4>3. before \o ops \o after = before \o (ops \o after)
          BY ConcatAssociative
        <4>4. ops \o after \in Seq(T)
          OBVIOUS
        <4> QED BY <3>1, <4>2, <4>3, <4>4, Zenon
      <3> SUFFICES ASSUME NEW i \in Visited(args, V) PROVE args[i] \notin {Option("args"), Dashes}
        BY <1>4
      <3>3. \/ \E j \in Visited(before, VB) : args[i] = before[j]
            \/ \E j \in Visited(c, Taking(c, goValueFlags, {})) : args[i] = c[j]
        <4>1. i \in Visited(before \o c, Taking(before \o c, goValueFlags, {}))
          BY <3>2, <1>1
        <4>2. \/ SeenIn(before, goValueFlags, {}, (before \o c)[i])
              \/ SeenIn(c, goValueFlags, {}, (before \o c)[i])
          BY <1>0, <4>1, <3>2, SeenOfTwo, Zenon
        <4> QED BY <4>2, <3>2, <1>1 DEF SeenIn
      <3>4. CASE \E j \in Visited(before, VB) : args[i] = before[j]
        BY <1>0, <3>4, <1>1, <1>5 DEF NoArgs, OptionsFor, OptionsOnly
      <3>5. CASE \E j \in Visited(c, Taking(c, goValueFlags, {})) : args[i] = c[j]
        <4>1. PICK j \in Visited(c, Taking(c, goValueFlags, {})) : args[i] = c[j]
          BY <3>5
        <4>2. PICK VO : VO = Taking(ops, goValueFlags, {})
          OBVIOUS
        <4>3. \A k \in Visited(ops, VO) : k \in 1..Len(ops)
          <5>1. Len(ops) \in Nat
            OBVIOUS
          <5> QED BY <5>1, Looks
        <4>4. \A k \in Visited(ops, VO) : k \notin VO
          BY <1>0, <4>2, <4>3, TakingIs, WordsTakeNothing
        <4>5. /\ \A k \in 1..Len(ops) : k \in Taking(c, goValueFlags, {}) <=> k \in VO
              /\ \A k \in 1..Len(after) :
                   Len(ops) + k \in Taking(c, goValueFlags, {}) <=> k \in VC
          BY <3>1, <4>2, <1>1, TakingOfTwo
        <4>6. /\ j <= Len(ops) => j \in Visited(ops, VO)
              /\ j > Len(ops) => j - Len(ops) \in Visited(after, VC)
          <5>1. \A k \in Visited(ops, VO) : k \in VO => k < Len(ops)
            BY <4>4
          <5>2. j \in Visited(ops \o after, Taking(c, goValueFlags, {}))
            BY <4>1, <3>1
          <5> QED BY <5>1, <5>2, <4>5, LooksAtTwo
        <4>7. PICK n \in Nat, l \in Nat : n = Len(ops) /\ l = Len(after)
          OBVIOUS
        <4>8. j \in 1..(n + l)
          <5>1. Len(c) = n + l /\ Len(c) \in Nat
            BY <4>7, <3>1, OfTwo
          <5>2. j \in 1..Len(c)
            BY <4>1, <5>1, Looks
          <5> QED BY <5>1, <5>2
        <4>9. CASE j <= n
          <5>1. j \in 1..n /\ c[j] = ops[j]
            BY <4>7, <4>8, <4>9, <3>1, OfTwo
          <5>2. args[i].kind = "word"
            BY <1>0, <5>1, <4>1, <4>7
          <5> QED BY <5>2, <1>5
        <4>10. CASE j > n
          <5>1. PICK k : k = j - n
            OBVIOUS
          <5>2. k \in 1..l /\ n + k = j /\ k \in Visited(after, VC)
            BY <5>1, <4>6, <4>7, <4>8, <4>10
          <5>3. c[j] = after[k]
            BY <5>2, <4>7, <3>1, OfTwo
          <5> QED BY <1>0, <5>2, <5>3, <4>1, <1>1, <1>5 DEF NoArgs, OptionsFor, OptionsOnly
        <4> QED BY <4>7, <4>8, <4>9, <4>10
      <3> QED BY <3>3, <3>4, <3>5
    <2>2. CASE dashes
      <3>0. PICK c : c = Dashed(ops)
        OBVIOUS
      <3>1. c \in Seq(T) /\ args = before \o c
        <4>1. args = Rest(before, TRUE, ops, <<>>)
          BY <1>0, <2>2
        <4>2. Rest(before, TRUE, ops, <<>>) = before \o Dashed(ops) /\ Dashed(ops) \in Seq(T)
          BY RestDashed, Zenon
        <4> QED BY <3>0, <4>1, <4>2, Zenon
      <3>2. PICK m \in Nat, n \in Nat : m = Len(before) /\ n = Len(ops)
        OBVIOUS
      <3>3. /\ \A i \in 1..m : args[i] = before[i]
            /\ args[m + 1] = Dashes /\ Len(args) = m + (1 + n)
        <4>1. Len(c) = 1 + n /\ c[1] = Dashes /\ 1 \in 1..Len(c)
          BY <3>0, <3>2 DEF Dashed
        <4>2. args[m + 1] = c[1]
          BY <4>1, <3>1, <3>2, OfTwo
        <4>3. /\ Len(before \o c) = Len(before) + Len(c)
              /\ \A i \in 1..Len(before) : (before \o c)[i] = before[i]
          BY <3>1, OfTwo
        <4> QED BY <4>1, <4>2, <4>3, <3>1, <3>2
      <3>4. \A i \in 1..m : i \in V <=> i \in VB
        <4>1. V = Taking(before \o c, goValueFlags, {})
          BY <1>1, <3>1
        <4> QED BY <4>1, <1>1, <3>1, <3>2, TakingOfTwo
      <3>5. StopsAt(args, V, m + 1)
        <4>1. OptionsOnly(before, VB)
          BY <1>0, <1>1 DEF OptionsFor
        <4>2. StopsAt(before \o c, V, Len(before) + 1)
          BY <4>1, <3>0, <3>1, <3>2, <3>4, OperandsAfterDashes
        <4> QED BY <4>2, <3>1, <3>2
      <3>6. m + 1 \in ends /\ ends \in SUBSET Nat
        <4>1. m + 1 \in Visited(args, V)
          BY <3>3, <3>5 DEF StopsAt
        <4>2. Visited(args, V) \subseteq 1..Len(args)
          <5>1. Len(args) \in Nat
            BY <3>3
          <5> QED BY <5>1, Looks
        <4> QED BY <4>1, <4>2, <3>3, <1>4
      <3>7. PICK least : least = Min(ends)
        OBVIOUS
      <3>8. least \in ends /\ least \in Nat /\ least <= m + 1
        BY <3>6, <3>7, MinOf
      <3>9. ~(args[least] = Option("args"))
        <4> SUFFICES ASSUME args[least] = Option("args") PROVE FALSE
          OBVIOUS
        <4>1. least # m + 1
          <5>1. Option("args") # Dashes
            BY <1>5
          <5> QED BY <5>1, <3>3
        <4>2. least \in 1..m
          <5>1. least \in Visited(args, V) /\ Len(args) \in Nat
            BY <1>4, <3>3, <3>8
          <5>2. Visited(args, V) \subseteq 1..Len(args)
            BY <5>1, Looks
          <5> QED BY <5>1, <5>2, <4>1, <3>8
        <4>3. least \in Visited(before, VB)
          <5>1. PICK VD : VD = Taking(c, goValueFlags, {})
            OBVIOUS
          <5>2. /\ \A k \in 1..Len(before) : k \in V <=> k \in VB
                /\ \A k \in 1..Len(c) : Len(before) + k \in V <=> k \in VD
            <6>1. V = Taking(before \o c, goValueFlags, {})
              BY <1>1, <3>1
            <6> QED BY <6>1, <5>1, <1>1, <3>1, TakingOfTwo
          <5>3. \A k \in Visited(before, VB) : k \in VB => k < Len(before)
            BY <1>0, <1>1 DEF OptionsFor, OptionsOnly
          <5>4. least \in Visited(before \o c, V) /\ least <= Len(before)
            BY <4>2, <3>1, <3>2, <3>8, <1>4
          <5> QED BY <5>2, <5>3, <5>4, <3>1, LooksAtTwo
        <4>4. args[least] = before[least]
          BY <4>2, <3>3
        <4> QED BY <4>3, <4>4, <1>1 DEF NoArgs
      <3> QED BY <3>7, <3>8, <3>9, <1>4
    <2> QED BY <2>1, <2>2
  <1>7. goPatterns(args) = Clean(Operands(args, FlagValued(args, goValueFlags)))
    BY <1>2, <1>4, <1>6, Zenon DEF goPatterns
  <1> QED BY <1>2, <1>3, <1>7

-----------------------------------------------------------------------------
(*                    The algorithms: what a step names                    *)

(* What it is to be a prefix, name by name.                                *)
LEMMA PrefixIs ==
  ASSUME NEW T, NEW s \in Seq(T), NEW t \in Seq(T)
  PROVE  IsPrefix(s, t) <=> Len(s) <= Len(t) /\ \A i \in 1..Len(s) : s[i] = t[i]
  <1>1. PICK m \in Nat, n \in Nat : m = Len(s) /\ n = Len(t)
    OBVIOUS
  <1> SUFFICES ASSUME m <= n
               PROVE  SubSeq(s, 1, m) = SubSeq(t, 1, m) <=> \A i \in 1..m : s[i] = t[i]
    BY <1>1 DEF IsPrefix
  <1>2. SubSeq(s, 1, m) = [i \in 1..m |-> s[i]] /\ SubSeq(t, 1, m) = [i \in 1..m |-> t[i]]
    BY <1>1
  <1> QED BY <1>2

(* A prefix of a prefix is one.                                            *)
LEMMA PrefixOfPrefix ==
  ASSUME NEW T, NEW s \in Seq(T), NEW t \in Seq(T), NEW u \in Seq(T), IsPrefix(s, t), IsPrefix(t, u)
  PROVE  IsPrefix(s, u)
  <1>1. PICK m \in Nat, n \in Nat, l \in Nat : m = Len(s) /\ n = Len(t) /\ l = Len(u)
    OBVIOUS
  <1>2. m <= n /\ \A i \in 1..m : s[i] = t[i]
    BY <1>1, PrefixIs
  <1>3. n <= l /\ \A i \in 1..n : t[i] = u[i]
    BY <1>1, PrefixIs
  <1>4. m <= l /\ \A i \in 1..m : s[i] = u[i]
    BY <1>2, <1>3
  <1> QED BY <1>1, <1>4, PrefixIs

(* Of two beginnings of a path, one is a beginning of the other.           *)
LEMMA PrefixesCompare ==
  ASSUME NEW T, NEW s \in Seq(T), NEW t \in Seq(T), NEW u \in Seq(T), IsPrefix(s, u), IsPrefix(t, u)
  PROVE  IsPrefix(s, t) \/ IsPrefix(t, s)
  <1>1. PICK m \in Nat, n \in Nat, l \in Nat : m = Len(s) /\ n = Len(t) /\ l = Len(u)
    OBVIOUS
  <1>2. m <= l /\ \A i \in 1..m : s[i] = u[i]
    BY <1>1, PrefixIs
  <1>3. n <= l /\ \A i \in 1..n : t[i] = u[i]
    BY <1>1, PrefixIs
  <1>4. CASE m <= n
    <2>1. \A i \in 1..m : s[i] = t[i]
      BY <1>2, <1>3, <1>4
    <2> QED BY <2>1, <1>1, <1>4, PrefixIs
  <1>5. CASE n <= m
    <2>1. \A i \in 1..n : t[i] = s[i]
      BY <1>2, <1>3, <1>5
    <2> QED BY <2>1, <1>1, <1>5, PrefixIs
  <1> QED BY <1>4, <1>5

(* The name of a file, and its directory.                                  *)
LEMMA DirOf ==
  ASSUME NEW T, NEW p \in Seq(T), p # <<>>
  PROVE  /\ Dir(p) \in Seq(T) /\ Len(Dir(p)) = Len(p) - 1 /\ IsPrefix(Dir(p), p)
         /\ \A i \in 1..(Len(p) - 1) : Dir(p)[i] = p[i]
         /\ Base(p) = p[Len(p)] /\ Base(p) \in T
  <1>1. PICK n \in Nat : n = Len(p) /\ n > 0
    OBVIOUS
  <1>2. PICK d : d = Dir(p)
    OBVIOUS
  <1>3. d = SubSeq(p, 1, n - 1) /\ d = [i \in 1..(n - 1) |-> p[i]]
    BY <1>1, <1>2 DEF Dir, Front
  <1>4. d \in Seq(T) /\ Len(d) = n - 1 /\ \A i \in 1..(n - 1) : d[i] = p[i]
    BY <1>1, <1>3
  <1>5. IsPrefix(d, p)
    BY <1>1, <1>4, PrefixIs
  <1>6. Base(p) = p[n] /\ p[n] \in T
    BY <1>1 DEF Base, Last
  <1> QED BY <1>1, <1>2, <1>4, <1>5, <1>6

(* The directory and the name of a path with a name behind it.             *)
LEMMA DirOfAppended ==
  ASSUME NEW T, NEW d \in Seq(T), NEW x \in T
  PROVE  /\ Append(d, x) \in Seq(T) /\ Append(d, x) # <<>> /\ Len(Append(d, x)) = Len(d) + 1
         /\ Base(Append(d, x)) = x /\ Dir(Append(d, x)) = d /\ Front(Append(d, x)) = d
         /\ Append(d, x)[Len(d) + 1] = x
         /\ \A i \in 1..Len(d) : Append(d, x)[i] = d[i]
  <1>1. PICK n \in Nat : n = Len(d)
    OBVIOUS
  <1>2. PICK p : p = Append(d, x)
    OBVIOUS
  <1>3. /\ p \in Seq(T) /\ p # <<>> /\ Len(p) = n + 1
        /\ p[n + 1] = x /\ \A i \in 1..n : p[i] = d[i]
    BY <1>1, <1>2
  <1>4. PICK f : f = Front(p)
    OBVIOUS
  <1>5. f \in Seq(T) /\ Len(f) = n /\ \A i \in 1..n : f[i] = p[i]
    <2>1. Dir(p) = f /\ Len(p) - 1 = n
      BY <1>3, <1>4 DEF Dir
    <2> QED BY <2>1, <1>3, DirOf
  <1>6. f = d
    BY <1>1, <1>3, <1>5
  <1> QED BY <1>1, <1>2, <1>3, <1>4, <1>6 DEF Base, Last, Dir

(* The fields of a word.                                                   *)
LEMMA WordIs ==
  ASSUME NEW p
  PROVE  Word(p).kind = "word" /\ Word(p).path = p /\ Word(p).outside = FALSE
  BY DEF Word, Token

(* The fields of an operand outside of the worktree.                       *)
LEMMA OutsideIs == Outside.kind = "word" /\ Outside.outside = TRUE
  BY DEF Outside, Token

TargetKinds == {"path", "tree", "module", "module tree", "glob", "test", "outside"}

(* The arguments that stand for the targets.                               *)
Named(targets) == [i \in DOMAIN targets |-> Operand(targets[i])]

(* A target is named by a word.                                            *)
LEMMA OperandIsWord ==
  ASSUME NEW t, t.kind \in TargetKinds
  PROVE  Operand(t).kind = "word"
  BY WordIs, OutsideIs DEF Operand, TargetKinds

(* The arguments of the targets, one for each.                             *)
LEMMA NamedIs ==
  ASSUME NEW S, NEW targets \in Seq(S), \A i \in 1..Len(targets) : targets[i].kind \in TargetKinds
  PROVE  /\ Named(targets) \in Seq({Named(targets)[i] : i \in 1..Len(targets)})
         /\ Len(Named(targets)) = Len(targets)
         /\ \A i \in 1..Len(targets) : Named(targets)[i] = Operand(targets[i])
         /\ Words(Named(targets))
  <1>1. PICK n \in Nat : n = Len(targets) /\ DOMAIN targets = 1..n
    OBVIOUS
  <1>2. PICK ops : ops = Named(targets)
    OBVIOUS
  <1>3. ops = [i \in 1..n |-> Operand(targets[i])]
    BY <1>1, <1>2 DEF Named
  <1>4. /\ ops \in Seq({ops[i] : i \in 1..n}) /\ Len(ops) = n
        /\ \A i \in 1..n : ops[i] = Operand(targets[i])
    BY <1>3
  <1>5. \A i \in 1..n : ops[i].kind = "word"
    BY <1>1, <1>4, OperandIsWord
  <1> QED BY <1>1, <1>2, <1>4, <1>5 DEF Words

(* The paths that the targets name in the worktree.                        *)
LEMMA CleanNamed ==
  ASSUME NEW S, NEW targets \in Seq(S), \A i \in 1..Len(targets) : targets[i].kind \in TargetKinds
  PROVE  /\ targets = <<>> => Clean(Listed(Named(targets))) = {} /\ Listed(Named(targets)) = {}
         /\ \A i \in 1..Len(targets) : ~Operand(targets[i]).outside =>
              Operand(targets[i]).path \in Clean(Listed(Named(targets)))
  <1>1. PICK ops : ops = Named(targets)
    OBVIOUS
  <1>2. Len(ops) = Len(targets) /\ \A i \in 1..Len(targets) : ops[i] = Operand(targets[i])
    BY <1>1, NamedIs
  <1>3. ASSUME targets = <<>> PROVE Clean(Listed(ops)) = {} /\ Listed(ops) = {}
    <2>1. Listed(ops) = {}
      BY <1>2, <1>3 DEF Listed
    <2> QED BY <2>1 DEF Clean
  <1>4. ASSUME NEW i \in 1..Len(targets), ~Operand(targets[i]).outside
        PROVE  Operand(targets[i]).path \in Clean(Listed(ops))
    <2>1. PICK t : t = Operand(targets[i])
      OBVIOUS
    <2>2. t \in Listed(ops)
      BY <2>1, <1>2 DEF Listed
    <2>3. t.path \in cleanOperand(t)
      BY <2>1, <1>4 DEF cleanOperand
    <2> QED BY <2>1, <2>2, <2>3 DEF Clean
  <1> QED BY <1>1, <1>3, <1>4

(* A pattern of packages selects the directories that go reads it as.      *)
PackageTarget(t) ==
  /\ t.kind \in {"path", "tree", "module"}
  /\ t.kind = "path" => Len(t.path) # 1
  /\ t.kind = "path" => \A i \in DOMAIN t.path : t.path[i] # Dots
  /\ t.kind = "module" => \A i \in DOMAIN t.path : t.path[i] # Dots

(* A pattern of one name stands for the root of the module, unless it is   *)
(* a reserved one.                                                         *)
LEMMA PatternOfOne ==
  ASSUME NEW p, NEW dir, {i \in DOMAIN p : p[i] = Dots} = {}, p # <<>>, p # <<Dots>>,
         p # <<Plain("all")>>, Len(p) = 1, dir = <<>>, p[1].stem \notin {"std", "cmd", "tool"}
  PROVE  goPatternSelects(p, dir)
  <1>1. ~(Len(p) > 1)
    OBVIOUS
  <1> QED BY <1>1, Zenon DEF goPatternSelects

(* A pattern of several names stands for the directory that it ends in.    *)
LEMMA PatternOfMore ==
  ASSUME NEW p, NEW dir, {i \in DOMAIN p : p[i] = Dots} = {}, p # <<>>, p # <<Dots>>,
         p # <<Plain("all")>>, Len(p) \in Nat, Len(p) > 1, dir # <<>>, IsStrictSuffix(dir, p)
  PROVE  goPatternSelects(p, dir)
  <1>1. Len(p) # 1
    OBVIOUS
  <1> QED BY <1>1, Zenon DEF goPatternSelects

(* The pattern that names a package selects the package's directory        *)
(* (goPatternSelects).                                                     *)
LEMMA PatternSelects ==
  ASSUME NEW N, NEW dir \in Seq(N), NEW t, t.path \in Seq(N), PackageTarget(t),
         \/ t.kind \in {"path", "module"} /\ dir = t.path
         \/ t.kind = "tree" /\ IsPrefix(t.path, dir)
  PROVE  ~Operand(t).outside /\ goPatternSelects(Operand(t).path, dir)
  <1>0. /\ Dots # Plain("all") /\ Dots # Plain("mod") /\ Plain("mod").stem = "mod"
        /\ Plain("mod") # Plain("all")
    BY DEF Dots, Plain, Name
  <1>1. PICK n \in Nat : n = Len(dir) /\ DOMAIN dir = 1..n
    OBVIOUS
  <1>2. CASE t.kind = "path"
    <2>1. Operand(t) = Word(dir)
      BY <1>2 DEF Operand
    <2>2. PICK dots : dots = {i \in DOMAIN dir : dir[i] = Dots}
      OBVIOUS
    <2>3. dots = {} /\ n # 1 /\ (n = 0 <=> dir = <<>>)
      <3>1. dir = t.path
        BY <1>2
      <3> QED BY <3>1, <2>2, <1>1, <1>2 DEF PackageTarget
    <2>4. n # 0 => n > 1
      BY <2>3
    <2>5. dir # <<Dots>> /\ dir # <<Plain("all")>>
      BY <2>3, <1>1
    <2>6. goPatternSelects(dir, dir)
      BY <2>2, <2>3, <2>4, <2>5, <1>1 DEF goPatternSelects
    <2> QED BY <2>1, <2>6, WordIs
  <1>3. CASE t.kind = "module"
    <2>1. PICK p : p = <<Plain("mod")>> \o dir
      OBVIOUS
    <2>2. Operand(t) = Word(p)
      BY <2>1, <1>3 DEF Operand
    <2>3. PICK M : M = N \cup {Plain("mod")}
      OBVIOUS
    <2>4. /\ p \in Seq(M) /\ dir \in Seq(M) /\ Len(p) = n + 1 /\ p[1] = Plain("mod")
          /\ \A i \in 1..n : p[i + 1] = dir[i]
      BY <2>1, <2>3, <1>1
    <2>5. PICK dots : dots = {i \in DOMAIN p : p[i] = Dots}
      OBVIOUS
    <2>6. dots = {}
      <3> SUFFICES ASSUME NEW i \in 1..(n + 1) PROVE p[i] # Dots
        BY <2>4, <2>5
      <3>1. CASE i = 1
        BY <3>1, <2>4, <1>0
      <3>2. CASE i # 1
        <4>1. PICK k : k = i - 1
          OBVIOUS
        <4>2. k \in 1..n /\ k + 1 = i
          BY <3>2, <4>1, <1>1
        <4>3. p[i] = dir[k] /\ dir[k] # Dots
          BY <4>2, <2>4, <1>1, <1>3 DEF PackageTarget
        <4> QED BY <4>3
      <3> QED BY <3>1, <3>2
    <2>7. p # <<>> /\ p # <<Dots>> /\ p # <<Plain("all")>>
      <3>1. p # <<>>
        BY <2>4
      <3>2. p[1] # Dots /\ p[1] # Plain("all")
        BY <2>4, <1>0
      <3> QED BY <3>1, <3>2
    <2>8. CASE dir = <<>>
      <3>1. Len(p) = 1 /\ p[1].stem \notin {"std", "cmd", "tool"}
        BY <2>4, <2>8, <1>0, <1>1
      <3>2. goPatternSelects(p, dir)
        BY <2>5, <2>6, <2>7, <2>8, <3>1, PatternOfOne
      <3> QED BY <2>2, <3>2, WordIs
    <2>9. CASE dir # <<>>
      <3>1. n > 0
        BY <2>9, <1>1
      <3>2. PICK rd, rp : rd = Reverse(dir) /\ rp = Reverse(p)
        OBVIOUS
      <3>3. /\ rd = [i \in 1..n |-> dir[(n - i) + 1]]
            /\ rp = [i \in 1..(n + 1) |-> p[((n + 1) - i) + 1]]
        BY <3>2, <2>4, <1>1 DEF Reverse
      <3>4. /\ rd \in Seq(M) /\ Len(rd) = n /\ \A i \in 1..n : rd[i] = dir[(n - i) + 1]
        <4>1. \A i \in 1..n : (n - i) + 1 \in 1..n
          OBVIOUS
        <4> QED BY <4>1, <3>3, <2>4, <1>1
      <3>5. /\ rp \in Seq(M) /\ Len(rp) = n + 1
            /\ \A i \in 1..(n + 1) : rp[i] = p[((n + 1) - i) + 1]
        <4>1. \A i \in 1..(n + 1) : ((n + 1) - i) + 1 \in 1..(n + 1)
          OBVIOUS
        <4> QED BY <4>1, <3>3, <2>4
      <3>6. ASSUME NEW i \in 1..n PROVE rd[i] = rp[i]
        <4>1. PICK k : k = (n - i) + 1
          OBVIOUS
        <4>2. k \in 1..n /\ ((n + 1) - i) + 1 = k + 1 /\ i \in 1..(n + 1)
          BY <4>1
        <4> QED BY <4>1, <4>2, <3>4, <3>5, <2>4
      <3>7. IsPrefix(rd, rp)
        BY <3>4, <3>5, <3>6, PrefixIs
      <3>8. IsStrictSuffix(dir, p)
        BY <3>2, <3>7, <2>4, <1>1 DEF IsStrictSuffix, IsSuffix
      <3>9. Len(p) > 1
        BY <3>1, <2>4
      <3>10. goPatternSelects(p, dir)
        BY <2>5, <2>6, <2>7, <2>9, <3>8, <3>9, PatternOfMore
      <3> QED BY <2>2, <3>10, WordIs
    <2> QED BY <2>8, <2>9
  <1>4. CASE t.kind = "tree"
    <2>1. PICK p : p = Append(t.path, Dots)
      OBVIOUS
    <2>2. Operand(t) = Word(p)
      BY <2>1, <1>4 DEF Operand
    <2>3. PICK M : M = N \cup {Dots}
      OBVIOUS
    <2>4. t.path \in Seq(M) /\ dir \in Seq(M)
      BY <2>3
    <2>5. /\ p \in Seq(M) /\ Len(p) = Len(t.path) + 1 /\ p # <<>> /\ Base(p) = Dots
          /\ Front(p) = t.path /\ p[Len(t.path) + 1] = Dots
      BY <2>1, <2>3, <2>4, DirOfAppended
    <2>6. PICK dots : dots = {i \in DOMAIN p : p[i] = Dots}
      OBVIOUS
    <2>7. dots # {}
      <3>1. Len(t.path) + 1 \in DOMAIN p
        BY <2>5, <2>4
      <3> QED BY <3>1, <2>5, <2>6
    <2>8. underOrEqual(dir, Front(p))
      BY <2>5, <1>4 DEF underOrEqual
    <2>9. p # <<Plain("all")>>
      <3> SUFFICES ASSUME p = <<Plain("all")>> PROVE FALSE
        OBVIOUS
      <3>1. Len(p) = 1 /\ p[1] = Plain("all")
        OBVIOUS
      <3>2. Base(p) = Plain("all")
        BY <3>1 DEF Base, Last
      <3> QED BY <3>2, <2>5, <1>0
    <2>10. goPatternSelects(p, dir)
      BY <2>5, <2>6, <2>7, <2>8, <2>9 DEF goPatternSelects
    <2> QED BY <2>2, <2>10, WordIs
  <1> QED BY <1>2, <1>3, <1>4

(* A list over a set is one over any larger set.                           *)
LEMMA SeqGrows ==
  ASSUME NEW T, NEW U, T \subseteq U, NEW s \in Seq(T)
  PROVE  s \in Seq(U)
  OBVIOUS

(* What is behind the first of two lists.                                  *)
LEMMA Behind ==
  ASSUME NEW T, NEW b \in Seq(T), NEW c \in Seq(T)
  PROVE  SubSeq(b \o c, Len(b) + 1, Len(b \o c)) = c
  <1>1. PICK m \in Nat, n \in Nat : m = Len(b) /\ n = Len(c)
    OBVIOUS
  <1>2. PICK s : s = b \o c
    OBVIOUS
  <1>3. s \in Seq(T) /\ Len(s) = m + n /\ \A k \in 1..n : s[m + k] = c[k]
    BY <1>1, <1>2, OfTwo
  <1>4. PICK r : r = SubSeq(s, m + 1, m + n)
    OBVIOUS
  <1>5. r = [k \in 1..n |-> s[m + k]]
    BY <1>3, <1>4
  <1>6. r = c
    <2>1. c = [k \in 1..n |-> c[k]]
      BY <1>1
    <2> QED BY <2>1, <1>3, <1>5
  <1> QED BY <1>1, <1>2, <1>3, <1>4, <1>6

(* The arguments of a purpose are a list of arguments.                     *)
ArgumentSet(T, targets) == T \cup {Dashes} \cup {Named(targets)[i] : i \in 1..Len(targets)}

(* The arguments of a step are a list of tokens.                           *)
LEMMA ArgumentsOf ==
  ASSUME NEW T, NEW before \in Seq(T), NEW after \in Seq(T), NEW S, NEW targets \in Seq(S),
         \A i \in 1..Len(targets) : targets[i].kind \in TargetKinds, NEW dashes,
         NEW U, U = ArgumentSet(T, targets)
  PROVE  /\ T \subseteq U /\ Dashes \in U
         /\ before \in Seq(U) /\ after \in Seq(U) /\ Named(targets) \in Seq(U)
         /\ Rest(before, dashes, Named(targets), after) \in Seq(U)
  <1>1. PICK ops : ops = Named(targets)
    OBVIOUS
  <1>2. PICK O : O = {ops[i] : i \in 1..Len(targets)}
    OBVIOUS
  <1>3. ops \in Seq(O)
    BY <1>1, <1>2, NamedIs
  <1>4. U = T \cup {Dashes} \cup O
    BY <1>1, <1>2 DEF ArgumentSet
  <1>5. before \in Seq(U) /\ after \in Seq(U) /\ ops \in Seq(U)
    <2>1. T \subseteq U /\ O \subseteq U
      BY <1>4
    <2> QED BY <2>1, <1>3, SeqGrows
  <1>6. PICK d \in Seq(U) : d = IF dashes THEN <<Dashes>> ELSE <<>>
    <2>1. <<Dashes>> \in Seq(U) /\ <<>> \in Seq(U)
      BY <1>4
    <2> QED BY <2>1
  <1>7. before \o d \o ops \o after \in Seq(U)
    BY <1>5
  <1>8. Rest(before, dashes, ops, after) \in Seq(U)
    BY <1>6, <1>7, Zenon DEF Rest
  <1> QED BY <1>1, <1>4, <1>5, <1>8

(* There is a target when the list of them is not empty.                   *)
LEMMA TargetsOf ==
  ASSUME NEW S, NEW targets \in Seq(S), targets # <<>>
  PROVE  Range(targets) # {} /\ \A t \in Range(targets) : \E i \in 1..Len(targets) : t = targets[i]
  <1>1. PICK n \in Nat : n = Len(targets) /\ n > 0 /\ DOMAIN targets = 1..n
    OBVIOUS
  <1>2. targets[1] \in Range(targets)
    <2>1. 1 \in DOMAIN targets
      BY <1>1
    <2> QED BY <2>1, Zenon DEF Range
  <1>3. \A t \in Range(targets) : \E i \in 1..n : t = targets[i]
    BY <1>1 DEF Range
  <1> QED BY <1>1, <1>2, <1>3

(* The elements of the lists are those of the two put together.            *)
LEMMA RangesOfTwo ==
  ASSUME NEW T, NEW b \in Seq(T), NEW c \in Seq(T)
  PROVE  b \in Seq(Range(b \o c)) /\ c \in Seq(Range(b \o c))
  <1>1. PICK m \in Nat, n \in Nat : m = Len(b) /\ n = Len(c)
    OBVIOUS
  <1>2. PICK s : s = b \o c
    OBVIOUS
  <1>3. /\ s \in Seq(T) /\ Len(s) = m + n /\ DOMAIN s = 1..(m + n)
        /\ \A i \in 1..m : s[i] = b[i]
        /\ \A k \in 1..n : s[m + k] = c[k]
    BY <1>1, <1>2, OfTwo
  <1>4. \A i \in 1..(m + n) : s[i] \in Range(s)
    BY <1>3, Zenon DEF Range
  <1>5. \A i \in 1..m : b[i] \in Range(s)
    <2>1. \A i \in 1..m : i \in 1..(m + n)
      OBVIOUS
    <2> QED BY <2>1, <1>3, <1>4
  <1>6. \A k \in 1..n : c[k] \in Range(s)
    <2>1. \A k \in 1..n : m + k \in 1..(m + n)
      OBVIOUS
    <2> QED BY <2>1, <1>3, <1>4
  <1> QED BY <1>1, <1>2, <1>5, <1>6

(* A changed test source is one of the sources of the change               *)
(* (testSources).                                                          *)
LEMMA ItselfOf ==
  ASSUME NEW e, isTestSource(e.path)
  PROVE  e \in testSources({e}) /\ e.path # <<>>
  BY DEF testSources, isTestSource, isTestPath

(* The least of the places, when the first argument is one of them.        *)
LEMMA FirstOf ==
  ASSUME NEW ends, ends \subseteq Nat \ {0}, 1 \in ends
  PROVE  Min(ends) = 1
  <1>1. PICK least : least = Min(ends)
    OBVIOUS
  <1>2. least \in ends /\ least <= 1
    BY <1>1, MinOf
  <1>3. least \in Nat /\ least # 0
    BY <1>2
  <1> QED BY <1>1, <1>2, <1>3

(* The go tool: a test of a package that the step names is a match         *)
(* (goMatches).                                                            *)
LEMMA GoJudges ==
  ASSUME NEW T, NEW before \in Seq(T), NEW after \in Seq(T), NEW S, NEW targets \in Seq(S),
         NEW dashes, Written(before, dashes, after, goValueFlags, {}),
         NoArgs(before), NoArgs(after), NEW N,
         \A i \in 1..Len(targets) : PackageTarget(targets[i]) /\ targets[i].path \in Seq(N),
         NEW e, e.path \in Seq(N), isTestSource(e.path), GoRuns(Range(targets), e.path),
         NEW args,
         args = <<Word(<<Plain("test")>>)>> \o Rest(before, dashes, Named(targets), after)
  PROVE  e \in goMatches(args, {e})
  <1>0. \A i \in 1..Len(targets) : targets[i].kind \in TargetKinds
    BY DEF PackageTarget, TargetKinds
  <1>1. PICK rest, ops : rest = Rest(before, dashes, ops, after) /\ ops = Named(targets)
    OBVIOUS
  <1>2. PICK U : /\ Dashes \in U /\ before \in Seq(U) /\ after \in Seq(U) /\ ops \in Seq(U)
                 /\ rest \in Seq(U)
    <2>1. PICK X : X = ArgumentSet(T, targets)
      OBVIOUS
    <2>2. /\ Dashes \in X /\ before \in Seq(X) /\ after \in Seq(X) /\ Named(targets) \in Seq(X)
          /\ Rest(before, dashes, Named(targets), after) \in Seq(X)
      BY <1>0, <2>1, ArgumentsOf
    <2> QED BY <1>1, <2>2
  <1>3. PICK first, w : w = Word(<<Plain("test")>>) /\ first = <<w>>
    OBVIOUS
  <1>4. PICK W : W = U \cup {w}
    OBVIOUS
  <1>5. first \in Seq(W) /\ rest \in Seq(W) /\ args = first \o rest /\ Len(first) = 1
    BY <1>1, <1>2, <1>3, <1>4
  <1>6. /\ args \in Seq(W) /\ Len(args) = 1 + Len(rest) /\ args[1] = w
        /\ SubSeq(args, 1 + 1, Len(args)) = rest
    <2>1. args[1] = first[1] /\ first[1] = w
      BY <1>3, <1>5, OfTwo
    <2>2. SubSeq(args, 1 + 1, Len(args)) = rest
      BY <1>5, Behind
    <2>3. first \o rest \in Seq(W) /\ Len(first \o rest) = Len(first) + Len(rest)
      BY <1>5, OfTwo
    <2> QED BY <2>1, <2>2, <2>3, <1>5
  <1>7. goSubcommand(args) = 1
    <2>1. PICK seen : seen = Visited(args, {i \in DOMAIN args : args[i].kind = "option" /\ args[i].name = "C"})
      OBVIOUS
    <2>2. Len(args) \in Nat /\ Len(args) > 0
      BY <1>5, <1>6
    <2>3. seen \subseteq 1..Len(args) /\ 1 \in seen
      BY <2>1, <2>2, Looks
    <2>4. PICK ends : ends = {i \in seen : args[i].kind \in {"--", "word"}}
      OBVIOUS
    <2>5. 1 \in ends /\ ends \subseteq Nat \ {0}
      <3>1. args[1].kind = "word"
        <4>1. w.kind = "word"
          BY <1>3, WordIs, Zenon
        <4> QED BY <4>1, <1>6
      <3>2. "word" \in {"--", "word"}
        OBVIOUS
      <3>3. \A i \in seen : i \in Nat \ {0}
        BY <2>2, <2>3
      <3> QED BY <3>1, <3>2, <3>3, <2>3, <2>4
    <2>6. ends # {} /\ Min(ends) = 1
      BY <2>5, FirstOf
    <2> QED BY <2>1, <2>4, <2>6, Zenon DEF goSubcommand
  <1>8. PICK patterns : patterns = Clean(Listed(ops))
    OBVIOUS
  <1>9. goPatterns(rest) = patterns
    <2>1. Words(ops)
      BY <1>0, <1>1, NamedIs
    <2>2. goPatterns(rest) = Clean(Listed(ops))
      BY <2>1, <1>1, <1>2, RestPatterns
    <2> QED BY <2>2, <1>8
  <1>10. PICK dir : dir = Dir(e.path)
    OBVIOUS
  <1>11. dir \in Seq(N) /\ e \in testSources({e}) /\ Base(e.path).affix = "_test.go"
    <2>1. e.path # <<>> /\ e \in testSources({e})
      BY ItselfOf
    <2>2. dir \in Seq(N)
      BY <2>1, <1>10, DirOf
    <2> QED BY <2>1, <2>2 DEF GoRuns
  <1>12. goSelected(patterns, dir)
    <2>1. CASE targets = <<>>
      <3>1. patterns = {}
        BY <2>1, <1>0, <1>1, <1>8, CleanNamed
      <3>2. Range(targets) = {}
        BY <2>1 DEF Range
      <3>3. dir = <<>>
        BY <3>2, <1>10 DEF GoRuns
      <3> QED BY <3>1, <3>3 DEF goSelected
    <2>2. CASE targets # <<>>
      <3>1. Range(targets) # {} /\ \A t \in Range(targets) : \E i \in 1..Len(targets) : t = targets[i]
        BY <2>2, TargetsOf
      <3>2. PICK i \in 1..Len(targets) :
              \/ targets[i].kind \in {"path", "module"} /\ dir = targets[i].path
              \/ targets[i].kind \in {"tree", "module tree"} /\ IsPrefix(targets[i].path, dir)
        BY <3>1, <1>10 DEF GoRuns
      <3>3. PICK t : t = targets[i]
        OBVIOUS
      <3>4. PackageTarget(t) /\ t.path \in Seq(N) /\ t.kind # "module tree"
        BY <3>3 DEF PackageTarget
      <3>5. ~Operand(t).outside /\ goPatternSelects(Operand(t).path, dir)
        BY <3>2, <3>3, <3>4, <1>11, PatternSelects
      <3>6. Operand(t).path \in patterns
        BY <3>3, <3>5, <1>0, <1>1, <1>8, CleanNamed
      <3> QED BY <3>5, <3>6 DEF goSelected
    <2> QED BY <2>1, <2>2
  <1>13. goMatches(args, {e}) = {c \in testSources({e}) : /\ Base(c.path).affix = "_test.go"
                                                         /\ goSelected(patterns, Dir(c.path))}
    <2>1. args[1] = Word(<<Plain("test")>>) /\ 1 # 0
      BY <1>3, <1>6
    <2> QED BY <2>1, <1>6, <1>7, <1>9, Zenon DEF goMatches
  <1> QED BY <1>10, <1>11, <1>12, <1>13

(* Options with and without a value.                                       *)
LEMMA OneOption ==
  ASSUME NEW t, NEW flags, NEW letters, t.kind \notin {"word", "--"}, ~Takes(t, flags, letters)
  PROVE  OptionsFor(<<t>>, flags, letters)
  <1>1. PICK args, V : args = <<t>> /\ V = Taking(args, flags, letters)
    OBVIOUS
  <1>2. Len(args) = 1 /\ args[1] = t /\ Len(args) \in Nat
    BY <1>1
  <1>3. Visited(args, V) \subseteq 1..1
    BY <1>2, Looks
  <1>4. 1 \notin V
    BY <1>1, <1>2, TakingIs
  <1> QED BY <1>1, <1>2, <1>3, <1>4 DEF OptionsFor, OptionsOnly

(* An option and its value: only the option is looked at.                  *)
LEMMA OptionAndValue ==
  ASSUME NEW t, NEW u, NEW flags, NEW letters, t.kind \notin {"word", "--"}, Takes(t, flags, letters)
  PROVE  /\ OptionsFor(<<t, u>>, flags, letters)
         /\ Visited(<<t, u>>, Taking(<<t, u>>, flags, letters)) \subseteq {1}
  <1>1. PICK args, V : args = <<t, u>> /\ V = Taking(args, flags, letters)
    OBVIOUS
  <1>2. Len(args) = 2 /\ args[1] = t /\ DOMAIN args = 1..2 /\ Len(args) \in Nat
    BY <1>1
  <1>3. 1 \in V
    BY <1>1, <1>2, TakingIs
  <1>4. /\ Visited(args, V) \subseteq 1..2
        /\ \A j \in Visited(args, V) : j = 1 \/ \E k \in Visited(args, V) : After(V, k) = j
    BY <1>2, Looks
  <1>5. 2 \notin Visited(args, V)
    <2> SUFFICES ASSUME 2 \in Visited(args, V) PROVE FALSE
      OBVIOUS
    <2>1. PICK k \in 1..2 : After(V, k) = 2
      BY <1>4
    <2>2. k = 1
      BY <2>1 DEF After
    <2> QED BY <2>1, <2>2, <1>3 DEF After
  <1>6. Visited(args, V) \subseteq {1}
    BY <1>4, <1>5
  <1> QED BY <1>1, <1>2, <1>6 DEF OptionsFor, OptionsOnly

(* No option at all.                                                       *)
LEMMA NoOptions ==
  ASSUME NEW flags, NEW letters
  PROVE  OptionsFor(<<>>, flags, letters) /\ Visited(<<>>, Taking(<<>>, flags, letters)) = {}
  <1>1. PICK args, V : args = <<>> /\ V = Taking(args, flags, letters)
    OBVIOUS
  <1>2. Len(args) = 0 /\ Len(args) \in Nat
    BY <1>1
  <1>3. Visited(args, V) \subseteq 1..0
    BY <1>2, Looks
  <1> QED BY <1>1, <1>3 DEF OptionsFor, OptionsOnly

(* Options in two lists put together.                                      *)
LEMMA OptionsAfter ==
  ASSUME NEW T, NEW b \in Seq(T), NEW c \in Seq(T), NEW flags, NEW letters,
         OptionsFor(b, flags, letters), OptionsFor(c, flags, letters)
  PROVE  OptionsFor(b \o c, flags, letters)
  <1>1. PICK V, VB, VC : /\ V = Taking(b \o c, flags, letters)
                         /\ VB = Taking(b, flags, letters) /\ VC = Taking(c, flags, letters)
    OBVIOUS
  <1>2. /\ \A k \in 1..Len(b) : k \in V <=> k \in VB
        /\ \A k \in 1..Len(c) : Len(b) + k \in V <=> k \in VC
    BY <1>1, TakingOfTwo
  <1>3. OptionsOnly(b, VB) /\ OptionsOnly(c, VC)
    BY <1>1 DEF OptionsFor
  <1>4. OptionsOnly(b \o c, V)
    BY <1>2, <1>3, OptionsAndOptions
  <1> QED BY <1>1, <1>4 DEF OptionsFor

Both(b, c) == b \o c

(* Lists put together, in either order.                                    *)
LEMMA Regroup ==
  ASSUME NEW T, NEW b \in Seq(T), NEW c \in Seq(T), NEW d \in Seq(T)
  PROVE  Both(b, c) \in Seq(T) /\ Both(b, Both(c, d)) = Both(Both(b, c), d)
  <1>1. (b \o c) \o d = b \o (c \o d)
    BY ConcatAssociative
  <1>2. b \o c \in Seq(T)
    OBVIOUS
  <1> QED BY <1>1, <1>2, Zenon DEF Both

(* The one list and then the other.                                        *)
IsBoth(s, b, c) ==
  /\ Len(s) = Len(b) + Len(c)
  /\ \A i \in 1..Len(b) : s[i] = b[i]
  /\ \A k \in 1..Len(c) : s[Len(b) + k] = c[k]
  /\ SubSeq(s, Len(b) + 1, Len(s)) = c

(* Two lists put together.                                                 *)
LEMMA OfBoth ==
  ASSUME NEW T, NEW b \in Seq(T), NEW c \in Seq(T)
  PROVE  Both(b, c) \in Seq(T) /\ IsBoth(Both(b, c), b, c)
  BY OfTwo, Behind DEF Both, IsBoth

(* What is behind the first arguments of a command line is what is         *)
(* behind its options.                                                     *)
LEMMA RestAfter ==
  ASSUME NEW T, NEW first \in Seq(T), NEW before \in Seq(T), NEW ops \in Seq(T),
         NEW after \in Seq(T), Dashes \in T, NEW dashes
  PROVE  Both(first, Rest(before, dashes, ops, after)) = Rest(Both(first, before), dashes, ops, after)
  <1>1. PICK d \in Seq(T) : d = IF dashes THEN <<Dashes>> ELSE <<>>
    <2>1. <<Dashes>> \in Seq(T) /\ <<>> \in Seq(T)
      OBVIOUS
    <2> QED BY <2>1
  <1>2. /\ Rest(before, dashes, ops, after) = Both(Both(Both(before, d), ops), after)
        /\ Rest(Both(first, before), dashes, ops, after)
             = Both(Both(Both(Both(first, before), d), ops), after)
    BY <1>1, Zenon DEF Rest, Both
  <1>3. PICK x \in Seq(T) : x = Both(before, d)
    BY Regroup
  <1>4. PICK y \in Seq(T) : y = Both(x, ops)
    BY Regroup
  <1>5. Both(first, Both(y, after)) = Both(Both(first, y), after)
    BY Regroup
  <1>6. Both(first, Both(x, ops)) = Both(Both(first, x), ops)
    BY Regroup
  <1>7. Both(first, Both(before, d)) = Both(Both(first, before), d)
    BY Regroup
  <1> QED BY <1>2, <1>3, <1>4, <1>5, <1>6, <1>7, Zenon

(* A beginning of a list.                                                  *)
LEMMA BeginningIs ==
  ASSUME NEW T, NEW s \in Seq(T), NEW k \in 0..Len(s)
  PROVE  /\ SubSeq(s, 1, k) \in Seq(T) /\ Len(SubSeq(s, 1, k)) = k /\ IsPrefix(SubSeq(s, 1, k), s)
         /\ \A i \in 1..k : SubSeq(s, 1, k)[i] = s[i]
  <1>1. PICK n \in Nat : n = Len(s) /\ k \in Nat /\ k <= n
    OBVIOUS
  <1>2. PICK b : b = SubSeq(s, 1, k)
    OBVIOUS
  <1>3. b \in Seq(T) /\ Len(b) = k /\ \A i \in 1..k : b[i] = s[i]
    <2>1. b = [i \in 1..k |-> s[i]]
      BY <1>1, <1>2
    <2> QED BY <2>1, <1>1
  <1>4. IsPrefix(b, s)
    BY <1>1, <1>3, PrefixIs
  <1> QED BY <1>2, <1>3, <1>4

(* An operand of node, a glob perhaps, selects what is under it.           *)
LEMMA NodeSelects ==
  ASSUME NEW N, NEW operand \in Seq(N), NEW path \in Seq(N),
         \/ IsPrefix(operand, path)
         \/ /\ operand # <<>> /\ Base(operand).affix = "*"
            /\ IsPrefix(Front(operand), path)
  PROVE  nodeOperandSelects(operand, path)
  <1>1. PICK globs : globs = {i \in DOMAIN operand : operand[i].affix = "*"}
    OBVIOUS
  <1>2. PICK n \in Nat : n = Len(operand) /\ DOMAIN operand = 1..n
    OBVIOUS
  <1>3. CASE globs = {}
    <2>1. ~(operand # <<>> /\ Base(operand).affix = "*")
      <3>1. operand # <<>> => n \in 1..n
        BY <1>2
      <3> QED BY <3>1, <1>1, <1>2, <1>3 DEF Base, Last
    <2>2. nodeOperandSelects(operand, path) <=> underOrEqual(path, operand)
      BY <1>1, <1>3, Zenon DEF nodeOperandSelects
    <2> QED BY <2>1, <2>2 DEF underOrEqual
  <1>4. CASE globs # {}
    <2>1. PICK g : g = Min(globs)
      OBVIOUS
    <2>2. g \in globs
      <3>1. globs \in SUBSET Nat
        BY <1>1, <1>2
      <3> QED BY <3>1, <2>1, <1>4, MinOf
    <2>3. g \in 1..n /\ g - 1 \in 0..n /\ g - 1 \in Nat
      BY <2>2, <1>1, <1>2
    <2>4. PICK s : s = SubSeq(operand, 1, g - 1)
      OBVIOUS
    <2>5. /\ s \in Seq(N) /\ Len(s) = g - 1 /\ IsPrefix(s, operand)
          /\ \A i \in 1..(g - 1) : s[i] = operand[i]
      BY <2>3, <2>4, <1>2, BeginningIs
    <2>6. nodeOperandSelects(operand, path) <=> underOrEqual(path, s)
      BY <2>1, <2>4, <1>1, <1>4, Zenon DEF nodeOperandSelects
    <2>7. CASE IsPrefix(operand, path)
      BY <2>5, <2>6, <2>7, PrefixOfPrefix DEF underOrEqual
    <2>8. CASE operand # <<>> /\ IsPrefix(Front(operand), path)
      <3>1. PICK f : f = Front(operand)
        OBVIOUS
      <3>2. f \in Seq(N) /\ Len(f) = n - 1 /\ \A i \in 1..(n - 1) : f[i] = operand[i]
        BY <3>1, <2>8, <1>2, DirOf DEF Dir
      <3>3. Len(s) <= Len(f) /\ \A i \in 1..Len(s) : s[i] = f[i]
        BY <3>2, <2>3, <2>5
      <3>4. IsPrefix(s, f)
        BY <3>2, <3>3, <2>5, PrefixIs
      <3> QED BY <3>1, <3>2, <3>4, <2>5, <2>6, <2>8, PrefixOfPrefix DEF underOrEqual
    <2> QED BY <2>7, <2>8
  <1> QED BY <1>3, <1>4

(* node --test: a test under an operand is a match (nodeMatches).          *)
LEMMA NodeJudges ==
  ASSUME NEW T, NEW before \in Seq(T), NEW after \in Seq(T), NEW S, NEW targets \in Seq(S),
         NEW dashes, Written(before, dashes, after, nodeValueFlags, {}), NEW N,
         \A i \in 1..Len(targets) : /\ targets[i].kind \in {"path", "glob", "outside"}
                                    /\ targets[i].path \in Seq(N),
         NEW e, e.path \in Seq(N), isTestSource(e.path), NodeRuns(Range(targets), e.path),
         NEW args,
         args = Both(<<Option("test")>>, Rest(before, dashes, Named(targets), after))
  PROVE  e \in nodeMatches(args, {e})
  <1>0. \A i \in 1..Len(targets) : targets[i].kind \in TargetKinds
    BY DEF TargetKinds
  <1>1. PICK rest, ops : rest = Rest(before, dashes, ops, after) /\ ops = Named(targets)
    OBVIOUS
  <1>2. PICK U : /\ Dashes \in U /\ before \in Seq(U) /\ after \in Seq(U) /\ ops \in Seq(U)
                 /\ rest \in Seq(U)
    <2>1. PICK X : X = ArgumentSet(T, targets)
      OBVIOUS
    <2>2. /\ Dashes \in X /\ before \in Seq(X) /\ after \in Seq(X) /\ Named(targets) \in Seq(X)
          /\ Rest(before, dashes, Named(targets), after) \in Seq(X)
      BY <1>0, <2>1, ArgumentsOf
    <2> QED BY <1>1, <2>2
  <1>3. PICK first, w : w = Option("test") /\ first = <<w>>
    OBVIOUS
  <1>4. PICK W : W = U \cup {w}
    OBVIOUS
  <1>5. /\ first \in Seq(W) /\ rest \in Seq(W) /\ Dashes \in W
        /\ before \in Seq(W) /\ ops \in Seq(W) /\ after \in Seq(W) /\ Len(first) = 1 /\ first[1] = w
    BY <1>1, <1>2, <1>3, <1>4, SeqGrows
  <1>14. args = Both(first, rest)
    BY <1>1, <1>3
  <1>6. w.kind = "option" /\ w.name = "test" /\ w.glued = FALSE
    BY <1>3 DEF Option, Token
  <1>7. hasNodeTest(args)
    <2>1. args[1] = w /\ 1 \in DOMAIN args
      <3>1. 1 \in 1..Len(first) /\ Len(rest) \in Nat
        BY <1>5
      <3>2. /\ args \in Seq(W) /\ Len(args) = Len(first) + Len(rest)
            /\ \A i \in 1..Len(first) : args[i] = first[i]
        <4>1. Both(first, rest) \in Seq(W) /\ IsBoth(Both(first, rest), first, rest)
          BY <1>5, OfBoth
        <4> QED BY <4>1, <1>14 DEF IsBoth
      <3>3. args[1] = first[1] /\ Len(args) \in Nat /\ Len(args) >= 1 /\ DOMAIN args = 1..Len(args)
        BY <3>1, <3>2, <1>5
      <3> QED BY <3>3, <1>5
    <2> QED BY <2>1, <1>6 DEF hasNodeTest
  <1>8. PICK b : b = Both(first, before)
    OBVIOUS
  <1>9. b \in Seq(W) /\ args = Rest(b, dashes, ops, after)
    <2>1. Both(first, before) \in Seq(W)
      BY <1>5, OfBoth
    <2>2. Both(first, Rest(before, dashes, ops, after)) = Rest(Both(first, before), dashes, ops, after)
      BY <1>5, RestAfter
    <2> QED BY <2>1, <2>2, <1>1, <1>8, <1>14, Zenon
  <1>10. Written(b, dashes, after, nodeValueFlags, {})
    <2>1. OptionsFor(first, nodeValueFlags, {})
      <3>1. ~Takes(w, nodeValueFlags, {})
        <4>1. ~TakesNext(w, {})
          BY DEF TakesNext
        <4>2. w.name \notin nodeValueFlags
          BY <1>6 DEF nodeValueFlags
        <4> QED BY <4>1, <4>2 DEF Takes
      <3> QED BY <3>1, <1>3, <1>6, OneOption
    <2>2. OptionsFor(Both(first, before), nodeValueFlags, {})
      BY <2>1, <1>5, OptionsAfter DEF Written, Both
    <2> QED BY <2>2, <1>8 DEF Written
  <1>11. Operands(args, FlagValued(args, nodeValueFlags)) = Listed(ops)
    <2>1. Words(ops)
      BY <1>0, <1>1, NamedIs
    <2>3. PICK none : none = {}
      OBVIOUS
    <2>4. Written(b, dashes, after, nodeValueFlags, none)
      BY <2>3, <1>10
    <2>2. Operands(args, Taking(args, nodeValueFlags, none)) = Listed(ops)
      BY <2>1, <2>3, <2>4, <1>5, <1>9, RestOperands
    <2> QED BY <2>2, <2>3, NoLetters
  <1>12. Listed(ops) = {} \/ \E o \in Clean(Listed(ops)) : nodeOperandSelects(o, e.path)
    <2>1. CASE targets = <<>>
      BY <2>1, <1>0, <1>1, CleanNamed
    <2>2. CASE targets # <<>>
      <3>1. Range(targets) # {} /\ \A t \in Range(targets) : \E i \in 1..Len(targets) : t = targets[i]
        BY <2>2, TargetsOf
      <3>2. PICK i \in 1..Len(targets) :
              \/ targets[i].kind = "path" /\ IsPrefix(targets[i].path, e.path)
              \/ targets[i].kind = "glob" /\ Dir(e.path) = targets[i].path
        BY <3>1 DEF NodeRuns
      <3>3. PICK t, p : t = targets[i] /\ p = Operand(t).path
        OBVIOUS
      <3>4. t.path \in Seq(N)
        BY <3>3
      <3>5. nodeOperandSelects(p, e.path) /\ ~Operand(t).outside
        <4>1. CASE t.kind = "path"
          <5>1. Operand(t) = Word(t.path)
            BY <4>1 DEF Operand
          <5>2. IsPrefix(p, e.path) /\ p = t.path /\ ~Operand(t).outside
            BY <5>1, <4>1, <3>2, <3>3, WordIs
          <5> QED BY <5>2, <3>4, NodeSelects
        <4>2. CASE t.kind = "glob"
          <5>1. PICK x, q : x = Name("x", "*") /\ q = Append(t.path, x)
            OBVIOUS
          <5>2. Operand(t) = Word(q)
            BY <4>2, <5>1 DEF Operand
          <5>3. p = q /\ ~Operand(t).outside
            BY <5>2, <3>3, WordIs
          <5>4. PICK M : M = N \cup {x}
            OBVIOUS
          <5>5. t.path \in Seq(M) /\ e.path \in Seq(M)
            BY <5>4, <3>4, SeqGrows
          <5>6. q \in Seq(M) /\ q # <<>> /\ Base(q) = x /\ Front(q) = t.path
            <6>1. x \in M
              BY <5>4
            <6>2. PICK d \in Seq(M) : d = t.path
              BY <5>5
            <6>3. /\ Append(d, x) \in Seq(M) /\ Append(d, x) # <<>> /\ Base(Append(d, x)) = x
                  /\ Front(Append(d, x)) = d
              BY <6>1, DirOfAppended
            <6> QED BY <6>2, <6>3, <5>1
          <5>7. IsPrefix(t.path, e.path)
            <6>1. Dir(e.path) = t.path
              BY <4>2, <3>2, <3>3
            <6>2. e.path # <<>>
              BY ItselfOf
            <6> QED BY <6>1, <6>2, DirOf
          <5>8. x.affix = "*"
            BY <5>1 DEF Name
          <5>9. nodeOperandSelects(q, e.path)
            BY <5>5, <5>6, <5>7, <5>8, NodeSelects
          <5> QED BY <5>3, <5>9
        <4> QED BY <4>1, <4>2, <3>2, <3>3
      <3>6. p \in Clean(Listed(ops))
        BY <3>3, <3>5, <1>0, <1>1, CleanNamed
      <3> QED BY <3>5, <3>6
    <2> QED BY <2>1, <2>2
  <1>13. nodeMatches(args, {e}) = {c \in testSources({e}) :
           /\ hasNodeTest(args)
           /\ Listed(ops) = {} \/ \E o \in Clean(Listed(ops)) : nodeOperandSelects(o, c.path)}
    BY <1>11, Zenon DEF nodeMatches
  <1> QED BY <1>7, <1>12, <1>13, ItselfOf

(* A test that is collected, or a conftest.py above one, is under one of   *)
(* the operands or above it.                                               *)
LEMMA PytestJudges ==
  ASSUME NEW T, NEW before \in Seq(T), NEW after \in Seq(T), NEW S, NEW targets \in Seq(S),
         NEW dashes, Written(before, dashes, after, pytestValueFlags, pytestValueLetters), NEW N,
         \A i \in 1..Len(targets) : /\ targets[i].kind \in {"path", "outside"}
                                    /\ targets[i].path \in Seq(N),
         NEW e, e.path \in Seq(N), isTestSource(e.path),
         NEW files, files \subseteq Seq(N) \ {<<>>},
         PytestRuns(Range(targets), Option("noconftest") \in Range(before \o after), e.path, files),
         NEW args, args = Rest(before, dashes, Named(targets), after)
  PROVE  e \in pytestMatches(args, {e})
  <1>0. \A i \in 1..Len(targets) : targets[i].kind \in TargetKinds
    BY DEF TargetKinds
  <1>1. PICK ops, x : ops = Named(targets) /\ x = Option("noconftest")
    OBVIOUS
  <1>2. PICK U : /\ Dashes \in U /\ before \in Seq(U) /\ after \in Seq(U) /\ ops \in Seq(U)
                 /\ args \in Seq(U)
    <2>1. PICK X : X = ArgumentSet(T, targets)
      OBVIOUS
    <2>2. /\ Dashes \in X /\ before \in Seq(X) /\ after \in Seq(X) /\ Named(targets) \in Seq(X)
          /\ Rest(before, dashes, Named(targets), after) \in Seq(X)
      BY <1>0, <2>1, ArgumentsOf
    <2> QED BY <1>1, <2>2
  <1>3. pytestOperands(args) = Listed(ops)
    <2>1. Words(ops)
      BY <1>0, <1>1, NamedIs
    <2>2. Operands(args, Taking(args, pytestValueFlags, pytestValueLetters)) = Listed(ops)
      BY <2>1, <1>1, <1>2, RestOperands
    <2> QED BY <2>2 DEF pytestOperands, Taking
  <1>4. PICK no : no = (x \in Range(args))
    OBVIOUS
  <1>5. x \in Range(args) => x \in Range(before \o after)
    <2>1. before \in Seq(Range(before \o after)) /\ after \in Seq(Range(before \o after))
      BY RangesOfTwo
    <2>2. args \in Seq(ArgumentSet(Range(before \o after), targets))
      BY <2>1, <1>0, ArgumentsOf
    <2>3. x # Dashes
      BY <1>1 DEF Option, Dashes, Token
    <2>4. \A i \in 1..Len(targets) : x # ops[i]
      <3>1. x.kind = "option"
        BY <1>1 DEF Option, Token
      <3>2. Len(ops) = Len(targets) /\ Words(ops)
        BY <1>0, <1>1, NamedIs
      <3> QED BY <3>1, <3>2 DEF Words
    <2>5. Range(args) \subseteq Range(before \o after) \cup {Dashes} \cup {ops[i] : i \in 1..Len(targets)}
      BY <2>2, <1>1 DEF Range, ArgumentSet
    <2> QED BY <2>3, <2>4, <2>5
  <1>6. Listed(ops) = {} \/
          \/ /\ Base(e.path) = Conftest /\ ~(x \in Range(args))
             /\ conftestSelected(Clean(Listed(ops)), Dir(e.path))
          \/ /\ Base(e.path) # Conftest
             /\ \E o \in Clean(Listed(ops)) : underOrEqual(e.path, o)
    <2>1. CASE targets = <<>>
      BY <2>1, <1>0, <1>1, CleanNamed
    <2>2. CASE targets # <<>>
      <3>1. Range(targets) # {} /\ \A t \in Range(targets) : \E i \in 1..Len(targets) : t = targets[i]
        BY <2>2, TargetsOf
      <3>2. ASSUME NEW f, Collects(Range(targets), f)
            PROVE  \E o \in Clean(Listed(ops)) : o \in Seq(N) /\ IsPrefix(o, f)
        <4>1. PICK i \in 1..Len(targets) : targets[i].kind = "path" /\ IsPrefix(targets[i].path, f)
          BY <3>1, <3>2 DEF Collects
        <4>2. PICK t : t = targets[i]
          OBVIOUS
        <4>3. Operand(t) = Word(t.path)
          BY <4>1, <4>2 DEF Operand
        <4>4. t.path \in Clean(Listed(ops))
          <5>1. ~Operand(t).outside /\ Operand(t).path = t.path
            BY <4>3, WordIs
          <5> QED BY <5>1, <4>2, <1>0, <1>1, CleanNamed
        <4> QED BY <4>1, <4>2, <4>4
      <3>3. CASE Collects(Range(targets), e.path)
        <4>1. Base(e.path) # Conftest
          BY <3>3 DEF Collects, Conftest, Name
        <4> QED BY <4>1, <3>2, <3>3 DEF underOrEqual
      <3>4. CASE ~Collects(Range(targets), e.path)
        <4>1. /\ Base(e.path) = Conftest /\ ~(x \in Range(before \o after))
              /\ \E f \in files : Collects(Range(targets), f) /\ IsPrefix(Dir(e.path), Dir(f))
          BY <3>4, <1>1 DEF PytestRuns
        <4>2. PICK f \in files : Collects(Range(targets), f) /\ IsPrefix(Dir(e.path), Dir(f))
          BY <4>1
        <4>3. PICK o \in Clean(Listed(ops)) : o \in Seq(N) /\ IsPrefix(o, f)
          BY <3>2, <4>2
        <4>4. f \in Seq(N) /\ f # <<>> /\ e.path # <<>>
          BY ItselfOf
        <4>5. PICK d, df : d = Dir(e.path) /\ df = Dir(f)
          OBVIOUS
        <4>6. d \in Seq(N) /\ df \in Seq(N) /\ IsPrefix(d, df) /\ IsPrefix(df, f)
          BY <4>2, <4>4, <4>5, DirOf
        <4>7. IsPrefix(d, f)
          BY <4>4, <4>6, PrefixOfPrefix
        <4>8. IsPrefix(d, o) \/ IsPrefix(o, d)
          BY <4>3, <4>4, <4>6, <4>7, PrefixesCompare
        <4>9. conftestSelected(Clean(Listed(ops)), d)
          BY <4>8 DEF conftestSelected, underOrEqual
        <4> QED BY <4>1, <4>5, <4>9, <1>5
      <3> QED BY <3>3, <3>4
    <2> QED BY <2>1, <2>2
  <1>7. pytestMatches(args, {e}) = {c \in testSources({e}) :
          \/ Listed(ops) = {}
          \/ /\ Base(c.path) = Conftest /\ ~(x \in Range(args))
             /\ conftestSelected(Clean(Listed(ops)), Dir(c.path))
          \/ /\ Base(c.path) # Conftest
             /\ \E o \in Clean(Listed(ops)) : underOrEqual(c.path, o)}
    BY <1>1, <1>3, Zenon DEF pytestMatches
  <1> QED BY <1>6, <1>7, ItselfOf

(* The changed entry stands for the file.                                  *)
StandsFor(e, file) == (~e.dir /\ e.path = file) \/ (e.dir /\ IsStrictPrefix(e.path, file))

(* A file stands for itself, and so does a directory above it that git     *)
(* reported.                                                               *)
LEMMA EntryStands ==
  ASSUME NEW N, NEW file \in Seq(N), file # <<>>, NEW collapsed \in 0..(Len(file) - 1)
  PROVE  StandsFor(EntryOf(file, collapsed), file)
  <1>1. CASE collapsed = 0
    BY <1>1 DEF EntryOf, StandsFor
  <1>2. CASE collapsed # 0
    <2>1. PICK n \in Nat : n = Len(file)
      OBVIOUS
    <2>2. PICK b : b = SubSeq(file, 1, collapsed)
      OBVIOUS
    <2>3. collapsed \in 0..Len(file) /\ collapsed # Len(file)
      BY <2>1
    <2>4. Len(b) = collapsed /\ IsPrefix(b, file)
      BY <2>2, <2>3, BeginningIs
    <2>5. b # file
      BY <2>3, <2>4
    <2> QED BY <2>2, <2>4, <2>5, <1>2 DEF EntryOf, StandsFor, IsStrictPrefix
  <1> QED BY <1>1, <1>2

(* A file that is run by its path is matched by its entry (matchRunner).   *)
LEMMA RunnerMatches ==
  ASSUME NEW e, NEW file, file # <<>>, StandsFor(e, file)
  PROVE  /\ e \in matchRunners({file}, {e})
         /\ relativeCommand(file) = {file}
         /\ cleanRunner(Word(file)) = {file}
  <1>1. e \in matchRunner(file, {e})
    BY DEF matchRunner, StandsFor
  <1>2. e \in matchRunners({file}, {e})
    BY <1>1 DEF matchRunners
  <1>3. cleanRunner(Word(file)) = {file}
    BY WordIs DEF cleanRunner, cleanOperand
  <1> QED BY <1>2, <1>3 DEF relativeCommand

(* The least of a set of places.                                           *)
LEMMA LeastIs ==
  ASSUME NEW ends, ends \subseteq Nat, NEW k \in ends, \A i \in ends : k <= i
  PROVE  Min(ends) = k
  <1>1. PICK least : least = Min(ends)
    OBVIOUS
  <1>2. least \in ends /\ least <= k
    BY <1>1, MinOf
  <1>3. least \in Nat /\ k \in Nat /\ k <= least
    BY <1>2
  <1> QED BY <1>1, <1>2, <1>3

(* A first argument with a value: the walk goes on at the third.           *)
LEMMA SkipsValue ==
  ASSUME NEW args, Len(args) \in Nat, Len(args) >= 3, NEW V, 1 \in V
  PROVE  /\ Visited(args, V) \subseteq 1..Len(args)
         /\ 1 \in Visited(args, V) /\ 2 \notin Visited(args, V) /\ 3 \in Visited(args, V)
  <1>1. PICK walk : walk = Visited(args, V)
    OBVIOUS
  <1>2. /\ walk \subseteq 1..Len(args) /\ 1 \in walk
        /\ \A j \in walk : After(V, j) <= Len(args) => After(V, j) \in walk
        /\ \A j \in walk : j = 1 \/ \E k \in walk : After(V, k) = j
    BY <1>1, Looks
  <1>3. After(V, 1) = 3
    BY DEF After
  <1>4. 3 \in walk
    BY <1>2, <1>3
  <1>5. 2 \notin walk
    <2> SUFFICES ASSUME 2 \in walk PROVE FALSE
      OBVIOUS
    <2>1. PICK k \in walk : After(V, k) = 2
      BY <1>2
    <2>2. k \in 1..Len(args) /\ k # 1
      BY <2>1, <1>2, <1>3
    <2> QED BY <2>1, <2>2 DEF After
  <1> QED BY <1>1, <1>2, <1>4, <1>5

(* A script, behind "--" or not.                                           *)
LEMMA ScriptFirst ==
  ASSUME NEW S, NEW targets \in Seq(S), targets # <<>>,
         \A i \in 1..Len(targets) : targets[i].kind = "path", NEW dashes \in BOOLEAN
  PROVE  \E T, rest : /\ rest \in Seq(T) /\ Rest(<<>>, dashes, Named(targets), <<>>) = rest
                      /\ dashes => /\ Len(rest) >= 2 /\ rest[1] = Dashes
                                   /\ rest[2] = Word(targets[1].path)
                      /\ ~dashes => Len(rest) >= 1 /\ rest[1] = Word(targets[1].path)
  <1>0. \A i \in 1..Len(targets) : targets[i].kind \in TargetKinds
    BY DEF TargetKinds
  <1>1. PICK ops : ops = Named(targets)
    OBVIOUS
  <1>2. PICK O : O = {ops[i] : i \in 1..Len(targets)} \cup {Dashes}
    OBVIOUS
  <1>3. /\ ops \in Seq(O) /\ Len(ops) = Len(targets) /\ Len(ops) >= 1
        /\ ops[1] = Operand(targets[1])
    <2>1. /\ ops \in Seq({ops[i] : i \in 1..Len(targets)})
          /\ Len(ops) = Len(targets)
          /\ \A i \in 1..Len(targets) : ops[i] = Operand(targets[i])
      BY <1>0, <1>1, NamedIs
    <2>2. Len(targets) \in Nat /\ Len(targets) >= 1
      OBVIOUS
    <2>3. ops \in Seq(O)
      BY <2>1, <1>2, SeqGrows
    <2> QED BY <2>1, <2>2, <2>3
  <1>4. ops[1] = Word(targets[1].path)
    <2>1. targets[1].kind = "path"
      BY <1>3
    <2> QED BY <2>1, <1>3 DEF Operand
  <1>5. CASE dashes
    <2>1. PICK rest : rest = Dashed(ops)
      OBVIOUS
    <2>2. /\ rest \in Seq(O) /\ Len(rest) = 1 + Len(ops) /\ rest[1] = Dashes
          /\ rest[2] = ops[1]
      BY <2>1, <1>2, <1>3 DEF Dashed
    <2>3. Rest(<<>>, dashes, ops, <<>>) = rest
      <3>1. Rest(<<>>, dashes, ops, <<>>) = <<>> \o <<Dashes>> \o ops \o <<>>
        BY <1>5, Zenon DEF Rest
      <3>2. <<>> \o <<Dashes>> \o ops \o <<>> = <<Dashes>> \o ops
        BY <1>2, <1>3
      <3> QED BY <3>1, <3>2, <2>1 DEF Dashed
    <2>4. Len(rest) >= 2
      BY <2>2, <1>3
    <2> QED BY <2>2, <2>3, <2>4, <1>1, <1>4, <1>5
  <1>6. CASE ~dashes
    <2>1. Rest(<<>>, dashes, ops, <<>>) = ops
      <3>1. Rest(<<>>, dashes, ops, <<>>) = <<>> \o <<>> \o ops \o <<>>
        BY <1>6, Zenon DEF Rest
      <3>2. <<>> \o <<>> \o ops \o <<>> = ops
        BY <1>3
      <3> QED BY <3>1, <3>2
    <2> QED BY <2>1, <1>1, <1>3, <1>4, <1>6
  <1> QED BY <1>5, <1>6

(* What python runs of its arguments.                                      *)
HasLetter(t, letters) ==
  t.kind = "cluster" /\ Range(Letters(t, {"m", "c", "W", "X"})) \cap letters # {}

PythonEnds(args) ==
  {i \in Visited(args, LetterValued(args, {"W", "X"})) :
     args[i].kind \in {"--", "word"} \/ HasLetter(args[i], {"c", "m"})}

(* python: a script, with or without a "--" (pythonMatches).               *)
LEMMA PythonScript ==
  ASSUME NEW args, NEW changed, NEW first, PythonEnds(args) # {}, first = Min(PythonEnds(args)),
         args[first].kind \in {"word", "--"}, args[first].kind = "--" => first < Len(args)
  PROVE  pythonMatches(args, changed) =
           IF args[first].kind = "word" THEN matchRunners(cleanRunner(args[first]), changed)
           ELSE matchRunners(cleanRunner(args[first + 1]), changed)
  BY Zenon DEF pythonMatches, PythonEnds, HasLetter

(* python -m: a module of the working directory, and the tests when it     *)
(* is pytest (pythonMatches).                                              *)
LEMMA PythonModule ==
  ASSUME NEW args, NEW changed, NEW first, PythonEnds(args) # {}, first = Min(PythonEnds(args)),
         args[first].kind \notin {"word", "--"},
         ~HasLetter(args[first], {"c"}), HasLetter(args[first], {"m"}),
         Len(args[first].letters) > Len(Letters(args[first], {"m", "c", "W", "X"})),
         \A i \in Visited(args, LetterValued(args, {"W", "X"})) :
           i <= first => ~HasLetter(args[i], {"I", "P"})
  PROVE  pythonMatches(args, changed) =
           matchModule(Last(args[first].letters), changed)
           \cup (IF Last(args[first].letters) = "pytest"
                   THEN pytestMatches(SubSeq(args, first + 1, Len(args)), changed) ELSE {})
  BY Zenon DEF pythonMatches, PythonEnds, HasLetter

(* python -P -m: the tests alone, when it is pytest (pythonMatches).       *)
LEMMA PythonIsolated ==
  ASSUME NEW args, NEW changed, NEW first, PythonEnds(args) # {}, first = Min(PythonEnds(args)),
         args[first].kind \notin {"word", "--"},
         ~HasLetter(args[first], {"c"}), HasLetter(args[first], {"m"}), first # Len(args),
         ~(Len(args[first].letters) > Len(Letters(args[first], {"m", "c", "W", "X"}))),
         \E i \in Visited(args, LetterValued(args, {"W", "X"})) :
           i <= first /\ HasLetter(args[i], {"I", "P"}),
         NEW module, module = args[first + 1].path[1].stem
  PROVE  pythonMatches(args, changed) =
           IF module = "pytest" THEN pytestMatches(SubSeq(args, first + 2, Len(args)), changed)
           ELSE {}
  <1>1. pythonMatches(args, changed) =
          {} \cup (IF module = "pytest"
                    THEN pytestMatches(SubSeq(args, first + 2, Len(args)), changed) ELSE {})
    BY Zenon DEF pythonMatches, PythonEnds, HasLetter
  <1> QED BY <1>1

(* The script that python is given is a match (pythonMatches).             *)
LEMMA PythonJudges ==
  ASSUME NEW S, NEW targets \in Seq(S), targets # <<>>,
         \A i \in 1..Len(targets) : targets[i].kind = "path", NEW dashes \in BOOLEAN,
         targets[1].path # <<>>, NEW e, StandsFor(e, targets[1].path),
         NEW args, args = Rest(<<>>, dashes, Named(targets), <<>>)
  PROVE  e \in pythonMatches(args, {e})
  <1>1. PICK file : file = targets[1].path
    OBVIOUS
  <1>2. PICK T, rest : /\ rest \in Seq(T) /\ args = rest
                       /\ dashes => /\ Len(rest) >= 2 /\ rest[1] = Dashes
                                    /\ rest[2] = Word(file)
                       /\ ~dashes => Len(rest) >= 1 /\ rest[1] = Word(file)
    BY <1>1, ScriptFirst
  <1>3. PICK seen : seen = Visited(args, LetterValued(args, {"W", "X"}))
    OBVIOUS
  <1>4. /\ Len(args) \in Nat /\ Len(args) >= 1
        /\ args[1].kind = IF dashes THEN "--" ELSE "word"
        /\ dashes => Len(args) >= 2 /\ args[2] = Word(file)
        /\ ~dashes => args[1] = Word(file)
    <2>1. Dashes.kind = "--"
      BY DEF Dashes, Token
    <2>2. Word(file).kind = "word"
      BY WordIs
    <2> QED BY <2>1, <2>2, <1>2
  <1>5. 1 \in seen /\ seen \subseteq 1..Len(args)
    BY <1>3, <1>4, Looks
  <1>6. 1 \in PythonEnds(args) /\ PythonEnds(args) \subseteq Nat \ {0}
    <2>1. PythonEnds(args) \subseteq seen
      BY <1>3 DEF PythonEnds
    <2>2. args[1].kind \in {"--", "word"}
      BY <1>4
    <2>3. 1 \in PythonEnds(args)
      BY <2>2, <1>3, <1>5 DEF PythonEnds
    <2>4. \A i \in seen : i \in Nat \ {0}
      BY <1>4, <1>5
    <2> QED BY <2>1, <2>3, <2>4
  <1>7. PythonEnds(args) # {} /\ 1 = Min(PythonEnds(args))
    BY <1>6, FirstOf
  <1>8. pythonMatches(args, {e}) = matchRunners({file}, {e})
    <2>1. args[1].kind \in {"word", "--"} /\ (args[1].kind = "--" => 1 < Len(args))
      BY <1>4
    <2>2. pythonMatches(args, {e}) =
            IF args[1].kind = "word" THEN matchRunners(cleanRunner(args[1]), {e})
            ELSE matchRunners(cleanRunner(args[1 + 1]), {e})
      BY <2>1, <1>7, PythonScript
    <2>3. cleanRunner(Word(file)) = {file}
      BY <1>1, RunnerMatches
    <2>4. pythonMatches(args, {e}) = matchRunners(cleanRunner(Word(file)), {e})
      BY <2>2, <1>4
    <2> QED BY <2>3, <2>4
  <1>9. file # <<>> /\ StandsFor(e, file)
    BY <1>1
  <1>10. e \in matchRunners({file}, {e})
    BY <1>9, RunnerMatches
  <1> QED BY <1>8, <1>10

ShFirst == <<Cluster(<<"e", "o">>), Word(<<Plain("pipefail")>>)>>

(* All of a list is the list.                                              *)
LEMMA AllOfIt ==
  ASSUME NEW T, NEW s \in Seq(T)
  PROVE  SubSeq(s, 1, Len(s)) = s
  OBVIOUS

(* The letters of a cluster, up to the one that takes the rest of it.      *)
LEMMA LettersUpTo ==
  ASSUME NEW t, NEW L, t.letters \in Seq(L), NEW k \in 1..Len(t.letters), NEW valued,
         t.letters[k] \in valued, \A j \in 1..(k - 1) : t.letters[j] \notin valued
  PROVE  Letters(t, valued) = SubSeq(t.letters, 1, k)
  <1>1. PICK ends : ends = {i \in DOMAIN t.letters : t.letters[i] \in valued}
    OBVIOUS
  <1>2. k \in ends /\ ends \subseteq Nat /\ \A i \in ends : k <= i
    <2>1. DOMAIN t.letters = 1..Len(t.letters)
      OBVIOUS
    <2>2. \A i \in ends : ~(i < k)
      BY <2>1, <1>1
    <2> QED BY <2>1, <2>2, <1>1
  <1>3. ends # {} /\ Min(ends) = k
    BY <1>2, LeastIs
  <1> QED BY <1>1, <1>3, Zenon DEF Letters

(* The fields of a cluster of short options.                               *)
LEMMA ClusterIs ==
  ASSUME NEW letters
  PROVE  Cluster(letters).kind = "cluster" /\ Cluster(letters).letters = letters
  BY DEF Cluster, Token

(* The script that a shell is given behind "-eo pipefail" is a match       *)
(* (shellScript).                                                          *)
LEMMA ShJudges ==
  ASSUME NEW S, NEW targets \in Seq(S), targets # <<>>,
         \A i \in 1..Len(targets) : targets[i].kind = "path", NEW dashes \in BOOLEAN,
         targets[1].path # <<>>, NEW e, StandsFor(e, targets[1].path),
         NEW args, args = Both(ShFirst, Rest(<<>>, dashes, Named(targets), <<>>))
  PROVE  e \in matchRunners(shellScript(args), {e})
  <1>1. PICK file : file = targets[1].path
    OBVIOUS
  <1>2. PICK T, rest : /\ rest \in Seq(T) /\ args = Both(ShFirst, rest)
                       /\ dashes => /\ Len(rest) >= 2 /\ rest[1] = Dashes
                                    /\ rest[2] = Word(file)
                       /\ ~dashes => Len(rest) >= 1 /\ rest[1] = Word(file)
    <2>1. PICK T, rest : /\ rest \in Seq(T) /\ Rest(<<>>, dashes, Named(targets), <<>>) = rest
                         /\ dashes => /\ Len(rest) >= 2 /\ rest[1] = Dashes
                                      /\ rest[2] = Word(file)
                         /\ ~dashes => Len(rest) >= 1 /\ rest[1] = Word(file)
      BY <1>1, ScriptFirst
    <2>2. args = Both(ShFirst, rest)
      BY <2>1
    <2> QED BY <2>1, <2>2
  <1>3. PICK c, w, first : /\ c = Cluster(<<"e", "o">>) /\ w = Word(<<Plain("pipefail")>>)
                           /\ first = ShFirst
    OBVIOUS
  <1>4. PICK W : W = T \cup {c, w}
    OBVIOUS
  <1>5. /\ first \in Seq(W) /\ rest \in Seq(W) /\ Len(first) = 2
        /\ first[1] = c /\ first[2] = w
    BY <1>2, <1>3, <1>4, SeqGrows DEF ShFirst
  <1>6. /\ args \in Seq(W) /\ Len(args) = 2 + Len(rest) /\ args[1] = c /\ args[2] = w
        /\ \A k \in 1..Len(rest) : args[2 + k] = rest[k]
    <2>1. Both(first, rest) \in Seq(W) /\ IsBoth(Both(first, rest), first, rest)
      BY <1>5, OfBoth
    <2>2. 1 \in 1..Len(first) /\ 2 \in 1..Len(first)
      BY <1>5
    <2> QED BY <2>1, <2>2, <1>2, <1>3, <1>5 DEF IsBoth
  <1>7. /\ Len(args) \in Nat /\ Len(args) >= 3
        /\ args[3].kind = IF dashes THEN "--" ELSE "word"
        /\ dashes => Len(args) >= 4 /\ args[4] = Word(file)
        /\ ~dashes => args[3] = Word(file)
    <2>1. Dashes.kind = "--"
      BY DEF Dashes, Token
    <2>2. Len(rest) \in Nat /\ Len(rest) >= 1 /\ (dashes => Len(rest) >= 2)
      BY <1>2
    <2>3. args[3] = rest[1] /\ (dashes => args[4] = rest[2])
      <3>1. 1 \in 1..Len(rest) /\ (dashes => 2 \in 1..Len(rest)) /\ 2 + 1 = 3 /\ 2 + 2 = 4
        BY <2>2
      <3> QED BY <3>1, <1>6
    <2>4. Word(file).kind = "word"
      BY WordIs
    <2> QED BY <2>1, <2>2, <2>3, <2>4, <1>2, <1>6
  <1>8. c.kind = "cluster" /\ c.letters = <<"e", "o">>
    BY <1>3, ClusterIs
  <1>9. PICK V : V = LetterValued(args, {"o"})
    OBVIOUS
  <1>10. 1 \in V
    <2>1. Letters(c, {"o"}) = SubSeq(c.letters, 1, 2)
      <3>1. c.letters \in Seq({"e", "o"}) /\ 2 \in 1..Len(c.letters) /\ c.letters[2] \in {"o"}
        BY <1>8
      <3>2. \A j \in 1..(2 - 1) : c.letters[j] \notin {"o"}
        BY <1>8
      <3> QED BY <3>1, <3>2, LettersUpTo
    <2>2. SubSeq(c.letters, 1, 2) = c.letters /\ c.letters # <<>> /\ Last(c.letters) = "o"
      <3>1. c.letters \in Seq({"e", "o"}) /\ Len(c.letters) = 2 /\ c.letters[2] = "o"
        BY <1>8
      <3>2. SubSeq(c.letters, 1, Len(c.letters)) = c.letters
        BY <3>1, AllOfIt
      <3> QED BY <3>1, <3>2 DEF Last
    <2>3. TakesNext(c, {"o"})
      BY <2>1, <2>2, <1>8 DEF TakesNext
    <2>4. 1 \in DOMAIN args
      BY <1>6, <1>7
    <2> QED BY <2>3, <2>4, <1>6, <1>9 DEF LetterValued
  <1>11. PICK seen : seen = Visited(args, V)
    OBVIOUS
  <1>12. seen \subseteq 1..Len(args) /\ 1 \in seen /\ 2 \notin seen /\ 3 \in seen
    BY <1>7, <1>10, <1>11, SkipsValue
  <1>13. PICK ends : ends = {i \in seen : args[i].kind \in {"--", "word"}}
    OBVIOUS
  <1>14. ends # {} /\ Min(ends) = 3
    <2>1. 3 \in ends
      BY <1>7, <1>12, <1>13
    <2>2. 1 \notin ends
      BY <1>6, <1>8, <1>13
    <2>3. \A i \in ends : i \in 1..Len(args) /\ i # 1 /\ i # 2
      BY <2>2, <1>12, <1>13
    <2>4. ends \subseteq Nat /\ \A i \in ends : 3 <= i
      BY <2>3, <1>7
    <2> QED BY <2>1, <2>4, LeastIs
  <1>15. PICK commands : commands = {i \in seen : /\ args[i].kind = "cluster"
                                                  /\ Range(args[i].letters) \cap {"c", "s"} # {}}
    OBVIOUS
  <1>16. ~\E i \in commands : i < 3
    <2> SUFFICES ASSUME NEW i \in commands, i < 3 PROVE FALSE
      OBVIOUS
    <2>1. i = 1
      BY <1>7, <1>12, <1>15
    <2>2. Range(c.letters) \cap {"c", "s"} # {}
      BY <2>1, <1>6, <1>15
    <2>3. PICK l \in DOMAIN c.letters : c.letters[l] \in {"c", "s"}
      BY <2>2 DEF Range
    <2>4. l \in {1, 2}
      BY <2>3, <1>8
    <2> QED BY <2>3, <2>4, <1>8
  <1>17. shellScript(args) = IF args[3].kind = "word" THEN cleanRunner(args[3])
                             ELSE IF 3 < Len(args) THEN cleanRunner(args[3 + 1]) ELSE {}
    BY <1>9, <1>11, <1>13, <1>14, <1>15, <1>16, Zenon DEF shellScript
  <1>18. shellScript(args) = cleanRunner(Word(file))
    BY <1>7, <1>17
  <1>19. shellScript(args) = {file}
    BY <1>1, <1>18, RunnerMatches
  <1>20. file # <<>> /\ StandsFor(e, file)
    BY <1>1
  <1> QED BY <1>19, <1>20, RunnerMatches

(* The fields of a name.                                                   *)
LEMMA NameIs ==
  ASSUME NEW stem, NEW affix
  PROVE  Name(stem, affix).stem = stem /\ Name(stem, affix).affix = affix
  BY DEF Name

(* "-m" behind another letter.                                             *)
LEMMA MinusM ==
  ASSUME NEW t, NEW L, t.kind = "cluster", t.letters \in Seq(L), Len(t.letters) >= 2,
         t.letters[2] = "m", t.letters[1] \notin {"m", "c", "W", "X"}
  PROVE  /\ Len(Letters(t, {"m", "c", "W", "X"})) = 2
         /\ HasLetter(t, {"m"}) /\ HasLetter(t, {"c", "m"}) /\ ~HasLetter(t, {"c"})
         /\ HasLetter(t, {"I", "P"}) <=> t.letters[1] \in {"I", "P"}
  <1>1. PICK ls : ls = Letters(t, {"m", "c", "W", "X"})
    OBVIOUS
  <1>2. ls = SubSeq(t.letters, 1, 2)
    <2>1. 2 \in 1..Len(t.letters) /\ t.letters[2] \in {"m", "c", "W", "X"}
      OBVIOUS
    <2>2. \A j \in 1..(2 - 1) : t.letters[j] \notin {"m", "c", "W", "X"}
      OBVIOUS
    <2> QED BY <2>1, <2>2, <1>1, LettersUpTo
  <1>3. /\ Len(ls) = 2 /\ ls \in Seq(L) /\ DOMAIN ls = {1, 2}
        /\ ls[1] = t.letters[1] /\ ls[2] = "m"
    <2>1. 2 \in 0..Len(t.letters)
      OBVIOUS
    <2>2. /\ SubSeq(t.letters, 1, 2) \in Seq(L) /\ Len(SubSeq(t.letters, 1, 2)) = 2
          /\ \A i \in 1..2 : SubSeq(t.letters, 1, 2)[i] = t.letters[i]
      BY <2>1, BeginningIs
    <2> QED BY <2>2, <1>2
  <1>4. Range(ls) = {t.letters[1], "m"}
    BY <1>3 DEF Range
  <1> QED BY <1>1, <1>3, <1>4 DEF HasLetter

(* "-W error", and then the cluster that ends the options of python.       *)
LEMMA ModuleAt ==
  ASSUME NEW args, Len(args) \in Nat, Len(args) >= 3, DOMAIN args = 1..Len(args),
         args[1] = Cluster(<<"W">>), args[3].kind = "cluster", HasLetter(args[3], {"c", "m"})
  PROVE  /\ PythonEnds(args) # {} /\ 3 = Min(PythonEnds(args))
         /\ \A i \in Visited(args, LetterValued(args, {"W", "X"})) : i <= 3 => i \in {1, 3}
         /\ 3 \in Visited(args, LetterValued(args, {"W", "X"}))
         /\ ~HasLetter(args[1], {"I", "P"})
  <1>1. PICK V, walk : V = LetterValued(args, {"W", "X"}) /\ walk = Visited(args, V)
    OBVIOUS
  <1>2. PICK t : t = Cluster(<<"W">>)
    OBVIOUS
  <1>3. t.kind = "cluster" /\ t.letters \in Seq({"W"}) /\ Len(t.letters) = 1 /\ t.letters[1] = "W"
    <2>1. PICK s : s = <<"W">>
      OBVIOUS
    <2>2. s \in Seq({"W"}) /\ Len(s) = 1 /\ s[1] = "W"
      BY <2>1
    <2>3. t.kind = "cluster" /\ t.letters = s
      BY <2>1, <1>2, ClusterIs
    <2> QED BY <2>2, <2>3
  <1>4. ASSUME NEW valued, "W" \in valued PROVE Letters(t, valued) = t.letters
    <2>1. 1 \in 1..Len(t.letters) /\ t.letters[1] \in valued
      BY <1>3, <1>4
    <2>2. \A j \in 1..(1 - 1) : t.letters[j] \notin valued
      OBVIOUS
    <2>3. Letters(t, valued) = SubSeq(t.letters, 1, 1)
      BY <2>1, <2>2, <1>3, LettersUpTo
    <2>4. SubSeq(t.letters, 1, Len(t.letters)) = t.letters
      BY <1>3, AllOfIt
    <2> QED BY <2>3, <2>4, <1>3
  <1>5. 1 \in V
    <2>1. TakesNext(t, {"W", "X"})
      <3>1. Letters(t, {"W", "X"}) = t.letters
        BY <1>4
      <3>2. t.letters # <<>> /\ Last(t.letters) \in {"W", "X"}
        BY <1>3 DEF Last
      <3> QED BY <3>1, <3>2, <1>3 DEF TakesNext
    <2> QED BY <2>1, <1>1, <1>2 DEF LetterValued
  <1>6. walk \subseteq 1..Len(args) /\ 1 \in walk /\ 2 \notin walk /\ 3 \in walk
    BY <1>1, <1>5, SkipsValue
  <1>7. ASSUME NEW letters, "W" \notin letters PROVE ~HasLetter(t, letters)
    <2>1. Letters(t, {"m", "c", "W", "X"}) = t.letters
      BY <1>4
    <2>2. Range(t.letters) = {"W"}
      BY <1>3 DEF Range
    <2> QED BY <2>1, <2>2, <1>7 DEF HasLetter
  <1>8. 3 \in PythonEnds(args)
    BY <1>1, <1>6 DEF PythonEnds
  <1>9. 1 \notin PythonEnds(args)
    BY <1>2, <1>3, <1>7 DEF PythonEnds
  <1>10. \A i \in PythonEnds(args) : i \in walk /\ i # 1
    BY <1>1, <1>9 DEF PythonEnds
  <1>11. PythonEnds(args) \subseteq Nat /\ \A i \in PythonEnds(args) : 3 <= i
    <2>1. \A i \in PythonEnds(args) : i \in 1..Len(args) /\ i # 1 /\ i # 2
      BY <1>6, <1>10
    <2> QED BY <2>1
  <1>12. PythonEnds(args) # {} /\ 3 = Min(PythonEnds(args))
    BY <1>8, <1>11, LeastIs
  <1>13. \A i \in walk : i <= 3 => i \in {1, 3}
    BY <1>6
  <1> QED BY <1>1, <1>2, <1>6, <1>7, <1>12, <1>13

ModuleFirst(module) ==
  <<Cluster(<<"W">>), Word(<<Plain("error")>>), Cluster(<<"B", "m", module>>)>>

(* python -W error -Bm MODULE: the module, and what pytest selects         *)
(* (pythonMatches).                                                        *)
LEMMA ModuleJudges ==
  ASSUME NEW T, NEW rest \in Seq(T), NEW module, NEW changed,
         NEW args, args = Both(ModuleFirst(module), rest)
  PROVE  pythonMatches(args, changed) =
           matchModule(module, changed)
           \cup (IF module = "pytest" THEN pytestMatches(rest, changed) ELSE {})
  <1>1. PICK a, b, m : /\ a = Cluster(<<"W">>) /\ b = Word(<<Plain("error")>>)
                       /\ m = Cluster(<<"B", "m", module>>)
    OBVIOUS
  <1>2. PICK W : W = T \cup {a, b, m}
    OBVIOUS
  <1>3. PICK first : first = <<a, b, m>>
    OBVIOUS
  <1>4. /\ first \in Seq(W) /\ rest \in Seq(W) /\ Len(first) = 3
        /\ first[1] = a /\ first[3] = m
    BY <1>2, <1>3, SeqGrows
  <1>5. args = Both(first, rest)
    BY <1>1, <1>3 DEF ModuleFirst
  <1>6. /\ args \in Seq(W) /\ Len(args) \in Nat /\ Len(args) >= 3 /\ DOMAIN args = 1..Len(args)
        /\ args[1] = a /\ args[3] = m
        /\ SubSeq(args, 3 + 1, Len(args)) = rest
    <2>1. args \in Seq(W) /\ IsBoth(args, first, rest)
      BY <1>4, <1>5, OfBoth
    <2>2. 1 \in 1..Len(first) /\ 3 \in 1..Len(first) /\ Len(rest) \in Nat
      BY <1>4
    <2> QED BY <2>1, <2>2, <1>4 DEF IsBoth
  <1>7. PICK letters : letters = <<"B", "m", module>>
    OBVIOUS
  <1>8. m.kind = "cluster" /\ m.letters = letters
    BY <1>1, <1>7, ClusterIs
  <1>9. /\ letters \in Seq({"B", "m", module}) /\ Len(letters) = 3
        /\ letters[1] = "B" /\ letters[2] = "m" /\ Last(letters) = module
    BY <1>7 DEF Last
  <1>10. /\ Len(Letters(m, {"m", "c", "W", "X"})) = 2
         /\ HasLetter(m, {"m"}) /\ HasLetter(m, {"c", "m"}) /\ ~HasLetter(m, {"c"})
         /\ ~HasLetter(m, {"I", "P"})
    <2>1. /\ m.letters \in Seq({"B", "m", module}) /\ Len(m.letters) >= 2
          /\ m.letters[2] = "m" /\ m.letters[1] \notin {"m", "c", "W", "X"}
          /\ m.letters[1] \notin {"I", "P"}
      BY <1>8, <1>9
    <2> QED BY <2>1, <1>8, MinusM
  <1>11. /\ PythonEnds(args) # {} /\ 3 = Min(PythonEnds(args))
         /\ \A i \in Visited(args, LetterValued(args, {"W", "X"})) : i <= 3 => i \in {1, 3}
         /\ ~HasLetter(args[1], {"I", "P"})
    BY <1>1, <1>6, <1>8, <1>10, ModuleAt
  <1>12. \A i \in Visited(args, LetterValued(args, {"W", "X"})) :
           i <= 3 => ~HasLetter(args[i], {"I", "P"})
    BY <1>6, <1>10, <1>11
  <1>13. pythonMatches(args, changed) =
           matchModule(Last(args[3].letters), changed)
           \cup (IF Last(args[3].letters) = "pytest"
                   THEN pytestMatches(SubSeq(args, 3 + 1, Len(args)), changed) ELSE {})
    <2>1. /\ args[3].kind \notin {"word", "--"}
          /\ ~HasLetter(args[3], {"c"}) /\ HasLetter(args[3], {"m"})
          /\ Len(args[3].letters) > Len(Letters(args[3], {"m", "c", "W", "X"}))
      <3>1. args[3] = m
        BY <1>6
      <3>2. m.kind \notin {"word", "--"} /\ Len(m.letters) = 3
        BY <1>8, <1>9
      <3>3. Len(m.letters) > Len(Letters(m, {"m", "c", "W", "X"}))
        <4>1. PICK ls : ls = Letters(m, {"m", "c", "W", "X"})
          OBVIOUS
        <4>2. Len(ls) = 2
          BY <4>1, <1>10
        <4>3. Len(m.letters) > Len(ls)
          BY <3>2, <4>2
        <4> QED BY <4>1, <4>3
      <3> QED BY <3>1, <3>2, <3>3, <1>10, Zenon
    <2> QED BY <2>1, <1>11, <1>12, PythonModule
  <1> QED BY <1>6, <1>8, <1>9, <1>13

IsolatedFirst(module) ==
  <<Cluster(<<"W">>), Word(<<Plain("error")>>), Cluster(<<"P", "m">>), Word(<<Plain(module)>>)>>

(* python -W error -Pm MODULE: what pytest selects (pythonMatches).        *)
LEMMA IsolatedJudges ==
  ASSUME NEW T, NEW rest \in Seq(T), NEW module, NEW changed,
         NEW args, args = Both(IsolatedFirst(module), rest)
  PROVE  pythonMatches(args, changed) =
           IF module = "pytest" THEN pytestMatches(rest, changed) ELSE {}
  <1>1. PICK a, b, m, p : /\ a = Cluster(<<"W">>) /\ b = Word(<<Plain("error")>>)
                          /\ m = Cluster(<<"P", "m">>) /\ p = Word(<<Plain(module)>>)
    OBVIOUS
  <1>2. PICK W : W = T \cup {a, b, m, p}
    OBVIOUS
  <1>3. PICK first : first = <<a, b, m, p>>
    OBVIOUS
  <1>4. /\ first \in Seq(W) /\ rest \in Seq(W) /\ Len(first) = 4
        /\ first[1] = a /\ first[3] = m /\ first[4] = p
    BY <1>2, <1>3, SeqGrows
  <1>5. args = Both(first, rest)
    BY <1>1, <1>3 DEF IsolatedFirst
  <1>6. /\ args \in Seq(W) /\ Len(args) \in Nat /\ Len(args) >= 4 /\ DOMAIN args = 1..Len(args)
        /\ args[1] = a /\ args[3] = m /\ args[4] = p
        /\ SubSeq(args, 4 + 1, Len(args)) = rest
    <2>1. args \in Seq(W) /\ IsBoth(args, first, rest)
      BY <1>4, <1>5, OfBoth
    <2>2. 1 \in 1..Len(first) /\ 3 \in 1..Len(first) /\ 4 \in 1..Len(first) /\ Len(rest) \in Nat
      BY <1>4
    <2> QED BY <2>1, <2>2, <1>4 DEF IsBoth
  <1>7. PICK letters : letters = <<"P", "m">>
    OBVIOUS
  <1>8. m.kind = "cluster" /\ m.letters = letters
    BY <1>1, <1>7, ClusterIs
  <1>9. /\ letters \in Seq({"P", "m"}) /\ Len(letters) = 2
        /\ letters[1] = "P" /\ letters[2] = "m"
    BY <1>7
  <1>10. /\ Len(Letters(m, {"m", "c", "W", "X"})) = 2
         /\ HasLetter(m, {"m"}) /\ HasLetter(m, {"c", "m"}) /\ ~HasLetter(m, {"c"})
         /\ HasLetter(m, {"I", "P"})
    <2>1. /\ m.letters \in Seq({"P", "m"}) /\ Len(m.letters) >= 2
          /\ m.letters[2] = "m" /\ m.letters[1] \notin {"m", "c", "W", "X"}
          /\ m.letters[1] \in {"I", "P"}
      BY <1>8, <1>9
    <2> QED BY <2>1, <1>8, MinusM
  <1>11. /\ PythonEnds(args) # {} /\ 3 = Min(PythonEnds(args))
         /\ 3 \in Visited(args, LetterValued(args, {"W", "X"}))
    <2>1. Len(args) >= 3
      BY <1>6
    <2> QED BY <2>1, <1>1, <1>6, <1>8, <1>10, ModuleAt
  <1>12. args[3 + 1].path[1].stem = module
    <2>1. p.path = <<Plain(module)>>
      BY <1>1, WordIs
    <2>2. Plain(module).stem = module
      BY NameIs DEF Plain
    <2> QED BY <2>1, <2>2, <1>6
  <1>13. /\ args[3].kind \notin {"word", "--"} /\ 3 # Len(args)
         /\ ~HasLetter(args[3], {"c"}) /\ HasLetter(args[3], {"m"})
         /\ ~(Len(args[3].letters) > Len(Letters(args[3], {"m", "c", "W", "X"})))
    <2>1. args[3] = m /\ 3 # Len(args)
      BY <1>6
    <2>2. m.kind \notin {"word", "--"} /\ Len(m.letters) = 2
      BY <1>8, <1>9, Zenon
    <2>3. ~(2 > 2)
      OBVIOUS
    <2>4. ~(Len(m.letters) > Len(Letters(m, {"m", "c", "W", "X"})))
      BY <2>2, <2>3, <1>10, Zenon
    <2> QED BY <2>1, <2>2, <2>4, <1>10, Zenon
  <1>16. \E i \in Visited(args, LetterValued(args, {"W", "X"})) :
           i <= 3 /\ HasLetter(args[i], {"I", "P"})
    BY <1>6, <1>10, <1>11
  <1>14. pythonMatches(args, changed) =
           IF module = "pytest" THEN pytestMatches(SubSeq(args, 3 + 2, Len(args)), changed) ELSE {}
    BY <1>11, <1>12, <1>13, <1>16, PythonIsolated
  <1>15. SubSeq(args, 3 + 2, Len(args)) = rest
    BY <1>6
  <1> QED BY <1>14, <1>15

(* The command line of a step is its options and operands, behind what its *)
(* tool begins with.                                                       *)
Line(p) == Rest(p.before, p.dashes, Named(p.targets), p.after)

(* The command line of each tool (Step).                                   *)
LEMMA LineOf ==
  ASSUME NEW p, NEW rest, rest = Line(p)
  PROVE  /\ p.tool = "go" => /\ Step(p).base = "go"
                             /\ Step(p).args = <<Word(<<Plain("test")>>)>> \o rest
         /\ p.tool = "node" => /\ Step(p).base = "node"
                               /\ Step(p).args = Both(<<Option("test")>>, rest)
         /\ p.tool = "pytest" => Step(p).base = "pytest" /\ Step(p).args = rest
         /\ p.tool = "python" => Step(p).base = "python" /\ Step(p).args = rest
         /\ p.tool = "sh" => Step(p).base = "sh" /\ Step(p).args = Both(ShFirst, rest)
         /\ p.tool = "file" => Step(p).command = p.targets[1].path
  <1>1. p.tool = "go" => Step(p).base = "go" /\ Step(p).args = <<Word(<<Plain("test")>>)>> \o rest
    BY Zenon DEF Step, Line, Rest, Named
  <1>2. p.tool = "node" => Step(p).base = "node" /\ Step(p).args = Both(<<Option("test")>>, rest)
    BY Zenon DEF Step, Line, Rest, Named, Both
  <1>3. p.tool = "pytest" => Step(p).base = "pytest" /\ Step(p).args = rest
    BY Zenon DEF Step, Line, Rest, Named
  <1>4. p.tool = "python" => Step(p).base = "python" /\ Step(p).args = rest
    BY Zenon DEF Step, Line, Rest, Named
  <1>5. p.tool = "sh" => Step(p).base = "sh" /\ Step(p).args = Both(ShFirst, rest)
    BY Zenon DEF Step, Line, Rest, Named, Both, ShFirst
  <1>6. p.tool = "file" => Step(p).command = p.targets[1].path
    BY Zenon DEF Step, Line, Rest, Named
  <1> QED BY <1>1, <1>2, <1>3, <1>4, <1>5, <1>6

(* Short lists put together.                                               *)
LEMMA TwoAndOne ==
  ASSUME NEW a, NEW b, NEW c, NEW d
  PROVE  <<a, b>> \o <<c>> = <<a, b, c>> /\ <<a, b>> \o <<c, d>> = <<a, b, c, d>>
  <1>1. PICK T : T = {a, b, c, d}
    OBVIOUS
  <1>2. <<a, b>> \o <<c>> = <<a, b, c>>
    <2>1. /\ <<a, b>> \o <<c>> \in Seq(T) /\ <<a, b, c>> \in Seq(T)
          /\ Len(<<a, b>> \o <<c>>) = 3 /\ Len(<<a, b, c>>) = 3
      BY <1>1
    <2>2. \A i \in 1..3 : (<<a, b>> \o <<c>>)[i] = <<a, b, c>>[i]
      OBVIOUS
    <2> QED BY <2>1, <2>2, SeqEqual
  <1>3. <<a, b>> \o <<c, d>> = <<a, b, c, d>>
    <2>1. /\ <<a, b>> \o <<c, d>> \in Seq(T) /\ <<a, b, c, d>> \in Seq(T)
          /\ Len(<<a, b>> \o <<c, d>>) = 4 /\ Len(<<a, b, c, d>>) = 4
      BY <1>1
    <2>2. \A i \in 1..4 : (<<a, b>> \o <<c, d>>)[i] = <<a, b, c, d>>[i]
      OBVIOUS
    <2> QED BY <2>1, <2>2, SeqEqual
  <1> QED BY <1>2, <1>3

(* The command line of python -m (Step).                                   *)
LEMMA LineOfModule ==
  ASSUME NEW p, NEW rest, rest = Line(p), p.tool = "python -m", p.isolated \in BOOLEAN
  PROVE  /\ Step(p).base = "python"
         /\ ~p.isolated => Step(p).args = Both(ModuleFirst(p.module), rest)
         /\ p.isolated => Step(p).args = Both(IsolatedFirst(p.module), rest)
  <1>1. PICK a, b, c, d, w : /\ a = Cluster(<<"W">>) /\ b = Word(<<Plain("error")>>)
                             /\ c = Cluster(<<"B", "m", p.module>>)
                             /\ d = Cluster(<<"P", "m">>) /\ w = Word(<<Plain(p.module)>>)
    OBVIOUS
  <1>2. /\ Step(p).base = "python"
        /\ Step(p).args = <<a, b>> \o (IF p.isolated THEN <<d, w>> ELSE <<c>>) \o rest
    BY <1>1, Zenon DEF Step, Line, Rest, Named
  <1>3. CASE ~p.isolated
    <2>1. Step(p).args = (<<a, b>> \o <<c>>) \o rest
      BY <1>2, <1>3, Zenon
    <2>2. <<a, b>> \o <<c>> = <<a, b, c>>
      BY TwoAndOne
    <2>3. <<a, b, c>> = ModuleFirst(p.module)
      BY <1>1, Zenon DEF ModuleFirst
    <2>4. Step(p).args = Both(ModuleFirst(p.module), rest)
      BY <2>1, <2>2, <2>3, Zenon DEF Both
    <2> QED BY <1>2, <1>3, <2>4, Zenon
  <1>4. CASE p.isolated
    <2>1. Step(p).args = (<<a, b>> \o <<d, w>>) \o rest
      BY <1>2, <1>4, Zenon
    <2>2. <<a, b>> \o <<d, w>> = <<a, b, d, w>>
      BY TwoAndOne
    <2>3. <<a, b, d, w>> = IsolatedFirst(p.module)
      BY <1>1, Zenon DEF IsolatedFirst
    <2>4. Step(p).args = Both(IsolatedFirst(p.module), rest)
      BY <2>1, <2>2, <2>3, Zenon DEF Both
    <2> QED BY <1>2, <1>4, <2>4, Zenon
  <1> QED BY <1>2, <1>3, <1>4, Zenon

(* What python -m loads and collects (pythonMatches).                      *)
LEMMA ModuleMatches ==
  ASSUME NEW W, NEW p, Line(p) \in Seq(W), p.tool = "python -m", p.isolated \in BOOLEAN, NEW changed
  PROVE  /\ Step(p).base = "python"
         /\ pythonMatches(Step(p).args, changed) =
              (IF p.isolated THEN {} ELSE matchModule(p.module, changed))
              \cup (IF p.module = "pytest" THEN pytestMatches(Line(p), changed) ELSE {})
  <1>1. PICK rest, module : rest = Line(p) /\ module = p.module
    OBVIOUS
  <1>2. /\ Step(p).base = "python"
        /\ ~p.isolated => Step(p).args = Both(ModuleFirst(module), rest)
        /\ p.isolated => Step(p).args = Both(IsolatedFirst(module), rest)
    BY <1>1, LineOfModule, Zenon
  <1>3. ASSUME ~p.isolated
        PROVE  pythonMatches(Step(p).args, changed) =
                 matchModule(module, changed)
                 \cup (IF module = "pytest" THEN pytestMatches(rest, changed) ELSE {})
    <2>1. PICK args : args = Step(p).args
      OBVIOUS
    <2>2. args = Both(ModuleFirst(module), rest) /\ rest \in Seq(W)
      BY <1>1, <1>2, <1>3, <2>1, Zenon
    <2>3. rest \in Seq(W)
      BY <2>2
    <2>4. args = Both(ModuleFirst(module), rest)
      BY <2>2
    <2>5. pythonMatches(args, changed) =
            matchModule(module, changed)
            \cup (IF module = "pytest" THEN pytestMatches(rest, changed) ELSE {})
      BY <2>3, <2>4, ModuleJudges, ZenonT(30)
    <2> QED BY <2>1, <2>5, Zenon
  <1>4. ASSUME p.isolated
        PROVE  pythonMatches(Step(p).args, changed) =
                 IF module = "pytest" THEN pytestMatches(rest, changed) ELSE {}
    <2>1. PICK args : args = Step(p).args
      OBVIOUS
    <2>2. args = Both(IsolatedFirst(module), rest) /\ rest \in Seq(W)
      BY <1>1, <1>2, <1>4, <2>1, Zenon
    <2> QED BY <2>1, <2>2, IsolatedJudges, Zenon
  <1>5. PICK A, B : /\ A = matchModule(module, changed)
                    /\ B = IF module = "pytest" THEN pytestMatches(rest, changed) ELSE {}
    OBVIOUS
  <1>6. pythonMatches(Step(p).args, changed) = (IF p.isolated THEN {} ELSE A) \cup B
    <2>1. p.isolated => pythonMatches(Step(p).args, changed) = B
      BY <1>4, <1>5, Zenon
    <2>2. ~p.isolated => pythonMatches(Step(p).args, changed) = A \cup B
      BY <1>3, <1>5, Zenon
    <2> QED BY <2>1, <2>2, Zenon
  <1> QED BY <1>1, <1>2, <1>5, <1>6, Zenon

(* A path that a runner selects is a match of the step.                    *)
LEMMA StepReports ==
  ASSUME NEW s, NEW changed
  PROVE  /\ matchRunners(relativeCommand(s.command), changed) \subseteq matchesForStep(s, changed)
         /\ s.base = "go" => goMatches(s.args, changed) \subseteq matchesForStep(s, changed)
         /\ s.base = "node" => nodeMatches(s.args, changed) \subseteq matchesForStep(s, changed)
         /\ s.base = "pytest" => pytestMatches(s.args, changed) \subseteq matchesForStep(s, changed)
         /\ s.base = "python" => pythonMatches(s.args, changed) \subseteq matchesForStep(s, changed)
         /\ s.base = "sh" =>
              matchRunners(shellScript(s.args), changed) \subseteq matchesForStep(s, changed)
  <1>1. matchRunners(relativeCommand(s.command), changed) \subseteq matchesForStep(s, changed)
    BY Zenon DEF matchesForStep
  <1>2. s.base = "go" => goMatches(s.args, changed) \subseteq matchesForStep(s, changed)
    BY Zenon DEF matchesForStep
  <1>3. s.base = "node" => nodeMatches(s.args, changed) \subseteq matchesForStep(s, changed)
    BY Zenon DEF matchesForStep
  <1>4. s.base = "pytest" => pytestMatches(s.args, changed) \subseteq matchesForStep(s, changed)
    BY Zenon DEF matchesForStep
  <1>5. s.base = "python" => pythonMatches(s.args, changed) \subseteq matchesForStep(s, changed)
    BY Zenon DEF matchesForStep
  <1>6. s.base = "sh" => matchRunners(shellScript(s.args), changed) \subseteq matchesForStep(s, changed)
    BY Zenon DEF matchesForStep
  <1> QED BY <1>1, <1>2, <1>3, <1>4, <1>5, <1>6

(* What a runner has to be given for its selection to be judged: options,  *)
(* with their values, around the operands, and operands of the kinds that  *)
(* it takes.                                                               *)
GivenOptions(p) ==
  /\ p.tool = "go" => /\ Written(p.before, p.dashes, p.after, goValueFlags, {})
                      /\ NoArgs(p.before) /\ NoArgs(p.after)
  /\ p.tool = "node" => Written(p.before, p.dashes, p.after, nodeValueFlags, {})
  /\ p.tool \in {"pytest", "python -m"} =>
       Written(p.before, p.dashes, p.after, pytestValueFlags, pytestValueLetters)
  /\ p.tool \in {"python", "sh", "file"} => p.before = <<>> /\ p.after = <<>>

GivenTarget(tool, t) ==
  /\ tool = "go" => PackageTarget(t)
  /\ tool = "node" => t.kind \in {"path", "glob", "outside"}
  /\ tool \in {"pytest", "python -m"} => t.kind \in {"path", "outside"}
  /\ tool \in {"python", "sh", "file"} => t.kind = "path"

GivenTargets(p, N) ==
  /\ \A i \in 1..Len(p.targets) : GivenTarget(p.tool, p.targets[i]) /\ p.targets[i].path \in Seq(N)
  /\ p.tool \in {"python", "sh", "file"} => p.targets # <<>>

Runner == {"go", "node", "pytest", "python -m", "python", "sh", "file"}

OfPackages(p) == p.tool \in {"go", "node"}
OfModules(p) == p.tool = "python -m"
OfPytest(p) == p.tool \in {"pytest", "python -m"}
OfScripts(p) == p.tool \in {"python", "sh", "file"}

Collected(p, file, files) ==
  /\ isTestSource(file)
  /\ PytestRuns(Range(p.targets), Option("noconftest") \in Range(p.before \o p.after), file, files)

(* The entry is one that the step would run.                               *)
Selects(p, e) == e \in matchesForStep(Step(p), {e})

(* go and node: the file that the step runs is among its matches           *)
(* (matchesForStep).                                                       *)
LEMMA PackagesGuarded ==
  ASSUME NEW N, NEW T, NEW S, NEW p, OfPackages(p), NEW file \in Seq(N), NEW files,
         p.before \in Seq(T), p.after \in Seq(T), p.targets \in Seq(S),
         GivenOptions(p), GivenTargets(p, N), Runs(p, file, files), NEW e, e.path = file
  PROVE  Selects(p, e)
  <1>1. CASE p.tool = "go"
    <2>1. PICK args : args = Step(p).args
      OBVIOUS
    <2>2. /\ Step(p).base = "go"
          /\ args = <<Word(<<Plain("test")>>)>> \o Rest(p.before, p.dashes, Named(p.targets), p.after)
      BY <1>1, <2>1, LineOf DEF Line
    <2>3. isTestSource(file) /\ GoRuns(Range(p.targets), file)
      BY <1>1, Zenon DEF Runs
    <2>4. \A i \in 1..Len(p.targets) : PackageTarget(p.targets[i]) /\ p.targets[i].path \in Seq(N)
      BY <1>1 DEF GivenTargets, GivenTarget
    <2>5. /\ Written(p.before, p.dashes, p.after, goValueFlags, {})
          /\ NoArgs(p.before) /\ NoArgs(p.after)
      BY <1>1 DEF GivenOptions
    <2>6. e \in goMatches(args, {e})
      <3>1. PICK before, after, targets, dashes :
              /\ before = p.before /\ after = p.after /\ targets = p.targets /\ dashes = p.dashes
              /\ before \in Seq(T) /\ after \in Seq(T) /\ targets \in Seq(S)
        OBVIOUS
      <3> QED BY <2>2, <2>3, <2>4, <2>5, <3>1, GoJudges
    <2> QED BY <2>1, <2>2, <2>6, StepReports DEF Selects
  <1>2. CASE p.tool = "node"
    <2>1. PICK args : args = Step(p).args
      OBVIOUS
    <2>2. /\ Step(p).base = "node"
          /\ args = Both(<<Option("test")>>, Rest(p.before, p.dashes, Named(p.targets), p.after))
      BY <1>2, <2>1, LineOf DEF Line
    <2>3. isTestSource(file) /\ NodeRuns(Range(p.targets), file)
      BY <1>2, Zenon DEF Runs
    <2>4. \A i \in 1..Len(p.targets) : /\ p.targets[i].kind \in {"path", "glob", "outside"}
                                       /\ p.targets[i].path \in Seq(N)
      BY <1>2 DEF GivenTargets, GivenTarget
    <2>5. Written(p.before, p.dashes, p.after, nodeValueFlags, {})
      BY <1>2 DEF GivenOptions
    <2>6. e \in nodeMatches(args, {e})
      <3>1. PICK before, after, targets, dashes :
              /\ before = p.before /\ after = p.after /\ targets = p.targets /\ dashes = p.dashes
              /\ before \in Seq(T) /\ after \in Seq(T) /\ targets \in Seq(S)
        OBVIOUS
      <3> QED BY <2>2, <2>3, <2>4, <2>5, <3>1, NodeJudges
    <2> QED BY <2>1, <2>2, <2>6, StepReports DEF Selects
  <1> QED BY <1>1, <1>2 DEF OfPackages

(* pytest, by itself or as a module: the file that it collects is among    *)
(* its matches (pytestMatches).                                            *)
LEMMA PytestGuarded ==
  ASSUME NEW N, NEW T, NEW S, NEW p, OfPytest(p), NEW file \in Seq(N),
         NEW files, files \subseteq Seq(N) \ {<<>>},
         p.before \in Seq(T), p.after \in Seq(T), p.targets \in Seq(S),
         GivenOptions(p), GivenTargets(p, N), Collected(p, file, files),
         NEW rest, rest = Line(p), NEW e, e.path = file
  PROVE  e \in pytestMatches(rest, {e})
  <1>3. rest = Rest(p.before, p.dashes, Named(p.targets), p.after)
    BY DEF Line
  <1>4. \A i \in 1..Len(p.targets) : /\ p.targets[i].kind \in {"path", "outside"}
                                     /\ p.targets[i].path \in Seq(N)
    BY DEF GivenTargets, GivenTarget, OfPytest
  <1>5. Written(p.before, p.dashes, p.after, pytestValueFlags, pytestValueLetters)
    BY DEF GivenOptions, OfPytest
  <1>6. PICK before, after, targets, dashes :
          /\ before = p.before /\ after = p.after /\ targets = p.targets /\ dashes = p.dashes
          /\ before \in Seq(T) /\ after \in Seq(T) /\ targets \in Seq(S)
    OBVIOUS
  <1>7. /\ isTestSource(e.path)
        /\ PytestRuns(Range(targets), Option("noconftest") \in Range(before \o after), e.path, files)
    BY <1>6, Zenon DEF Collected
  <1> QED BY <1>3, <1>4, <1>5, <1>6, <1>7, PytestJudges

(* python -m: so is the file that is the module, or that pytest collects   *)
(* (matchesForStep).                                                       *)
LEMMA ModuleGuarded ==
  ASSUME NEW N, NEW T, NEW S, NEW p, OfModules(p), p.isolated \in BOOLEAN,
         NEW file \in Seq(N), NEW files, files \subseteq Seq(N) \ {<<>>},
         p.before \in Seq(T), p.after \in Seq(T), p.targets \in Seq(S),
         GivenOptions(p), GivenTargets(p, N), Runs(p, file, files),
         NEW e, e.path[1] = file[1], e.path = file \/ Loads(p, file)
  PROVE  Selects(p, e)
  <1>1. PICK rest, args, changed : rest = Line(p) /\ args = Step(p).args /\ changed = {e}
    OBVIOUS
  <1>4. \/ /\ ~p.isolated
           /\ file[1] \in {Name(p.module, a) : a \in {NoAffix, ".py", ".so"}}
        \/ e.path = file /\ p.module = "pytest" /\ Collected(p, file, files)
    BY Zenon DEF Runs, Loads, Collected, OfModules
  <1>5. PICK W : rest \in Seq(W)
    <2>1. \A i \in 1..Len(p.targets) : p.targets[i].kind \in TargetKinds
      BY DEF GivenTargets, GivenTarget, TargetKinds, OfModules
    <2>2. p.dashes \in BOOLEAN
      BY DEF GivenOptions, Written, OfModules
    <2>3. PICK U : Rest(p.before, p.dashes, Named(p.targets), p.after) \in Seq(U)
      <3>1. PICK before, after, targets, dashes :
              /\ before = p.before /\ after = p.after /\ targets = p.targets /\ dashes = p.dashes
              /\ before \in Seq(T) /\ after \in Seq(T) /\ targets \in Seq(S)
        OBVIOUS
      <3>2. PICK X : X = ArgumentSet(T, targets)
        OBVIOUS
      <3>3. \A i \in 1..Len(targets) : targets[i].kind \in TargetKinds
        BY <2>1, <3>1
      <3>4. Rest(before, dashes, Named(targets), after) \in Seq(X)
        BY <3>1, <3>2, <3>3, ArgumentsOf
      <3> QED BY <3>1, <3>4
    <2> QED BY <1>1, <2>3 DEF Line
  <1>3. /\ Step(p).base = "python"
        /\ pythonMatches(args, changed) =
             (IF p.isolated THEN {} ELSE matchModule(p.module, changed))
             \cup (IF p.module = "pytest" THEN pytestMatches(rest, changed) ELSE {})
    BY <1>1, <1>5, ModuleMatches, Zenon DEF OfModules
  <1>6. e \in pythonMatches(args, changed)
    <2>1. CASE /\ ~p.isolated
               /\ file[1] \in {Name(p.module, a) : a \in {NoAffix, ".py", ".so"}}
      <3>1. e \in matchModule(p.module, changed)
        <4>1. PICK a \in {NoAffix, ".py", ".so"} : file[1] = Name(p.module, a)
          BY <2>1
        <4>2. file[1].stem = p.module /\ file[1].affix = a
          BY <4>1, NameIs
        <4>3. e.path[1].stem = p.module /\ e.path[1].affix \in ShadowAffixes
          BY <4>1, <4>2 DEF ShadowAffixes
        <4> QED BY <4>3, <1>1 DEF matchModule
      <3> QED BY <3>1, <2>1, <1>3, Zenon
    <2>2. CASE e.path = file /\ p.module = "pytest" /\ Collected(p, file, files)
      <3>1. e \in pytestMatches(rest, changed)
        <4>1. OfPytest(p)
          BY DEF OfPytest, OfModules
        <4>2. e \in pytestMatches(rest, {e})
          BY <1>1, <2>2, <4>1, PytestGuarded
        <4> QED BY <1>1, <4>2
      <3> QED BY <3>1, <2>2, <1>3, Zenon
    <2> QED BY <1>4, <2>1, <2>2, Zenon
  <1> QED BY <1>1, <1>3, <1>6, StepReports DEF Selects

(* python, a shell and a command that is a file: the script, or the        *)
(* directory that git reported for it, is among the matches                *)
(* (matchesForStep).                                                       *)
LEMMA ScriptGuarded ==
  ASSUME NEW N, NEW S, NEW p, OfScripts(p), p.dashes \in BOOLEAN,
         NEW file \in Seq(N), file # <<>>, NEW collapsed \in 0..(Len(file) - 1), NEW files,
         p.targets \in Seq(S), GivenOptions(p), GivenTargets(p, N), Runs(p, file, files),
         NEW e, e = EntryOf(file, collapsed)
  PROVE  Selects(p, e)
  <1>1. file = p.targets[1].path
    BY Zenon DEF Runs, Loads, OfScripts
  <1>2. StandsFor(e, file)
    BY EntryStands
  <1>3. /\ p.before = <<>> /\ p.after = <<>> /\ p.targets # <<>>
        /\ \A i \in 1..Len(p.targets) : p.targets[i].kind = "path"
    BY DEF GivenOptions, GivenTargets, GivenTarget, OfScripts
  <1>4. PICK targets, dashes, rest :
          /\ targets = p.targets /\ dashes = p.dashes
          /\ rest = Rest(<<>>, dashes, Named(targets), <<>>)
          /\ targets \in Seq(S) /\ dashes \in BOOLEAN
    OBVIOUS
  <1>5. rest = Line(p)
    BY <1>3, <1>4, Zenon DEF Line
  <1>6. CASE p.tool = "python"
    <2>1. Step(p).base = "python" /\ Step(p).args = rest
      BY <1>5, <1>6, LineOf
    <2>2. e \in pythonMatches(rest, {e})
      BY <1>1, <1>2, <1>3, <1>4, PythonJudges
    <2>3. pythonMatches(Step(p).args, {e}) \subseteq matchesForStep(Step(p), {e})
      BY <2>1, StepReports
    <2> QED BY <2>1, <2>2, <2>3, Zenon DEF Selects
  <1>7. CASE p.tool = "sh"
    <2>1. PICK args : args = Both(ShFirst, rest)
      OBVIOUS
    <2>2. Step(p).base = "sh" /\ Step(p).args = args
      BY <1>5, <1>7, <2>1, LineOf
    <2>3. e \in matchRunners(shellScript(args), {e})
      BY <1>1, <1>2, <1>3, <1>4, <2>1, ShJudges
    <2>4. matchRunners(shellScript(Step(p).args), {e}) \subseteq matchesForStep(Step(p), {e})
      BY <2>2, StepReports
    <2> QED BY <2>2, <2>3, <2>4, Zenon DEF Selects
  <1>8. CASE p.tool = "file"
    <2>1. Step(p).command = file
      BY <1>1, <1>5, <1>8, LineOf
    <2>2. e \in matchRunners({file}, {e}) /\ relativeCommand(file) = {file}
      BY <1>2, RunnerMatches
    <2>3. matchRunners(relativeCommand(Step(p).command), {e}) \subseteq matchesForStep(Step(p), {e})
      BY StepReports
    <2> QED BY <2>1, <2>2, <2>3, Zenon DEF Selects
  <1> QED BY <1>6, <1>7, <1>8 DEF OfScripts

(* A step that is given options and operands that its tool takes, in any   *)
(* number and of any names, reports every changed file that it would run   *)
(* and that git lists, and what it loads by its name under any directory   *)
(* that git reports for it: options and their values, "--" and clusters of *)
(* letters hide nothing (matchesForStep, Interceptions).                   *)
THEOREM GuardComplete ==
  ASSUME NEW N, NEW T, NEW S, NEW p, p.tool \in Runner,
         p.dashes \in BOOLEAN, p.isolated \in BOOLEAN,
         p.before \in Seq(T), p.after \in Seq(T), p.targets \in Seq(S),
         GivenOptions(p), GivenTargets(p, N),
         NEW file \in Seq(N), file # <<>>, NEW files, files \subseteq Seq(N) \ {<<>>},
         NEW collapsed \in 0..(Len(file) - 1)
  PROVE  MissesNothing(p, file, collapsed, files)
  <1>1. PICK e : e = EntryOf(file, collapsed)
    OBVIOUS
  <1>4. collapsed = 0 => e.path = file
    BY <1>1 DEF EntryOf
  <1>5. e.path[1] = file[1]
    <2>1. CASE collapsed = 0
      BY <1>4, <2>1
    <2>2. CASE collapsed # 0
      <3>1. e.path = SubSeq(file, 1, collapsed)
        BY <1>1, <2>2 DEF EntryOf
      <3>2. collapsed \in 1..Len(file)
        <4>1. PICK n \in Nat : n = Len(file)
          OBVIOUS
        <4> QED BY <2>2, <4>1
      <3> QED BY <3>1, <3>2
    <2> QED BY <2>1, <2>2
  <1>2. ASSUME Runs(p, file, files), collapsed = 0 \/ Loads(p, file) PROVE Selects(p, e)
    <2>1. CASE p.tool \in {"python", "sh", "file"}
      <3>1. OfScripts(p)
        BY <2>1 DEF OfScripts
      <3> QED BY <1>1, <1>2, <3>1, ScriptGuarded
    <2>2. CASE p.tool \notin {"python", "sh", "file"}
      <3>5. ASSUME ~OfModules(p) PROVE e.path = file
        <4>1. ~Loads(p, file)
          BY <2>2, <3>5, Zenon DEF Loads, OfModules
        <4> QED BY <4>1, <1>2, <1>4
      <3>2. CASE p.tool \in {"go", "node"}
        <4>1. OfPackages(p) /\ ~OfModules(p)
          BY <3>2, Zenon DEF OfPackages, OfModules
        <4> QED BY <1>2, <3>5, <4>1, PackagesGuarded
      <3>3. CASE OfModules(p)
        <4>1. e.path = file \/ Loads(p, file)
          BY <1>2, <1>4
        <4> QED BY <1>2, <1>5, <3>3, <4>1, ModuleGuarded, Zenon
      <3>4. CASE p.tool = "pytest"
        <4>1. Collected(p, file, files)
          BY <1>2, <3>4, Zenon DEF Runs, Collected
        <4>2. PICK rest : rest = Line(p)
          OBVIOUS
        <4>6. OfPytest(p) /\ ~OfModules(p)
          BY <3>4, Zenon DEF OfPytest, OfModules
        <4>7. e.path = file
          BY <3>5, <4>6
        <4>3. e \in pytestMatches(rest, {e})
          BY <4>7, <4>6, <4>1, <4>2, PytestGuarded, Zenon
        <4>4. Step(p).base = "pytest" /\ Step(p).args = rest
          BY <3>4, <4>2, LineOf
        <4>5. pytestMatches(Step(p).args, {e}) \subseteq matchesForStep(Step(p), {e})
          BY <4>4, StepReports
        <4> QED BY <4>3, <4>4, <4>5, Zenon DEF Selects
      <3> QED BY <2>2, <3>2, <3>3, <3>4 DEF Runner, OfModules
    <2> QED BY <2>1, <2>2
  <1>3. Runs(p, file, files) /\ (collapsed = 0 \/ Loads(p, file)) =>
          matchesForStep(Step(p), {e}) # {}
    BY <1>2 DEF Selects
  <1> QED BY <1>1, <1>3, Zenon DEF MissesNothing, ReportedBy

-----------------------------------------------------------------------------
(*            The algorithms: the steps that the run is made of            *)

(* Options of one or two arguments.                                        *)
OneOrTwo(o) == o = <<>> \/ (\E t : o = <<t>>) \/ (\E t, u : o = <<t, u>>)
(* They are a list of what they hold.                                      *)
LEMMA ShortSeq ==
  ASSUME NEW o, OneOrTwo(o), NEW T, o[1] \in T, o[2] \in T
  PROVE  o \in Seq(T)
  <1>1. CASE o = <<>>
    BY <1>1
  <1>2. CASE \E t : o = <<t>>
    BY <1>2
  <1>3. CASE \E t, u : o = <<t, u>>
    BY <1>3
  <1> QED BY <1>1, <1>2, <1>3 DEF OneOrTwo

(* The fields of a long option.                                            *)
LEMMA OptionIs ==
  ASSUME NEW name
  PROVE  /\ Option(name).kind = "option" /\ Option(name).name = name
         /\ ~Option(name).glued
  BY DEF Option, Token

(* An option takes the next argument when its name is among those that do. *)
LEMMA OptionTakes ==
  ASSUME NEW name, NEW flags, NEW letters
  PROVE  Takes(Option(name), flags, letters) <=> name \in flags
  BY OptionIs DEF Takes, TakesNext

(* An option by itself.                                                    *)
LEMMA OptionAlone ==
  ASSUME NEW name, NEW flags, NEW letters, name \notin flags, NEW o, o = <<Option(name)>>
  PROVE  /\ OptionsFor(o, flags, letters) /\ OneOrTwo(o)
         /\ Visited(o, Taking(o, flags, letters)) \subseteq {1} /\ o[1] = Option(name)
  <1>1. PICK t : t = Option(name)
    OBVIOUS
  <1>2. t.kind = "option" /\ ~Takes(t, flags, letters)
    BY <1>1, OptionIs, OptionTakes
  <1>3. o = <<t>>
    BY <1>1
  <1>4. OptionsFor(<<t>>, flags, letters)
    BY <1>2, OneOption
  <1>5. Len(o) = 1 /\ Len(o) \in Nat /\ o[1] = t
    BY <1>3
  <1>6. Visited(o, Taking(o, flags, letters)) \subseteq 1..1
    BY <1>5, Looks
  <1> QED BY <1>1, <1>3, <1>4, <1>5, <1>6 DEF OneOrTwo

(* An option with its value.                                               *)
LEMMA OptionValued ==
  ASSUME NEW name, NEW flags, NEW letters, name \in flags, NEW u, NEW o, o = <<Option(name), u>>
  PROVE  /\ OptionsFor(o, flags, letters) /\ OneOrTwo(o)
         /\ Visited(o, Taking(o, flags, letters)) \subseteq {1} /\ o[1] = Option(name)
  <1>1. PICK t : t = Option(name)
    OBVIOUS
  <1>2. t.kind = "option" /\ Takes(t, flags, letters)
    BY <1>1, OptionIs, OptionTakes
  <1>3. o = <<t, u>>
    BY <1>1
  <1>4. /\ OptionsFor(<<t, u>>, flags, letters)
        /\ Visited(<<t, u>>, Taking(<<t, u>>, flags, letters)) \subseteq {1}
    BY <1>2, OptionAndValue
  <1>5. o[1] = t
    BY <1>3
  <1> QED BY <1>1, <1>3, <1>4, <1>5 DEF OneOrTwo

(* No option.                                                              *)
LEMMA NothingGiven ==
  ASSUME NEW flags, NEW letters, NEW o, o = <<>>
  PROVE  /\ OptionsFor(o, flags, letters) /\ OneOrTwo(o)
         /\ Visited(o, Taking(o, flags, letters)) = {}
  BY NoOptions DEF OneOrTwo

(* The options of the run, for the go tool.                                *)
LEMMA GoOptions ==
  ASSUME Valued = {}, NEW o \in Options("go")
  PROVE  OneOrTwo(o) /\ OptionsFor(o, goValueFlags, {}) /\ NoArgs(o)
  <1>1. \/ o = <<>> \/ o = <<Option("v")>>
        \/ \E n \in {"run", "count"} : \E v : o = <<Option(n), Word(v)>>
    BY Zenon DEF Options
  <1>2. ASSUME NEW n, n # "args", Visited(o, Taking(o, goValueFlags, {})) \subseteq {1},
               o[1] = Option(n)
        PROVE  NoArgs(o)
    <2>1. Option(n) # Option("args")
      BY <1>2, OptionIs
    <2> QED BY <1>2, <2>1 DEF NoArgs
  <1>3. CASE o = <<>>
    BY <1>3, NothingGiven DEF NoArgs
  <1>4. CASE o = <<Option("v")>>
    <2>1. "v" \notin goValueFlags
      BY DEF goValueFlags
    <2> QED BY <1>2, <1>4, <2>1, OptionAlone
  <1>5. CASE \E n \in {"run", "count"} : \E v : o = <<Option(n), Word(v)>>
    <2>1. PICK n \in {"run", "count"} : \E v : o = <<Option(n), Word(v)>>
      BY <1>5
    <2>3. PICK u : o = <<Option(n), u>>
      BY <2>1
    <2>2. n \in goValueFlags /\ n # "args"
      BY DEF goValueFlags
    <2> QED BY <1>2, <2>3, <2>2, OptionValued
  <1> QED BY <1>1, <1>3, <1>4, <1>5

(* The options of the run, for node.                                       *)
LEMMA NodeOptions ==
  ASSUME Valued = {}, NEW o \in Options("node")
  PROVE  OneOrTwo(o) /\ OptionsFor(o, nodeValueFlags, {})
  <1>1. o = <<>> \/ o = <<Option("v")>> \/ \E v : o = <<Option("import"), Word(v)>>
    BY Zenon DEF Options
  <1>2. "v" \notin nodeValueFlags /\ "import" \in nodeValueFlags
    BY DEF nodeValueFlags
  <1>3. CASE o = <<>>
    BY <1>3, NothingGiven
  <1>4. CASE o = <<Option("v")>>
    BY <1>2, <1>4, OptionAlone
  <1>5. CASE \E v : o = <<Option("import"), Word(v)>>
    <2>1. PICK u : o = <<Option("import"), u>>
      BY <1>5
    <2> QED BY <1>2, <2>1, OptionValued
  <1> QED BY <1>1, <1>3, <1>4, <1>5

(* "-qk" takes the next argument and "-kx" does not.                       *)
LEMMA ClustersTake ==
  /\ Takes(Cluster(<<"q", "k">>), pytestValueFlags, pytestValueLetters)
  /\ ~Takes(Cluster(<<"k", "x">>), pytestValueFlags, pytestValueLetters)
  <1>1. PICK s, t : s = <<"q", "k">> /\ t = <<"k", "x">>
    OBVIOUS
  <1>2. /\ s \in Seq({"q", "k"}) /\ Len(s) = 2 /\ s[1] = "q" /\ s[2] = "k"
        /\ t # <<>> /\ Last(t) = "x" /\ Last(s) = "k"
    BY <1>1 DEF Last
  <1>3. /\ Cluster(s).kind = "cluster" /\ Cluster(s).letters = s
        /\ Cluster(t).kind = "cluster" /\ Cluster(t).letters = t
    BY ClusterIs
  <1>4. "x" \notin pytestValueLetters /\ "k" \in pytestValueLetters /\ "q" \notin pytestValueLetters
    BY DEF pytestValueLetters
  <1>5. Letters(Cluster(s), pytestValueLetters) = s
    <2>1. 2 \in 1..Len(s) /\ s[2] \in pytestValueLetters
      BY <1>2, <1>4
    <2>2. \A j \in 1..(2 - 1) : s[j] \notin pytestValueLetters
      BY <1>2, <1>4
    <2>3. Letters(Cluster(s), pytestValueLetters) = SubSeq(s, 1, 2)
      BY <1>2, <1>3, <2>1, <2>2, LettersUpTo
    <2> QED BY <1>2, <2>3, AllOfIt
  <1>6. s # <<>>
    BY <1>2
  <1> QED BY <1>1, <1>2, <1>3, <1>4, <1>5, <1>6 DEF Takes, TakesNext

(* The options of the run, for pytest.                                     *)
LEMMA PytestOptions ==
  ASSUME Valued = {}, NEW tool, tool = "pytest" \/ tool = "python -m", NEW o \in Options(tool)
  PROVE  OneOrTwo(o) /\ OptionsFor(o, pytestValueFlags, pytestValueLetters)
  <1>1. \/ o = <<>> \/ o = <<Option("v")>> \/ o = <<Option("noconftest")>>
        \/ \E v : o = <<Option("ignore"), Word(v)>>
        \/ o = <<Cluster(<<"q", "k">>), Word(<<cli>>)>> \/ o = <<Cluster(<<"k", "x">>)>>
    BY Zenon DEF Options
  <1>2. "v" \notin pytestValueFlags /\ "noconftest" \notin pytestValueFlags
        /\ "ignore" \in pytestValueFlags
    BY DEF pytestValueFlags
  <1>3. CASE o = <<>>
    BY <1>3, NothingGiven
  <1>4. CASE o = <<Option("v")>>
    BY <1>2, <1>4, OptionAlone
  <1>5. CASE o = <<Option("noconftest")>>
    BY <1>2, <1>5, OptionAlone
  <1>6. CASE \E v : o = <<Option("ignore"), Word(v)>>
    <2>1. PICK u : o = <<Option("ignore"), u>>
      BY <1>6
    <2> QED BY <1>2, <2>1, OptionValued
  <1>7. CASE o = <<Cluster(<<"q", "k">>), Word(<<cli>>)>>
    <2>1. PICK t, u : t = Cluster(<<"q", "k">>) /\ u = Word(<<cli>>)
      OBVIOUS
    <2>2. Takes(t, pytestValueFlags, pytestValueLetters) /\ t.kind = "cluster" /\ o = <<t, u>>
      BY <1>7, <2>1, ClustersTake, ClusterIs
    <2> QED BY <2>2, OptionAndValue DEF OneOrTwo
  <1>8. CASE o = <<Cluster(<<"k", "x">>)>>
    <2>1. PICK t : t = Cluster(<<"k", "x">>)
      OBVIOUS
    <2>2. ~Takes(t, pytestValueFlags, pytestValueLetters) /\ t.kind = "cluster" /\ o = <<t>>
      BY <1>8, <2>1, ClustersTake, ClusterIs
    <2> QED BY <2>2, OneOption DEF OneOrTwo
  <1> QED BY <1>1, <1>3, <1>4, <1>5, <1>6, <1>7, <1>8

(* The paths of the run.                                                   *)
AllNames == Names \cup {cli, tests, Plain("testdata")}

(* No directory of the run is named "...".                                 *)
LEMMA NoDotsIn == \A n \in {cli, tests, Plain("testdata")} : n # Dots
  <1>1. cli.stem = "cli" /\ tests.stem = "tests" /\ Plain("testdata").stem = "testdata"
    BY NameIs DEF cli, tests, Plain
  <1>2. Dots.stem = "..."
    BY NameIs DEF Dots, Plain
  <1> QED BY <1>1, <1>2

(* A directory of the run.                                                 *)
LEMMA DirIs ==
  ASSUME NEW d \in Dirs
  PROVE  d \in Seq(AllNames) /\ \A i \in DOMAIN d : d[i] # Dots
  <1>1. PICK a, b, c : a = cli /\ b = tests /\ c = Plain("testdata")
    OBVIOUS
  <1>2. PICK S : S = {a, b, c}
    OBVIOUS
  <1>3. d = <<>> \/ d = <<a>> \/ d = <<b>> \/ d = <<b, a>> \/ d = <<a, b>> \/ d = <<c>>
    BY <1>1, Zenon DEF Dirs
  <1>4. d \in Seq(S)
    <2>1. /\ <<>> \in Seq(S) /\ <<a>> \in Seq(S) /\ <<b>> \in Seq(S) /\ <<c>> \in Seq(S)
          /\ <<b, a>> \in Seq(S) /\ <<a, b>> \in Seq(S)
      BY <1>2
    <2> QED BY <1>3, <2>1, Zenon
  <1>5. S \subseteq AllNames /\ \A n \in S : n # Dots
    BY <1>1, <1>2, NoDotsIn DEF AllNames
  <1> QED BY <1>4, <1>5

(* A changed file of the run.                                              *)
LEMMA FileIs ==
  ASSUME NEW f \in ChangedFiles
  PROVE  f \in Seq(AllNames) /\ f # <<>> /\ Len(f) \in Nat
  <1>1. PICK d \in Dirs, n \in Names : f = Append(d, n)
    BY DEF ChangedFiles
  <1>2. d \in Seq(AllNames) /\ n \in AllNames
    BY DirIs DEF AllNames
  <1> QED BY <1>1, <1>2

(* The targets of the run.                                                 *)
LEMMA KindOf ==
  ASSUME NEW tool \in Tools, NEW k, k \in KindsOf[tool]
  PROVE  /\ k \in Kinds
         /\ tool = "go" => k \in {"path", "tree", "module", "module tree"}
         /\ tool = "node" => k \in {"path", "glob", "outside"}
         /\ tool \in {"pytest", "python -m"} => k \in {"path", "test", "outside"}
         /\ tool \in {"python", "sh", "file"} => k = "path"
  <1>1. k \in Kinds \cap (CASE tool = "go" -> {"path", "tree", "module", "module tree"}
                            [] tool = "node" -> {"path", "glob", "outside"}
                            [] tool \in {"pytest", "python -m"} -> {"path", "test", "outside"}
                            [] tool \in {"python", "sh", "file"} -> {"path"})
    BY Zenon DEF KindsOf
  <1>2. k \in Kinds
    BY <1>1, Zenon
  <1>3. ASSUME tool = "go" PROVE k \in {"path", "tree", "module", "module tree"}
    BY <1>1, <1>3, Zenon
  <1>4. ASSUME tool = "node" PROVE k \in {"path", "glob", "outside"}
    BY <1>1, <1>4, Zenon
  <1>5. ASSUME tool \in {"pytest", "python -m"} PROVE k \in {"path", "test", "outside"}
    BY <1>1, <1>5, Zenon
  <1>6. ASSUME tool \in {"python", "sh", "file"} PROVE k = "path"
    BY <1>1, <1>6, Zenon
  <1> QED BY <1>2, <1>3, <1>4, <1>5, <1>6, Zenon

(* The run's kinds and depths leave out what the code is known not to      *)
(* judge: a single test, a tree of the module, a package of one name.      *)
Judged == Kinds \cap {"test", "module tree"} = {} /\ Valued = {} /\ MinDepth \in Nat /\ MinDepth >= 2

(* A target of the run is one that its tool takes.                         *)
LEMMA TargetPicked ==
  ASSUME Judged, NEW tool \in Tools, NEW u \in Targets(tool), Fits(tool, u)
  PROVE  GivenTarget(tool, u) /\ u.path \in Seq(AllNames)
  <1>1. PICK k \in KindsOf[tool], q \in Dirs \cup ChangedFiles : u = [kind |-> k, path |-> q]
    BY DEF Targets
  <1>2. u.kind = k /\ u.path = q
    BY <1>1
  <1>3. u.path \in Seq(AllNames)
    BY <1>2, DirIs, FileIs
  <1>4. /\ k \notin {"test", "module tree"}
        /\ tool = "go" => k \in {"path", "tree", "module", "module tree"}
        /\ tool = "node" => k \in {"path", "glob", "outside"}
        /\ tool \in {"pytest", "python -m"} => k \in {"path", "test", "outside"}
        /\ tool \in {"python", "sh", "file"} => k = "path"
    BY KindOf, Zenon DEF Judged
  <1>5. ASSUME tool = "go" PROVE PackageTarget(u)
    <2>1. q \in Dirs /\ (k = "path" => Len(q) \in {0} \cup MinDepth..2)
      BY <1>2, <1>5, Zenon DEF Fits
    <2>2. \A i \in DOMAIN q : q[i] # Dots
      BY <2>1, DirIs
    <2>3. k \in {"path", "tree", "module"}
      BY <1>4, <1>5, Zenon
    <2>4. k = "path" => Len(q) # 1
      <3>1. PICK least, depth : least = MinDepth /\ depth = Len(q)
        OBVIOUS
      <3>2. least \in Nat /\ least >= 2
        BY <3>1, Zenon DEF Judged
      <3>3. k = "path" => depth = 0 \/ depth \in least..2
        BY <2>1, <3>1
      <3> QED BY <3>1, <3>2, <3>3
    <2> QED BY <1>2, <2>2, <2>3, <2>4 DEF PackageTarget
  <1> QED BY <1>2, <1>3, <1>4, <1>5, Zenon DEF GivenTarget

(* So are those of a list.                                                 *)
LEMMA ListPicked ==
  ASSUME Judged, NEW tool \in Tools, NEW targets \in Lists(tool)
  PROVE  /\ targets \in Seq({targets[1]})
         /\ tool \in {"python", "sh", "file"} => targets # <<>>
         /\ \A i \in 1..Len(targets) : GivenTarget(tool, targets[i]) /\ targets[i].path \in Seq(AllNames)
  <1>1. \/ targets = <<>> /\ tool \notin {"python", "sh", "file"}
        \/ \E u \in Targets(tool) : Fits(tool, u) /\ targets = <<u>>
    BY Zenon DEF Lists
  <1>2. CASE targets = <<>> /\ tool \notin {"python", "sh", "file"}
    BY <1>2
  <1>3. CASE \E u \in Targets(tool) : Fits(tool, u) /\ targets = <<u>>
    <2>1. PICK u \in Targets(tool) : Fits(tool, u) /\ targets = <<u>>
      BY <1>3
    <2>2. GivenTarget(tool, u) /\ u.path \in Seq(AllNames)
      BY <2>1, TargetPicked
    <2> QED BY <2>1, <2>2
  <1> QED BY <1>1, <1>2, <1>3

-----------------------------------------------------------------------------
(*                 The algorithms: the inputs of the run                   *)

(* A sequence that UpTo enumerates.                                        *)
LEMMA UpToSeq ==
  ASSUME NEW n \in Nat, NEW S, NEW s \in UpTo(n, S) \cup {<<>>}
  PROVE  s \in Seq(S)
  <1>1. CASE s = <<>>
    BY <1>1
  <1>2. CASE s \in UpTo(n, S)
    <2>1. PICK k \in 1..n : s \in [1..k -> S]
      BY <1>2 DEF UpTo
    <2> QED BY <2>1
  <1> QED BY <1>1, <1>2

(* The options of a step of the run.                                       *)
LEMMA OptionsPicked ==
  ASSUME Judged, NEW p, p.tool \in Tools, p.before \in Options(p.tool), p.after \in Options(p.tool),
         p.dashes \in BOOLEAN, p.dashes => p.after = <<>>,
         p.before = <<>> \/ p.after = <<>>,
         p.tool \in {"python", "sh", "file"} => p.before \o p.after = <<>>
  PROVE  /\ GivenOptions(p)
         /\ \E T : p.before \in Seq(T) /\ p.after \in Seq(T)
  <1>0. Valued = {}
    BY Zenon DEF Judged
  <1>1. PICK before, after, dashes : before = p.before /\ after = p.after /\ dashes = p.dashes
    OBVIOUS
  <1>2. PICK T : T = {before[1], before[2], after[1], after[2]}
    OBVIOUS
  <1>3. OneOrTwo(before) /\ OneOrTwo(after) => before \in Seq(T) /\ after \in Seq(T)
    BY <1>2, ShortSeq
  <1>4. CASE p.tool = "go"
    <2>1. /\ OneOrTwo(before) /\ OptionsFor(before, goValueFlags, {}) /\ NoArgs(before)
          /\ OneOrTwo(after) /\ OptionsFor(after, goValueFlags, {}) /\ NoArgs(after)
      BY <1>0, <1>1, <1>4, GoOptions
    <2>2. GivenOptions(p)
      BY <1>1, <1>4, <2>1, Zenon DEF GivenOptions, Written
    <2> QED BY <1>1, <1>3, <2>1, <2>2
  <1>5. CASE p.tool = "node"
    <2>1. /\ OneOrTwo(before) /\ OptionsFor(before, nodeValueFlags, {})
          /\ OneOrTwo(after) /\ OptionsFor(after, nodeValueFlags, {})
      BY <1>0, <1>1, <1>5, NodeOptions
    <2>2. GivenOptions(p)
      BY <1>1, <1>5, <2>1, Zenon DEF GivenOptions, Written
    <2> QED BY <1>1, <1>3, <2>1, <2>2
  <1>6. CASE OfPytest(p)
    <2>1. /\ OneOrTwo(before) /\ OptionsFor(before, pytestValueFlags, pytestValueLetters)
          /\ OneOrTwo(after) /\ OptionsFor(after, pytestValueFlags, pytestValueLetters)
      BY <1>0, <1>1, <1>6, PytestOptions, Zenon DEF OfPytest
    <2>2. GivenOptions(p)
      BY <1>1, <1>6, <2>1, Zenon DEF GivenOptions, Written, OfPytest
    <2> QED BY <1>1, <1>3, <2>1, <2>2
  <1>7. CASE OfScripts(p)
    <2>1. before \o after = <<>>
      BY <1>1, <1>7, Zenon DEF OfScripts
    <2>2. before = <<>> /\ after = <<>>
      <3>1. OneOrTwo(before) /\ OneOrTwo(after)
        <4>1. p.before = <<>> \/ p.before = <<Option("v")>>
          BY <1>0, <1>7, Zenon DEF Options, OfScripts
        <4>2. p.after = <<>> \/ p.after = <<Option("v")>>
          BY <1>0, <1>7, Zenon DEF Options, OfScripts
        <4> QED BY <1>1, <4>1, <4>2, Zenon DEF OneOrTwo
      <3>2. before \in Seq(T) /\ after \in Seq(T)
        BY <1>3, <3>1
      <3> QED BY <2>1, <3>2
    <2>3. GivenOptions(p)
      BY <1>1, <1>7, <2>2, Zenon DEF GivenOptions, OfScripts
    <2> QED BY <1>1, <2>2, <2>3
  <1> QED BY <1>4, <1>5, <1>6, <1>7, Zenon DEF Tools, OfPytest, OfScripts

(* A step of the run, and the file that it may run.                        *)
Picked(p, file, collapsed) ==
  /\ p.tool \in Tools /\ p.targets \in Lists(p.tool)
  /\ p.before \in Options(p.tool) /\ p.after \in Options(p.tool)
  /\ p.dashes \in BOOLEAN /\ p.isolated \in BOOLEAN
  /\ p.dashes => p.after = <<>>
  /\ p.before = <<>> \/ p.after = <<>>
  /\ p.tool \in {"python", "sh", "file"} => p.before \o p.after = <<>>
  /\ file \in ChangedFiles
  /\ collapsed \in 0..(Len(file) - 1)

(* The theorem about steps, of a step of the run.                          *)
LEMMA PickedMissesNothing ==
  ASSUME Judged, NEW p, NEW file, NEW collapsed, Picked(p, file, collapsed)
  PROVE  MissesNothing(p, file, collapsed, ChangedFiles)
  <1>1. GivenOptions(p) /\ \E T : p.before \in Seq(T) /\ p.after \in Seq(T)
    BY OptionsPicked, Zenon DEF Picked
  <1>2. PICK T : p.before \in Seq(T) /\ p.after \in Seq(T)
    BY <1>1
  <1>3. /\ p.targets \in Seq({p.targets[1]})
        /\ p.tool \in {"python", "sh", "file"} => p.targets # <<>>
        /\ \A i \in 1..Len(p.targets) :
             GivenTarget(p.tool, p.targets[i]) /\ p.targets[i].path \in Seq(AllNames)
    BY ListPicked, Zenon DEF Picked
  <1>4. GivenTargets(p, AllNames)
    BY <1>3, Zenon DEF GivenTargets
  <1>5. PICK S : p.targets \in Seq(S)
    BY <1>3
  <1>6. file \in Seq(AllNames) /\ file # <<>> /\ Len(file) \in Nat
    BY FileIs DEF Picked
  <1>7. ChangedFiles \subseteq Seq(AllNames) \ {<<>>}
    BY FileIs
  <1>8. collapsed \in 0..(Len(file) - 1)
    BY Zenon DEF Picked
  <1>9. p.tool \in Runner /\ p.dashes \in BOOLEAN /\ p.isolated \in BOOLEAN
    BY Zenon DEF Picked, Tools, Runner
  <1>10. PICK files : files = ChangedFiles
    OBVIOUS
  <1>11. MissesNothing(p, file, collapsed, files)
    BY <1>1, <1>2, <1>4, <1>5, <1>6, <1>7, <1>8, <1>9, <1>10, GuardComplete
  <1> QED BY <1>10, <1>11

(* What PickStep picks.                                                    *)
LEMMA PickedStep ==
  PickStep => /\ input'.about = "step"
              /\ Picked(input'.purpose, input'.file, input'.collapsed)
  <1> SUFFICES ASSUME PickStep
               PROVE  /\ input'.about = "step"
                      /\ Picked(input'.purpose, input'.file, input'.collapsed)
    OBVIOUS
  <1>0. PICK tool \in Tools :
       \E targets \in Lists(tool), before, after \in Options(tool), dashes, isolated \in BOOLEAN,
       file \in ChangedFiles, module \in {"pytest", "x"} :
      /\ dashes => after = <<>>
      /\ before = <<>> \/ after = <<>>
      /\ tool # "python -m" => ~isolated /\ module = "x"
      /\ tool \in {"python", "sh", "file"} => before \o after = <<>>
      /\ \E collapsed \in 0..(Len(file) - 1) :
           input' = [about |-> "step", file |-> file, collapsed |-> collapsed,
             purpose |-> [tool |-> tool, targets |-> targets, before |-> before,
                          after |-> after, dashes |-> dashes, isolated |-> isolated,
                          module |-> module]]
    BY Zenon DEF PickStep
  <1>1. PICK targets \in Lists(tool), before \in Options(tool), after \in Options(tool),
       dashes \in BOOLEAN, isolated \in BOOLEAN, file \in ChangedFiles, module \in {"pytest", "x"} :
      /\ dashes => after = <<>>
      /\ before = <<>> \/ after = <<>>
      /\ tool # "python -m" => ~isolated /\ module = "x"
      /\ tool \in {"python", "sh", "file"} => before \o after = <<>>
      /\ \E collapsed \in 0..(Len(file) - 1) :
           input' = [about |-> "step", file |-> file, collapsed |-> collapsed,
             purpose |-> [tool |-> tool, targets |-> targets, before |-> before,
                          after |-> after, dashes |-> dashes, isolated |-> isolated,
                          module |-> module]]
    BY <1>0, Zenon
  <1>2. PICK collapsed \in 0..(Len(file) - 1) :
           input' = [about |-> "step", file |-> file, collapsed |-> collapsed,
             purpose |-> [tool |-> tool, targets |-> targets, before |-> before,
                          after |-> after, dashes |-> dashes, isolated |-> isolated,
                          module |-> module]]
    BY <1>1, Zenon
  <1>3. PICK p : p = [tool |-> tool, targets |-> targets, before |-> before,
                      after |-> after, dashes |-> dashes, isolated |-> isolated, module |-> module]
    OBVIOUS
  <1>4. /\ input'.about = "step" /\ input'.file = file /\ input'.collapsed = collapsed
        /\ input'.purpose = p
    BY <1>2, <1>3
  <1>5. /\ p.tool = tool /\ p.targets = targets /\ p.before = before /\ p.after = after
        /\ p.dashes = dashes /\ p.isolated = isolated
    BY <1>3
  <1>6. /\ dashes => after = <<>>
        /\ before = <<>> \/ after = <<>>
        /\ tool \in {"python", "sh", "file"} => before \o after = <<>>
    BY <1>1, Zenon
  <1>7. Picked(p, file, collapsed)
    BY <1>5, <1>6, Zenon DEF Picked
  <1> QED BY <1>4, <1>7, Zenon

(* Of every step and file that are picked, the step reports the file that  *)
(* it would run (Interceptions).                                           *)
THEOREM GuardProved ==
  ASSUME Judged
  PROVE  AlgorithmsSpec => []GuardMissesNothing
  <1>1. AlgorithmsInit => GuardMissesNothing
    BY DEF AlgorithmsInit, Nothing, GuardMissesNothing
  <1>2. GuardMissesNothing /\ [AlgorithmsNext]_input => GuardMissesNothing'
    <2> SUFFICES ASSUME GuardMissesNothing, [AlgorithmsNext]_input
                 PROVE  GuardMissesNothing'
      OBVIOUS
    <2>1. CASE PickStep
      <3>1. Picked(input'.purpose, input'.file, input'.collapsed)
        BY <2>1, PickedStep
      <3>2. MissesNothing(input'.purpose, input'.file, input'.collapsed, ChangedFiles)
        BY <3>1, PickedMissesNothing
      <3> QED BY <3>2, Zenon DEF GuardMissesNothing
    <2>2. CASE PickProtected
      BY <2>2 DEF PickProtected, GuardMissesNothing
    <2>3. CASE PickPages
      BY <2>3 DEF PickPages, GuardMissesNothing
    <2>4. CASE UNCHANGED input
      BY <2>4, Zenon DEF GuardMissesNothing
    <2> QED BY <2>1, <2>2, <2>3, <2>4 DEF AlgorithmsNext
  <1> QED BY <1>1, <1>2, PTL DEF AlgorithmsSpec

-----------------------------------------------------------------------------
(*          The algorithms: the steps that are refused at creation         *)

(* The paths that an argument names (argumentPath).                        *)
LEMMA ArgumentPathIs ==
  ASSUME NEW t, NEW p
  PROVE  p \in argumentPath(t) <=>
           /\ ~t.outside /\ p = t.path /\ p # <<>> /\ t.kind = "word"
           /\ \A i \in DOMAIN p : p[i] # Dots
           /\ Len(p) > 1 \/ Base(p).affix # NoAffix
  BY DEF argumentPath, cleanRunner, cleanOperand

(* The arguments of a set name no path but those of another.               *)
Points(T, Where) == \A t \in T : argumentPath(t) \subseteq Where

(* What is no word, and a bare word, name no path.                         *)
LEMMA NoPath ==
  ASSUME NEW t
  PROVE  /\ t.kind # "word" => argumentPath(t) = {}
         /\ \A s : t = Word(<<Plain(s)>>) => argumentPath(t) = {}
         /\ t.outside => argumentPath(t) = {}
  <1>1. t.kind # "word" => argumentPath(t) = {}
    BY ArgumentPathIs
  <1>2. t.outside => argumentPath(t) = {}
    BY ArgumentPathIs
  <1>3. ASSUME NEW s, t = Word(<<Plain(s)>>) PROVE argumentPath(t) = {}
    <2>1. PICK n, q : n = Plain(s) /\ q = <<n>>
      OBVIOUS
    <2>2. n.affix = NoAffix
      BY <2>1, NameIs DEF Plain
    <2>3. Len(q) = 1 /\ Base(q) = n
      BY <2>1 DEF Base, Last
    <2>4. t.path = q
      BY <1>3, <2>1, WordIs
    <2>5. ~(Len(q) > 1) /\ Base(q).affix = NoAffix
      BY <2>2, <2>3
    <2> QED BY <2>4, <2>5, ArgumentPathIs
  <1> QED BY <1>1, <1>2, <1>3

(* What a list holds is in the set that it is a list of.                   *)
LEMMA RangeIn ==
  ASSUME NEW U, NEW s \in Seq(U)
  PROVE  Range(s) \subseteq U
  BY DEF Range

(* The options of a step name the paths that their values look like.       *)
LEMMA OptionsPoint ==
  ASSUME NEW p, NEW T, p.before \in Seq(T), p.after \in Seq(T)
  PROVE  \E U : p.before \in Seq(U) /\ p.after \in Seq(U) /\ Points(U, ValuePaths(p))
  <1>1. PICK before, after : before = p.before /\ after = p.after
    OBVIOUS
  <1>2. PICK U : U = Range(before) \cup Range(after)
    OBVIOUS
  <1>3. \A i \in DOMAIN before : before[i] \in U
    BY <1>2 DEF Range
  <1>4. \A i \in DOMAIN after : after[i] \in U
    BY <1>2 DEF Range
  <1>5. before \in Seq(U) /\ after \in Seq(U)
    BY <1>1, <1>3, <1>4
  <1>6. Points(U, ValuePaths(p))
    BY <1>1, <1>2, Zenon DEF Points, ValuePaths
  <1> QED BY <1>1, <1>5, <1>6

(* What the targets of the run may name: their own paths, and with go      *)
(* directories by the name of the module.                                  *)
InModule == {<<Plain("mod")>> \o d : d \in Dirs}
Reachable(tool) == (ChangedFiles \cup Dirs) \cup (IF tool = "go" THEN InModule ELSE {})

(* What its options and operands may.                                      *)
Nameable(p) == Reachable(p.tool) \cup ValuePaths(p)

(* A target that is not a glob names one of them, or nothing               *)
(* (argumentPath).                                                         *)
LEMMA TargetPoints ==
  ASSUME Judged, NEW tool \in Tools, NEW u \in Targets(tool), Fits(tool, u), u.kind # "glob"
  PROVE  argumentPath(Operand(u)) \subseteq Reachable(tool)
  <1>1. PICK k \in KindsOf[tool], q \in Dirs \cup ChangedFiles : u = [kind |-> k, path |-> q]
    BY DEF Targets
  <1>2. u.kind = k /\ u.path = q
    BY <1>1
  <1>3. /\ k \notin {"test", "module tree"}
        /\ k \in {"path", "tree", "module", "module tree", "glob", "test", "outside"}
        /\ k \in {"tree", "module"} => tool = "go"
    BY KindOf, Zenon DEF Judged, Tools
  <1>4. q \in Seq(AllNames)
    BY DirIs, FileIs
  <1>5. CASE k = "path"
    <2>1. Operand(u).path = q
      BY <1>2, <1>5, WordIs DEF Operand
    <2> QED BY <2>1, ArgumentPathIs DEF Reachable
  <1>6. CASE k = "tree"
    <2>1. Operand(u).path = Append(q, Dots)
      BY <1>2, <1>6, WordIs DEF Operand
    <2>2. PICK N : N = AllNames \cup {Dots}
      OBVIOUS
    <2>3. q \in Seq(N) /\ Dots \in N
      BY <1>4, <2>2, SeqGrows
    <2>4. PICK p : p = Append(q, Dots)
      OBVIOUS
    <2>5. p[Len(q) + 1] = Dots /\ Len(q) + 1 \in DOMAIN p
      BY <2>3, <2>4
    <2> QED BY <2>1, <2>4, <2>5, ArgumentPathIs
  <1>7. CASE k = "module"
    <2>1. Operand(u).path = <<Plain("mod")>> \o q
      BY <1>2, <1>7, WordIs DEF Operand
    <2>2. tool = "go" /\ q \in Dirs
      BY <1>2, <1>3, <1>7, Zenon DEF Fits
    <2>3. <<Plain("mod")>> \o q \in Reachable(tool)
      BY <2>2 DEF Reachable, InModule
    <2> QED BY <2>1, <2>3, ArgumentPathIs
  <1>8. CASE k = "outside"
    <2>1. Operand(u).outside
      BY <1>2, <1>8, OutsideIs DEF Operand
    <2> QED BY <2>1, NoPath
  <1> QED BY <1>2, <1>3, <1>5, <1>6, <1>7, <1>8, Zenon

(* What is selected is among what has changed.                             *)
LEMMA RunnersAmong ==
  ASSUME NEW runners, NEW changed
  PROVE  matchRunners(runners, changed) \subseteq changed
  BY DEF matchRunners, matchRunner

(* So are the tests that a runner collects.                                *)
LEMMA TestsAmong ==
  ASSUME NEW args, NEW changed
  PROVE  /\ nodeMatches(args, changed) \subseteq testSources(changed)
         /\ pytestMatches(args, changed) \subseteq testSources(changed)
         /\ goMatches(args, changed) \subseteq testSources(changed)
         /\ \A c \in goMatches(args, changed) : Base(c.path).affix = "_test.go"
         /\ testSources(changed) \subseteq changed
  <1>1. nodeMatches(args, changed) \subseteq testSources(changed)
    BY Zenon DEF nodeMatches
  <1>2. pytestMatches(args, changed) \subseteq testSources(changed)
    BY Zenon DEF pytestMatches
  <1>3. ASSUME NEW c \in goMatches(args, changed)
        PROVE  c \in testSources(changed) /\ Base(c.path).affix = "_test.go"
    BY <1>3, Zenon DEF goMatches
  <1>4. testSources(changed) \subseteq changed
    BY Zenon DEF testSources
  <1> QED BY <1>1, <1>2, <1>3, <1>4, Zenon

(* What a runner collects of one changed file it collects of more.         *)
LEMMA TestsGrow ==
  ASSUME NEW args, NEW changed, NEW more, changed \subseteq more
  PROVE  /\ nodeMatches(args, changed) \subseteq nodeMatches(args, more)
         /\ pytestMatches(args, changed) \subseteq pytestMatches(args, more)
         /\ matchModule(args, changed) \subseteq matchModule(args, more)
  <1>1. testSources(changed) \subseteq testSources(more)
    BY Zenon DEF testSources
  <1>2. nodeMatches(args, changed) \subseteq nodeMatches(args, more)
    BY <1>1, Zenon DEF nodeMatches
  <1>3. pytestMatches(args, changed) \subseteq pytestMatches(args, more)
    BY <1>1, Zenon DEF pytestMatches
  <1>4. matchModule(args, changed) \subseteq matchModule(args, more)
    BY Zenon DEF matchModule
  <1> QED BY <1>2, <1>3, <1>4

(* So is what python loads, whichever argument ends its options.           *)
LEMMA PythonAmong ==
  ASSUME NEW args, Len(args) \in Nat, NEW changed
  PROVE  pythonMatches(args, changed) \subseteq changed
  <1>1. CASE PythonEnds(args) = {}
    BY <1>1, Zenon DEF pythonMatches, PythonEnds, HasLetter
  <1>2. CASE PythonEnds(args) # {}
    <2>1. PICK first : first = Min(PythonEnds(args))
      OBVIOUS
    <2>2. first \in PythonEnds(args)
      <3>1. PythonEnds(args) \in SUBSET Nat
        <4>1. Visited(args, LetterValued(args, {"W", "X"})) \subseteq 1..Len(args)
          BY Looks
        <4> QED BY <4>1 DEF PythonEnds
      <3> QED BY <1>2, <2>1, <3>1, MinOf
    <2>3. \/ args[first].kind = "word" \/ args[first].kind = "--"
          \/ HasLetter(args[first], {"c"}) \/ HasLetter(args[first], {"m"})
      <3>1. args[first].kind \in {"--", "word"} \/ HasLetter(args[first], {"c", "m"})
        BY <2>2, Zenon DEF PythonEnds
      <3> QED BY <3>1 DEF HasLetter
    <2>4. CASE args[first].kind = "word"
      <3>1. pythonMatches(args, changed) = matchRunners(cleanRunner(args[first]), changed)
        BY <1>2, <2>1, <2>4, PythonScript
      <3> QED BY <3>1, RunnersAmong
    <2>5. CASE args[first].kind = "--"
      <3>1. ASSUME first < Len(args)
            PROVE  pythonMatches(args, changed) = matchRunners(cleanRunner(args[first + 1]), changed)
        BY <1>2, <2>1, <2>5, <3>1, PythonScript
      <3>2. ASSUME ~(first < Len(args)) PROVE pythonMatches(args, changed) = {}
        BY <1>2, <2>1, <2>5, <3>2, Zenon DEF pythonMatches, PythonEnds, HasLetter
      <3> QED BY <3>1, <3>2, RunnersAmong
    <2>6. CASE HasLetter(args[first], {"c"})
      <3>1. args[first].kind # "word" /\ args[first].kind # "--"
        BY <2>6 DEF HasLetter
      <3>2. pythonMatches(args, changed) = {} \/
            \E module, rest :
              pythonMatches(args, changed) \subseteq
                matchModule(module, changed) \cup pytestMatches(rest, changed)
        BY <1>2, <2>1, <2>6, <3>1, Zenon DEF pythonMatches, PythonEnds, HasLetter
      <3> QED BY <3>2, TestsAmong DEF matchModule
    <2>7. CASE HasLetter(args[first], {"m"}) /\ ~HasLetter(args[first], {"c"})
      <3>1. args[first].kind # "word" /\ args[first].kind # "--"
        BY <2>7 DEF HasLetter
      <3>2. \E module, rest :
              pythonMatches(args, changed) \subseteq
                matchModule(module, changed) \cup pytestMatches(rest, changed)
        BY <1>2, <2>1, <2>7, <3>1, Zenon DEF pythonMatches, PythonEnds, HasLetter
      <3> QED BY <3>2, TestsAmong DEF matchModule
    <2> QED BY <2>3, <2>4, <2>5, <2>6, <2>7
  <1> QED BY <1>1, <1>2

(* The tools that a step can be given.                                     *)
Bases == {"python", "sh", "go", "node", "pytest", "other"}

(* What a step reports is among what has changed (matchesForStep).         *)
LEMMA MatchesAmong ==
  ASSUME NEW s, s.base \in Bases, Len(s.args) \in Nat, NEW changed
  PROVE  matchesForStep(s, changed) \subseteq changed
  <1>1. CASE s.base = "python"
    <2>1. matchesForStep(s, changed) =
            matchRunners(relativeCommand(s.command), changed) \cup pythonMatches(s.args, changed)
      BY <1>1, Zenon DEF matchesForStep
    <2> QED BY <2>1, RunnersAmong, PythonAmong
  <1>2. CASE s.base = "sh"
    <2>1. matchesForStep(s, changed) =
            matchRunners(relativeCommand(s.command), changed)
            \cup matchRunners(shellScript(s.args), changed)
      BY <1>2, Zenon DEF matchesForStep
    <2> QED BY <2>1, RunnersAmong
  <1>3. CASE s.base = "go"
    <2>1. matchesForStep(s, changed) =
            matchRunners(relativeCommand(s.command), changed) \cup goMatches(s.args, changed)
      BY <1>3, Zenon DEF matchesForStep
    <2> QED BY <2>1, RunnersAmong, TestsAmong
  <1>4. CASE s.base = "node"
    <2>1. matchesForStep(s, changed) =
            matchRunners(relativeCommand(s.command), changed) \cup nodeMatches(s.args, changed)
      BY <1>4, Zenon DEF matchesForStep
    <2> QED BY <2>1, RunnersAmong, TestsAmong
  <1>5. CASE s.base = "pytest"
    <2>1. matchesForStep(s, changed) =
            matchRunners(relativeCommand(s.command), changed) \cup pytestMatches(s.args, changed)
      BY <1>5, Zenon DEF matchesForStep
    <2> QED BY <2>1, RunnersAmong, TestsAmong
  <1>6. CASE s.base = "other"
    <2>1. matchesForStep(s, changed) = matchRunners(relativeCommand(s.command), changed) \cup {}
      BY <1>6, Zenon DEF matchesForStep
    <2> QED BY <2>1, RunnersAmong
  <1> QED BY <1>1, <1>2, <1>3, <1>4, <1>5, <1>6 DEF Bases

(* A list of the run has one target at most, which its tool takes.         *)
LEMMA OneTarget ==
  ASSUME NEW tool \in Tools, NEW targets \in Lists(tool)
  PROVE  \/ targets = <<>> /\ tool \notin {"python", "sh", "file"}
         \/ \E u \in Targets(tool) : Fits(tool, u) /\ targets = <<u>>
  BY Zenon DEF Lists

(* The options and operands of a step of the run name what is reachable.   *)
LEMMA LinePoints ==
  ASSUME Judged, NEW p, NEW file, NEW collapsed, Picked(p, file, collapsed),
         \A t \in Range(p.targets) : t.kind # "glob"
  PROVE  \E U : Line(p) \in Seq(U) /\ Points(U, Nameable(p))
  <1>1. PICK tool, where : tool = p.tool /\ where = Nameable(p)
    OBVIOUS
  <1>2. tool \in Tools
    BY <1>1, Zenon DEF Picked
  <1>3. PICK before, after, targets, dashes :
          /\ before = p.before /\ after = p.after /\ targets = p.targets /\ dashes = p.dashes
    OBVIOUS
  <1>4. targets \in Lists(tool)
    BY <1>1, <1>3, Zenon DEF Picked
  <1>5. \E T : p.before \in Seq(T) /\ p.after \in Seq(T)
    BY OptionsPicked, Zenon DEF Picked
  <1>6. PICK T : p.before \in Seq(T) /\ p.after \in Seq(T) /\ Points(T, ValuePaths(p))
    BY <1>5, OptionsPoint
  <1>8. before \in Seq(T) /\ after \in Seq(T) /\ Points(T, where)
    BY <1>1, <1>3, <1>6 DEF Points, Nameable
  <1>9. \E S : /\ targets \in Seq(S)
               /\ \A i \in 1..Len(targets) : /\ targets[i].kind \in TargetKinds
                                             /\ argumentPath(Operand(targets[i])) \subseteq where
    <2>1. CASE targets = <<>>
      <3>1. targets \in Seq({}) /\ Len(targets) = 0
        BY <2>1
      <3> QED BY <3>1
    <2>2. CASE \E u \in Targets(tool) : Fits(tool, u) /\ targets = <<u>>
      <3>1. PICK u \in Targets(tool) : Fits(tool, u) /\ targets = <<u>>
        BY <2>2
      <3>2. u \in Range(targets)
        BY <3>1 DEF Range
      <3>3. u.kind # "glob"
        BY <3>2, <1>3
      <3>4. argumentPath(Operand(u)) \subseteq where
        <4>1. argumentPath(Operand(u)) \subseteq Reachable(tool)
          BY <1>2, <3>1, <3>3, TargetPoints
        <4> QED BY <1>1, <4>1 DEF Nameable
      <3>5. u.kind \in TargetKinds
        <4>1. PICK k \in KindsOf[tool], q \in Dirs \cup ChangedFiles : u = [kind |-> k, path |-> q]
          BY <3>1 DEF Targets
        <4>2. k \in TargetKinds
          BY <1>2, <4>1, KindOf, Zenon DEF Tools, TargetKinds
        <4> QED BY <4>1, <4>2
      <3>6. targets \in Seq({u}) /\ \A i \in 1..Len(targets) : targets[i] = u
        BY <3>1
      <3> QED BY <3>4, <3>5, <3>6
    <2> QED BY <1>2, <1>4, <2>1, <2>2, OneTarget
  <1>10. PICK S : /\ targets \in Seq(S)
                  /\ \A i \in 1..Len(targets) : /\ targets[i].kind \in TargetKinds
                                                /\ argumentPath(Operand(targets[i])) \subseteq where
    BY <1>9
  <1>11. PICK U : U = ArgumentSet(T, targets)
    OBVIOUS
  <1>12. Rest(before, dashes, Named(targets), after) \in Seq(U)
    BY <1>8, <1>10, <1>11, ArgumentsOf
  <1>13. Points(U, where)
    <2>1. argumentPath(Dashes) = {}
      <3>1. Dashes.kind # "word"
        BY DEF Dashes, Token
      <3> QED BY <3>1, NoPath
    <2>2. ASSUME NEW i \in 1..Len(targets) PROVE argumentPath(Named(targets)[i]) \subseteq where
      <3>1. Named(targets)[i] = Operand(targets[i])
        BY <1>10 DEF Named
      <3> QED BY <3>1, <1>10
    <2> QED BY <1>8, <1>11, <2>1, <2>2 DEF Points, ArgumentSet
  <1>14. Line(p) = Rest(before, dashes, Named(targets), after)
    BY <1>3, Zenon DEF Line
  <1> QED BY <1>1, <1>12, <1>13, <1>14

(* What comes before them names nothing.                                   *)
LEMMA FirstPoints ==
  ASSUME NEW X, NEW first \in Seq(X), Points(X, {}), NEW where, NEW U, NEW rest \in Seq(U),
         Points(U, where)
  PROVE  \E V : Both(first, rest) \in Seq(V) /\ Points(V, where)
  <1>1. PICK V : V = X \cup U
    OBVIOUS
  <1>2. first \in Seq(V) /\ rest \in Seq(V)
    <2>1. X \subseteq V /\ U \subseteq V
      BY <1>1
    <2> QED BY <2>1, SeqGrows
  <1>3. Both(first, rest) \in Seq(V)
    BY <1>2 DEF Both
  <1>4. Points(V, where)
    BY <1>1 DEF Points
  <1> QED BY <1>3, <1>4

(* What each tool begins with.                                             *)
StartOf(p) ==
  CASE p.tool = "go" -> <<Word(<<Plain("test")>>)>>
    [] p.tool = "node" -> <<Option("test")>>
    [] p.tool = "sh" -> ShFirst
    [] p.tool = "python -m" ->
         IF p.isolated THEN IsolatedFirst(p.module) ELSE ModuleFirst(p.module)

(* It names no path.                                                       *)
LEMMA FirstNowhere ==
  ASSUME NEW p, p.tool \in {"go", "node", "sh"} \/ OfModules(p)
  PROVE  \E X : StartOf(p) \in Seq(X) /\ Points(X, {})
  <1>1. ASSUME NEW s PROVE argumentPath(Word(<<Plain(s)>>)) = {}
    BY NoPath
  <1>2. ASSUME NEW s PROVE argumentPath(Cluster(s)) = {} /\ argumentPath(Option(s)) = {}
    <2>1. Cluster(s).kind # "word" /\ Option(s).kind # "word"
      BY ClusterIs, OptionIs
    <2> QED BY <2>1, NoPath
  <1>3. CASE p.tool = "go"
    <2>1. PICK a : a = Word(<<Plain("test")>>)
      OBVIOUS
    <2>2. StartOf(p) = <<a>>
      BY <1>3, <2>1, Zenon DEF StartOf
    <2>3. <<a>> \in Seq({a}) /\ argumentPath(a) = {}
      BY <1>1, <2>1
    <2> QED BY <2>2, <2>3 DEF Points
  <1>4. CASE p.tool = "node"
    <2>1. PICK a : a = Option("test")
      OBVIOUS
    <2>2. StartOf(p) = <<a>>
      BY <1>4, <2>1, Zenon DEF StartOf
    <2>3. <<a>> \in Seq({a}) /\ argumentPath(a) = {}
      BY <1>2, <2>1
    <2> QED BY <2>2, <2>3 DEF Points
  <1>5. CASE p.tool = "sh"
    <2>1. PICK a, b : a = Cluster(<<"e", "o">>) /\ b = Word(<<Plain("pipefail")>>)
      OBVIOUS
    <2>2. StartOf(p) = <<a, b>>
      BY <1>5, <2>1, Zenon DEF StartOf, ShFirst
    <2>3. <<a, b>> \in Seq({a, b}) /\ argumentPath(a) = {} /\ argumentPath(b) = {}
      BY <1>1, <1>2, <2>1
    <2> QED BY <2>2, <2>3 DEF Points
  <1>6. CASE OfModules(p)
    <2>1. PICK a, b, c, d, w : /\ a = Cluster(<<"W">>) /\ b = Word(<<Plain("error")>>)
                               /\ c = Cluster(<<"B", "m", p.module>>)
                               /\ d = Cluster(<<"P", "m">>) /\ w = Word(<<Plain(p.module)>>)
      OBVIOUS
    <2>2. StartOf(p) = IF p.isolated THEN <<a, b, d, w>> ELSE <<a, b, c>>
      BY <1>6, <2>1, Zenon DEF StartOf, ModuleFirst, IsolatedFirst, OfModules
    <2>3. /\ argumentPath(a) = {} /\ argumentPath(b) = {} /\ argumentPath(c) = {}
          /\ argumentPath(d) = {} /\ argumentPath(w) = {}
      BY <1>1, <1>2, <2>1
    <2>4. PICK X : X = {a, b, c, d, w}
      OBVIOUS
    <2>5. <<a, b, d, w>> \in Seq(X) /\ <<a, b, c>> \in Seq(X)
      BY <2>4
    <2> QED BY <2>2, <2>3, <2>4, <2>5 DEF Points
  <1> QED BY <1>3, <1>4, <1>5, <1>6

(* The whole command line of a step (Step).                                *)
LEMMA StepLine ==
  ASSUME NEW p, p.tool \in Tools, p.isolated \in BOOLEAN
  PROVE  /\ Step(p).base \in Bases
         /\ p.tool \in {"pytest", "python", "file"} => Step(p).args = Line(p)
         /\ p.tool \in {"go", "node", "sh"} \/ OfModules(p) =>
              Step(p).args = Both(StartOf(p), Line(p))
         /\ p.tool # "file" => Step(p).command = <<>>
         /\ p.tool = "file" => Step(p).command = p.targets[1].path
  <1>1. PICK rest : rest = Line(p)
    OBVIOUS
  <1>2. CASE p.tool = "go"
    <2>1. Step(p).base = "go"
      BY <1>2, Zenon DEF Step
    <2>2. Step(p).args = Both(StartOf(p), rest)
      BY <1>1, <1>2, Zenon DEF Step, Line, Rest, Named, Both, StartOf
    <2>3. Step(p).command = <<>>
      BY <1>2, Zenon DEF Step
    <2>4. "go" \in Bases
      BY DEF Bases
    <2> QED BY <1>1, <1>2, <2>1, <2>2, <2>3, <2>4, Zenon DEF OfModules
  <1>3. CASE p.tool = "node"
    <2>1. Step(p).base = "node"
      BY <1>3, Zenon DEF Step
    <2>2. Step(p).args = Both(StartOf(p), rest)
      BY <1>1, <1>3, Zenon DEF Step, Line, Rest, Named, Both, StartOf
    <2>3. Step(p).command = <<>>
      BY <1>3, Zenon DEF Step
    <2>4. "node" \in Bases
      BY DEF Bases
    <2> QED BY <1>1, <1>3, <2>1, <2>2, <2>3, <2>4, Zenon DEF OfModules
  <1>4. CASE p.tool = "sh"
    <2>1. Step(p).base = "sh"
      BY <1>4, Zenon DEF Step
    <2>2. Step(p).args = Both(StartOf(p), rest)
      BY <1>1, <1>4, Zenon DEF Step, Line, Rest, Named, Both, StartOf, ShFirst
    <2>3. Step(p).command = <<>>
      BY <1>4, Zenon DEF Step
    <2>4. "sh" \in Bases
      BY DEF Bases
    <2> QED BY <1>1, <1>4, <2>1, <2>2, <2>3, <2>4, Zenon DEF OfModules
  <1>5. CASE p.tool = "pytest"
    <2>1. Step(p).base = "pytest"
      BY <1>5, Zenon DEF Step
    <2>2. Step(p).args = rest
      BY <1>1, <1>5, Zenon DEF Step, Line, Rest, Named
    <2>3. Step(p).command = <<>>
      BY <1>5, Zenon DEF Step
    <2>4. "pytest" \in Bases
      BY DEF Bases
    <2> QED BY <1>1, <1>5, <2>1, <2>2, <2>3, <2>4, Zenon DEF OfModules
  <1>6. CASE p.tool = "python"
    <2>1. Step(p).base = "python"
      BY <1>6, Zenon DEF Step
    <2>2. Step(p).args = rest
      BY <1>1, <1>6, Zenon DEF Step, Line, Rest, Named
    <2>3. Step(p).command = <<>>
      BY <1>6, Zenon DEF Step
    <2>4. "python" \in Bases
      BY DEF Bases
    <2> QED BY <1>1, <1>6, <2>1, <2>2, <2>3, <2>4, Zenon DEF OfModules
  <1>7. CASE p.tool = "file"
    <2>1. Step(p) = [[command |-> <<>>, base |-> "other", args |-> rest]
                       EXCEPT !.command = p.targets[1].path]
      BY <1>1, <1>7, Zenon DEF Step, Line, Rest, Named
    <2>2. Step(p).command = p.targets[1].path /\ Step(p).base = "other" /\ Step(p).args = rest
      BY <2>1
    <2>3. "other" \in Bases
      BY DEF Bases
    <2> QED BY <1>1, <1>7, <2>2, <2>3, Zenon DEF OfModules
  <1>8. CASE OfModules(p)
    <2>1. PICK a, b, c, d, w : /\ a = Cluster(<<"W">>) /\ b = Word(<<Plain("error")>>)
                               /\ c = Cluster(<<"B", "m", p.module>>)
                               /\ d = Cluster(<<"P", "m">>) /\ w = Word(<<Plain(p.module)>>)
      OBVIOUS
    <2>2. Step(p).args = <<a, b>> \o (IF p.isolated THEN <<d, w>> ELSE <<c>>) \o rest
      BY <1>1, <1>8, <2>1, Zenon DEF Step, Line, Rest, Named, OfModules
    <2>3. <<a, b>> \o <<c>> = <<a, b, c>> /\ <<a, b>> \o <<d, w>> = <<a, b, d, w>>
      BY TwoAndOne
    <2>4. StartOf(p) = IF p.isolated THEN <<a, b, d, w>> ELSE <<a, b, c>>
      BY <1>8, <2>1, Zenon DEF StartOf, ModuleFirst, IsolatedFirst, OfModules
    <2>5. ASSUME p.isolated PROVE Step(p).args = Both(StartOf(p), rest)
      <3>1. Step(p).args = (<<a, b>> \o <<d, w>>) \o rest
        BY <2>2, <2>5, Zenon
      <3> QED BY <2>3, <2>4, <2>5, <3>1, Zenon DEF Both
    <2>6. ASSUME ~p.isolated PROVE Step(p).args = Both(StartOf(p), rest)
      <3>1. Step(p).args = (<<a, b>> \o <<c>>) \o rest
        BY <2>2, <2>6, Zenon
      <3> QED BY <2>3, <2>4, <2>6, <3>1, Zenon DEF Both
    <2>7. Step(p).base = "python"
      BY <1>8, Zenon DEF Step, OfModules
    <2>8. Step(p).command = <<>>
      BY <1>8, Zenon DEF Step, OfModules
    <2>9. Step(p).args = Both(StartOf(p), rest)
      BY <2>5, <2>6
    <2>10. "python" \in Bases
      BY DEF Bases
    <2> QED BY <1>1, <1>8, <2>7, <2>8, <2>9, <2>10, Zenon DEF OfModules
  <1> QED BY <1>2, <1>3, <1>4, <1>5, <1>6, <1>7, <1>8, Zenon DEF Tools, OfModules

(* A step of the run names what is reachable, by any of its arguments and  *)
(* by its command.                                                         *)
LEMMA StepPoints ==
  ASSUME Judged, NEW p, NEW file, NEW collapsed, Picked(p, file, collapsed),
         \A t \in Range(p.targets) : t.kind # "glob"
  PROVE  /\ Len(Step(p).args) \in Nat
         /\ stepPaths(Step(p)) \subseteq Nameable(p)
  <1>1. p.tool \in Tools /\ p.isolated \in BOOLEAN /\ p.targets \in Lists(p.tool)
    BY Zenon DEF Picked
  <1>2. PICK where : where = Nameable(p)
    OBVIOUS
  <1>3. PICK U : Line(p) \in Seq(U) /\ Points(U, where)
    BY <1>2, LinePoints
  <1>4. PICK V : Step(p).args \in Seq(V) /\ Points(V, where)
    <2>1. CASE p.tool \in {"go", "node", "sh"} \/ OfModules(p)
      <3>1. PICK X : StartOf(p) \in Seq(X) /\ Points(X, {})
        BY <2>1, FirstNowhere
      <3>2. \E W : Both(StartOf(p), Line(p)) \in Seq(W) /\ Points(W, where)
        BY <1>3, <3>1, FirstPoints
      <3> QED BY <1>1, <2>1, <3>2, StepLine
    <2>2. CASE p.tool \in {"pytest", "python", "file"}
      BY <1>1, <1>3, <2>2, StepLine
    <2> QED BY <1>1, <2>1, <2>2, Zenon DEF Tools, OfModules
  <1>5. ASSUME NEW a \in Range(Step(p).args) PROVE argumentPath(a) \subseteq where
    BY <1>4, RangeIn DEF Points
  <1>6. relativeCommand(Step(p).command) \subseteq where
    <2>1. CASE p.tool # "file"
      BY <1>1, <2>1, StepLine DEF relativeCommand
    <2>2. CASE p.tool = "file"
      <3>1. PICK u \in Targets(p.tool) : Fits(p.tool, u) /\ p.targets = <<u>>
        BY <1>1, <2>2, OneTarget
      <3>2. u.path \in ChangedFiles
        BY <2>2, <3>1, Zenon DEF Fits
      <3>3. Step(p).command = u.path
        BY <1>1, <2>2, <3>1, StepLine
      <3> QED BY <1>2, <3>2, <3>3 DEF relativeCommand, Nameable, Reachable
    <2> QED BY <2>1, <2>2
  <1> QED BY <1>2, <1>4, <1>5, <1>6 DEF stepPaths

(* The entries of files that the base commit does not hold.                *)
Entries(X) == {[path |-> q, dir |-> FALSE] : q \in X}

(* What is refused is what the step reports of them                        *)
(* (refuseMissingRunners).                                                 *)
LEMMA RefusedIs ==
  ASSUME NEW s, NEW base, NEW ignored
  PROVE  refuseMissingRunners(s, base, ignored) =
           matchesForStep(s, Entries(stepPaths(s) \ (base \cup ignored)))
  BY Zenon DEF refuseMissingRunners, Entries

(* The names of the run's directories.                                     *)
PlainNames == {cli, tests, Plain("testdata")}

(* A directory of the run is a list of them.                               *)
LEMMA PlainDir ==
  ASSUME NEW d \in Dirs
  PROVE  d \in Seq(PlainNames)
  <1>1. PICK a, b, c : a = cli /\ b = tests /\ c = Plain("testdata")
    OBVIOUS
  <1>2. PICK S : S = {a, b, c}
    OBVIOUS
  <1>3. d = <<>> \/ d = <<a>> \/ d = <<b>> \/ d = <<b, a>> \/ d = <<a, b>> \/ d = <<c>>
    BY <1>1, Zenon DEF Dirs
  <1>4. /\ <<>> \in Seq(S) /\ <<a>> \in Seq(S) /\ <<b>> \in Seq(S) /\ <<c>> \in Seq(S)
        /\ <<b, a>> \in Seq(S) /\ <<a, b>> \in Seq(S)
    BY <1>2
  <1>5. S = PlainNames
    BY <1>1, <1>2 DEF PlainNames
  <1> QED BY <1>3, <1>4, <1>5, Zenon

(* So no directory of the module has the name of a go test.                *)
LEMMA ModuleBase ==
  ASSUME NEW q \in InModule
  PROVE  Base(q).affix # "_test.go"
  <1>1. PICK d \in Dirs : q = <<Plain("mod")>> \o d
    BY DEF InModule
  <1>2. PICK S : S = PlainNames \cup {Plain("mod")}
    OBVIOUS
  <1>3. \A n \in S : n.affix = NoAffix
    <2>1. /\ cli.affix = NoAffix /\ tests.affix = NoAffix
          /\ Plain("testdata").affix = NoAffix /\ Plain("mod").affix = NoAffix
      BY NameIs DEF cli, tests, Plain
    <2> QED BY <1>2, <2>1 DEF PlainNames
  <1>4. q \in Seq(S) /\ Len(q) > 0
    <2>1. PICK m : m = <<Plain("mod")>>
      OBVIOUS
    <2>2. m \in Seq(S) /\ Len(m) = 1
      BY <1>2, <2>1
    <2>3. PlainNames \subseteq S
      BY <1>2
    <2>4. d \in Seq(S)
      BY <2>3, PlainDir, SeqGrows
    <2>5. m \o d \in Seq(S) /\ Len(m \o d) = Len(m) + Len(d)
      BY <2>2, <2>4, OfTwo
    <2>6. q = m \o d
      BY <1>1, <2>1
    <2> QED BY <2>2, <2>4, <2>5, <2>6
  <1>5. Base(q) \in S
    BY <1>4 DEF Base, Last
  <1>6. NoAffix # "_test.go"
    BY DEF NoAffix
  <1> QED BY <1>3, <1>5, <1>6

(* No changed file of the run is a pattern of packages.                    *)
LEMMA FileHasNoDots ==
  ASSUME NEW f \in ChangedFiles
  PROVE  \A i \in DOMAIN f : f[i] # Dots
  <1>1. f \in Seq(AllNames)
    BY FileIs
  <1>2. \A n \in Names : n # Dots
    <2>1. Dots.stem = "..."
      BY NameIs DEF Dots, Plain
    <2>2. \A affix : Name("x", affix).stem = "x" /\ Name("pytest", affix).stem = "pytest"
      BY NameIs
    <2>3. Conftest.stem = "conftest" /\ Makefile.stem = "Makefile"
      BY NameIs DEF Conftest, Makefile, Plain
    <2>4. \A n \in Names : n.stem \in {"x", "pytest", "conftest", "Makefile"}
      BY <2>2, <2>3 DEF Names
    <2> QED BY <2>1, <2>4
  <1>3. \A n \in AllNames : n # Dots
    BY <1>2, NoDotsIn DEF AllNames
  <1> QED BY <1>1, <1>3

(* An operand is an argument of the step.                                  *)
LEMMA OperandWritten ==
  ASSUME NEW T, NEW before \in Seq(T), NEW after \in Seq(T), NEW ops \in Seq(T), Dashes \in T,
         NEW dashes, NEW k \in 1..Len(ops)
  PROVE  ops[k] \in Range(Rest(before, dashes, ops, after))
  <1>1. PICK d : d = IF dashes THEN <<Dashes>> ELSE <<>>
    OBVIOUS
  <1>2. d \in Seq(T)
    BY <1>1
  <1>3. PICK f : f = before \o d
    OBVIOUS
  <1>4. f \in Seq(T)
    BY <1>2, <1>3
  <1>5. PICK g : g = f \o ops
    OBVIOUS
  <1>6. g \in Seq(T) /\ Len(g) = Len(f) + Len(ops) /\ g[Len(f) + k] = ops[k]
    BY <1>4, <1>5, OfTwo
  <1>7. PICK h : h = g \o after
    OBVIOUS
  <1>8. Len(f) + k \in 1..Len(g)
    BY <1>4, <1>6
  <1>9. h \in Seq(T) /\ Len(h) = Len(g) + Len(after) /\ h[Len(f) + k] = g[Len(f) + k]
    <2>0. g \in Seq(T)
      BY <1>6
    <2>1. /\ g \o after \in Seq(T) /\ Len(g \o after) = Len(g) + Len(after)
          /\ \A i \in 1..Len(g) : (g \o after)[i] = g[i]
      BY <2>0, OfTwo
    <2> QED BY <2>1, <1>7, <1>8
  <1>10. Len(f) + k \in DOMAIN h
    BY <1>6, <1>8, <1>9
  <1>11. Rest(before, dashes, ops, after) = h
    BY <1>1, <1>3, <1>5, <1>7, Zenon DEF Rest
  <1> QED BY <1>6, <1>9, <1>10, <1>11 DEF Range

(* So the target of a step of the run is (Step).                           *)
LEMMA TargetWritten ==
  ASSUME Judged, NEW p, NEW file, NEW collapsed, Picked(p, file, collapsed),
         NEW u \in Targets(p.tool), Fits(p.tool, u), p.targets = <<u>>, u.kind # "glob"
  PROVE  Operand(u) \in Range(Step(p).args)
  <1>1. PICK T : p.before \in Seq(T) /\ p.after \in Seq(T)
    BY OptionsPicked, Zenon DEF Picked
  <1>2. PICK before, after, targets, dashes :
          /\ before = p.before /\ after = p.after /\ targets = p.targets /\ dashes = p.dashes
    OBVIOUS
  <1>3. PICK t : t = Operand(u)
    OBVIOUS
  <1>4. PICK W : W = T \cup {Dashes, t}
    OBVIOUS
  <1>5. PICK ops : ops = Named(targets)
    OBVIOUS
  <1>6. Len(ops) = 1 /\ ops[1] = t /\ ops \in Seq(W)
    BY <1>2, <1>3, <1>4, <1>5 DEF Named
  <1>7. before \in Seq(W) /\ after \in Seq(W)
    <2>1. T \subseteq W
      BY <1>4
    <2> QED BY <1>1, <1>2, <2>1, SeqGrows
  <1>8. ops[1] \in Range(Rest(before, dashes, ops, after))
    <2>1. 1 \in 1..Len(ops) /\ Dashes \in W
      BY <1>4, <1>6
    <2> QED BY <1>6, <1>7, <2>1, OperandWritten
  <1>9. t \in Range(Line(p))
    BY <1>2, <1>5, <1>6, <1>8, Zenon DEF Line
  <1>10. p.tool \in Tools /\ p.isolated \in BOOLEAN
    BY Zenon DEF Picked
  <1>11. \A v \in Range(p.targets) : v.kind # "glob"
    BY DEF Range
  <1>12. PICK U : Line(p) \in Seq(U)
    BY <1>11, LinePoints
  <1>13. CASE p.tool \in {"go", "node", "sh"} \/ OfModules(p)
    <2>1. PICK X : StartOf(p) \in Seq(X)
      BY <1>13, FirstNowhere
    <2>2. PICK V : V = X \cup U
      OBVIOUS
    <2>3. StartOf(p) \in Seq(V) /\ Line(p) \in Seq(V)
      <3>1. X \subseteq V /\ U \subseteq V
        BY <2>2
      <3> QED BY <3>1, <1>12, <2>1, SeqGrows
    <2>4. PICK b, c : b = StartOf(p) /\ c = Line(p)
      OBVIOUS
    <2>5. PICK i \in 1..Len(c) : c[i] = t
      <3>1. DOMAIN c = 1..Len(c)
        BY <2>3, <2>4
      <3> QED BY <1>9, <2>4, <3>1 DEF Range
    <2>6. /\ (b \o c)[Len(b) + i] = t /\ b \o c \in Seq(V) /\ Len(b \o c) = Len(b) + Len(c)
          /\ Len(b) \in Nat
      BY <2>3, <2>4, <2>5, OfTwo
    <2>7. Len(b) + i \in DOMAIN (b \o c)
      BY <2>5, <2>6
    <2>8. t \in Range(b \o c)
      BY <2>6, <2>7 DEF Range
    <2>9. Step(p).args = b \o c
      BY <1>10, <1>13, <2>4, StepLine DEF Both
    <2> QED BY <1>3, <2>8, <2>9
  <1>14. CASE p.tool \in {"pytest", "python", "file"}
    BY <1>3, <1>9, <1>10, <1>14, StepLine
  <1> QED BY <1>10, <1>13, <1>14, Zenon DEF Tools, OfModules

(* The base commit holds every path that a value looks like, or no runner  *)
(* takes it.                                                               *)
Kept(p) == \A v \in ValuePaths(p) : v \in ChangedFiles \cup Dirs \/ Inert(p, v)

(* A script is given no option.                                            *)
LEMMA NoValues ==
  ASSUME Judged, NEW p, NEW file, NEW collapsed, Picked(p, file, collapsed), OfScripts(p)
  PROVE  ValuePaths(p) = {}
  <1>1. GivenOptions(p)
    BY OptionsPicked, Zenon DEF Picked
  <1>2. p.before = <<>> /\ p.after = <<>>
    BY <1>1 DEF GivenOptions, OfScripts
  <1>3. Range(p.before) = {} /\ Range(p.after) = {}
    BY <1>2 DEF Range
  <1> QED BY <1>3 DEF ValuePaths

(* What a step of the run reports of a set of entries (matchesForStep).    *)
LEMMA StepMatches ==
  ASSUME Judged, NEW p, NEW file, NEW collapsed, Picked(p, file, collapsed),
         \A t \in Range(p.targets) : t.kind # "glob", NEW changed
  PROVE  /\ p.tool = "go" => matchesForStep(Step(p), changed) = goMatches(Step(p).args, changed)
         /\ p.tool = "node" => matchesForStep(Step(p), changed) = nodeMatches(Step(p).args, changed)
         /\ p.tool = "pytest" =>
              matchesForStep(Step(p), changed) = pytestMatches(Step(p).args, changed)
         /\ OfModules(p) =>
              matchesForStep(Step(p), changed) =
                (IF p.isolated THEN {} ELSE matchModule(p.module, changed))
                \cup (IF p.module = "pytest" THEN pytestMatches(Line(p), changed) ELSE {})
  <1>1. p.tool \in Tools /\ p.isolated \in BOOLEAN
    BY Zenon DEF Picked
  <1>2. PICK s : s = Step(p)
    OBVIOUS
  <1>3. ~OfScripts(p) => matchRunners(relativeCommand(s.command), changed) = {}
    <2>1. ~OfScripts(p) => s.command = <<>>
      BY <1>1, <1>2, StepLine DEF OfScripts
    <2> QED BY <2>1 DEF relativeCommand, matchRunners
  <1>4. ASSUME p.tool = "go" PROVE matchesForStep(s, changed) = goMatches(s.args, changed)
    <2>1. s.base = "go" /\ ~OfScripts(p)
      BY <1>2, <1>4, LineOf DEF OfScripts
    <2>2. matchesForStep(s, changed) =
            matchRunners(relativeCommand(s.command), changed) \cup goMatches(s.args, changed)
      BY <2>1, Zenon DEF matchesForStep
    <2> QED BY <1>3, <2>1, <2>2
  <1>5. ASSUME p.tool = "node" PROVE matchesForStep(s, changed) = nodeMatches(s.args, changed)
    <2>1. s.base = "node" /\ ~OfScripts(p)
      BY <1>2, <1>5, LineOf DEF OfScripts
    <2>2. matchesForStep(s, changed) =
            matchRunners(relativeCommand(s.command), changed) \cup nodeMatches(s.args, changed)
      BY <2>1, Zenon DEF matchesForStep
    <2> QED BY <1>3, <2>1, <2>2
  <1>6. ASSUME p.tool = "pytest" PROVE matchesForStep(s, changed) = pytestMatches(s.args, changed)
    <2>1. s.base = "pytest" /\ ~OfScripts(p)
      BY <1>2, <1>6, LineOf DEF OfScripts
    <2>2. matchesForStep(s, changed) =
            matchRunners(relativeCommand(s.command), changed) \cup pytestMatches(s.args, changed)
      BY <2>1, Zenon DEF matchesForStep
    <2> QED BY <1>3, <2>1, <2>2
  <1>7. ASSUME OfModules(p)
        PROVE  matchesForStep(s, changed) =
                 (IF p.isolated THEN {} ELSE matchModule(p.module, changed))
                 \cup (IF p.module = "pytest" THEN pytestMatches(Line(p), changed) ELSE {})
    <2>1. PICK U : Line(p) \in Seq(U)
      BY LinePoints
    <2>2. /\ s.base = "python"
          /\ pythonMatches(s.args, changed) =
               (IF p.isolated THEN {} ELSE matchModule(p.module, changed))
               \cup (IF p.module = "pytest" THEN pytestMatches(Line(p), changed) ELSE {})
      BY <1>1, <1>2, <1>7, <2>1, ModuleMatches, Zenon DEF OfModules
    <2>3. matchesForStep(s, changed) =
            matchRunners(relativeCommand(s.command), changed) \cup pythonMatches(s.args, changed)
      BY <2>2, Zenon DEF matchesForStep
    <2>4. ~OfScripts(p)
      BY <1>7, Zenon DEF OfModules, OfScripts
    <2>5. matchesForStep(s, changed) = pythonMatches(s.args, changed)
      BY <1>3, <2>3, <2>4
    <2> QED BY <2>2, <2>5, Zenon
  <1> QED BY <1>2, <1>4, <1>5, <1>6, <1>7, Zenon

(* No step is refused for what the base commit holds, for a pattern of     *)
(* packages, for an operand outside of the worktree, or for the value of   *)
(* an option that no runner takes (refuseMissingRunners).                  *)
LEMMA NoneRefused ==
  ASSUME Judged, NEW p, NEW file, NEW collapsed, Picked(p, file, collapsed),
         \A t \in Range(p.targets) : t.kind # "glob", Kept(p)
  PROVE  refuseMissingRunners(Step(p), ChangedFiles \cup Dirs, {}) = {}
  <1>1. p.tool \in Tools /\ p.isolated \in BOOLEAN
    BY Zenon DEF Picked
  <1>2. PICK s, missing : s = Step(p) /\ missing = stepPaths(s) \ ((ChangedFiles \cup Dirs) \cup {})
    OBVIOUS
  <1>3. Len(s.args) \in Nat /\ stepPaths(s) \subseteq Nameable(p) /\ s.base \in Bases
    BY <1>1, <1>2, StepPoints, StepLine
  <1>4. refuseMissingRunners(s, ChangedFiles \cup Dirs, {}) = matchesForStep(s, Entries(missing))
    BY <1>2, RefusedIs
  <1>5. matchesForStep(s, Entries(missing)) \subseteq Entries(missing)
    BY <1>3, MatchesAmong
  <1>6. \A q \in missing : (p.tool = "go" /\ q \in InModule) \/ (q \in ValuePaths(p) /\ Inert(p, q))
    BY <1>2, <1>3 DEF Nameable, Reachable, Kept
  <1>7. ASSUME NEW c \in Entries(missing)
        PROVE  \/ p.tool = "go" /\ Base(c.path).affix # "_test.go"
               \/ ~isTestSource(c.path) /\ c.path[1].stem # p.module
    <2>1. PICK q \in missing : c = [path |-> q, dir |-> FALSE]
      BY DEF Entries
    <2>2. c.path = q
      BY <2>1
    <2> QED BY <1>6, <2>2, ModuleBase DEF Inert
  <1>8. ASSUME NEW c \in testSources(Entries(missing))
        PROVE  p.tool = "go" /\ Base(c.path).affix # "_test.go"
    <2>1. c \in Entries(missing) /\ isTestSource(c.path)
      BY Zenon DEF testSources
    <2> QED BY <1>7, <2>1
  <1>9. ASSUME ~OfModules(p), p.tool \in {"go", "node", "pytest"}
        PROVE  matchesForStep(s, Entries(missing)) = {}
    <2>1. p.tool = "go" => matchesForStep(s, Entries(missing)) = goMatches(s.args, Entries(missing))
      BY <1>2, StepMatches
    <2>2. p.tool = "node" => matchesForStep(s, Entries(missing)) = nodeMatches(s.args, Entries(missing))
      BY <1>2, StepMatches
    <2>3. p.tool = "pytest" =>
            matchesForStep(s, Entries(missing)) = pytestMatches(s.args, Entries(missing))
      BY <1>2, StepMatches
    <2>4. \A c \in matchesForStep(s, Entries(missing)) :
            c \in testSources(Entries(missing)) /\ (p.tool = "go" => Base(c.path).affix = "_test.go")
      BY <1>9, <2>1, <2>2, <2>3, TestsAmong
    <2> QED BY <1>8, <2>4
  <1>10. ASSUME OfModules(p) PROVE matchesForStep(s, Entries(missing)) = {}
    <2>0. matchesForStep(s, Entries(missing)) =
            (IF p.isolated THEN {} ELSE matchModule(p.module, Entries(missing)))
            \cup (IF p.module = "pytest" THEN pytestMatches(Line(p), Entries(missing)) ELSE {})
      BY <1>2, <1>10, StepMatches
    <2>1. matchesForStep(s, Entries(missing)) \subseteq
            matchModule(p.module, Entries(missing)) \cup pytestMatches(Line(p), Entries(missing))
      BY <2>0, Zenon
    <2>2. p.tool # "go"
      BY <1>10, Zenon DEF OfModules
    <2>3. pytestMatches(Line(p), Entries(missing)) = {}
      BY <1>8, <2>2, TestsAmong
    <2>4. matchModule(p.module, Entries(missing)) = {}
      BY <1>7, <2>2 DEF matchModule
    <2> QED BY <2>1, <2>3, <2>4
  <1>11. ASSUME OfScripts(p) PROVE matchesForStep(s, Entries(missing)) = {}
    <2>1. ValuePaths(p) = {} /\ p.tool # "go"
      BY <1>11, NoValues DEF OfScripts
    <2>2. missing = {}
      BY <1>6, <2>1
    <2>3. Entries(missing) = {}
      BY <2>2 DEF Entries
    <2> QED BY <1>5, <2>3
  <1>12. p.tool \in {"go", "node", "pytest"} \/ OfModules(p) \/ OfScripts(p)
    BY <1>1, Zenon DEF Tools, OfModules, OfScripts
  <1> QED BY <1>2, <1>4, <1>9, <1>10, <1>11, <1>12

(* A file that the step would run and that it names is refused when the    *)
(* base commit does not hold it, unless git ignores it                     *)
(* (refuseMissingRunners).                                                 *)
LEMMA NamedRefused ==
  ASSUME Judged, NEW p, NEW file, NEW collapsed, Picked(p, file, collapsed),
         p.tool # "go", [kind |-> "path", path |-> file] \in Range(p.targets),
         Runs(p, file, ChangedFiles),
         Len(file) # 1 \/ Base(file).affix # NoAffix \/ p.tool = "file",
         NEW base, base = (ChangedFiles \cup Dirs) \ {file}
  PROVE  /\ [path |-> file, dir |-> FALSE] \in refuseMissingRunners(Step(p), base, {})
         /\ Kept(p) => refuseMissingRunners(Step(p), base, {file}) = {}
  <1>1. /\ p.tool \in Tools /\ p.isolated \in BOOLEAN /\ p.targets \in Lists(p.tool)
        /\ file \in ChangedFiles
    BY Zenon DEF Picked
  <1>2. PICK u : u = [kind |-> "path", path |-> file]
    OBVIOUS
  <1>3. u.kind = "path" /\ u.path = file
    BY <1>2
  <1>4. u \in Targets(p.tool) /\ Fits(p.tool, u) /\ p.targets = <<u>>
    <2>1. u \in Range(p.targets)
      BY <1>2
    <2>2. p.targets # <<>>
      BY <2>1 DEF Range
    <2>3. PICK v \in Targets(p.tool) : Fits(p.tool, v) /\ p.targets = <<v>>
      BY <1>1, <2>2, OneTarget
    <2>4. u = v
      BY <2>1, <2>3 DEF Range
    <2> QED BY <2>3, <2>4
  <1>5. \A t \in Range(p.targets) : t.kind # "glob"
    BY <1>3, <1>4 DEF Range
  <1>6. PICK s : s = Step(p)
    OBVIOUS
  <1>7. Len(s.args) \in Nat /\ stepPaths(s) \subseteq Nameable(p) /\ s.base \in Bases
    BY <1>1, <1>5, <1>6, StepPoints, StepLine
  <1>8. file \in stepPaths(s)
    <2>1. file \in Seq(AllNames) /\ file # <<>> /\ Len(file) \in Nat
      BY <1>1, FileIs
    <2>2. CASE p.tool = "file"
      <3>1. s.command = file
        BY <1>1, <1>3, <1>4, <1>6, <2>2, StepLine
      <3> QED BY <2>1, <3>1 DEF stepPaths, relativeCommand
    <2>3. CASE p.tool # "file"
      <3>1. PICK t : t = Operand(u)
        OBVIOUS
      <3>2. t \in Range(s.args)
        BY <1>3, <1>4, <1>6, <3>1, TargetWritten
      <3>3. t = Word(file)
        BY <1>3, <3>1, Zenon DEF Operand
      <3>4. t.kind = "word" /\ t.path = file /\ ~t.outside
        BY <3>3, WordIs
      <3>5. Len(file) > 1 \/ Base(file).affix # NoAffix
        <4>1. Len(file) # 0
          BY <2>1
        <4>2. Len(file) # 1 \/ Base(file).affix # NoAffix
          BY <2>3, Zenon
        <4>3. Len(file) # 1 => Len(file) > 1
          <5>1. PICK n : n = Len(file)
            OBVIOUS
          <5>2. n \in Nat
            BY <2>1, <5>1
          <5>3. n # 0
            BY <4>1, <5>1
          <5>4. n # 1 => n > 1
            BY <5>2, <5>3
          <5> QED BY <5>1, <5>4
        <4> QED BY <4>2, <4>3
      <3>6. \A i \in DOMAIN file : file[i] # Dots
        BY <1>1, FileHasNoDots
      <3>7. file \in argumentPath(t)
        BY <2>1, <3>4, <3>5, <3>6, ArgumentPathIs
      <3> QED BY <3>2, <3>7 DEF stepPaths
    <2> QED BY <2>2, <2>3
  <1>9. PICK e : e = [path |-> file, dir |-> FALSE]
    OBVIOUS
  <1>10. PICK missing : missing = stepPaths(s) \ (base \cup {})
    OBVIOUS
  <1>11. e \in Entries(missing)
    BY <1>8, <1>9, <1>10 DEF Entries
  <1>12. e \in matchesForStep(s, {e})
    <2>1. Picked(p, file, 0)
      <3>1. 0 \in 0..(Len(file) - 1)
        <4>1. file \in Seq(AllNames) /\ file # <<>> /\ Len(file) \in Nat
          BY <1>1, FileIs
        <4> QED BY <4>1
      <3> QED BY <3>1, Zenon DEF Picked
    <2>2. MissesNothing(p, file, 0, ChangedFiles)
      BY <2>1, PickedMissesNothing
    <2>3. EntryOf(file, 0) = e
      BY <1>9 DEF EntryOf
    <2>4. matchesForStep(s, {e}) # {}
      BY <2>2, <2>3, <1>6, Zenon DEF MissesNothing, ReportedBy
    <2>5. matchesForStep(s, {e}) \subseteq {e}
      BY <1>7, MatchesAmong
    <2> QED BY <2>4, <2>5
  <1>13. e \in matchesForStep(s, Entries(missing))
    <2>0. {e} \subseteq Entries(missing)
      BY <1>11
    <2>1. CASE p.tool = "node"
      <3>1. /\ matchesForStep(s, {e}) = nodeMatches(s.args, {e})
            /\ matchesForStep(s, Entries(missing)) = nodeMatches(s.args, Entries(missing))
        BY <1>5, <1>6, <2>1, StepMatches
      <3>2. nodeMatches(s.args, {e}) \subseteq nodeMatches(s.args, Entries(missing))
        BY <2>0, TestsGrow
      <3> QED BY <1>12, <3>1, <3>2
    <2>2. CASE p.tool = "pytest"
      <3>1. /\ matchesForStep(s, {e}) = pytestMatches(s.args, {e})
            /\ matchesForStep(s, Entries(missing)) = pytestMatches(s.args, Entries(missing))
        BY <1>5, <1>6, <2>2, StepMatches
      <3>2. pytestMatches(s.args, {e}) \subseteq pytestMatches(s.args, Entries(missing))
        BY <2>0, TestsGrow
      <3> QED BY <1>12, <3>1, <3>2
    <2>3. CASE OfModules(p)
      <3>1. /\ matchModule(p.module, {e}) \subseteq matchModule(p.module, Entries(missing))
            /\ pytestMatches(Line(p), {e}) \subseteq pytestMatches(Line(p), Entries(missing))
        BY <2>0, TestsGrow
      <3>2. matchesForStep(s, {e}) =
              (IF p.isolated THEN {} ELSE matchModule(p.module, {e}))
              \cup (IF p.module = "pytest" THEN pytestMatches(Line(p), {e}) ELSE {})
        BY <1>5, <1>6, <2>3, StepMatches, Zenon
      <3>3. matchesForStep(s, Entries(missing)) =
              (IF p.isolated THEN {} ELSE matchModule(p.module, Entries(missing)))
              \cup (IF p.module = "pytest" THEN pytestMatches(Line(p), Entries(missing)) ELSE {})
        BY <1>5, <1>6, <2>3, StepMatches, Zenon
      <3> QED BY <1>12, <3>1, <3>2, <3>3
    <2>4. CASE OfScripts(p)
      <3>1. ValuePaths(p) = {} /\ p.tool # "go"
        BY <2>4, NoValues DEF OfScripts
      <3>2. stepPaths(s) \subseteq ChangedFiles \cup Dirs
        BY <1>7, <3>1 DEF Nameable, Reachable
      <3>3. missing = {file}
        BY <1>8, <1>10, <3>2
      <3>4. Entries(missing) = {e}
        BY <1>9, <3>3 DEF Entries
      <3> QED BY <1>12, <3>4
    <2>5. p.tool \in {"node", "pytest"} \/ OfModules(p) \/ OfScripts(p)
      BY <1>1, Zenon DEF Tools, OfModules, OfScripts
    <2> QED BY <2>1, <2>2, <2>3, <2>4, <2>5
  <1>14. refuseMissingRunners(s, base, {}) = matchesForStep(s, Entries(missing))
    BY <1>10, RefusedIs
  <1>15. ASSUME Kept(p) PROVE refuseMissingRunners(s, base, {file}) = {}
    <2>1. file \in ChangedFiles
      BY <1>1
    <2>2. base \cup {file} = (ChangedFiles \cup Dirs) \cup {}
      BY <2>1
    <2>3. refuseMissingRunners(s, base, {file}) = refuseMissingRunners(s, ChangedFiles \cup Dirs, {})
      BY <2>2, RefusedIs, Zenon
    <2> QED BY <1>5, <1>6, <1>15, <2>3, NoneRefused
  <1> QED BY <1>6, <1>9, <1>13, <1>14, <1>15

(* The theorem about refusals, of a step of the run.                       *)
LEMMA PickedRefuses ==
  ASSUME Judged, NEW p, NEW file, NEW collapsed, Picked(p, file, collapsed)
  PROVE  RefusesTheUnjudgeable(p, file, ChangedFiles \cup Dirs, ChangedFiles)
  <1>1. PICK base, paths : /\ paths = ChangedFiles \cup Dirs
                           /\ base = (ChangedFiles \cup Dirs) \ {file}
    OBVIOUS
  <1>2. (~\E t \in Range(p.targets) : t.kind = "glob") /\ Kept(p) =>
          refuseMissingRunners(Step(p), paths, {}) = {}
    BY <1>1, NoneRefused
  <1>3. ASSUME p.tool # "go", [kind |-> "path", path |-> file] \in Range(p.targets),
               Runs(p, file, ChangedFiles),
               ~(Len(file) = 1 /\ Base(file).affix = NoAffix) \/ p.tool = "file"
        PROVE  /\ [path |-> file, dir |-> FALSE] \in refuseMissingRunners(Step(p), base, {})
               /\ Kept(p) => refuseMissingRunners(Step(p), base, {file}) = {}
    <2>1. Len(file) # 1 \/ Base(file).affix # NoAffix \/ p.tool = "file"
      BY <1>3
    <2> QED BY <1>1, <1>3, <2>1, NamedRefused
  <1>4. paths \ {file} = base
    BY <1>1
  <1>6. Kept(p) <=> \A v \in ValuePaths(p) : v \in paths \/ Inert(p, v)
    BY <1>1, Zenon DEF Kept
  <1>5. RefusesTheUnjudgeable(p, file, paths, ChangedFiles)
    BY <1>2, <1>3, <1>4, <1>6, Zenon DEF RefusesTheUnjudgeable
  <1> QED BY <1>1, <1>5

(* Of every step that is picked, those that are refused when a task is     *)
(* created are those that could never be judged (refuseMissingRunners).    *)
THEOREM CreationProved ==
  ASSUME Judged
  PROVE  AlgorithmsSpec => []CreationRefusesTheUnjudgeable
  <1>1. AlgorithmsInit => CreationRefusesTheUnjudgeable
    BY DEF AlgorithmsInit, Nothing, CreationRefusesTheUnjudgeable
  <1>2. CreationRefusesTheUnjudgeable /\ [AlgorithmsNext]_input => CreationRefusesTheUnjudgeable'
    <2> SUFFICES ASSUME CreationRefusesTheUnjudgeable, [AlgorithmsNext]_input
                 PROVE  CreationRefusesTheUnjudgeable'
      OBVIOUS
    <2>1. CASE PickStep
      <3>1. Picked(input'.purpose, input'.file, input'.collapsed)
        BY <2>1, PickedStep
      <3>2. RefusesTheUnjudgeable(input'.purpose, input'.file, ChangedFiles \cup Dirs, ChangedFiles)
        BY <3>1, PickedRefuses
      <3> QED BY <3>2, Zenon DEF CreationRefusesTheUnjudgeable
    <2>2. CASE PickProtected
      BY <2>2 DEF PickProtected, CreationRefusesTheUnjudgeable
    <2>3. CASE PickPages
      BY <2>3 DEF PickPages, CreationRefusesTheUnjudgeable
    <2>4. CASE UNCHANGED input
      BY <2>4, Zenon DEF CreationRefusesTheUnjudgeable
    <2> QED BY <2>1, <2>2, <2>3, <2>4 DEF AlgorithmsNext
  <1> QED BY <1>1, <1>2, PTL DEF AlgorithmsSpec

-----------------------------------------------------------------------------
(*                 The algorithms: the other inputs of the run             *)

(* Of every pattern and entry that is picked, the entry is reported if the *)
(* pattern protects it (Violations).                                       *)
THEOREM ProtectedProved == AlgorithmsSpec => []ProtectedMissesNothing
  <1>1. AlgorithmsInit => ProtectedMissesNothing
    BY DEF AlgorithmsInit, Nothing, ProtectedMissesNothing
  <1>2. ProtectedMissesNothing /\ [AlgorithmsNext]_input => ProtectedMissesNothing'
    <2> SUFFICES ASSUME ProtectedMissesNothing, [AlgorithmsNext]_input
                 PROVE  ProtectedMissesNothing'
      OBVIOUS
    <2>1. CASE PickStep
      BY <2>1, PickedStep DEF ProtectedMissesNothing
    <2>2. CASE PickProtected
      <3>1. PICK pattern \in UpTo(MaxDepth, Segments), path \in UpTo(MaxDepth, SegNames),
                 dir \in BOOLEAN :
              input' = [about |-> "protected", patterns |-> {pattern},
                        changed |-> {[path |-> path, dir |-> dir]}]
        BY <2>2 DEF PickProtected
      <3>2. MaxDepth \in Nat
        BY MCAlgorithmsAssumption
      <3>3. pattern \in Seq(Segments) /\ pattern # <<>>
        <4>1. PICK k \in 1..MaxDepth : pattern \in [1..k -> Segments]
          BY DEF UpTo
        <4> QED BY <3>2, <4>1
      <3>4. PICK k \in 1..MaxDepth : path \in [1..k -> SegNames]
        BY DEF UpTo
      <3>5. path \in Seq(SegNames) /\ path # <<>> /\ \A i \in DOMAIN path : path[i] \in SegNames
        BY <3>2, <3>4
      <3>6. ASSUME NEW name \in SegNames PROVE IsName(name)
        <4>1. PICK s \in NameStems : name.stem = s
          BY DEF SegNames, P!Seg
        <4>2. s \notin {"*", "**", "empty"}
          BY MCAlgorithmsAssumption
        <4> QED BY <4>1, <4>2 DEF IsName, P!Wild, P!Empty, P!Seg
      <3>7. \A c \in {[path |-> path, dir |-> dir]} : Entry(c)
        BY <3>5, <3>6 DEF Entry
      <3>8. \A raw \in {pattern} : raw \in Seq(Segments) /\ raw # <<>>
        BY <3>3
      <3>9. P!ClaimsTouched({pattern}, {[path |-> path, dir |-> dir]})
        BY <3>7, <3>8, ProtectionComplete
      <3> QED BY <3>1, <3>9 DEF ProtectedMissesNothing
    <2>3. CASE PickPages
      BY <2>3 DEF PickPages, ProtectedMissesNothing
    <2>4. CASE UNCHANGED input
      BY <2>4 DEF ProtectedMissesNothing
    <2> QED BY <2>1, <2>2, <2>3, <2>4 DEF AlgorithmsNext
  <1> QED BY <1>1, <1>2, PTL DEF AlgorithmsSpec

(* Of every texts and size that are picked, the pages fit together         *)
(* (window, nextOffset).                                                   *)
THEOREM PagesProved == AlgorithmsSpec => []PagesFitTogether
  <1>1. AlgorithmsInit => PagesFitTogether
    BY DEF AlgorithmsInit, Nothing, PagesFitTogether
  <1>2. PagesFitTogether /\ [AlgorithmsNext]_input => PagesFitTogether'
    <2> SUFFICES ASSUME PagesFitTogether, [AlgorithmsNext]_input
                 PROVE  PagesFitTogether'
      OBVIOUS
    <2>1. CASE PickStep
      BY <2>1, PickedStep DEF PagesFitTogether
    <2>2. CASE PickProtected
      BY <2>2 DEF PickProtected, PagesFitTogether
    <2>3. CASE PickPages
      <3>1. PICK long \in Texts(MaxText), short \in Texts(MaxShort), max \in -1..(MaxLogBytes + 1) :
              input' = [about |-> "pages", maxBytes |-> max,
                        texts |-> [n \in allSections |-> IF n = "diff" THEN long ELSE short]]
        BY <2>3 DEF PickPages
      <3>2. long \in Seq(BOOLEAN) /\ IsText(long) /\ short \in Seq(BOOLEAN) /\ IsText(short)
        BY MCAlgorithmsAssumption, UpToSeq DEF Texts
      <3>3. PICK texts : texts = [n \in allSections |-> IF n = "diff" THEN long ELSE short]
        OBVIOUS
      <3>4. \A n \in allSections : texts[n] \in Seq(BOOLEAN) /\ IsText(texts[n])
        BY <3>2, <3>3
      <3>5. max \in Int
        OBVIOUS
      <3>6. PagesFit(texts, {}, max) /\ PagesFit(texts, {"diff"}, max)
        BY <3>4, <3>5, PagesComplete
      <3>7. input'.texts = texts /\ input'.maxBytes = max
        BY <3>1, <3>3
      <3> QED BY <3>6, <3>7 DEF PagesFitTogether
    <2>4. CASE UNCHANGED input
      BY <2>4 DEF PagesFitTogether
    <2> QED BY <2>1, <2>2, <2>3, <2>4 DEF AlgorithmsNext
  <1> QED BY <1>1, <1>2, PTL DEF AlgorithmsSpec

=============================================================================
