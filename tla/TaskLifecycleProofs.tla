------------------------ MODULE TaskLifecycleProofs ------------------------
(***************************************************************************)
(* Proofs about TaskLifecycle, for any number of runs, cancels, recoveries *)
(* and removers, any retry budget and any number of crashes and faults.    *)
(***************************************************************************)
EXTENDS TaskLifecycle, SequenceTheorems, TLAPS

-----------------------------------------------------------------------------
(*                     The rows of task_attempts                           *)

(* A function on 1..n with values in S is a sequence of length n: how a     *)
(* statement that updates many rows at once keeps the table a table.        *)
LEMMA FunctionIsSeq ==
  ASSUME NEW S, NEW n \in Nat, NEW f \in [1..n -> S]
  PROVE  f \in Seq(S) /\ Len(f) = n
<1>1. f \in Seq(S)
  BY SeqDef
<1>2. DOMAIN f = 1..n /\ DOMAIN f = 1..Len(f) /\ Len(f) \in Nat
  BY <1>1, LenProperties
<1> QED
  BY <1>1, <1>2, SMT

(* SetWorktreeStatus touches nothing but worktree marks. *)
LEMMA MarkedRows ==
  ASSUME NEW rows \in Seq(Attempt), NEW which, NEW mark \in WorktreeStatuses
  PROVE  /\ Marked(rows, which, mark) \in Seq(Attempt)
         /\ Len(Marked(rows, which, mark)) = Len(rows)
         /\ \A n \in 1..Len(rows) :
              /\ Marked(rows, which, mark)[n].status = rows[n].status
              /\ Marked(rows, which, mark)[n].owner = rows[n].owner
              /\ Marked(rows, which, mark)[n].path = rows[n].path
              /\ Marked(rows, which, mark)[n].worktree =
                   IF n \in which THEN mark ELSE rows[n].worktree
<1>1. DOMAIN rows = 1..Len(rows) /\ Len(rows) \in Nat
      /\ \A n \in 1..Len(rows) : rows[n] \in Attempt
  BY LenProperties, ElementOfSeq
<1>2. Marked(rows, which, mark) \in [1..Len(rows) -> Attempt]
  BY <1>1, SMT DEF Marked, Attempt
<1>3. \A n \in 1..Len(rows) :
        /\ Marked(rows, which, mark)[n].status = rows[n].status
        /\ Marked(rows, which, mark)[n].owner = rows[n].owner
        /\ Marked(rows, which, mark)[n].path = rows[n].path
        /\ Marked(rows, which, mark)[n].worktree =
             IF n \in which THEN mark ELSE rows[n].worktree
  BY <1>1, SMT DEF Marked, Attempt
<1> QED
  BY <1>1, <1>2, <1>3, FunctionIsSeq

(* Any update of one row. *)
LEMMA UpdatedRow ==
  ASSUME NEW rows \in Seq(Attempt), NEW n, NEW a,
         n \in 1..Len(rows) => a \in Attempt
  PROVE  /\ [rows EXCEPT ![n] = a] \in Seq(Attempt)
         /\ Len([rows EXCEPT ![n] = a]) = Len(rows)
         /\ \A k \in 1..Len(rows) :
              [rows EXCEPT ![n] = a][k] = IF k = n THEN a ELSE rows[k]
<1> DEFINE new == [rows EXCEPT ![n] = a]
<1>1. DOMAIN rows = 1..Len(rows) /\ Len(rows) \in Nat
      /\ rows \in [1..Len(rows) -> Attempt]
  BY LenProperties
<1>2. \A k \in 1..Len(rows) : new[k] = IF k = n THEN a ELSE rows[k]
  BY <1>1, Zenon
<1>3. new \in [1..Len(rows) -> Attempt]
  BY <1>1, <1>2, Zenon
<1> QED
  BY <1>1, <1>2, <1>3, FunctionIsSeq

(* FinishAttempt changes the outcome of one row. *)
LEMMA FinishedRows ==
  ASSUME NEW rows \in Seq(Attempt), NEW n, NEW outcome \in AttemptStatuses
  PROVE  /\ Finished(rows, n, outcome) \in Seq(Attempt)
         /\ Len(Finished(rows, n, outcome)) = Len(rows)
         /\ \A k \in 1..Len(rows) :
              /\ Finished(rows, n, outcome)[k].status =
                   IF k = n THEN outcome ELSE rows[k].status
              /\ Finished(rows, n, outcome)[k].owner = rows[k].owner
              /\ Finished(rows, n, outcome)[k].worktree = rows[k].worktree
              /\ Finished(rows, n, outcome)[k].path = rows[k].path
<1> DEFINE a == [rows[n] EXCEPT !.status = outcome]
<1>0. n \in 1..Len(rows) => rows[n] \in Attempt
  BY ElementOfSeq
<1>1. n \in 1..Len(rows) =>
        /\ a \in Attempt /\ a.status = outcome /\ a.owner = rows[n].owner
        /\ a.worktree = rows[n].worktree /\ a.path = rows[n].path
  BY <1>0 DEF Attempt
<1>2. Finished(rows, n, outcome) = [rows EXCEPT ![n] = a]
  BY DEF Finished
<1> HIDE DEF a
<1>3. /\ [rows EXCEPT ![n] = a] \in Seq(Attempt)
      /\ Len([rows EXCEPT ![n] = a]) = Len(rows)
      /\ \A k \in 1..Len(rows) :
           [rows EXCEPT ![n] = a][k] = IF k = n THEN a ELSE rows[k]
  BY <1>1, UpdatedRow
<1> QED
  BY <1>1, <1>2, <1>3

(* Cancel's two updates leave no row RUNNING and end no row twice. *)
LEMMA CancelledRowsEnd ==
  ASSUME attempts \in Seq(Attempt)
  PROVE  /\ CancelledRows \in Seq(Attempt)
         /\ Len(CancelledRows) = Latest
         /\ \A n \in 1..Latest :
              /\ CancelledRows[n].status =
                   IF attempts[n].status = "RUNNING" THEN "CANCELLED"
                                                    ELSE attempts[n].status
              /\ CancelledRows[n].owner = attempts[n].owner
              /\ CancelledRows[n].path = attempts[n].path
              /\ CancelledRows[n].worktree =
                   IF attempts[n].worktree = "ACTIVE" THEN "RETAINED"
                                                     ELSE attempts[n].worktree
<1>1. Latest \in Nat /\ \A n \in 1..Latest : attempts[n] \in Attempt
  BY LenProperties, ElementOfSeq DEF Latest
<1>2. ASSUME NEW n \in 1..Latest
      PROVE  /\ CancelledRows[n] \in Attempt
             /\ CancelledRows[n].status =
                  IF attempts[n].status = "RUNNING" THEN "CANCELLED"
                                                   ELSE attempts[n].status
             /\ CancelledRows[n].owner = attempts[n].owner
             /\ CancelledRows[n].path = attempts[n].path
             /\ CancelledRows[n].worktree =
                  IF attempts[n].worktree = "ACTIVE" THEN "RETAINED"
                                                    ELSE attempts[n].worktree
  <2> DEFINE a == attempts[n]
             s == IF a.status = "RUNNING" THEN "CANCELLED" ELSE a.status
             w == IF a.worktree = "ACTIVE" THEN "RETAINED" ELSE a.worktree
             b == [a EXCEPT !.status = s, !.worktree = w]
  <2>1. CancelledRows[n] = b
    BY Zenon DEF CancelledRows
  <2>2. a \in Attempt
    BY <1>1
  <2>3. s \in AttemptStatuses /\ w \in WorktreeStatuses
    BY <2>2 DEF Attempt, AttemptStatuses, WorktreeStatuses
  <2> HIDE DEF a, s, w
  <2>4. /\ b \in Attempt /\ b.status = s /\ b.owner = a.owner
        /\ b.worktree = w /\ b.path = a.path
    BY <2>2, <2>3 DEF Attempt
  <2> QED
    BY <2>1, <2>4 DEF a, s, w
<1>3. CancelledRows \in [1..Latest -> Attempt]
  BY <1>2, Zenon DEF CancelledRows
<1> QED
  BY <1>1, <1>2, <1>3, FunctionIsSeq

(* CreateWorktree touches nothing but the worktree of row n. *)
LEMMA RecordedRows ==
  ASSUME NEW rows \in Seq(Attempt), NEW n, NEW path \in Nat
  PROVE  /\ Recorded(rows, n, path) \in Seq(Attempt)
         /\ Len(Recorded(rows, n, path)) = Len(rows)
         /\ \A k \in 1..Len(rows) :
              /\ Recorded(rows, n, path)[k].status = rows[k].status
              /\ Recorded(rows, n, path)[k].owner = rows[k].owner
              /\ Recorded(rows, n, path)[k].worktree =
                   IF k = n THEN "ACTIVE" ELSE rows[k].worktree
              /\ Recorded(rows, n, path)[k].path = IF k = n THEN path ELSE rows[k].path
<1> DEFINE a == [rows[n] EXCEPT !.worktree = "ACTIVE", !.path = path]
<1>0. n \in 1..Len(rows) => rows[n] \in Attempt
  BY ElementOfSeq
<1>1. n \in 1..Len(rows) =>
        /\ a \in Attempt
        /\ a.status = rows[n].status
        /\ a.owner = rows[n].owner
        /\ a.worktree = "ACTIVE" /\ a.path = path
  BY <1>0 DEF Attempt, WorktreeStatuses
<1>2. Recorded(rows, n, path) = [rows EXCEPT ![n] = a]
  BY DEF Recorded
<1> HIDE DEF a
<1>3. /\ [rows EXCEPT ![n] = a] \in Seq(Attempt)
      /\ Len([rows EXCEPT ![n] = a]) = Len(rows)
      /\ \A k \in 1..Len(rows) :
           [rows EXCEPT ![n] = a][k] = IF k = n THEN a ELSE rows[k]
  BY <1>1, UpdatedRow
<1> QED
  BY <1>1, <1>2, <1>3

(* Renewing a lease, or letting it expire, in row n. *)
LEMMA LeasedRows ==
  ASSUME NEW rows \in Seq(Attempt), NEW n, NEW lease \in {"live", "expired"},
         NEW new, new = [rows EXCEPT ![n].lease = lease]
  PROVE  /\ new \in Seq(Attempt)
         /\ Len(new) = Len(rows)
         /\ \A k \in 1..Len(rows) : /\ new[k].status = rows[k].status
                                   /\ new[k].owner = rows[k].owner
                                   /\ new[k].worktree = rows[k].worktree
                                   /\ new[k].path = rows[k].path
<1> DEFINE a == [rows[n] EXCEPT !.lease = lease]
<1>0. n \in 1..Len(rows) => rows[n] \in Attempt
  BY ElementOfSeq
<1>1. n \in 1..Len(rows) =>
        /\ a \in Attempt
        /\ a.status = rows[n].status
        /\ a.owner = rows[n].owner
        /\ a.worktree = rows[n].worktree
        /\ a.path = rows[n].path
  BY <1>0 DEF Attempt
<1>2. new = [rows EXCEPT ![n] = a]
  OBVIOUS
<1> HIDE DEF a
<1>3. /\ [rows EXCEPT ![n] = a] \in Seq(Attempt)
      /\ Len([rows EXCEPT ![n] = a]) = Len(rows)
      /\ \A k \in 1..Len(rows) :
           [rows EXCEPT ![n] = a][k] = IF k = n THEN a ELSE rows[k]
  BY <1>1, UpdatedRow
<1> QED
  BY <1>1, <1>2, <1>3

(* startAttempt's row comes after all others, RUNNING and owned. *)
LEMMA AppendedRow ==
  ASSUME NEW rows \in Seq(Attempt), NEW r \in Runs, NEW new,
         new = Append(rows, NewAttempt(r))
  PROVE  /\ new \in Seq(Attempt)
         /\ Len(new) = Len(rows) + 1
         /\ \A k \in 1..Len(rows) : new[k] = rows[k]
         /\ new[Len(rows) + 1].status = "RUNNING"
         /\ new[Len(rows) + 1].owner = r
         /\ new[Len(rows) + 1].worktree = "none"
<1>1. NewAttempt(r) \in Attempt
  BY DEF NewAttempt, Attempt, AttemptStatuses, WorktreeStatuses
<1>2. Len(rows) \in Nat
  BY LenProperties
<1>3. /\ new \in Seq(Attempt)
      /\ Len(new) = Len(rows) + 1
      /\ \A k \in 1..Len(rows) : new[k] = rows[k]
      /\ new[Len(rows) + 1] = NewAttempt(r)
  BY <1>1, <1>2, AppendProperties
<1> QED
  BY <1>3 DEF NewAttempt

-----------------------------------------------------------------------------
(*                          Type correctness                               *)

(* The types of the branches a step may leave. *)
LEMMA BranchTypes ==
  ASSUME TypeOK, NEW n \in Nat, NEW content \in Contents
  PROVE  /\ DOMAIN Pointing(n, content) \in SUBSET Nat
         /\ \A k \in DOMAIN Pointing(n, content) :
              Pointing(n, content)[k] \in Contents
         /\ DOMAIN Without(n) \in SUBSET Nat
         /\ \A k \in DOMAIN Without(n) : Without(n)[k] \in Contents
BY DEF TypeOK, Pointing, Without

(* The typed parts of the state, one by one. *)
LEMMA TypeParts ==
  ASSUME TypeOK
  PROVE  /\ Latest \in Nat
         /\ \A n \in 1..Latest : attempts[n] \in Attempt
         /\ \A r \in Runs : run[r] \in RunState
         /\ \A c \in Callers : call[c] \in CallState
BY LenProperties, ElementOfSeq DEF TypeOK, Latest

(* A step of one run changes its own local state only. *)
LEMMA Becoming ==
  ASSUME TypeOK, NEW r \in Runs, NEW s, Becomes(r, s)
  PROVE  /\ s \in RunState => run' \in [Runs -> RunState]
         /\ run'[r] = s
         /\ \A q \in Runs : q # r => run'[q] = run[q]
<1>1. run \in [Runs -> RunState]
  BY DEF TypeOK
<1> QED
  BY <1>1 DEF Becomes

(* The run goes on with its attempt and in its directory. *)
Carries(r) ==
  /\ run'[r].att = run[r].att /\ run'[r].rec = run[r].rec
  /\ run'[r].path = run[r].path /\ run'[r].prev = run[r].prev

(* Goto changes the run's place and nothing it remembers. *)
LEMMA Going ==
  ASSUME TypeOK, NEW r \in Runs, NEW pc, Goto(r, pc)
  PROVE  /\ pc \in RunPCs => run' \in [Runs -> RunState]
         /\ run'[r].pc = pc
         /\ run'[r].seen = run[r].seen
         /\ run'[r].open = run[r].open
         /\ run'[r].att = run[r].att
         /\ Carries(r)
         /\ \A q \in Runs : q # r => run'[q] = run[q]
<1> DEFINE s == [run[r] EXCEPT !.pc = pc]
<1>1. /\ pc \in RunPCs => s \in RunState
      /\ s.pc = pc /\ s.seen = run[r].seen
      /\ s.open = run[r].open /\ s.att = run[r].att
      /\ s.rec = run[r].rec /\ s.path = run[r].path /\ s.prev = run[r].prev
  BY TypeParts DEF RunState
<1>2. Becomes(r, s)
  BY DEF Goto
<1> HIDE DEF s
<1> QED
  BY <1>1, <1>2, Becoming DEF Carries

(* FailWith: the run goes to fail, with the failure it met. *)
LEMMA Failing ==
  ASSUME TypeOK, NEW r \in Runs, NEW failure, FailWith(r, failure)
  PROVE  /\ failure \in {"none", "retryable", "final", "cancelled"}
              => run' \in [Runs -> RunState]
         /\ run'[r].pc = "fail"
         /\ run'[r].seen = run[r].seen
         /\ run'[r].open = run[r].open
         /\ run'[r].att = run[r].att
         /\ Carries(r)
         /\ \A q \in Runs : q # r => run'[q] = run[q]
<1> DEFINE s == [run[r] EXCEPT !.pc = "fail", !.failure = failure]
<1>1. /\ failure \in {"none", "retryable", "final", "cancelled"} => s \in RunState
      /\ s.pc = "fail" /\ s.seen = run[r].seen
      /\ s.open = run[r].open /\ s.att = run[r].att
      /\ s.rec = run[r].rec /\ s.path = run[r].path /\ s.prev = run[r].prev
  BY TypeParts DEF RunState, RunPCs
<1>2. Becomes(r, s)
  BY DEF FailWith
<1> HIDE DEF s
<1> QED
  BY <1>1, <1>2, Becoming DEF Carries

(* FailHolding: as FailWith, with the worktree row the run falls back to. *)
LEMMA FailingHolding ==
  ASSUME TypeOK, NEW r \in Runs, NEW n \in Nat, FailHolding(r, n)
  PROVE  /\ run' \in [Runs -> RunState]
         /\ run'[r].pc = "fail"
         /\ run'[r].seen = run[r].seen
         /\ run'[r].open = run[r].open
         /\ run'[r].att = run[r].att
         /\ run'[r].rec = n /\ run'[r].path = run[r].path /\ run'[r].prev = run[r].prev
         /\ \A q \in Runs : q # r => run'[q] = run[q]
<1> DEFINE s == [run[r] EXCEPT !.pc = "fail", !.failure = "final", !.rec = n]
<1>1. /\ s \in RunState
      /\ s.pc = "fail" /\ s.seen = run[r].seen
      /\ s.open = run[r].open /\ s.att = run[r].att
      /\ s.rec = n /\ s.path = run[r].path /\ s.prev = run[r].prev
  BY TypeParts DEF RunState, RunPCs
<1>2. Becomes(r, s)
  BY DEF FailHolding
<1> HIDE DEF s
<1> QED
  BY <1>1, <1>2, Becoming

(* Every step keeps the types.  One step per action of the specification.  *)
LEMMA TypeStep ==
  ASSUME TypeOK, [Next]_vars
  PROVE  TypeOK'
<1>run. \A r \in Runs : run[r] \in RunState
  BY TypeParts
<1>call. call \in [Callers -> CallState] /\ \A c \in Callers : call[c] \in CallState
  BY TypeParts DEF TypeOK
<1>rows. attempts \in Seq(Attempt) /\ Latest \in Nat
  BY TypeParts DEF TypeOK
<1>nat. \A r \in Runs : /\ run[r].att \in Nat /\ run[r].path \in Nat
                        /\ run[r].rec \in Nat /\ run[r].prev \in Nat
  BY <1>run DEF RunState
<1>status. status \in Statuses \cup {Gone}
  BY DEF TypeOK
<1>words. /\ Contents = {"base", "partial", "delivered"}
          /\ AttemptStatuses = {"RUNNING", "SUCCEEDED", "FAILED", "CANCELLED"}
          /\ WorktreeStatuses = {"none", "ACTIVE", "RETAINED", "REMOVED", "REUSED"}
  BY DEF Contents, AttemptStatuses, WorktreeStatuses
<1>pcs. {"claim", "ready", "check", "cleanup", "done", "base", "agent"} \subseteq RunPCs
  BY DEF RunPCs
<1>stats. {"READY", "VERIFYING", "SUCCEEDED", "FAILED", "CANCELLED"} \subseteq Statuses
  BY DEF Statuses
<1>fault. CanFault => faults' \in 0..MaxFaults
  BY BoundAssumption DEF CanFault, TypeOK
<1>go. ASSUME NEW r \in Runs, NEW pc \in RunPCs, Goto(r, pc)
       PROVE  run' \in [Runs -> RunState]
  BY <1>go, Going
<1>fail. ASSUME NEW r \in Runs, NEW failure \in {"retryable", "final", "cancelled"},
                FailWith(r, failure)
         PROVE  run' \in [Runs -> RunState]
  BY <1>fail, Failing
<1>become. ASSUME NEW r \in Runs, NEW s \in RunState, Becomes(r, s)
           PROVE  run' \in [Runs -> RunState]
  BY <1>become, Becoming
<1>1. ASSUME NEW r \in Runs, RunTask(r) PROVE TypeOK'
  <2>1. status # Gone => [run[r] EXCEPT !.pc = "ready", !.seen = status] \in RunState
    BY <1>run, <1>pcs, <1>status DEF RunState
  <2>2. run' \in [Runs -> RunState]
    BY <1>go, <1>become, <1>1, <2>1 DEF RunTask, RunPCs
  <2> QED
    BY <1>1, <2>2 DEF TypeOK, RunTask, db, disk, bounds
<1>2. ASSUME NEW r \in Runs, BecomeReady(r) PROVE TypeOK'
  <2>1. [run[r] EXCEPT !.pc = "claim", !.seen = "READY"] \in RunState
    BY <1>run, <1>pcs, <1>stats DEF RunState
  <2>2. run' \in [Runs -> RunState]
    BY <1>go, <1>become, <1>2, <2>1 DEF BecomeReady, LostAttempt, RunPCs
  <2> QED
    BY <1>2, <2>2 DEF TypeOK, BecomeReady, Statuses, disk, bounds
<1>3. ASSUME NEW r \in Runs, StartAttempt(r) PROVE TypeOK'
  <2>1. attempts' \in Seq(Attempt)
    BY <1>rows, <1>3, AppendedRow DEF StartAttempt, db
  <2>2. CompareAndSet(run[r].seen) => run' \in [Runs -> RunState]
    <3> DEFINE pc == IF run[r].prev = 0 THEN "create" ELSE "continue"
               n == Latest + 1
               s == [run[r] EXCEPT !.pc = pc, !.seen = "RUNNING", !.att = n,
                                   !.open = TRUE, !.rec = 0, !.failure = "none"]
    <3>1. CompareAndSet(run[r].seen) => Becomes(r, s)
      BY <1>3, Zenon DEF StartAttempt
    <3>2. pc \in RunPCs /\ n \in Nat /\ "RUNNING" \in Statuses
      BY <1>rows DEF RunPCs, Statuses
    <3> HIDE DEF pc, n
    <3>3. s \in RunState
      BY <1>run, <3>2 DEF RunState
    <3> HIDE DEF s
    <3> QED
      BY <1>become, <3>1, <3>3
  <2>3. run' \in [Runs -> RunState]
    BY <1>go, <1>3, <2>2 DEF StartAttempt, LostAttempt, RunPCs
  <2> QED
    BY <1>3, <2>1, <2>3 DEF TypeOK, StartAttempt, Statuses, db, disk, bounds
<1>4. ASSUME NEW r \in Runs, PrepareWorktree(r) PROVE TypeOK'
  <2>1. /\ DOMAIN branch' \in SUBSET Nat
        /\ \A k \in DOMAIN branch' : branch'[k] \in Contents
    BY <1>nat, <1>words, <1>4, BranchTypes DEF PrepareWorktree, TypeOK
  <2>2. [run[r] EXCEPT !.pc = "record", !.path = run[r].att] \in RunState
    BY <1>run, <1>nat DEF RunState, RunPCs
  <2>3. run' \in [Runs -> RunState]
    BY <1>fail, <1>become, <1>4, <2>2 DEF PrepareWorktree
  <2>4. dirs' \in SUBSET Nat
    BY <1>nat, <1>4 DEF TypeOK, PrepareWorktree
  <2> QED
    BY <1>4, <2>1, <2>3, <2>4 DEF TypeOK, PrepareWorktree, db, bounds
<1>5. ASSUME NEW r \in Runs, RecordWorktree(r) PROVE TypeOK'
  <2>1. attempts' \in Seq(Attempt)
    BY <1>rows, <1>nat, <1>5, RecordedRows DEF RecordWorktree
  <2>2. [run[r] EXCEPT !.pc = AfterRecord, !.rec = run[r].att] \in RunState
    BY <1>run, <1>nat, <1>pcs DEF RunState, AfterRecord
  <2>3. run' \in [Runs -> RunState]
    BY <1>fail, <1>become, <1>nat, <1>5, <2>2, FailingHolding DEF RecordWorktree
  <2>4. dirs' \in SUBSET Nat
    BY <1>5 DEF TypeOK, RecordWorktree
  <2> QED
    BY <1>5, <1>fault, <2>1, <2>3, <2>4 DEF TypeOK, RecordWorktree
<1>6. ASSUME NEW r \in Runs,
             \/ BaseCheck(r) \/ RunAgent(r) \/ StopAgent(r)
             \/ CheckContainment(r) \/ Fail(r)
      PROVE  TypeOK'
  <2>1. run' \in [Runs -> RunState]
    BY <1>go, <1>fail, <1>6 DEF BaseCheck, RunAgent, StopAgent, CheckContainment,
          Fail, RunPCs
  <2> QED
    BY <1>6, <2>1 DEF TypeOK, BaseCheck, RunAgent, StopAgent, CheckContainment,
          Fail, db, disk, bounds
<1>7. ASSUME NEW r \in Runs, ContinueOnNewBranch(r) PROVE TypeOK'
  <2>1. /\ DOMAIN branch' \in SUBSET Nat
        /\ \A k \in DOMAIN branch' : branch'[k] \in Contents
    BY <1>nat, <1>words, <1>7, BranchTypes DEF ContinueOnNewBranch, TypeOK
  <2>2. run' \in [Runs -> RunState]
    BY <1>go, <1>nat, <1>7, FailingHolding DEF ContinueOnNewBranch, RunPCs
  <2> QED
    BY <1>7, <2>1, <2>2 DEF TypeOK, ContinueOnNewBranch, db, bounds
<1>8. ASSUME NEW r \in Runs, RecordContinued(r) PROVE TypeOK'
  <2>1. attempts' \in Seq(Attempt)
    BY <1>rows, <1>nat, <1>8, RecordedRows DEF RecordContinued
  <2>2. /\ DOMAIN branch' \in SUBSET Nat
        /\ \A k \in DOMAIN branch' : branch'[k] \in Contents
    BY <1>nat, <1>words, <1>8, BranchTypes DEF RecordContinued, TypeOK
  <2>3. [run[r] EXCEPT !.pc = "agent", !.rec = run[r].att] \in RunState
    BY <1>run, <1>nat DEF RunState, RunPCs
  <2>4. run' \in [Runs -> RunState]
    BY <1>become, <1>nat, <1>8, <2>3, FailingHolding DEF RecordContinued
  <2> QED
    BY <1>8, <1>fault, <2>1, <2>2, <2>4 DEF TypeOK, RecordContinued
<1>9. ASSUME NEW r \in Runs, Verify(r) PROVE TypeOK'
  <2>1. [run[r] EXCEPT !.pc = "check", !.seen = "VERIFYING"] \in RunState
    BY <1>run, <1>pcs, <1>stats DEF RunState
  <2>2. run' \in [Runs -> RunState]
    BY <1>go, <1>become, <1>9, <2>1 DEF Verify, LostAttempt, RunPCs
  <2> QED
    BY <1>9, <2>2 DEF TypeOK, Verify, Statuses, disk, bounds
<1>10. ASSUME NEW r \in Runs, RunChecks(r) PROVE TypeOK'
  <2>1. run' \in [Runs -> RunState]
    BY <1>go, <1>fail, <1>10 DEF RunChecks, RunPCs
  <2>2. passed' \in SUBSET Nat
    <3>1. passed' = passed \/ passed' = passed \cup {run[r].att}
      BY <1>10 DEF RunChecks
    <3>2. passed \in SUBSET Nat /\ run[r].att \in Nat
      BY <1>nat DEF TypeOK
    <3> QED
      BY <3>1, <3>2
  <2> QED
    BY <1>10, <2>1, <2>2 DEF TypeOK, RunChecks, db, disk, bounds
<1>11. ASSUME NEW r \in Runs, Succeed(r) PROVE TypeOK'
  <2>1. attempts' \in Seq(Attempt)
    BY <1>rows, <1>words, <1>11, FinishedRows DEF Succeed, db
  <2>2. /\ DOMAIN branch' \in SUBSET Nat
        /\ \A k \in DOMAIN branch' : branch'[k] \in Contents
    BY <1>nat, <1>words, <1>11, BranchTypes DEF Succeed, TypeOK
  <2>3. [run[r] EXCEPT !.pc = "cleanup", !.open = FALSE, !.seen = "SUCCEEDED"] \in RunState
    BY <1>run, <1>pcs, <1>stats DEF RunState
  <2>4. run' \in [Runs -> RunState]
    BY <1>go, <1>fail, <1>become, <1>11, <2>3 DEF Succeed, LostAttempt, RunPCs
  <2>5. status' \in Statuses \cup {Gone} /\ faults' \in 0..MaxFaults
    BY <1>fault, <1>11 DEF TypeOK, Succeed, Statuses, db
  <2> QED
    BY <1>11, <2>1, <2>2, <2>4, <2>5 DEF TypeOK, Succeed
<1>12. ASSUME NEW r \in Runs, CleanupAfterSuccess(r) \/ RecordRemoval(r)
       PROVE  TypeOK'
  <2>1. attempts' \in Seq(Attempt)
    BY <1>rows, <1>words, <1>12, MarkedRows DEF CleanupAfterSuccess, RecordRemoval
  <2>2. run' \in [Runs -> RunState]
    BY <1>go, <1>12 DEF CleanupAfterSuccess, RecordRemoval, RunPCs
  <2>3. dirs' \in SUBSET Nat
    BY <1>12 DEF TypeOK, CleanupAfterSuccess, RecordRemoval, disk
  <2> QED
    BY <1>12, <2>1, <2>2, <2>3 DEF TypeOK, CleanupAfterSuccess, RecordRemoval, disk,
          bounds
<1>13. ASSUME NEW r \in Runs, ScheduleRetry(r) PROVE TypeOK'
  <2>1. attempts' \in Seq(Attempt)
    BY <1>rows, <1>words, <1>13, MarkedRows, FinishedRows DEF ScheduleRetry, db
  <2>2. /\ DOMAIN branch' \in SUBSET Nat
        /\ \A k \in DOMAIN branch' : branch'[k] \in Contents
    BY <1>nat, <1>words, <1>13, BranchTypes DEF ScheduleRetry, TypeOK
  <2>3. [run[r] EXCEPT !.pc = "claim", !.seen = "READY", !.open = FALSE,
                       !.prev = run[r].rec] \in RunState
    BY <1>run, <1>nat, <1>pcs, <1>stats DEF RunState
  <2>4. run' \in [Runs -> RunState]
    BY <1>go, <1>become, <1>13, <2>3 DEF ScheduleRetry, LostAttempt, RunPCs
  <2>5. status' \in Statuses \cup {Gone} /\ faults' \in 0..MaxFaults
    BY <1>fault, <1>13 DEF TypeOK, ScheduleRetry, Statuses, db
  <2> QED
    BY <1>13, <2>1, <2>2, <2>4, <2>5 DEF TypeOK, ScheduleRetry
<1>14. ASSUME NEW r \in Runs, EndAttempt(r) PROVE TypeOK'
  <2>1. attempts' \in Seq(Attempt)
    BY <1>rows, <1>words, <1>14, MarkedRows, FinishedRows DEF EndAttempt, db
  <2>2. \A o \in {"FAILED", "CANCELLED"} :
          [run[r] EXCEPT !.pc = "done", !.open = FALSE, !.seen = o] \in RunState
    BY <1>run, <1>pcs, <1>stats DEF RunState
  <2>3. Goto(r, "done") \/ \E o \in {"FAILED", "CANCELLED"} :
          Becomes(r, [run[r] EXCEPT !.pc = "done", !.open = FALSE, !.seen = o])
    BY <1>14 DEF EndAttempt, LostAttempt
  <2>4. run' \in [Runs -> RunState]
    BY <1>go, <1>become, <2>2, <2>3 DEF RunPCs
  <2>5. status' \in Statuses \cup {Gone}
    BY <1>14 DEF TypeOK, EndAttempt, Statuses, db
  <2> QED
    BY <1>14, <2>1, <2>4, <2>5 DEF TypeOK, EndAttempt, disk, bounds
<1>15. ASSUME NEW r \in Runs, WatchForCancel(r) PROVE TypeOK'
  <2>1. attempts' \in Seq(Attempt)
    BY <1>rows, <1>15, LeasedRows DEF WatchForCancel
  <2>2. ctx' \in [Runs -> BOOLEAN]
    BY <1>15 DEF WatchForCancel, TypeOK
  <2> QED
    BY <1>15, <2>1, <2>2 DEF TypeOK, WatchForCancel, disk, bounds
<1>16. ASSUME NEW n, LeaseExpires(n) PROVE TypeOK'
  <2>1. attempts' \in Seq(Attempt)
    BY <1>rows, <1>16, LeasedRows DEF LeaseExpires
  <2> QED
    BY <1>16, <2>1 DEF TypeOK, LeaseExpires, disk, bounds
<1>17. ASSUME NEW r \in Runs, Interrupt(r) PROVE TypeOK'
  BY <1>17 DEF TypeOK, Interrupt, db, disk, bounds
<1>18. ASSUME NEW r \in Runs, Crash(r) \/ DatabaseError(r) PROVE TypeOK'
  <2>1. run' \in [Runs -> RunState]
    BY <1>go, <1>18 DEF Crash, DatabaseError, RunPCs
  <2>2. crashes' \in 0..MaxCrashes /\ faults' \in 0..MaxFaults
    BY <1>fault, <1>18, BoundAssumption DEF Crash, DatabaseError, TypeOK
  <2> QED
    BY <1>18, <2>1, <2>2 DEF TypeOK, Crash, DatabaseError, db, disk
<1>return. \A c \in Callers : Return(c) => call' \in [Callers -> CallState]
  <2>1. NewCall \in CallState
    BY DEF NewCall, CallState, Statuses, MaxCancelTries
  <2>2. \A c \in Callers : [call[c] EXCEPT !.pc = "done"] \in CallState
    BY <1>call DEF CallState
  <2> QED
    BY <1>call, <2>1, <2>2 DEF Return
<1>19. ASSUME NEW c \in Callers, Recover(c) \/ ReadForCancel(c) PROVE TypeOK'
  <2>1. /\ [call[c] EXCEPT !.pc = "read"] \in CallState
        /\ status # Gone => [call[c] EXCEPT !.pc = "tx", !.seen = status] \in CallState
    BY <1>call, <1>status DEF CallState
  <2>2. call' \in [Callers -> CallState]
    BY <1>call, <1>return, <1>19, <2>1 DEF Recover, ReadForCancel
  <2> QED
    BY <1>19, <2>2 DEF TypeOK, Recover, ReadForCancel, db, disk, bounds
<1>20. ASSUME NEW c \in Callers, Cancel(c) PROVE TypeOK'
  <2>1. attempts' \in Seq(Attempt)
    BY <1>rows, <1>20, CancelledRowsEnd DEF Cancel, db
  <2>2. /\ [call[c] EXCEPT !.pc = "stop"] \in CallState
        /\ TriesLeft(c) =>
             [call[c] EXCEPT !.tries = call[c].tries + 1, !.pc = "read"] \in CallState
    <3>1. [call[c] EXCEPT !.pc = "stop"] \in CallState
      BY <1>call DEF CallState
    <3>2. ASSUME NEW k \in 0..(MaxCancelTries - 1)
          PROVE  [call[c] EXCEPT !.tries = k, !.pc = "read"] \in CallState
      BY <1>call DEF CallState
    <3>3. TriesLeft(c) => call[c].tries + 1 \in 0..(MaxCancelTries - 1)
      BY <1>call DEF CallState, TriesLeft, MaxCancelTries
    <3> QED
      BY <3>1, <3>2, <3>3
  <2>3. call' \in [Callers -> CallState]
    <3> DEFINE stopped == [call[c] EXCEPT !.pc = "stop"]
               again == [call[c] EXCEPT !.tries = call[c].tries + 1, !.pc = "read"]
    <3>1. \/ call' = [call EXCEPT ![c] = stopped]
          \/ TriesLeft(c) /\ call' = [call EXCEPT ![c] = again]
          \/ Return(c)
      BY <1>20 DEF Cancel
    <3>2. stopped \in CallState /\ (TriesLeft(c) => again \in CallState)
      BY <2>2
    <3> HIDE DEF stopped, again
    <3> QED
      BY <1>call, <1>return, <3>1, <3>2
  <2> QED
    BY <1>20, <2>1, <2>3 DEF TypeOK, Cancel, Statuses, db, disk, bounds
<1>21. ASSUME NEW c \in Callers, StopLocalRun(c) PROVE TypeOK'
  <2>1. ctx' \in [Runs -> BOOLEAN]
    BY <1>21 DEF TypeOK, StopLocalRun, Live
  <2> QED
    BY <1>21, <1>return, <2>1 DEF TypeOK, StopLocalRun, db, disk, bounds
<1>22. ASSUME NEW c \in Callers, RemoveStep(c) PROVE TypeOK'
  <2>1. Latest > 0 => attempts[Latest].path \in Nat
    BY <1>rows, TypeParts DEF Attempt
  <2>2. /\ [call[c] EXCEPT !.pc = "lookup"] \in CallState
        /\ [call[c] EXCEPT !.pc = "mark"] \in CallState
        /\ Latest > 0 => [call[c] EXCEPT !.pc = "remove", !.target = Latest,
                                         !.path = attempts[Latest].path] \in CallState
    BY <1>call, <1>rows, <2>1 DEF CallState
  <2>3. call' \in [Callers -> CallState]
    BY <1>call, <1>return, <1>rows, <1>22, <2>2 DEF RemoveStep, CheckRemovable,
          LookupWorktree, RemoveDirectory, MarkRemoved
  <2>4. attempts' \in Seq(Attempt)
    BY <1>rows, <1>words, <1>22, MarkedRows DEF RemoveStep, CheckRemovable,
          LookupWorktree, RemoveDirectory, MarkRemoved, db
  <2>5. dirs' \in SUBSET Nat
    BY <1>22 DEF TypeOK, RemoveStep, CheckRemovable, LookupWorktree,
          RemoveDirectory, MarkRemoved, disk
  <2> QED
    BY <1>22, <2>3, <2>4, <2>5 DEF TypeOK, RemoveStep, CheckRemovable,
          LookupWorktree, RemoveDirectory, MarkRemoved, db, disk, bounds
<1>23. CASE DeleteTask
  BY <1>23, EmptySeq DEF TypeOK, DeleteTask, disk, bounds
<1>24. CASE UNCHANGED vars
  BY <1>24 DEF TypeOK, vars
<1> QED
  BY <1>1, <1>2, <1>3, <1>4, <1>5, <1>6, <1>7, <1>8, <1>9, <1>10, <1>11, <1>12,
     <1>13, <1>14, <1>15, <1>16, <1>17, <1>18, <1>19, <1>20, <1>21, <1>22,
     <1>23, <1>24, Zenon DEF Next, Proceed, CancelStep

(* Type correctness of the task's rows, its directories and branches, and   *)
(* the local state of every process, in every reachable state.              *)
THEOREM TypeCorrect == Spec => []TypeOK
<1>1. Init => TypeOK
  <2> SUFFICES ASSUME Init PROVE TypeOK
    OBVIOUS
  <2>1. run \in [Runs -> RunState]
    BY DEF Init, NewRun, RunState, RunPCs, Statuses
  <2>2. call \in [Callers -> CallState]
    BY DEF Init, NewCall, CallState, Statuses, MaxCancelTries
  <2>3. attempts \in Seq(Attempt)
    BY EmptySeq DEF Init
  <2> QED
    BY <2>1, <2>2, <2>3, BoundAssumption DEF Init, TypeOK, Statuses
<1>2. TypeOK /\ [Next]_vars => TypeOK'
  BY TypeStep
<1> QED
  BY <1>1, <1>2, PTL DEF Spec

-----------------------------------------------------------------------------
(*                       The inductive invariant                           *)

Claimed == {"create", "record", "base", "continue", "continued", "agent",
            "inspect", "verify"}

InAttempt == Claimed \cup {"check", "succeed", "fail", "retry", "end", "cancel"}

(* What the rows look like while nobody holds the task. *)
RestingRows ==
  /\ status \in {"PENDING", "WAITING_APPROVAL", Gone} => Latest = 0
  /\ status = "READY" =>
       /\ Latest <= MaxRetries
       /\ \A n \in 1..Latest : attempts[n].status = "FAILED"

(* What a run in state s knows at each of its steps. *)
Knows(s) ==
  /\ s.pc = "ready" => s.seen \in {"PENDING", "READY", "WAITING_APPROVAL"}
  /\ s.pc = "claim" => s.seen = "READY"
  /\ s.pc \in Claimed => s.seen = "RUNNING"
  /\ s.pc \in InAttempt => s.open
  /\ s.pc = "retry" => s.att <= MaxRetries

(* A run only gets to succeed with checks that passed. *)
RunPassed(r) == run[r].pc = "succeed" => run[r].att \in passed

(* A run that thinks it has an attempt open owns its row, and nobody but    *)
(* Cancel can have ended it.                                                *)
RunOwns(r) ==
  run[r].open /\ status # Gone =>
    /\ HasRow(run[r].att)
    /\ attempts[run[r].att].owner = r
    /\ attempts[run[r].att].status \in {"RUNNING", "CANCELLED"}

(* Cancel's transaction never starts from a finished task. *)
CallKnows(c) ==
  call[c].pc = "tx" => call[c].seen \in Statuses /\ ~Terminal(call[c].seen)

(* The inductive invariant. *)
RowsInv ==
  /\ OneOpenAttempt
  /\ RetryBudget
  /\ SuccessIsVerified
  /\ RestingRows
  /\ \A r \in Runs : RunOwns(r)

Inv ==
  /\ TypeOK
  /\ RowsInv
  /\ \A r \in Runs : Knows(run[r]) /\ RunPassed(r)
  /\ \A c \in Callers : CallKnows(c)

(* A step that opens no attempt: the run goes on with its own, or ends it. *)
KeepsAttempt(r) ==
  run'[r].open => run[r].open /\ run'[r].att = run[r].att

(* Each run keeps knowing what its next step relies on: for every action,   *)
(* about the run that takes it.                                             *)
LEMMA MoverKnows ==
  ASSUME Inv, NEW r \in Runs,
         \/ RunTask(r) \/ Proceed(r) \/ RunAgent(r) \/ Crash(r) \/ DatabaseError(r)
  PROVE  /\ Knows(run'[r]) /\ RunPassed(r)'
         /\ StartAttempt(r) \/ KeepsAttempt(r)
         /\ \A q \in Runs : q # r => run'[q] = run[q]
<1>0. /\ run[r] \in RunState /\ Knows(run[r]) /\ TypeOK
      /\ run[r].att \in Nat /\ run[r].prev \in Nat
  BY TypeParts DEF Inv, RunState
<1>go. ASSUME NEW pc, Goto(r, pc)
       PROVE  /\ run'[r].pc = pc
              /\ run'[r].seen = run[r].seen
              /\ run'[r].open = run[r].open
              /\ run'[r].att = run[r].att
              /\ \A q \in Runs : q # r => run'[q] = run[q]
  BY <1>0, <1>go, Going
<1>fail. ASSUME \/ \E failure \in {"retryable", "final", "cancelled"} : FailWith(r, failure)
                \/ \E n \in Nat : FailHolding(r, n)
         PROVE  /\ run'[r].pc = "fail"
                /\ run'[r].seen = run[r].seen
                /\ run'[r].open = run[r].open
                /\ run'[r].att = run[r].att
                /\ \A q \in Runs : q # r => run'[q] = run[q]
  BY <1>0, <1>fail, Failing, FailingHolding
<1>become. ASSUME NEW s, Becomes(r, s)
           PROVE  /\ run'[r] = s
                  /\ \A q \in Runs : q # r => run'[q] = run[q]
  BY <1>0, <1>become, Becoming
<1> USE DEF Knows, Claimed, InAttempt, RunPassed, KeepsAttempt
<1>status. status \in Statuses \cup {Gone}
  BY DEF Inv, TypeOK
<1>1. CASE RunTask(r)
  <2> DEFINE s == [run[r] EXCEPT !.pc = "ready", !.seen = status]
  <2>1. /\ s.pc = "ready" /\ s.seen = status /\ s.open = run[r].open
        /\ s.att = run[r].att
    BY <1>0 DEF RunState
  <2>2. ASSUME Becomes(r, s)
        PROVE  /\ run'[r].pc = "ready" /\ run'[r].seen = status
               /\ run'[r].open = run[r].open /\ run'[r].att = run[r].att
               /\ \A q \in Runs : q # r => run'[q] = run[q]
    BY <1>become, <2>1, <2>2
  <2> QED
    BY <1>0, <1>go, <1>status, <2>2, <1>1 DEF RunTask, Terminal, Active, Statuses
<1>2. CASE BecomeReady(r)
  <2> DEFINE s == [run[r] EXCEPT !.pc = "claim", !.seen = "READY"]
  <2>1. /\ s.pc = "claim" /\ s.seen = "READY" /\ s.open = run[r].open
        /\ s.att = run[r].att
    BY <1>0 DEF RunState
  <2>2. ASSUME Becomes(r, s)
        PROVE  /\ run'[r].pc = "claim" /\ run'[r].seen = "READY"
               /\ run'[r].open = run[r].open /\ run'[r].att = run[r].att
               /\ \A q \in Runs : q # r => run'[q] = run[q]
    BY <1>become, <2>1, <2>2
  <2> QED
    BY <1>0, <1>go, <2>2, <1>2 DEF BecomeReady, LostAttempt
<1>3. CASE StartAttempt(r)
  <2> DEFINE s == [run[r] EXCEPT
                !.pc = IF run[r].prev = 0 THEN "create" ELSE "continue",
                !.seen = "RUNNING", !.att = Latest + 1, !.open = TRUE,
                !.rec = 0, !.failure = "none"]
  <2>1. /\ s.pc = (IF run[r].prev = 0 THEN "create" ELSE "continue")
        /\ s.seen = "RUNNING" /\ s.open
    BY <1>0 DEF RunState
  <2>2. ASSUME Becomes(r, s)
        PROVE  /\ run'[r].pc = (IF run[r].prev = 0 THEN "create" ELSE "continue")
               /\ run'[r].seen = "RUNNING" /\ run'[r].open
               /\ \A q \in Runs : q # r => run'[q] = run[q]
    BY <1>become, <2>1, <2>2
  <2>3. Becomes(r, s) \/ Goto(r, "done")
    BY <1>3 DEF StartAttempt, LostAttempt
  <2>4. run[r].pc = "claim"
    BY <1>3 DEF StartAttempt
  <2> HIDE DEF s
  <2> QED
    BY <1>0, <1>go, <2>2, <2>3, <2>4, <1>3
<1>4. CASE PrepareWorktree(r)
  <2> DEFINE s == [run[r] EXCEPT !.pc = "record", !.path = run[r].att]
  <2>1. /\ s.pc = "record" /\ s.seen = run[r].seen /\ s.open = run[r].open
        /\ s.att = run[r].att
    BY <1>0 DEF RunState
  <2>2. ASSUME Becomes(r, s)
        PROVE  /\ run'[r].pc = "record" /\ run'[r].seen = run[r].seen
               /\ run'[r].open = run[r].open /\ run'[r].att = run[r].att
               /\ \A q \in Runs : q # r => run'[q] = run[q]
    BY <1>become, <2>1, <2>2
  <2> QED
    BY <1>0, <1>fail, <2>2, <1>4 DEF PrepareWorktree
<1>5. CASE RecordWorktree(r)
  <2> DEFINE s == [run[r] EXCEPT !.pc = AfterRecord, !.rec = run[r].att]
  <2>1. /\ s.pc = AfterRecord /\ s.seen = run[r].seen /\ s.open = run[r].open
        /\ s.att = run[r].att
    BY <1>0 DEF RunState
  <2>2. ASSUME Becomes(r, s)
        PROVE  /\ run'[r].pc = AfterRecord /\ run'[r].seen = run[r].seen
               /\ run'[r].open = run[r].open /\ run'[r].att = run[r].att
               /\ \A q \in Runs : q # r => run'[q] = run[q]
    BY <1>become, <2>1, <2>2
  <2> QED
    BY <1>0, <1>fail, <2>2, <1>5 DEF RecordWorktree, AfterRecord
<1>6. CASE BaseCheck(r)
  BY <1>0, <1>go, <1>fail, <1>6 DEF BaseCheck
<1>7. CASE ContinueOnNewBranch(r)
  BY <1>0, <1>go, <1>fail, <1>7 DEF ContinueOnNewBranch
<1>8. CASE RecordContinued(r)
  <2> DEFINE s == [run[r] EXCEPT !.pc = "agent", !.rec = run[r].att]
  <2>1. /\ s.pc = "agent" /\ s.seen = run[r].seen /\ s.open = run[r].open
        /\ s.att = run[r].att
    BY <1>0 DEF RunState
  <2>2. ASSUME Becomes(r, s)
        PROVE  /\ run'[r].pc = "agent" /\ run'[r].seen = run[r].seen
               /\ run'[r].open = run[r].open /\ run'[r].att = run[r].att
               /\ \A q \in Runs : q # r => run'[q] = run[q]
    BY <1>become, <2>1, <2>2
  <2> QED
    BY <1>0, <1>fail, <2>2, <1>8 DEF RecordContinued
<1>9. CASE RunAgent(r)
  BY <1>0, <1>go, <1>fail, <1>9 DEF RunAgent
<1>10. CASE StopAgent(r)
  BY <1>0, <1>fail, <1>10 DEF StopAgent
<1>11. CASE CheckContainment(r)
  BY <1>0, <1>go, <1>fail, <1>11 DEF CheckContainment
<1>12. CASE Verify(r)
  <2> DEFINE s == [run[r] EXCEPT !.pc = "check", !.seen = "VERIFYING"]
  <2>1. /\ s.pc = "check" /\ s.open = run[r].open /\ s.att = run[r].att
    BY <1>0 DEF RunState
  <2>2. ASSUME Becomes(r, s)
        PROVE  /\ run'[r].pc = "check" /\ run'[r].open = run[r].open
               /\ run'[r].att = run[r].att
               /\ \A q \in Runs : q # r => run'[q] = run[q]
    BY <1>become, <2>1, <2>2
  <2> QED
    BY <1>0, <1>go, <2>2, <1>12 DEF Verify, LostAttempt
<1>13. CASE RunChecks(r)
  BY <1>0, <1>go, <1>fail, <1>13 DEF RunChecks
<1>14. CASE Succeed(r)
  <2> DEFINE s == [run[r] EXCEPT !.pc = "cleanup", !.open = FALSE, !.seen = "SUCCEEDED"]
  <2>1. /\ s.pc = "cleanup" /\ ~s.open
    BY <1>0 DEF RunState
  <2>2. ASSUME Becomes(r, s)
        PROVE  /\ run'[r].pc = "cleanup" /\ ~run'[r].open
               /\ \A q \in Runs : q # r => run'[q] = run[q]
    BY <1>become, <2>1, <2>2
  <2>3. Becomes(r, s) \/ Goto(r, "done") \/ FailWith(r, "final")
    BY <1>14 DEF Succeed, LostAttempt
  <2>4. run[r].pc = "succeed"
    BY <1>14 DEF Succeed
  <2> HIDE DEF s
  <2> QED
    BY <1>0, <1>go, <1>fail, <2>2, <2>3, <2>4, <1>14
<1>15. CASE CleanupAfterSuccess(r)
  BY <1>0, <1>go, <1>15 DEF CleanupAfterSuccess
<1>16. CASE RecordRemoval(r)
  BY <1>0, <1>go, <1>16 DEF RecordRemoval
<1>17. CASE Fail(r)
  BY <1>0, <1>go, <1>17 DEF Fail, WillRetry
<1>18. CASE ScheduleRetry(r)
  <2> DEFINE s == [run[r] EXCEPT !.pc = "claim", !.seen = "READY", !.open = FALSE,
                             !.prev = run[r].rec]
  <2>1. /\ s.pc = "claim" /\ s.seen = "READY" /\ ~s.open
    BY <1>0 DEF RunState
  <2>2. ASSUME Becomes(r, s)
        PROVE  /\ run'[r].pc = "claim" /\ run'[r].seen = "READY" /\ ~run'[r].open
               /\ \A q \in Runs : q # r => run'[q] = run[q]
    BY <1>become, <2>1, <2>2
  <2>3. Becomes(r, s) \/ Goto(r, "done") \/ Goto(r, "end")
    BY <1>18 DEF ScheduleRetry, LostAttempt
  <2>4. run[r].pc = "retry"
    BY <1>18 DEF ScheduleRetry
  <2> HIDE DEF s
  <2>5. CASE Becomes(r, s)
    <3>1. Knows(run'[r])
      BY <2>2, <2>5 DEF Knows, Claimed, InAttempt
    <3>2. RunPassed(r)' /\ KeepsAttempt(r)
      BY <2>2, <2>5 DEF RunPassed, KeepsAttempt
    <3> QED
      BY <2>2, <2>5, <3>1, <3>2, Zenon
  <2>6. CASE Goto(r, "done") \/ Goto(r, "end")
    BY <1>0, <1>go, <2>4, <2>6
  <2> QED
    BY <2>3, <2>5, <2>6
<1>19. CASE EndAttempt(r)
  <2>2. Goto(r, "done") \/ \E o :
          Becomes(r, [run[r] EXCEPT !.pc = "done", !.open = FALSE, !.seen = o])
    BY <1>19 DEF EndAttempt, LostAttempt
  <2>3. /\ run'[r].pc = "done"
        /\ run'[r].open => run[r].open /\ run'[r].att = run[r].att
        /\ \A q \in Runs : q # r => run'[q] = run[q]
    <3>1. CASE Goto(r, "done")
      BY <1>go, <3>1
    <3>2. ASSUME NEW o,
                 Becomes(r, [run[r] EXCEPT !.pc = "done", !.open = FALSE, !.seen = o])
          PROVE  /\ run'[r].pc = "done" /\ ~run'[r].open
                 /\ \A q \in Runs : q # r => run'[q] = run[q]
      <4> DEFINE s == [run[r] EXCEPT !.pc = "done", !.open = FALSE, !.seen = o]
      <4>1. s.pc = "done" /\ ~s.open
        BY <1>0 DEF RunState
      <4>2. Becomes(r, s)
        BY <3>2
      <4> HIDE DEF s
      <4> QED
        BY <1>become, <4>1, <4>2
    <3> QED
      BY <2>2, <3>1, <3>2
  <2>4. Knows(run'[r])
    BY <2>3
  <2>5. RunPassed(r)' /\ KeepsAttempt(r)
    BY <2>3
  <2> QED
    BY <2>3, <2>4, <2>5
<1>20. CASE Crash(r)
  BY <1>0, <1>go, <1>20 DEF Crash
<1>21. CASE DatabaseError(r)
  BY <1>0, <1>go, <1>21 DEF DatabaseError
<1> QED
  BY <1>1, <1>2, <1>3, <1>4, <1>5, <1>6, <1>7, <1>8, <1>9, <1>10, <1>11, <1>12,
     <1>13, <1>14, <1>15, <1>16, <1>17, <1>18, <1>19, <1>20, <1>21,
     Zenon DEF Proceed

(* The runs' knowledge and the history of passed checks, over any step. *)
LEMMA KnowsStep ==
  ASSUME Inv, [Next]_vars
  PROVE  \A q \in Runs : Knows(run'[q]) /\ RunPassed(q)'
<1>1. \A q \in Runs : Knows(run[q]) /\ RunPassed(q)
  BY DEF Inv
<1>2. ASSUME NEW r \in Runs,
             \/ RunTask(r) \/ Proceed(r) \/ RunAgent(r)
             \/ Crash(r) \/ DatabaseError(r)
      PROVE  \A q \in Runs : Knows(run'[q]) /\ RunPassed(q)'
  <2>1. /\ Knows(run'[r]) /\ RunPassed(r)'
        /\ \A q \in Runs : q # r => run'[q] = run[q]
    BY <1>2, MoverKnows
  <2>2. passed \subseteq passed'
    BY <1>2 DEF RunTask, Proceed, RunAgent, Crash, DatabaseError, BecomeReady,
          StartAttempt, PrepareWorktree, RecordWorktree, BaseCheck,
          ContinueOnNewBranch, RecordContinued, StopAgent, CheckContainment, Verify,
          RunChecks, Succeed, CleanupAfterSuccess, RecordRemoval, Fail,
          ScheduleRetry, EndAttempt
  <2> QED
    BY <1>1, <2>1, <2>2 DEF RunPassed
<1>3. ASSUME UNCHANGED <<run, passed>>
      PROVE  \A q \in Runs : Knows(run'[q]) /\ RunPassed(q)'
  BY <1>1, <1>3 DEF RunPassed
<1>4. ASSUME NEW r, WatchForCancel(r) \/ Interrupt(r) PROVE UNCHANGED <<run, passed>>
  BY <1>4 DEF WatchForCancel, Interrupt
<1>5. ASSUME NEW n, LeaseExpires(n) PROVE UNCHANGED <<run, passed>>
  BY <1>5 DEF LeaseExpires
<1>6. ASSUME NEW c, Recover(c) \/ CancelStep(c) \/ RemoveStep(c)
      PROVE UNCHANGED <<run, passed>>
  BY <1>6 DEF Recover, CancelStep, RemoveStep, ReadForCancel, Cancel, StopLocalRun,
        CheckRemovable, LookupWorktree, RemoveDirectory, MarkRemoved
<1>7. DeleteTask \/ UNCHANGED vars => UNCHANGED <<run, passed>>
  BY DEF DeleteTask, vars
<1> QED
  BY <1>2, <1>3, <1>4, <1>5, <1>6, <1>7, Zenon DEF Next

(* A Cancel in its transaction read a task that had not ended. *)
LEMMA CallKnowsStep ==
  ASSUME Inv, [Next]_vars
  PROVE  \A d \in Callers : CallKnows(d)'
<1>call. call \in [Callers -> CallState] /\ \A d \in Callers : call[d] \in CallState
  BY TypeParts DEF Inv, TypeOK
<1>knows. \A d \in Callers : CallKnows(d)
  BY DEF Inv
<1>typed. status \in Statuses \cup {Gone}
  BY DEF Inv, TypeOK
<1>same. ASSUME UNCHANGED call PROVE \A d \in Callers : CallKnows(d)'
  BY <1>knows, <1>same DEF CallKnows
<1>other. ASSUME NEW c \in Callers, NEW s, call' = [call EXCEPT ![c] = s], s.pc # "tx"
          PROVE \A d \in Callers : CallKnows(d)'
  BY <1>call, <1>knows, <1>other DEF CallKnows
<1>pc. \A c \in Callers : \A pc : [call[c] EXCEPT !.pc = pc].pc = pc
  BY <1>call DEF CallState
<1>return. ASSUME NEW c \in Callers, Return(c) PROVE \A d \in Callers : CallKnows(d)'
  <2>1. NewCall.pc = "idle" /\ [call[c] EXCEPT !.pc = "done"].pc = "done"
    BY <1>pc DEF NewCall
  <2> QED
    BY <1>other, <1>return, <2>1 DEF Return
<1>1. ASSUME NEW c \in Callers, Recover(c) PROVE \A d \in Callers : CallKnows(d)'
  <2>1. [call[c] EXCEPT !.pc = "read"].pc = "read"
    BY <1>pc
  <2> QED
    BY <1>other, <1>1, <2>1 DEF Recover
<1>2. ASSUME NEW c \in Callers, ReadForCancel(c) PROVE \A d \in Callers : CallKnows(d)'
  <2> DEFINE s == [call[c] EXCEPT !.pc = "tx", !.seen = status]
  <2>1. Return(c) \/ (status # Gone /\ ~Terminal(status) /\ call' = [call EXCEPT ![c] = s])
    BY <1>2 DEF ReadForCancel
  <2>2. s.seen = status
    BY <1>call DEF CallState
  <2> HIDE DEF s
  <2> QED
    BY <1>call, <1>knows, <1>typed, <1>return, <2>1, <2>2 DEF CallKnows
<1>3. ASSUME NEW c \in Callers, Cancel(c) PROVE \A d \in Callers : CallKnows(d)'
  <2> DEFINE stopped == [call[c] EXCEPT !.pc = "stop"]
             again == [call[c] EXCEPT !.tries = call[c].tries + 1, !.pc = "read"]
  <2>1. \/ call' = [call EXCEPT ![c] = stopped]
        \/ call' = [call EXCEPT ![c] = again]
        \/ Return(c)
    BY <1>3 DEF Cancel
  <2>2. stopped.pc = "stop" /\ again.pc = "read"
    BY <1>call DEF CallState
  <2> HIDE DEF stopped, again
  <2> QED
    BY <1>other, <1>return, <2>1, <2>2
<1>4. ASSUME NEW c \in Callers, StopLocalRun(c) PROVE \A d \in Callers : CallKnows(d)'
  BY <1>return, <1>4 DEF StopLocalRun
<1>5. ASSUME NEW c \in Callers, RemoveStep(c) PROVE \A d \in Callers : CallKnows(d)'
  <2> DEFINE lookup == [call[c] EXCEPT !.pc = "lookup"]
             mark == [call[c] EXCEPT !.pc = "mark"]
             remove == [call[c] EXCEPT !.pc = "remove", !.target = Latest,
                                       !.path = attempts[Latest].path]
  <2>1. \/ call' = [call EXCEPT ![c] = lookup]
        \/ call' = [call EXCEPT ![c] = remove]
        \/ call' = [call EXCEPT ![c] = mark]
        \/ Return(c)
    BY <1>5 DEF RemoveStep, CheckRemovable, LookupWorktree, RemoveDirectory, MarkRemoved
  <2>2. lookup.pc = "lookup" /\ mark.pc = "mark" /\ remove.pc = "remove"
    BY <1>call DEF CallState
  <2> HIDE DEF lookup, mark, remove
  <2> QED
    BY <1>other, <1>return, <2>1, <2>2
<1>6. ASSUME NEW r, RunTask(r) \/ Proceed(r) \/ RunAgent(r)
      PROVE  UNCHANGED call
  BY <1>6 DEF RunTask, Proceed, RunAgent, BecomeReady, StartAttempt, PrepareWorktree,
        RecordWorktree, BaseCheck, ContinueOnNewBranch, RecordContinued, StopAgent,
        CheckContainment, Verify, RunChecks, Succeed, CleanupAfterSuccess,
        RecordRemoval, Fail, ScheduleRetry, EndAttempt
<1>7. ASSUME NEW r,
             WatchForCancel(r) \/ Interrupt(r) \/ Crash(r) \/ DatabaseError(r)
      PROVE  UNCHANGED call
  BY <1>7 DEF WatchForCancel, Interrupt, Crash, DatabaseError
<1>8. ASSUME NEW n, LeaseExpires(n) PROVE UNCHANGED call
  BY <1>8 DEF LeaseExpires
<1>9. DeleteTask \/ UNCHANGED vars => UNCHANGED call
  BY DEF DeleteTask, vars
<1> QED
  BY <1>same, <1>1, <1>2, <1>3, <1>4, <1>5, <1>6, <1>7, <1>8, <1>9, Zenon
     DEF Next, CancelStep

-----------------------------------------------------------------------------
(*                    The rows, action by action                           *)

(* No outcome changes and no row comes or goes. *)
SameRows ==
  /\ Len(attempts') = Len(attempts)
  /\ \A n \in 1..Latest : /\ attempts'[n].status = attempts[n].status
                          /\ attempts'[n].owner = attempts[n].owner

(* What a published branch needs from a step. *)
KeepsDelivery ==
  status = "SUCCEEDED" => /\ Latest \in DOMAIN branch'
                          /\ branch'[Latest] = branch[Latest]

(* The steps that leave statuses alone. *)
LEMMA QuietStep ==
  ASSUME RowsInv, Latest \in Nat, status' = status, SameRows, passed \subseteq passed',
         \A q \in Runs : KeepsAttempt(q), KeepsDelivery
  PROVE  RowsInv'
<1>1. Latest' = Latest
  BY DEF SameRows, Latest
<1>2. OneOpenAttempt'
  BY <1>1 DEF RowsInv, OneOpenAttempt, SameRows
<1>3. RetryBudget'
  BY <1>1 DEF RowsInv, RetryBudget, SameRows
<1>4. SuccessIsVerified'
  BY <1>1 DEF RowsInv, SuccessIsVerified, SameRows, KeepsDelivery
<1>5. RestingRows'
  BY <1>1 DEF RowsInv, RestingRows, SameRows
<1>6. ASSUME NEW q \in Runs PROVE RunOwns(q)'
  BY <1>1 DEF RowsInv, RunOwns, HasRow, SameRows, KeepsAttempt
<1> QED
  BY <1>2, <1>3, <1>4, <1>5, <1>6 DEF RowsInv

(* A run behind the fence is the holder of the latest attempt. *)
LEMMA FencedIsLatest ==
  ASSUME RowsInv, NEW r \in Runs, run[r].open, Fence(r)
  PROVE  /\ HasRow(run[r].att)
         /\ run[r].att = Latest
         /\ Active(status)
BY DEF RowsInv, OneOpenAttempt, Fence, HasRow

(* The steps that end the open attempt with its run. *)
LEMMA FinishStep ==
  ASSUME RowsInv, Latest \in Nat, NEW r \in Runs, run[r].open, Fence(r),
         NEW outcome \in {"SUCCEEDED", "FAILED", "CANCELLED"},
         Len(attempts') = Len(attempts),
         \A n \in 1..Latest :
           /\ attempts'[n].status =
                IF n = run[r].att THEN outcome ELSE attempts[n].status
           /\ attempts'[n].owner = attempts[n].owner,
         ~Active(status'), status' # Gone,
         ~run'[r].open, \A q \in Runs : q # r => run'[q] = run[q]
  PROVE  /\ OneOpenAttempt' /\ RetryBudget'
         /\ \A q \in Runs : RunOwns(q)'
         /\ Latest' = Latest
         /\ run[r].att = Latest
<1>1. /\ HasRow(run[r].att) /\ run[r].att = Latest
      /\ Active(status) /\ Latest' = Latest
  BY FencedIsLatest DEF Latest
<1>2. OneOpenAttempt'
  BY <1>1 DEF RowsInv, OneOpenAttempt
<1>3. RetryBudget'
  BY <1>1 DEF RowsInv, RetryBudget
<1>4. ASSUME NEW q \in Runs PROVE RunOwns(q)'
  <2>1. CASE q = r
    BY <2>1 DEF RunOwns
  <2>2. CASE q # r
    <3>1. run[q].open => /\ HasRow(run[q].att)
                         /\ attempts[run[q].att].owner = q
                         /\ attempts[run[q].att].status \in {"RUNNING", "CANCELLED"}
      BY <1>1 DEF RowsInv, RunOwns, Active, Gone
    <3>2. attempts[run[r].att].owner = r
      BY DEF Fence
    <3>3. run[q].open => run[q].att # run[r].att
      BY <2>2, <3>1, <3>2
    <3> QED
      BY <1>1, <2>2, <3>1, <3>3 DEF RunOwns, HasRow
  <2> QED
    BY <2>1, <2>2
<1> QED
  BY <1>1, <1>2, <1>3, <1>4

(* Moving one branch leaves the others. *)
LEMMA OtherBranches ==
  ASSUME NEW n, NEW k \in DOMAIN branch, k # n, NEW content
  PROVE  /\ k \in DOMAIN Pointing(n, content) /\ Pointing(n, content)[k] = branch[k]
         /\ k \in DOMAIN Without(n) /\ Without(n)[k] = branch[k]
BY DEF Pointing, Without

(* Every step keeps the invariant on the rows. *)
LEMMA RowsStep ==
  ASSUME Inv, [Next]_vars
  PROVE  RowsInv'
<1>types. /\ Latest \in Nat /\ attempts \in Seq(Attempt)
          /\ \A r \in Runs : /\ run[r] \in RunState
                              /\ run[r].att \in Nat /\ run[r].path \in Nat
          /\ status \in Statuses \cup {Gone} /\ TypeOK
  BY TypeParts DEF Inv, TypeOK, RunState
<1>inv. RowsInv /\ \A r \in Runs : Knows(run[r]) /\ RunPassed(r)
  BY DEF Inv
<1>words. /\ AttemptStatuses = {"RUNNING", "SUCCEEDED", "FAILED", "CANCELLED"}
          /\ WorktreeStatuses = {"none", "ACTIVE", "RETAINED", "REMOVED", "REUSED"}
  BY DEF AttemptStatuses, WorktreeStatuses
<1>latest. Latest = Len(attempts)
  BY DEF Latest
<1>mover. ASSUME NEW r \in Runs,
                 \/ RunTask(r) \/ Proceed(r) \/ RunAgent(r)
                 \/ Crash(r) \/ DatabaseError(r),
                 run[r].pc # "claim" \/ Goto(r, "done")
          PROVE  /\ \A q \in Runs : KeepsAttempt(q)
                 /\ \A q \in Runs : q # r => run'[q] = run[q]
  <2>1. /\ StartAttempt(r) \/ KeepsAttempt(r)
        /\ \A q \in Runs : q # r => run'[q] = run[q]
    BY <1>mover, MoverKnows
  <2>2. KeepsAttempt(r)
    BY <1>mover, <1>types, <2>1, Going DEF StartAttempt, KeepsAttempt
  <2> QED
    BY <2>1, <2>2 DEF KeepsAttempt
<1>still. ASSUME UNCHANGED run PROVE \A q \in Runs : KeepsAttempt(q)
  BY <1>still DEF KeepsAttempt
<1>kept. UNCHANGED branch => KeepsDelivery
  BY <1>inv DEF KeepsDelivery, RowsInv, SuccessIsVerified
<1>same. UNCHANGED attempts => SameRows
  BY DEF SameRows
<1>1. ASSUME NEW r \in Runs,
             \/ RunTask(r) \/ BaseCheck(r) \/ RunAgent(r) \/ StopAgent(r)
             \/ CheckContainment(r) \/ RunChecks(r) \/ Fail(r)
      PROVE  RowsInv'
  <2>1. /\ UNCHANGED <<db, branch>> /\ passed \subseteq passed'
        /\ run[r].pc # "claim"
    BY <1>1 DEF RunTask, BaseCheck, RunAgent, StopAgent, CheckContainment, RunChecks,
          Fail, disk
  <2>2. \A q \in Runs : KeepsAttempt(q)
    BY <1>1, <1>mover, <2>1 DEF Proceed
  <2> QED
    BY <1>types, <1>inv, <1>kept, <1>same, <2>1, <2>2, QuietStep DEF db
<1>2. ASSUME NEW r \in Runs, Crash(r) \/ DatabaseError(r) PROVE RowsInv'
  <2>1. UNCHANGED <<db, branch, passed>> /\ (Goto(r, "done") \/ Goto(r, "dead"))
    BY <1>2 DEF Crash, DatabaseError, disk
  <2>2. \A q \in Runs : KeepsAttempt(q)
    BY <1>types, <2>1, Going DEF KeepsAttempt
  <2> QED
    BY <1>types, <1>inv, <1>kept, <1>same, <2>1, <2>2, QuietStep DEF db
<1>3. ASSUME NEW r \in Runs, BecomeReady(r) PROVE RowsInv'
  <2>1. \A q \in Runs : KeepsAttempt(q)
    BY <1>3, <1>mover DEF BecomeReady, Proceed
  <2>2. CASE UNCHANGED status
    BY <1>types, <1>inv, <1>kept, <1>same, <1>3, <2>1, <2>2, QuietStep
       DEF BecomeReady, disk
  <2>3. CASE ~UNCHANGED status
    <3>1. /\ status' = "READY" /\ UNCHANGED attempts
          /\ status \in {"PENDING", "READY", "WAITING_APPROVAL"}
      BY <1>inv, <1>3, <2>3 DEF BecomeReady, CompareAndSet, Knows
    <3>2. Latest = 0 /\ Latest' = Latest
      BY <1>inv, <2>3, <3>1 DEF RowsInv, RestingRows, Latest
    <3>3. OneOpenAttempt' /\ RetryBudget' /\ SuccessIsVerified' /\ RestingRows'
      BY <3>1, <3>2, RetriesAssumption DEF OneOpenAttempt, RetryBudget,
         SuccessIsVerified, RestingRows, Active, Gone
    <3>4. \A q \in Runs : RunOwns(q)'
      BY <1>inv, <2>1, <3>1, <3>2 DEF RowsInv, RunOwns, KeepsAttempt, HasRow, Gone
    <3> QED
      BY <3>3, <3>4 DEF RowsInv
  <2> QED
    BY <2>2, <2>3
<1>4. ASSUME NEW r \in Runs, StartAttempt(r) PROVE RowsInv'
  <2>1. CASE ~CompareAndSet(run[r].seen)
    <3>1. Goto(r, "done") /\ UNCHANGED <<db, branch, passed>>
      BY <1>4, <2>1 DEF StartAttempt, LostAttempt, disk
    <3>2. \A q \in Runs : KeepsAttempt(q)
      BY <1>4, <1>mover, <3>1 DEF Proceed
    <3> QED
      BY <1>types, <1>inv, <1>kept, <1>same, <3>1, <3>2, QuietStep DEF db
  <2>2. CASE CompareAndSet(run[r].seen)
    <3> DEFINE s == [run[r] EXCEPT
                       !.pc = IF run[r].prev = 0 THEN "create" ELSE "continue",
                       !.seen = "RUNNING", !.att = Latest + 1, !.open = TRUE,
                       !.rec = 0, !.failure = "none"]
    <3>1. /\ status = "READY" /\ status' = "RUNNING"
          /\ attempts' = Append(attempts, NewAttempt(r)) /\ Becomes(r, s)
      BY <1>inv, <1>4, <2>2 DEF StartAttempt, CompareAndSet, Knows
    <3>2. s.att = Latest + 1 /\ s.open
      BY <1>types DEF RunState
    <3> HIDE DEF s
    <3>3. /\ run'[r].att = Latest + 1
          /\ \A q \in Runs : q # r => run'[q] = run[q]
      BY <1>types, <3>1, <3>2, Becoming
    <3>4. /\ Latest' = Latest + 1
          /\ \A k \in 1..Latest : attempts'[k] = attempts[k]
          /\ attempts'[Latest + 1].status = "RUNNING"
          /\ attempts'[Latest + 1].owner = r
      BY <1>types, <1>latest, <3>1, AppendedRow DEF Latest
    <3>5. /\ Latest <= MaxRetries
          /\ \A n \in 1..Latest : attempts[n].status = "FAILED"
      BY <1>inv, <3>1 DEF RowsInv, RestingRows
    <3>6. OneOpenAttempt'
      <4>1. ASSUME NEW n \in 1..(Latest + 1)
            PROVE  attempts'[n].status = "RUNNING" <=> n = Latest + 1
        <5>1. CASE n \in 1..Latest
          BY <1>types, <3>4, <3>5, <5>1
        <5>2. CASE n = Latest + 1
          BY <3>4, <5>2
        <5> QED
          BY <1>types, <5>1, <5>2
      <4>2. Active(status') /\ Latest' > 0 /\ Latest' = Latest + 1
        BY <1>types, <3>1, <3>4 DEF Active
      <4> QED
        BY <4>1, <4>2 DEF OneOpenAttempt
    <3>7. RetryBudget'
      BY <1>types, <3>4, <3>5, RetriesAssumption DEF RetryBudget
    <3>8. SuccessIsVerified' /\ RestingRows'
      BY <3>1 DEF SuccessIsVerified, RestingRows, Gone
    <3>9. ASSUME NEW q \in Runs PROVE RunOwns(q)'
      <4>1. CASE q = r
        BY <1>types, <3>3, <3>4, <4>1 DEF RunOwns, HasRow
      <4>2. CASE q # r
        <5>1. run[q].open => /\ run[q].att \in 1..Latest
                             /\ attempts[run[q].att].owner = q
                             /\ attempts[run[q].att].status \in {"RUNNING", "CANCELLED"}
          BY <1>inv, <3>1 DEF RowsInv, RunOwns, HasRow, Gone
        <5>2. run'[q] = run[q]
          BY <3>3, <4>2
        <5> QED
          BY <1>types, <3>4, <5>1, <5>2 DEF RunOwns, HasRow
      <4> QED
        BY <4>1, <4>2
    <3> QED
      BY <3>6, <3>7, <3>8, <3>9 DEF RowsInv
  <2> QED
    BY <2>1, <2>2
<1>5. ASSUME NEW r \in Runs, PrepareWorktree(r) \/ ContinueOnNewBranch(r) PROVE RowsInv'
  <2>1. UNCHANGED <<db, passed>> /\ run[r].pc # "claim"
    BY <1>5 DEF PrepareWorktree, ContinueOnNewBranch
  <2>2. \A q \in Runs : KeepsAttempt(q)
    BY <1>5, <1>mover, <2>1 DEF Proceed
  <2>3. \/ UNCHANGED branch
        \/ run[r].att \notin DOMAIN branch
           /\ \E content : branch' = Pointing(run[r].att, content)
    BY <1>5 DEF PrepareWorktree, ContinueOnNewBranch
  <2>4. KeepsDelivery
    <3>1. CASE UNCHANGED branch
      BY <1>kept, <3>1
    <3>2. ASSUME run[r].att \notin DOMAIN branch, NEW content,
                 branch' = Pointing(run[r].att, content), status = "SUCCEEDED"
          PROVE  Latest \in DOMAIN branch' /\ branch'[Latest] = branch[Latest]
      <4>1. Latest \in DOMAIN branch /\ Latest # run[r].att
        BY <1>inv, <3>2 DEF RowsInv, SuccessIsVerified
      <4> QED
        BY <3>2, <4>1, OtherBranches, Zenon
    <3> QED
      BY <2>3, <3>1, <3>2 DEF KeepsDelivery
  <2> QED
    BY <1>types, <1>inv, <1>same, <2>1, <2>2, <2>4, QuietStep DEF db
<1>6. ASSUME NEW r \in Runs, RecordWorktree(r) \/ RecordContinued(r) PROVE RowsInv'
  <2>1. /\ status' = status /\ UNCHANGED passed
        /\ run[r].pc \in {"record", "continued"}
        /\ \/ UNCHANGED attempts
           \/ attempts' = Recorded(attempts, run[r].att, run[r].path)
    BY <1>6 DEF RecordWorktree, RecordContinued
  <2>2. \A q \in Runs : KeepsAttempt(q)
    BY <1>6, <1>mover, <2>1 DEF Proceed
  <2>3. SameRows
    BY <1>types, <1>latest, <1>same, <2>1, RecordedRows DEF SameRows
  <2>4. KeepsDelivery
    <3>1. \/ UNCHANGED branch
          \/ status # Gone /\ branch' = Without(run[r].att)
      BY <1>6 DEF RecordWorktree, RecordContinued
    <3>2. run[r].open
      BY <1>inv, <2>1 DEF Knows, InAttempt, Claimed
    <3>3. status = "SUCCEEDED" => run[r].att # Latest
      BY <1>inv, <3>2 DEF RowsInv, RunOwns, SuccessIsVerified, Gone
    <3> QED
      BY <1>inv, <1>kept, <3>1, <3>3, OtherBranches DEF KeepsDelivery, RowsInv,
            SuccessIsVerified
  <2> QED
    BY <1>types, <1>inv, <2>1, <2>2, <2>3, <2>4, QuietStep
<1>7. ASSUME NEW r \in Runs, Verify(r) PROVE RowsInv'
  <2>1. UNCHANGED <<attempts, branch, passed>> /\ run[r].pc # "claim"
    BY <1>7 DEF Verify, disk
  <2>2. \A q \in Runs : KeepsAttempt(q)
    BY <1>7, <1>mover, <2>1 DEF Proceed
  <2>3. CASE UNCHANGED status
    BY <1>types, <1>inv, <1>kept, <1>same, <2>1, <2>2, <2>3, QuietStep
  <2>4. CASE ~UNCHANGED status
    <3>1. status = "RUNNING" /\ status' = "VERIFYING" /\ Latest' = Latest
      BY <1>inv, <1>7, <2>1, <2>4 DEF Verify, CompareAndSet, Knows, Claimed, Latest
    <3>2. OneOpenAttempt' /\ RetryBudget' /\ SuccessIsVerified' /\ RestingRows'
      BY <1>inv, <2>1, <3>1 DEF RowsInv, OneOpenAttempt, RetryBudget,
         SuccessIsVerified, RestingRows, Active, Gone
    <3>3. \A q \in Runs : RunOwns(q)'
      BY <1>inv, <2>1, <2>2, <3>1 DEF RowsInv, RunOwns, KeepsAttempt, HasRow, Gone
    <3> QED
      BY <3>2, <3>3 DEF RowsInv
  <2> QED
    BY <2>3, <2>4
<1>8. ASSUME NEW r \in Runs, Succeed(r) PROVE RowsInv'
  <2>0. run[r].open /\ run[r].att \in passed /\ run[r].pc # "claim"
    BY <1>inv, <1>8 DEF Succeed, Knows, InAttempt, RunPassed
  <2>1. CASE UNCHANGED db
    <3>1. /\ UNCHANGED passed
          /\ UNCHANGED branch \/ Fence(r)
      BY <1>8 DEF Succeed
    <3>2. KeepsDelivery
      BY <1>inv, <1>kept, <2>0, <3>1, FencedIsLatest DEF KeepsDelivery, Active
    <3>3. \A q \in Runs : KeepsAttempt(q)
      BY <1>8, <1>mover, <2>0 DEF Proceed
    <3> QED
      BY <1>types, <1>inv, <1>same, <2>1, <3>1, <3>2, <3>3, QuietStep DEF db
  <2>2. CASE ~UNCHANGED db
    <3> DEFINE s == [run[r] EXCEPT !.pc = "cleanup", !.open = FALSE,
                                   !.seen = "SUCCEEDED"]
    <3>1. /\ Fence(r) /\ status' = "SUCCEEDED" /\ UNCHANGED passed
          /\ attempts' = Finished(attempts, run[r].att, "SUCCEEDED")
          /\ branch' = Pointing(run[r].att, "delivered")
          /\ Becomes(r, s)
      BY <1>8, <2>2 DEF Succeed
    <3>2. ~s.open
      BY <1>types DEF RunState
    <3> HIDE DEF s
    <3>3. ~run'[r].open /\ \A q \in Runs : q # r => run'[q] = run[q]
      BY <1>types, <3>1, <3>2, Becoming
    <3>4. /\ Len(attempts') = Len(attempts)
          /\ \A n \in 1..Latest :
               /\ attempts'[n].status =
                    IF n = run[r].att THEN "SUCCEEDED" ELSE attempts[n].status
               /\ attempts'[n].owner = attempts[n].owner
      BY <1>types, <1>latest, <1>words, <3>1, FinishedRows
    <3>5. /\ OneOpenAttempt' /\ RetryBudget'
          /\ \A q \in Runs : RunOwns(q)'
          /\ Latest' = Latest /\ run[r].att = Latest
      BY <1>types, <1>inv, <2>0, <3>1, <3>3, <3>4, FinishStep DEF Active, Gone
    <3>6. HasRow(run[r].att)
      BY <1>inv, <2>0, <3>1, FencedIsLatest
    <3>7. /\ run[r].att \in DOMAIN branch'
          /\ branch'[run[r].att] = "delivered"
      BY <3>1 DEF Pointing
    <3>8. SuccessIsVerified'
      BY <1>types, <2>0, <3>1, <3>4, <3>5, <3>6, <3>7 DEF SuccessIsVerified, HasRow
    <3>9. RestingRows'
      BY <3>1 DEF RestingRows, Gone
    <3> QED
      BY <3>5, <3>8, <3>9 DEF RowsInv
  <2> QED
    BY <2>1, <2>2
<1>9. ASSUME NEW r \in Runs, CleanupAfterSuccess(r) \/ RecordRemoval(r) PROVE RowsInv'
  <2>1. /\ UNCHANGED <<status, branch, passed>> /\ run[r].pc # "claim"
        /\ \/ UNCHANGED attempts
           \/ \E mark \in {"RETAINED", "REMOVED"} :
                attempts' = Marked(attempts, {run[r].rec}, mark)
    BY <1>9 DEF CleanupAfterSuccess, RecordRemoval, disk
  <2>2. \A q \in Runs : KeepsAttempt(q)
    BY <1>9, <1>mover, <2>1 DEF Proceed
  <2>3. SameRows
    BY <1>types, <1>latest, <1>words, <1>same, <2>1, MarkedRows DEF SameRows
  <2> QED
    BY <1>types, <1>inv, <1>kept, <2>1, <2>2, <2>3, QuietStep
<1>10. ASSUME NEW r \in Runs, ScheduleRetry(r) PROVE RowsInv'
  <2>0. run[r].open /\ run[r].att <= MaxRetries /\ run[r].pc # "claim"
    BY <1>inv, <1>10 DEF ScheduleRetry, Knows, InAttempt
  <2>1. CASE UNCHANGED db
    <3>1. /\ UNCHANGED passed
          /\ UNCHANGED branch \/ Fence(r)
      BY <1>10 DEF ScheduleRetry
    <3>2. KeepsDelivery
      BY <1>inv, <1>kept, <2>0, <3>1, FencedIsLatest DEF KeepsDelivery, Active
    <3>3. \A q \in Runs : KeepsAttempt(q)
      BY <1>10, <1>mover, <2>0 DEF Proceed
    <3> QED
      BY <1>types, <1>inv, <1>same, <2>1, <3>1, <3>2, <3>3, QuietStep DEF db
  <2>2. CASE ~UNCHANGED db
    <3> DEFINE s == [run[r] EXCEPT !.pc = "claim", !.seen = "READY", !.open = FALSE,
                                   !.prev = run[r].rec]
               marked == Marked(attempts, {run[r].rec}, "REUSED")
    <3>1. /\ Fence(r) /\ status' = "READY"
          /\ attempts' = Finished(marked, run[r].att, "FAILED")
          /\ Becomes(r, s)
      BY <1>10, <2>2 DEF ScheduleRetry
    <3>2. ~s.open
      BY <1>types DEF RunState
    <3>3. /\ marked \in Seq(Attempt) /\ Len(marked) = Len(attempts)
          /\ \A n \in 1..Latest : /\ marked[n].status = attempts[n].status
                                  /\ marked[n].owner = attempts[n].owner
      <4>1. "REUSED" \in WorktreeStatuses /\ attempts \in Seq(Attempt)
        BY <1>types, <1>words
      <4>2. /\ Marked(attempts, {run[r].rec}, "REUSED") \in Seq(Attempt)
            /\ Len(Marked(attempts, {run[r].rec}, "REUSED")) = Len(attempts)
            /\ \A n \in 1..Len(attempts) :
                 /\ Marked(attempts, {run[r].rec}, "REUSED")[n].status = attempts[n].status
                 /\ Marked(attempts, {run[r].rec}, "REUSED")[n].owner = attempts[n].owner
        <5> HIDE DEF s, marked
        <5> QED
          BY <4>1, MarkedRows, SMTT(30)
      <4>3. marked = Marked(attempts, {run[r].rec}, "REUSED")
        OBVIOUS
      <4> HIDE DEF s, marked
      <4> QED
        BY <1>latest, <4>2, <4>3, Zenon
    <3> HIDE DEF s, marked
    <3>4. ~run'[r].open /\ \A q \in Runs : q # r => run'[q] = run[q]
      BY <1>types, <3>1, <3>2, Becoming
    <3>5. /\ Len(attempts') = Len(attempts)
          /\ \A n \in 1..Latest :
               /\ attempts'[n].status =
                    IF n = run[r].att THEN "FAILED" ELSE attempts[n].status
               /\ attempts'[n].owner = attempts[n].owner
      <4>1. "FAILED" \in AttemptStatuses
        BY <1>words
      <4>2. /\ Len(Finished(marked, run[r].att, "FAILED")) = Len(marked)
            /\ \A k \in 1..Len(marked) :
                 /\ Finished(marked, run[r].att, "FAILED")[k].status =
                      IF k = run[r].att THEN "FAILED" ELSE marked[k].status
                 /\ Finished(marked, run[r].att, "FAILED")[k].owner = marked[k].owner
        BY <3>3, <4>1, FinishedRows, SMTT(30)
      <4> QED
        BY <1>latest, <3>1, <3>3, <4>2
    <3>6. /\ OneOpenAttempt' /\ RetryBudget'
          /\ \A q \in Runs : RunOwns(q)'
          /\ Latest' = Latest /\ run[r].att = Latest
      BY <1>types, <1>inv, <2>0, <3>1, <3>4, <3>5, FinishStep DEF Active, Gone
    <3>7. SuccessIsVerified'
      BY <3>1 DEF SuccessIsVerified
    <3>8. RestingRows'
      BY <1>types, <1>inv, <2>0, <3>1, <3>5, <3>6 DEF RestingRows, RowsInv, RetryBudget,
            Gone
    <3> QED
      BY <3>6, <3>7, <3>8 DEF RowsInv
  <2> QED
    BY <2>1, <2>2
<1>11. ASSUME NEW r \in Runs, EndAttempt(r) PROVE RowsInv'
  <2>0. run[r].open /\ run[r].pc # "claim"
    BY <1>inv, <1>11 DEF EndAttempt, Knows, InAttempt
  <2>1. CASE UNCHANGED db
    <3>1. UNCHANGED <<branch, passed>>
      BY <1>11 DEF EndAttempt, disk
    <3>2. \A q \in Runs : KeepsAttempt(q)
      BY <1>11, <1>mover, <2>0 DEF Proceed
    <3> QED
      BY <1>types, <1>inv, <1>same, <1>kept, <2>1, <3>1, <3>2, QuietStep DEF db
  <2>2. CASE ~UNCHANGED db
    <3> DEFINE outcome == IF run[r].pc = "cancel" THEN "CANCELLED" ELSE "FAILED"
               s == [run[r] EXCEPT !.pc = "done", !.open = FALSE, !.seen = outcome]
               marked == Marked(attempts, {run[r].rec}, "RETAINED")
    <3>1. /\ Fence(r) /\ status' = outcome
          /\ attempts' = Finished(marked, run[r].att, outcome)
          /\ Becomes(r, s)
      BY <1>11, <2>2 DEF EndAttempt
    <3>2. outcome \in {"FAILED", "CANCELLED"}
      OBVIOUS
    <3> HIDE DEF outcome
    <3>3. ~s.open
      BY <1>types DEF RunState
    <3>4. /\ marked \in Seq(Attempt) /\ Len(marked) = Len(attempts)
          /\ \A n \in 1..Latest : /\ marked[n].status = attempts[n].status
                                  /\ marked[n].owner = attempts[n].owner
      BY <1>types, <1>latest, <1>words, MarkedRows
    <3> HIDE DEF s, marked
    <3>5. ~run'[r].open /\ \A q \in Runs : q # r => run'[q] = run[q]
      BY <1>types, <3>1, <3>3, Becoming
    <3>6. /\ Len(attempts') = Len(attempts)
          /\ \A n \in 1..Latest :
               /\ attempts'[n].status =
                    IF n = run[r].att THEN outcome ELSE attempts[n].status
               /\ attempts'[n].owner = attempts[n].owner
      <4>1. outcome \in AttemptStatuses
        BY <1>words, <3>2
      <4>2. /\ Len(Finished(marked, run[r].att, outcome)) = Len(marked)
            /\ \A k \in 1..Len(marked) :
                 /\ Finished(marked, run[r].att, outcome)[k].status =
                      IF k = run[r].att THEN outcome ELSE marked[k].status
                 /\ Finished(marked, run[r].att, outcome)[k].owner = marked[k].owner
        BY <3>4, <4>1, FinishedRows, SMTT(30)
      <4> QED
        BY <1>latest, <3>1, <3>4, <4>2
    <3>7. /\ OneOpenAttempt' /\ RetryBudget'
          /\ \A q \in Runs : RunOwns(q)'
      BY <1>types, <1>inv, <2>0, <3>1, <3>2, <3>5, <3>6, FinishStep DEF Active, Gone
    <3>8. SuccessIsVerified' /\ RestingRows'
      BY <3>1, <3>2 DEF SuccessIsVerified, RestingRows, Gone
    <3> QED
      BY <3>7, <3>8 DEF RowsInv
  <2> QED
    BY <2>1, <2>2
<1>12. ASSUME NEW r, WatchForCancel(r) PROVE RowsInv'
  <2> DEFINE renewed == [attempts EXCEPT ![run[r].att].lease = "live"]
  <2>0. /\ Len(renewed) = Len(attempts)
        /\ \A n \in 1..Len(attempts) : /\ renewed[n].status = attempts[n].status
                                       /\ renewed[n].owner = attempts[n].owner
    BY <1>types, LeasedRows
  <2>1. SameRows
    <3>1. attempts' = renewed \/ UNCHANGED attempts
      BY <1>12 DEF WatchForCancel
    <3> HIDE DEF renewed
    <3> QED
      BY <1>latest, <1>same, <2>0, <3>1 DEF SameRows
  <2>2. UNCHANGED <<status, branch, passed, run>>
    BY <1>12 DEF WatchForCancel, disk
  <2> QED
    BY <1>types, <1>inv, <1>kept, <1>still, <2>1, <2>2, QuietStep
<1>13. ASSUME NEW n, LeaseExpires(n) PROVE RowsInv'
  <2>1. SameRows
    BY <1>types, <1>latest, <1>13, LeasedRows DEF LeaseExpires, SameRows
  <2>2. UNCHANGED <<status, branch, passed, run>>
    BY <1>13 DEF LeaseExpires, disk
  <2> QED
    BY <1>types, <1>inv, <1>kept, <1>still, <2>1, <2>2, QuietStep
<1>14. ASSUME UNCHANGED <<db, branch, passed, run>> PROVE RowsInv'
  BY <1>types, <1>inv, <1>kept, <1>still, <1>same, <1>14, QuietStep DEF db
<1>15. ASSUME NEW c \in Callers, Cancel(c) PROVE RowsInv'
  <2>1. CASE UNCHANGED db
    BY <1>14, <1>15, <2>1 DEF Cancel, disk
  <2>2. CASE ~UNCHANGED db
    <3>1. /\ status' = "CANCELLED" /\ attempts' = CancelledRows
          /\ UNCHANGED <<branch, passed, run>>
      BY <1>15, <2>2 DEF Cancel, disk
    <3>2. /\ Latest' = Latest
          /\ \A n \in 1..Latest :
               /\ attempts'[n].status = IF attempts[n].status = "RUNNING"
                                        THEN "CANCELLED" ELSE attempts[n].status
               /\ attempts'[n].owner = attempts[n].owner
      BY <1>types, <3>1, CancelledRowsEnd DEF Latest
    <3>3. OneOpenAttempt'
      BY <3>1, <3>2 DEF OneOpenAttempt, Active
    <3>4. RetryBudget'
      BY <1>types, <1>inv, <3>2 DEF RowsInv, RetryBudget
    <3>5. SuccessIsVerified' /\ RestingRows'
      BY <3>1 DEF SuccessIsVerified, RestingRows, Gone
    <3>6. ASSUME NEW q \in Runs PROVE RunOwns(q)'
      <4>1. status # Gone
        BY <1>15, <2>2 DEF Cancel, CompareAndSet, Inv, CallKnows, Statuses, Gone
      <4> QED
        BY <1>inv, <3>1, <3>2, <4>1 DEF RowsInv, RunOwns, HasRow
    <3> QED
      BY <3>3, <3>4, <3>5, <3>6 DEF RowsInv
  <2> QED
    BY <2>1, <2>2
<1>16. ASSUME NEW c, MarkRemoved(c) PROVE RowsInv'
  <2> DEFINE marked == Marked(attempts, {call[c].target}, "REMOVED")
  <2>0. /\ Len(marked) = Len(attempts)
        /\ \A n \in 1..Len(attempts) : /\ marked[n].status = attempts[n].status
                                       /\ marked[n].owner = attempts[n].owner
    <3>1. "REMOVED" \in WorktreeStatuses
      BY <1>words
    <3> QED
      BY <1>types, <3>1, MarkedRows, SMTT(30)
  <2>1. SameRows
    <3>1. attempts' = marked
      BY <1>16 DEF MarkRemoved
    <3> HIDE DEF marked
    <3> QED
      BY <1>latest, <2>0, <3>1 DEF SameRows
  <2>2. UNCHANGED <<status, branch, passed, run>>
    BY <1>16 DEF MarkRemoved, disk
  <2> QED
    BY <1>types, <1>inv, <1>kept, <1>still, <2>1, <2>2, QuietStep
<1>17. ASSUME NEW c,
              \/ Recover(c) \/ ReadForCancel(c) \/ StopLocalRun(c)
              \/ CheckRemovable(c) \/ LookupWorktree(c) \/ RemoveDirectory(c)
       PROVE  UNCHANGED <<db, branch, passed, run>>
  BY <1>17 DEF Recover, ReadForCancel, StopLocalRun, CheckRemovable, LookupWorktree,
        RemoveDirectory, disk
<1>18. ASSUME NEW r, Interrupt(r) PROVE UNCHANGED <<db, branch, passed, run>>
  BY <1>18 DEF Interrupt, disk
<1>19. CASE DeleteTask
  <2>1. status' = Gone /\ attempts' = <<>> /\ Latest' = 0
    BY <1>19 DEF DeleteTask, Latest
  <2> QED
    BY <2>1, RetriesAssumption DEF RowsInv, OneOpenAttempt, RetryBudget,
          SuccessIsVerified, RestingRows, RunOwns, Active, Gone
<1>20. UNCHANGED vars => UNCHANGED <<db, branch, passed, run>>
  BY DEF vars, db
<1> QED
  BY <1>1, <1>2, <1>3, <1>4, <1>5, <1>6, <1>7, <1>8, <1>9, <1>10, <1>11, <1>12,
     <1>13, <1>14, <1>15, <1>16, <1>17, <1>18, <1>19, <1>20, Zenon
     DEF Next, Proceed, CancelStep, RemoveStep

-----------------------------------------------------------------------------
(*                             Theorems                                    *)

(* The invariant holds of a task just created, with nobody acting on it. *)
LEMMA InvInit == Init => Inv
<1> SUFFICES ASSUME Init PROVE Inv
  OBVIOUS
<1>1. TypeOK
  <2>1. run \in [Runs -> RunState]
    BY DEF Init, NewRun, RunState, RunPCs, Statuses
  <2>2. call \in [Callers -> CallState]
    BY DEF Init, NewCall, CallState, Statuses, MaxCancelTries
  <2>3. attempts \in Seq(Attempt)
    BY EmptySeq DEF Init
  <2> QED
    BY <2>1, <2>2, <2>3, BoundAssumption DEF Init, TypeOK, Statuses
<1>2. Latest = 0
  BY DEF Init, Latest
<1>3. RowsInv
  BY <1>2, RetriesAssumption DEF Init, NewRun, RowsInv, OneOpenAttempt, RetryBudget,
     SuccessIsVerified, RestingRows, RunOwns, Active, Gone
<1>4. \A r \in Runs : Knows(run[r]) /\ RunPassed(r)
  BY DEF Init, NewRun, Knows, RunPassed, Claimed, InAttempt
<1>5. \A c \in Callers : CallKnows(c)
  BY DEF Init, NewCall, CallKnows
<1> QED
  BY <1>1, <1>3, <1>4, <1>5 DEF Inv

(* The inductive step: rows, runs and callers together. *)
LEMMA InvStep == Inv /\ [Next]_vars => Inv'
<1> SUFFICES ASSUME Inv, [Next]_vars PROVE Inv'
  OBVIOUS
<1>1. TypeOK'
  BY TypeStep DEF Inv
<1>2. RowsInv' /\ (\A r \in Runs : Knows(run'[r]) /\ RunPassed(r)')
      /\ \A c \in Callers : CallKnows(c)'
  BY RowsStep, KnowsStep, CallKnowsStep
<1> QED
  BY <1>1, <1>2 DEF Inv, Knows

(* The inductive invariant holds in every reachable state. *)
THEOREM Invariance == Spec => []Inv
<1> QED
  BY InvInit, InvStep, PTL DEF Spec

(* Whatever runs, cancels, recoveries, crashes and lost transactions raced  *)
(* on the task: while it is RUNNING or VERIFYING exactly its latest attempt *)
(* is open, and otherwise none is (startAttempt, succeed, fail, Cancel).    *)
THEOREM OpenAttempt == Spec => []OneOpenAttempt
<1>1. Inv => OneOpenAttempt
  BY DEF Inv, RowsInv
<1> QED
  BY <1>1, Invariance, PTL

(* max_retries bounds the attempts of the task over all its runs            *)
(* (willRetry, scheduleRetry, startAttempt).                                *)
THEOREM Budget == Spec => []RetryBudget
<1>1. Inv => RetryBudget
  BY DEF Inv, RowsInv
<1> QED
  BY <1>1, Invariance, PTL

(* A task is SUCCEEDED only by its latest attempt, whose checks passed and  *)
(* whose branch succeed published (verify, succeed).                        *)
THEOREM VerifiedSuccess == Spec => []SuccessIsVerified
<1>1. Inv => SuccessIsVerified
  BY DEF Inv, RowsInv
<1> QED
  BY <1>1, Invariance, PTL

(* The status changes along the edges of the state machine only.  Which     *)
(* edge each action takes: *)
LEMMA StatusStep ==
  ASSUME Inv, [Next]_vars
  PROVE  \/ UNCHANGED status
         \/ /\ status \in Statuses /\ status' \in Statuses
            /\ status' \in Transitions(status)
         \/ Terminal(status) /\ status' = Gone
<1>inv. RowsInv /\ \A r \in Runs : Knows(run[r])
  BY DEF Inv
<1> USE DEF Transitions, Statuses
<1>1. ASSUME NEW r \in Runs, BecomeReady(r), ~UNCHANGED status
      PROVE  status \in {"PENDING", "WAITING_APPROVAL"} /\ status' = "READY"
  BY <1>inv, <1>1 DEF BecomeReady, CompareAndSet, Knows
<1>2. ASSUME NEW r \in Runs, StartAttempt(r), ~UNCHANGED status
      PROVE  status = "READY" /\ status' = "RUNNING"
  BY <1>inv, <1>2 DEF StartAttempt, CompareAndSet, Knows, db
<1>3. ASSUME NEW r \in Runs, Verify(r), ~UNCHANGED status
      PROVE  status = "RUNNING" /\ status' = "VERIFYING"
  BY <1>inv, <1>3 DEF Verify, CompareAndSet, Knows, Claimed
<1>4. ASSUME NEW r \in Runs, Succeed(r), ~UNCHANGED status
      PROVE  status = "VERIFYING" /\ status' = "SUCCEEDED"
  BY <1>4 DEF Succeed, CompareAndSet, db
<1>5. ASSUME NEW r \in Runs, ScheduleRetry(r), ~UNCHANGED status
      PROVE  status \in {"RUNNING", "VERIFYING"} /\ status' = "READY"
  <2>1. Fence(r) /\ status' = "READY"
    BY <1>5 DEF ScheduleRetry, db
  <2>2. run[r].open
    BY <1>inv, <1>5 DEF ScheduleRetry, Knows, InAttempt
  <2> QED
    BY <1>inv, <2>1, <2>2, FencedIsLatest DEF Active
<1>6. ASSUME NEW r \in Runs, EndAttempt(r), ~UNCHANGED status
      PROVE  status \in {"RUNNING", "VERIFYING"} /\ status' \in {"FAILED", "CANCELLED"}
  <2>1. Fence(r) /\ status' \in {"FAILED", "CANCELLED"}
    BY <1>6 DEF EndAttempt, db
  <2>2. run[r].open
    BY <1>inv, <1>6 DEF EndAttempt, Knows, InAttempt
  <2> QED
    BY <1>inv, <2>1, <2>2, FencedIsLatest DEF Active
<1>7. ASSUME NEW c \in Callers, Cancel(c), ~UNCHANGED status
      PROVE  /\ status \in Statuses /\ ~Terminal(status)
             /\ status' = "CANCELLED"
  BY <1>7 DEF Cancel, CompareAndSet, Inv, CallKnows, db
<1>8. ASSUME NEW r,
             \/ RunTask(r) \/ PrepareWorktree(r) \/ RecordWorktree(r) \/ BaseCheck(r)
             \/ ContinueOnNewBranch(r) \/ RecordContinued(r) \/ RunAgent(r)
             \/ StopAgent(r) \/ CheckContainment(r) \/ RunChecks(r)
             \/ CleanupAfterSuccess(r) \/ RecordRemoval(r) \/ Fail(r)
             \/ WatchForCancel(r) \/ Interrupt(r) \/ Crash(r) \/ DatabaseError(r)
      PROVE  UNCHANGED status
  BY <1>8 DEF RunTask, PrepareWorktree, RecordWorktree, BaseCheck,
        ContinueOnNewBranch, RecordContinued, RunAgent, StopAgent, CheckContainment,
        RunChecks, CleanupAfterSuccess, RecordRemoval, Fail, WatchForCancel,
        Interrupt, Crash, DatabaseError, db
<1>9. ASSUME NEW c,
             \/ Recover(c) \/ ReadForCancel(c) \/ StopLocalRun(c) \/ RemoveStep(c)
      PROVE  UNCHANGED status
  BY <1>9 DEF Recover, ReadForCancel, StopLocalRun, RemoveStep, CheckRemovable,
        LookupWorktree, RemoveDirectory, MarkRemoved, db
<1>10. ASSUME NEW n, LeaseExpires(n) PROVE UNCHANGED status
  BY <1>10 DEF LeaseExpires
<1>11. DeleteTask => Terminal(status) /\ status' = Gone
  BY DEF DeleteTask
<1>12. UNCHANGED vars => UNCHANGED status
  BY DEF vars
<1>edges. /\ \A s \in {"PENDING", "WAITING_APPROVAL", "RUNNING", "VERIFYING"} :
               "READY" \in Transitions(s)
          /\ "RUNNING" \in Transitions("READY")
          /\ "VERIFYING" \in Transitions("RUNNING")
          /\ "SUCCEEDED" \in Transitions("VERIFYING")
          /\ \A s \in {"RUNNING", "VERIFYING"} : {"FAILED", "CANCELLED"} \subseteq Transitions(s)
          /\ \A s \in Statuses : ~Terminal(s) => "CANCELLED" \in Transitions(s)
  BY DEF Terminal
<1> HIDE DEF Transitions
<1>13. ASSUME NEW r \in Runs, Proceed(r) \/ RunTask(r) \/ RunAgent(r), ~UNCHANGED status
       PROVE  /\ status \in Statuses /\ status' \in Statuses
              /\ status' \in Transitions(status)
  BY <1>edges, <1>13, <1>1, <1>2, <1>3, <1>4, <1>5, <1>6, <1>8 DEF Proceed
<1>14. ASSUME NEW c \in Callers, CancelStep(c), ~UNCHANGED status
       PROVE  /\ status \in Statuses /\ status' \in Statuses
              /\ status' \in Transitions(status)
  BY <1>edges, <1>14, <1>7, <1>9 DEF CancelStep
<1> HIDE DEF Statuses
<1> QED
  BY <1>8, <1>9, <1>10, <1>11, <1>12, <1>13, <1>14, Zenon DEF Next

(* TaskLifecycle implements TaskStatus: every writer of the task row, in    *)
(* any interleaving, moves it along internal/task/status.go's table.        *)
THEOREM ImplementsTaskStatus == Spec => RowSpec
<1>1. Init => Row!Init
  BY DEF Init, Row!Init
<1>2. Inv /\ [Next]_vars => [Row!Next]_status
  BY StatusStep DEF Row!Next, Row!TransitionTask, Row!DeleteTask, Row!Statuses,
     Row!Transitions, Row!Terminal, Row!Gone, Statuses, Transitions, Terminal, Gone
<1> QED
  BY <1>1, <1>2, Invariance, PTL DEF Spec, RowSpec, Row!Spec

-----------------------------------------------------------------------------
(*                     The worktrees: what a step does                     *)

(* The steps in which a run has an attempt and no worktree row for it. *)
Preparing == {"create", "record", "continue", "continued"}

(* The attempt has a row in worktrees. *)
Named(n) == attempts[n].worktree # "none"

OthersStay(r) == \A q \in Runs : q # r => run'[q] = run[q]

(* SetWorktreeStatus on some rows: what the step leaves of each row. *)
Marks(which, mark) ==
  /\ Latest' = Latest
  /\ \A n \in 1..Latest :
       /\ attempts'[n].owner = attempts[n].owner
       /\ attempts'[n].path = attempts[n].path
       /\ attempts'[n].worktree = IF n \in which THEN mark ELSE attempts[n].worktree

(* No worktree row changes. *)
SameWork ==
  /\ Latest' = Latest
  /\ \A n \in 1..Latest :
       /\ attempts'[n].owner = attempts[n].owner
       /\ attempts'[n].path = attempts[n].path
       /\ attempts'[n].worktree = attempts[n].worktree

(* A run goes on, or stops, and leaves worktrees and directories alone.     *)
(* What it saw of the task it forgets only with its attempt.                *)
MovesOn(r) ==
  /\ SameWork /\ UNCHANGED <<dirs, call>> /\ OthersStay(r) /\ Carries(r)
  /\ run'[r].pc \in InAttempt =>
       /\ run[r].pc \in InAttempt /\ run'[r].open = run[r].open
       /\ \/ run'[r].seen = run[r].seen /\ status' = status
          \/ run'[r].seen = "VERIFYING" /\ status' = "VERIFYING"
  /\ run'[r].pc = "check" => run'[r].seen = "VERIFYING"
  /\ run'[r].pc = "succeed" => run[r].pc = "check"
  /\ run'[r].pc \in Preparing => run[r].pc = "continue" /\ run'[r].pc = "continued"
  /\ run'[r].pc \notin {"cleanup", "cleaned"}
  /\ \/ UNCHANGED status
     \/ Latest = 0 /\ status' = "READY"
     \/ Fence(r) /\ run[r].open /\ status' = "VERIFYING"

(* continueWorktree gives up and falls back to the failed attempt's row. *)
FallsBack(r) ==
  /\ SameWork /\ UNCHANGED <<status, dirs, call>> /\ OthersStay(r)
  /\ run[r].pc \in {"continue", "continued"} /\ run'[r].pc = "fail"
  /\ run'[r].open = run[r].open /\ run'[r].seen = run[r].seen
  /\ run'[r].att = run[r].att /\ run'[r].rec = run[r].prev
  /\ run'[r].path = run[r].path /\ run'[r].prev = run[r].prev

(* startAttempt opens the next attempt. *)
Starts(r) ==
  /\ status = "READY" /\ status' = "RUNNING" /\ UNCHANGED <<dirs, call>> /\ OthersStay(r)
  /\ Latest' = Latest + 1
  /\ \A n \in 1..Latest : attempts'[n] = attempts[n]
  /\ attempts'[Latest + 1].worktree = "none" /\ attempts'[Latest + 1].owner = r
  /\ run[r].pc = "claim"
  /\ run'[r].pc = (IF run[r].prev = 0 THEN "create" ELSE "continue")
  /\ run'[r].seen = "RUNNING" /\ run'[r].att = Latest + 1 /\ run'[r].rec = 0
  /\ run'[r].path = run[r].path /\ run'[r].prev = run[r].prev

(* `git worktree add` makes the directory of the attempt. *)
Makes(r) ==
  /\ SameWork /\ UNCHANGED <<status, call>> /\ OthersStay(r)
  /\ run[r].pc = "create" /\ run'[r].pc = "record"
  /\ dirs' = dirs \cup {run[r].att}
  /\ run'[r].open = run[r].open /\ run'[r].seen = run[r].seen
  /\ run'[r].att = run[r].att /\ run'[r].rec = run[r].rec
  /\ run'[r].path = run[r].att /\ run'[r].prev = run[r].prev

(* The worktree row of the attempt is written, behind the fence. *)
Records(r) ==
  /\ UNCHANGED <<status, dirs, call>> /\ OthersStay(r) /\ Fence(r)
  /\ Latest' = Latest
  /\ \A n \in 1..Latest :
       /\ attempts'[n].owner = attempts[n].owner
       /\ attempts'[n].path = IF n = run[r].att THEN run[r].path ELSE attempts[n].path
       /\ attempts'[n].worktree = IF n = run[r].att THEN "ACTIVE" ELSE attempts[n].worktree
  /\ run[r].pc \in {"record", "continued"}
  /\ run'[r].pc \in {"base", "agent", "fail"}
  /\ run'[r].open = run[r].open /\ run'[r].seen = run[r].seen
  /\ run'[r].att = run[r].att /\ run'[r].rec = run[r].att
  /\ run'[r].path = run[r].path /\ run'[r].prev = run[r].prev

(* prepareWorktree removes the directory it may not record. *)
Discards(r) ==
  /\ SameWork /\ UNCHANGED <<status, call>> /\ OthersStay(r) /\ Carries(r)
  /\ run[r].pc = "record" /\ run'[r].pc = "fail"
  /\ run'[r].open = run[r].open /\ run'[r].seen = run[r].seen
  /\ dirs' = dirs \ {run[r].path}

(* succeed commits. *)
Succeeds(r) ==
  /\ SameWork /\ UNCHANGED <<dirs, call>> /\ OthersStay(r) /\ Carries(r)
  /\ Fence(r) /\ run[r].pc = "succeed" /\ run'[r].pc = "cleanup"
  /\ status = "VERIFYING" /\ status' = "SUCCEEDED"

(* cleanupAfterSuccess: the directory goes, or stays and is marked, or its  *)
(* removal is recorded.                                                     *)
Cleans(r) ==
  /\ SameWork /\ UNCHANGED <<status, call>> /\ OthersStay(r) /\ Carries(r)
  /\ run[r].pc = "cleanup" /\ run'[r].pc = "cleaned"
  /\ dirs' = dirs \ {run[r].path}

Keeps(r) ==
  /\ Marks({run[r].rec}, "RETAINED")
  /\ UNCHANGED <<status, dirs, call>> /\ OthersStay(r) /\ Carries(r)
  /\ run[r].pc = "cleanup" /\ run'[r].pc = "done"

Reports(r) ==
  /\ Marks({run[r].rec}, "REMOVED")
  /\ UNCHANGED <<status, dirs, call>> /\ OthersStay(r) /\ Carries(r)
  /\ run[r].pc = "cleaned" /\ run'[r].pc = "done"

(* scheduleRetry hands the directory over. *)
HandsOver(r) ==
  /\ Marks({run[r].rec}, "REUSED") /\ UNCHANGED <<dirs, call>> /\ OthersStay(r)
  /\ Fence(r) /\ status' = "READY"
  /\ run[r].pc = "retry" /\ run'[r].pc = "claim"
  /\ run'[r].att = run[r].att /\ run'[r].rec = run[r].rec
  /\ run'[r].path = run[r].path /\ run'[r].prev = run[r].rec

(* fail commits: the task ends and its worktree is retained. *)
Ends(r) ==
  /\ Marks({run[r].rec}, "RETAINED") /\ UNCHANGED <<dirs, call>> /\ OthersStay(r)
  /\ Carries(r)
  /\ Fence(r) /\ status' \in {"FAILED", "CANCELLED"}
  /\ run[r].pc \in {"end", "cancel"} /\ run'[r].pc = "done"

RunEffect(r) ==
  \/ MovesOn(r) \/ FallsBack(r) \/ Starts(r) \/ Makes(r) \/ Records(r) \/ Discards(r)
  \/ Succeeds(r) \/ Cleans(r) \/ Keeps(r) \/ Reports(r) \/ HandsOver(r) \/ Ends(r)

(* What the operator's calls do. *)
CallsStay(c) == \A d \in Callers : d # c => call'[d] = call[d]

(* Cancel commits: every ACTIVE worktree is retained. *)
CancelsTask(c) ==
  /\ UNCHANGED <<dirs, run>> /\ CallsStay(c) /\ call'[c].pc = "stop"
  /\ status \in Statuses /\ ~Terminal(status) /\ status' = "CANCELLED"
  /\ Latest' = Latest
  /\ \A n \in 1..Latest :
       /\ attempts'[n].owner = attempts[n].owner
       /\ attempts'[n].path = attempts[n].path
       /\ attempts'[n].worktree = IF attempts[n].worktree = "ACTIVE" THEN "RETAINED"
                                                                    ELSE attempts[n].worktree

(* `worktree remove` finds its row, removes the directory, marks the row. *)
Finds(c) ==
  /\ SameWork /\ UNCHANGED <<status, dirs, run>> /\ CallsStay(c)
  /\ call[c].pc = "lookup" /\ call'[c].pc = "remove"
  /\ HasRow(Latest) /\ Named(Latest)
  /\ call'[c].target = Latest /\ call'[c].path = attempts[Latest].path

RemovesIt(c) ==
  /\ SameWork /\ UNCHANGED <<status, run>> /\ CallsStay(c)
  /\ call[c].pc = "remove" /\ call'[c].pc = "mark"
  /\ call'[c].target = call[c].target /\ call'[c].path = call[c].path
  /\ dirs' = dirs \ {call[c].path}

MarksIt(c) ==
  /\ Marks({call[c].target}, "REMOVED")
  /\ UNCHANGED <<status, dirs, run>> /\ CallsStay(c)
  /\ call[c].pc = "mark" /\ call'[c].pc \in {"idle", "done"}

(* Any other step of a call. *)
GoesOn(c) ==
  /\ SameWork /\ UNCHANGED <<status, dirs, run>> /\ CallsStay(c)
  /\ \/ call'[c].pc \in {"idle", "read", "tx", "stop", "done"}
     \/ call'[c].pc = "lookup" /\ c \in Removers

CallEffect(c) ==
  CancelsTask(c) \/ Finds(c) \/ RemovesIt(c) \/ MarksIt(c) \/ GoesOn(c)

(* The rest: leases, contexts, stuttering. *)
NoEffect == SameWork /\ UNCHANGED <<status, dirs, run, call>>

(* What each step of a run does to the worktrees. *)
LEMMA RunEffects ==
  ASSUME Inv, NEW r \in Runs,
         \/ RunTask(r) \/ Proceed(r) \/ RunAgent(r) \/ Crash(r) \/ DatabaseError(r)
  PROVE  RunEffect(r)
<1>0. /\ TypeOK /\ run[r] \in RunState /\ Knows(run[r]) /\ RowsInv
      /\ attempts \in Seq(Attempt) /\ Latest \in Nat /\ Latest = Len(attempts)
      /\ run[r].att \in Nat /\ run[r].path \in Nat /\ run[r].prev \in Nat
  BY TypeParts DEF Inv, RunState, TypeOK, Latest
<1>words. /\ {"RUNNING", "SUCCEEDED", "FAILED", "CANCELLED"} \subseteq AttemptStatuses
          /\ {"ACTIVE", "RETAINED", "REMOVED", "REUSED"} \subseteq WorktreeStatuses
  BY DEF AttemptStatuses, WorktreeStatuses
<1>same. UNCHANGED attempts => SameWork
  BY DEF SameWork, Latest
<1>go. ASSUME NEW pc, Goto(r, pc)
       PROVE  /\ run'[r].pc = pc /\ Carries(r) /\ OthersStay(r)
              /\ run'[r].seen = run[r].seen /\ run'[r].open = run[r].open
  BY <1>0, <1>go, Going DEF OthersStay
<1>fail. ASSUME \E failure \in {"retryable", "final", "cancelled"} : FailWith(r, failure)
         PROVE  /\ run'[r].pc = "fail" /\ Carries(r) /\ OthersStay(r)
                /\ run'[r].seen = run[r].seen /\ run'[r].open = run[r].open
  BY <1>0, <1>fail, Failing DEF OthersStay
<1>hold. ASSUME NEW n \in Nat, FailHolding(r, n)
         PROVE  /\ run'[r].pc = "fail" /\ OthersStay(r)
                /\ run'[r].seen = run[r].seen /\ run'[r].open = run[r].open
                /\ run'[r].att = run[r].att /\ run'[r].rec = n
                /\ run'[r].path = run[r].path /\ run'[r].prev = run[r].prev
  BY <1>0, <1>hold, FailingHolding DEF OthersStay
<1>become. ASSUME NEW s, Becomes(r, s) PROVE run'[r] = s /\ OthersStay(r)
  BY <1>0, <1>become, Becoming DEF OthersStay
(* A step that goes from one place to another and touches nothing shared. *)
<1>on. ASSUME UNCHANGED <<attempts, status, dirs, call>>, NEW pc,
              Goto(r, pc) \/ (pc = "fail" /\ \E failure \in {"retryable", "final", "cancelled"} :
                                               FailWith(r, failure)),
              pc \in InAttempt => run[r].pc \in InAttempt,
              pc \notin {"cleanup", "cleaned", "check"},
              pc = "succeed" => run[r].pc = "check",
              pc \in Preparing => run[r].pc = "continue" /\ pc = "continued"
       PROVE  MovesOn(r)
  <2>1. /\ run'[r].pc = pc /\ Carries(r) /\ OthersStay(r)
        /\ run'[r].seen = run[r].seen /\ run'[r].open = run[r].open
    BY <1>on, <1>go, <1>fail
  <2> QED
    BY <1>on, <1>same, <2>1 DEF MovesOn
<1> USE DEF InAttempt, Claimed, Preparing
<1>1. CASE RunTask(r)
  <2> DEFINE s == [run[r] EXCEPT !.pc = "ready", !.seen = status]
  <2>0. UNCHANGED <<attempts, status, dirs, call>>
    BY <1>1 DEF RunTask, db, disk
  <2>1. CASE Goto(r, "done")
    BY <1>on, <2>0, <2>1 DEF RunEffect
  <2>2. CASE Becomes(r, s)
    <3>1. /\ s.pc = "ready" /\ s.att = run[r].att /\ s.rec = run[r].rec
          /\ s.path = run[r].path /\ s.prev = run[r].prev
      BY <1>0 DEF RunState
    <3>2. run'[r] = s /\ OthersStay(r)
      BY <1>become, <2>2
    <3> HIDE DEF s
    <3>3. MovesOn(r)
      BY <1>same, <2>0, <3>1, <3>2 DEF MovesOn, Carries
    <3> QED
      BY <3>3 DEF RunEffect
  <2> QED
    BY <1>1, <2>1, <2>2 DEF RunTask
<1>2. CASE BecomeReady(r)
  <2> DEFINE s == [run[r] EXCEPT !.pc = "claim", !.seen = "READY"]
  <2>0. /\ UNCHANGED <<attempts, dirs, call>>
        /\ \/ (Goto(r, "claim") \/ Goto(r, "done")) /\ UNCHANGED status
           \/ /\ Becomes(r, s) /\ status' = "READY"
              /\ status \in {"PENDING", "READY", "WAITING_APPROVAL"}
    BY <1>0, <1>2 DEF BecomeReady, LostAttempt, disk, Knows, CompareAndSet
  <2>1. CASE (Goto(r, "claim") \/ Goto(r, "done")) /\ UNCHANGED status
    BY <1>on, <2>0, <2>1 DEF RunEffect
  <2>2. CASE /\ Becomes(r, s) /\ status' = "READY"
             /\ status \in {"PENDING", "READY", "WAITING_APPROVAL"}
    <3>1. /\ s.pc = "claim" /\ s.att = run[r].att /\ s.rec = run[r].rec
          /\ s.path = run[r].path /\ s.prev = run[r].prev
      BY <1>0 DEF RunState
    <3>2. run'[r] = s /\ OthersStay(r)
      BY <1>become, <2>2
    <3> HIDE DEF s
    <3>3. UNCHANGED status \/ Latest = 0
      BY <1>0, <2>2 DEF RowsInv, RestingRows
    <3>4. MovesOn(r)
      BY <1>same, <2>0, <2>2, <3>1, <3>2, <3>3 DEF MovesOn, Carries
    <3> QED
      BY <3>4 DEF RunEffect
  <2> QED
    BY <2>0, <2>1, <2>2
<1>3. CASE StartAttempt(r)
  <2> DEFINE s == [run[r] EXCEPT
                     !.pc = IF run[r].prev = 0 THEN "create" ELSE "continue",
                     !.seen = "RUNNING", !.att = Latest + 1, !.open = TRUE,
                     !.rec = 0, !.failure = "none"]
  <2>1. CASE CompareAndSet(run[r].seen)
    <3>1. /\ status = "READY" /\ status' = "RUNNING" /\ UNCHANGED <<dirs, call>>
          /\ attempts' = Append(attempts, NewAttempt(r)) /\ Becomes(r, s)
          /\ run[r].pc = "claim"
      BY <1>0, <1>3, <2>1 DEF StartAttempt, CompareAndSet, Knows, disk
    <3>2. /\ s.pc = (IF run[r].prev = 0 THEN "create" ELSE "continue")
          /\ s.seen = "RUNNING" /\ s.att = Latest + 1 /\ s.rec = 0
          /\ s.path = run[r].path /\ s.prev = run[r].prev
      BY <1>0 DEF RunState
    <3>3. run'[r] = s /\ OthersStay(r)
      BY <1>become, <3>1
    <3> HIDE DEF s
    <3>4. /\ Len(attempts') = Len(attempts) + 1
          /\ \A n \in 1..Len(attempts) : attempts'[n] = attempts[n]
          /\ attempts'[Len(attempts) + 1].worktree = "none"
          /\ attempts'[Len(attempts) + 1].owner = r
      BY <1>0, <3>1, AppendedRow
    <3>5. Starts(r)
      BY <3>1, <3>2, <3>3, <3>4 DEF Starts, Latest
    <3> QED
      BY <3>5 DEF RunEffect
  <2>2. CASE ~CompareAndSet(run[r].seen)
    BY <1>3, <1>on, <2>2 DEF StartAttempt, LostAttempt, db, disk, RunEffect
  <2> QED
    BY <2>1, <2>2
<1>4. CASE PrepareWorktree(r)
  <2> DEFINE s == [run[r] EXCEPT !.pc = "record", !.path = run[r].att]
  <2>0. /\ UNCHANGED <<attempts, status, call>> /\ run[r].pc = "create"
        /\ \/ Becomes(r, s) /\ dirs' = dirs \cup {run[r].att}
           \/ FailWith(r, "final") /\ UNCHANGED dirs
    BY <1>4 DEF PrepareWorktree, db
  <2>1. CASE FailWith(r, "final") /\ UNCHANGED dirs
    BY <1>on, <2>0, <2>1 DEF RunEffect
  <2>2. CASE Becomes(r, s) /\ dirs' = dirs \cup {run[r].att}
    <3>1. /\ s.pc = "record" /\ s.att = run[r].att /\ s.rec = run[r].rec
          /\ s.path = run[r].att /\ s.prev = run[r].prev
          /\ s.seen = run[r].seen /\ s.open = run[r].open
      BY <1>0 DEF RunState
    <3>2. run'[r] = s /\ OthersStay(r)
      BY <1>become, <2>2
    <3> HIDE DEF s
    <3>3. Makes(r)
      BY <1>same, <2>0, <2>2, <3>1, <3>2 DEF Makes
    <3> QED
      BY <3>3 DEF RunEffect
  <2> QED
    BY <2>0, <2>1, <2>2
<1>rec. ASSUME Fence(r), attempts' = Recorded(attempts, run[r].att, run[r].path),
               UNCHANGED <<status, dirs, call>>, run[r].pc \in {"record", "continued"},
               NEW pc \in {"base", "agent"},
               \/ Becomes(r, [run[r] EXCEPT !.pc = pc, !.rec = run[r].att])
               \/ FailHolding(r, run[r].att)
        PROVE  RunEffect(r)
  <2> DEFINE s == [run[r] EXCEPT !.pc = pc, !.rec = run[r].att]
  <2>1. /\ run'[r].pc \in {"base", "agent", "fail"} /\ OthersStay(r)
        /\ run'[r].open = run[r].open /\ run'[r].seen = run[r].seen
        /\ run'[r].att = run[r].att /\ run'[r].rec = run[r].att
        /\ run'[r].path = run[r].path /\ run'[r].prev = run[r].prev
    <3>1. CASE FailHolding(r, run[r].att)
      BY <1>0, <1>hold, <3>1
    <3>2. CASE Becomes(r, s)
      <4>1. /\ s.pc = pc /\ s.att = run[r].att /\ s.rec = run[r].att
            /\ s.path = run[r].path /\ s.prev = run[r].prev
            /\ s.seen = run[r].seen /\ s.open = run[r].open
        BY <1>0 DEF RunState
      <4>2. run'[r] = s /\ OthersStay(r)
        BY <1>become, <3>2
      <4> HIDE DEF s
      <4> QED
        BY <4>1, <4>2
    <3> QED
      BY <1>rec, <3>1, <3>2
  <2>2. /\ Len(attempts') = Len(attempts)
        /\ \A n \in 1..Len(attempts) :
             /\ attempts'[n].owner = attempts[n].owner
             /\ attempts'[n].path = IF n = run[r].att THEN run[r].path ELSE attempts[n].path
             /\ attempts'[n].worktree =
                  IF n = run[r].att THEN "ACTIVE" ELSE attempts[n].worktree
    BY <1>0, <1>rec, RecordedRows
  <2>3. Records(r)
    BY <1>rec, <2>1, <2>2 DEF Records, Latest
  <2> QED
    BY <2>3 DEF RunEffect
<1>5. CASE RecordWorktree(r)
  <2>0. UNCHANGED <<status, call>> /\ run[r].pc = "record"
    BY <1>5 DEF RecordWorktree
  <2>1. CASE /\ Fence(r) /\ attempts' = Recorded(attempts, run[r].att, run[r].path)
             /\ UNCHANGED dirs
             /\ \/ Becomes(r, [run[r] EXCEPT !.pc = AfterRecord, !.rec = run[r].att])
                \/ FailHolding(r, run[r].att)
    BY <1>rec, <2>0, <2>1 DEF AfterRecord
  <2>2. CASE UNCHANGED <<attempts, dirs>> /\ FailWith(r, "final")
    BY <1>on, <2>0, <2>2 DEF RunEffect
  <2>3. CASE UNCHANGED attempts /\ dirs' = dirs \ {run[r].path} /\ FailWith(r, "final")
    <3>1. /\ run'[r].pc = "fail" /\ Carries(r) /\ OthersStay(r)
          /\ run'[r].seen = run[r].seen /\ run'[r].open = run[r].open
      BY <1>fail, <2>3
    <3>2. Discards(r)
      BY <1>same, <2>0, <2>3, <3>1 DEF Discards
    <3> QED
      BY <3>2 DEF RunEffect
  <2> QED
    BY <1>5, <2>1, <2>2, <2>3 DEF RecordWorktree
<1>6. CASE BaseCheck(r)
  <2>1. /\ UNCHANGED <<attempts, status, dirs, call>> /\ run[r].pc = "base"
        /\ Goto(r, "agent") \/ FailWith(r, "final")
    BY <1>6 DEF BaseCheck, db, disk
  <2> QED
    BY <1>on, <2>1 DEF RunEffect
<1>back. ASSUME UNCHANGED <<attempts, status, dirs, call>>, FailHolding(r, run[r].prev),
                run[r].pc \in {"continue", "continued"}
         PROVE  RunEffect(r)
  BY <1>0, <1>same, <1>hold, <1>back DEF FallsBack, RunEffect
<1>7. CASE ContinueOnNewBranch(r)
  <2>1. /\ UNCHANGED <<attempts, status, dirs, call>> /\ run[r].pc = "continue"
        /\ Goto(r, "continued") \/ FailHolding(r, run[r].prev)
    BY <1>7 DEF ContinueOnNewBranch, db
  <2>2. CASE Goto(r, "continued")
    BY <1>on, <2>1, <2>2 DEF RunEffect
  <2> QED
    BY <1>back, <2>1, <2>2
<1>8. CASE RecordContinued(r)
  <2>0. UNCHANGED <<status, dirs, call>> /\ run[r].pc = "continued"
    BY <1>8 DEF RecordContinued
  <2>1. CASE /\ Fence(r) /\ attempts' = Recorded(attempts, run[r].att, run[r].path)
             /\ \/ Becomes(r, [run[r] EXCEPT !.pc = "agent", !.rec = run[r].att])
                \/ FailHolding(r, run[r].att)
    BY <1>rec, <2>0, <2>1
  <2>2. CASE UNCHANGED attempts /\ FailHolding(r, run[r].prev)
    BY <1>back, <2>0, <2>2
  <2> QED
    BY <1>8, <2>1, <2>2 DEF RecordContinued
<1>9. CASE RunAgent(r) \/ StopAgent(r)
  <2>1. /\ UNCHANGED <<attempts, status, dirs, call>> /\ run[r].pc = "agent"
        /\ \/ Goto(r, "inspect")
           \/ \E failure \in {"retryable", "final", "cancelled"} : FailWith(r, failure)
    BY <1>9 DEF RunAgent, StopAgent, db, disk
  <2> QED
    BY <1>on, <2>1 DEF RunEffect
<1>10. CASE CheckContainment(r)
  <2>1. /\ UNCHANGED <<attempts, status, dirs, call>> /\ run[r].pc = "inspect"
        /\ Goto(r, "verify") \/ FailWith(r, "final")
    BY <1>10 DEF CheckContainment, db, disk
  <2> QED
    BY <1>on, <2>1 DEF RunEffect
<1>11. CASE Verify(r)
  <2> DEFINE s == [run[r] EXCEPT !.pc = "check", !.seen = "VERIFYING"]
  <2>0. /\ UNCHANGED <<attempts, dirs, call>> /\ run[r].pc = "verify"
        /\ \/ Goto(r, "done") /\ UNCHANGED status
           \/ Fence(r) /\ Becomes(r, s) /\ status' = "VERIFYING"
    BY <1>11 DEF Verify, LostAttempt, disk
  <2>1. CASE Goto(r, "done") /\ UNCHANGED status
    BY <1>on, <2>0, <2>1 DEF RunEffect
  <2>2. CASE Fence(r) /\ Becomes(r, s) /\ status' = "VERIFYING"
    <3>1. /\ s.pc = "check" /\ s.att = run[r].att /\ s.rec = run[r].rec
          /\ s.path = run[r].path /\ s.prev = run[r].prev
          /\ s.seen = "VERIFYING" /\ s.open = run[r].open
      BY <1>0 DEF RunState
    <3>2. run'[r] = s /\ OthersStay(r)
      BY <1>become, <2>2
    <3> HIDE DEF s
    <3>3. run[r].open
      BY <1>0, <2>0 DEF Knows
    <3>4. MovesOn(r)
      BY <1>same, <2>0, <2>2, <3>1, <3>2, <3>3 DEF MovesOn, Carries
    <3> QED
      BY <3>4 DEF RunEffect
  <2> QED
    BY <2>0, <2>1, <2>2
<1>12. CASE RunChecks(r)
  <2>1. /\ UNCHANGED <<attempts, status, dirs, call>> /\ run[r].pc = "check"
        /\ \/ Goto(r, "succeed")
           \/ \E failure \in {"retryable", "final", "cancelled"} : FailWith(r, failure)
    BY <1>12 DEF RunChecks, db, disk
  <2> QED
    BY <1>on, <2>1 DEF RunEffect
<1>13. CASE Succeed(r)
  <2> DEFINE s == [run[r] EXCEPT !.pc = "cleanup", !.open = FALSE, !.seen = "SUCCEEDED"]
  <2>0. /\ UNCHANGED <<dirs, call>> /\ run[r].pc = "succeed"
        /\ \/ /\ Fence(r) /\ status = "VERIFYING" /\ status' = "SUCCEEDED"
              /\ attempts' = Finished(attempts, run[r].att, "SUCCEEDED") /\ Becomes(r, s)
           \/ UNCHANGED <<attempts, status>> /\ (Goto(r, "done") \/ FailWith(r, "final"))
    BY <1>13 DEF Succeed, LostAttempt, db, CompareAndSet
  <2>1. CASE UNCHANGED <<attempts, status>> /\ (Goto(r, "done") \/ FailWith(r, "final"))
    BY <1>on, <2>0, <2>1 DEF RunEffect
  <2>2. CASE /\ Fence(r) /\ status = "VERIFYING" /\ status' = "SUCCEEDED"
             /\ attempts' = Finished(attempts, run[r].att, "SUCCEEDED") /\ Becomes(r, s)
    <3>1. /\ s.pc = "cleanup" /\ s.att = run[r].att /\ s.rec = run[r].rec
          /\ s.path = run[r].path /\ s.prev = run[r].prev
      BY <1>0 DEF RunState
    <3>2. run'[r] = s /\ OthersStay(r)
      BY <1>become, <2>2
    <3> HIDE DEF s
    <3>3. /\ Len(attempts') = Len(attempts)
          /\ \A n \in 1..Len(attempts) :
               /\ attempts'[n].owner = attempts[n].owner
               /\ attempts'[n].path = attempts[n].path
               /\ attempts'[n].worktree = attempts[n].worktree
      BY <1>0, <1>words, <2>2, FinishedRows
    <3>4. Succeeds(r)
      BY <2>0, <2>2, <3>1, <3>2, <3>3 DEF Succeeds, SameWork, Carries, Latest
    <3> QED
      BY <3>4 DEF RunEffect
  <2> QED
    BY <2>0, <2>1, <2>2
<1>mark. ASSUME NEW mark \in WorktreeStatuses,
                attempts' = Marked(attempts, {run[r].rec}, mark)
         PROVE  Marks({run[r].rec}, mark)
  <2>1. /\ Len(attempts') = Len(attempts)
        /\ \A n \in 1..Len(attempts) :
             /\ attempts'[n].owner = attempts[n].owner
             /\ attempts'[n].path = attempts[n].path
             /\ attempts'[n].worktree = IF n \in {run[r].rec} THEN mark ELSE attempts[n].worktree
    BY <1>0, <1>mark, MarkedRows
  <2> QED
    BY <2>1 DEF Marks, Latest
<1>14. CASE CleanupAfterSuccess(r)
  <2>0. UNCHANGED <<status, call>> /\ run[r].pc = "cleanup"
    BY <1>14 DEF CleanupAfterSuccess
  <2>1. CASE UNCHANGED <<dirs, attempts>> /\ Goto(r, "done")
    BY <1>on, <2>0, <2>1 DEF RunEffect
  <2>2. CASE dirs' = dirs \ {run[r].path} /\ UNCHANGED attempts /\ Goto(r, "cleaned")
    BY <1>same, <1>go, <2>0, <2>2 DEF Cleans, RunEffect
  <2>3. CASE /\ attempts' = Marked(attempts, {run[r].rec}, "RETAINED")
             /\ UNCHANGED dirs /\ Goto(r, "done")
    BY <1>words, <1>mark, <1>go, <2>0, <2>3 DEF Keeps, RunEffect
  <2> QED
    BY <1>14, <2>1, <2>2, <2>3 DEF CleanupAfterSuccess
<1>15. CASE RecordRemoval(r)
  <2>0. /\ UNCHANGED <<status, dirs, call>> /\ run[r].pc = "cleaned" /\ Goto(r, "done")
        /\ attempts' = Marked(attempts, {run[r].rec}, "REMOVED")
    BY <1>15 DEF RecordRemoval, disk
  <2> QED
    BY <1>words, <1>mark, <1>go, <2>0 DEF Reports, RunEffect
<1>16. CASE Fail(r)
  <2>1. /\ UNCHANGED <<attempts, status, dirs, call>> /\ run[r].pc = "fail"
        /\ \E pc \in {"cancel", "retry", "end"} : Goto(r, pc)
    BY <1>16 DEF Fail, db, disk
  <2> QED
    BY <1>on, <2>1 DEF RunEffect
<1>ended. ASSUME NEW outcome \in AttemptStatuses, NEW mark \in WorktreeStatuses,
                 attempts' = Finished(Marked(attempts, {run[r].rec}, mark), run[r].att, outcome)
          PROVE  Marks({run[r].rec}, mark)
  <2> DEFINE marked == Marked(attempts, {run[r].rec}, mark)
  <2>1. /\ marked \in Seq(Attempt) /\ Len(marked) = Len(attempts)
        /\ \A n \in 1..Len(attempts) :
             /\ marked[n].owner = attempts[n].owner
             /\ marked[n].path = attempts[n].path
             /\ marked[n].worktree = IF n \in {run[r].rec} THEN mark ELSE attempts[n].worktree
    BY <1>0, MarkedRows
  <2> HIDE DEF marked
  <2>2. attempts' = Finished(marked, run[r].att, outcome)
    BY <1>ended DEF marked
  <2>3. /\ Len(attempts') = Len(marked)
        /\ \A n \in 1..Len(marked) :
             /\ attempts'[n].owner = marked[n].owner
             /\ attempts'[n].path = marked[n].path
             /\ attempts'[n].worktree = marked[n].worktree
    BY <2>1, <2>2, FinishedRows
  <2> QED
    BY <2>1, <2>3 DEF Marks, Latest
<1>17. CASE ScheduleRetry(r)
  <2> DEFINE s == [run[r] EXCEPT !.pc = "claim", !.seen = "READY", !.open = FALSE,
                                 !.prev = run[r].rec]
  <2>0. /\ UNCHANGED <<dirs, call>> /\ run[r].pc = "retry"
        /\ \/ /\ Fence(r) /\ status' = "READY" /\ Becomes(r, s)
              /\ attempts' = Finished(Marked(attempts, {run[r].rec}, "REUSED"),
                                      run[r].att, "FAILED")
           \/ UNCHANGED <<attempts, status>> /\ (Goto(r, "done") \/ Goto(r, "end"))
    BY <1>17 DEF ScheduleRetry, LostAttempt, db
  <2>1. CASE UNCHANGED <<attempts, status>> /\ (Goto(r, "done") \/ Goto(r, "end"))
    BY <1>on, <2>0, <2>1 DEF RunEffect
  <2>2. CASE /\ Fence(r) /\ status' = "READY" /\ Becomes(r, s)
             /\ attempts' = Finished(Marked(attempts, {run[r].rec}, "REUSED"),
                                     run[r].att, "FAILED")
    <3>1. /\ s.pc = "claim" /\ s.att = run[r].att /\ s.rec = run[r].rec
          /\ s.path = run[r].path /\ s.prev = run[r].rec
      BY <1>0 DEF RunState
    <3>2. run'[r] = s /\ OthersStay(r)
      BY <1>become, <2>2
    <3> HIDE DEF s
    <3>3. Marks({run[r].rec}, "REUSED")
      BY <1>words, <1>ended, <2>2
    <3>4. HandsOver(r)
      BY <2>0, <2>2, <3>1, <3>2, <3>3 DEF HandsOver
    <3> QED
      BY <3>4 DEF RunEffect
  <2> QED
    BY <2>0, <2>1, <2>2
<1>18. CASE EndAttempt(r)
  <2>0. /\ UNCHANGED <<dirs, call>> /\ run[r].pc \in {"end", "cancel"}
        /\ \/ \E outcome \in {"FAILED", "CANCELLED"} :
                /\ Fence(r) /\ status' = outcome
                /\ attempts' = Finished(Marked(attempts, {run[r].rec}, "RETAINED"),
                                        run[r].att, outcome)
                /\ Becomes(r, [run[r] EXCEPT !.pc = "done", !.open = FALSE, !.seen = outcome])
           \/ UNCHANGED <<attempts, status>> /\ Goto(r, "done")
    BY <1>18 DEF EndAttempt, LostAttempt, db, disk
  <2>1. CASE UNCHANGED <<attempts, status>> /\ Goto(r, "done")
    BY <1>on, <2>0, <2>1 DEF RunEffect
  <2>2. ASSUME NEW outcome \in {"FAILED", "CANCELLED"}, Fence(r), status' = outcome,
               attempts' = Finished(Marked(attempts, {run[r].rec}, "RETAINED"),
                                    run[r].att, outcome),
               Becomes(r, [run[r] EXCEPT !.pc = "done", !.open = FALSE, !.seen = outcome])
        PROVE  RunEffect(r)
    <3> DEFINE s == [run[r] EXCEPT !.pc = "done", !.open = FALSE, !.seen = outcome]
    <3>1. /\ s.pc = "done" /\ s.att = run[r].att /\ s.rec = run[r].rec
          /\ s.path = run[r].path /\ s.prev = run[r].prev
      BY <1>0 DEF RunState
    <3>2. run'[r] = s /\ OthersStay(r)
      BY <1>become, <2>2
    <3> HIDE DEF s
    <3>3. Marks({run[r].rec}, "RETAINED")
      BY <1>words, <1>ended, <2>2
    <3>4. Ends(r)
      BY <2>0, <2>2, <3>1, <3>2, <3>3 DEF Ends, Carries
    <3> QED
      BY <3>4 DEF RunEffect
  <2> QED
    BY <2>0, <2>1, <2>2
<1>19. CASE Crash(r) \/ DatabaseError(r)
  <2>1. /\ UNCHANGED <<attempts, status, dirs, call>>
        /\ Goto(r, "done") \/ Goto(r, "dead")
    BY <1>19 DEF Crash, DatabaseError, db, disk
  <2> QED
    BY <1>on, <2>1 DEF RunEffect
<1> QED
  BY <1>1, <1>2, <1>3, <1>4, <1>5, <1>6, <1>7, <1>8, <1>9, <1>10, <1>11, <1>12,
     <1>13, <1>14, <1>15, <1>16, <1>17, <1>18, <1>19, Zenon DEF Proceed

(* What each step of a call does to them. *)
LEMMA CallEffects ==
  ASSUME Inv, NEW c \in Callers, Recover(c) \/ CancelStep(c) \/ RemoveStep(c)
  PROVE  CallEffect(c)
<1>0. /\ call \in [Callers -> CallState] /\ call[c] \in CallState
      /\ attempts \in Seq(Attempt) /\ Latest \in Nat /\ Latest = Len(attempts)
  BY TypeParts DEF Inv, TypeOK, Latest
<1>same. UNCHANGED attempts => SameWork
  BY DEF SameWork, Latest
<1>become. ASSUME NEW s, call' = [call EXCEPT ![c] = s] PROVE call'[c] = s /\ CallsStay(c)
  BY <1>0, <1>become DEF CallsStay
<1>return. ASSUME Return(c) PROVE call'[c].pc \in {"idle", "done"} /\ CallsStay(c)
  <2>1. NewCall.pc = "idle" /\ [call[c] EXCEPT !.pc = "done"].pc = "done"
    BY <1>0 DEF NewCall, CallState
  <2> QED
    BY <1>become, <1>return, <2>1 DEF Return
<1>1. CASE Recover(c) \/ ReadForCancel(c)
  <2> DEFINE s == [call[c] EXCEPT !.pc = "read"]
             t == [call[c] EXCEPT !.pc = "tx", !.seen = status]
  <2>1. /\ UNCHANGED <<attempts, status, dirs, run>>
        /\ Return(c) \/ call' = [call EXCEPT ![c] = s] \/ call' = [call EXCEPT ![c] = t]
    BY <1>1 DEF Recover, ReadForCancel, db, disk
  <2>2. s.pc = "read" /\ t.pc = "tx"
    BY <1>0 DEF CallState
  <2> HIDE DEF s, t
  <2>3. call'[c].pc \in {"idle", "done", "read", "tx"} /\ CallsStay(c)
    BY <1>return, <1>become, <2>1, <2>2
  <2> QED
    BY <1>same, <2>1, <2>3 DEF GoesOn, CallEffect
<1>2. CASE Cancel(c)
  <2> DEFINE s == [call[c] EXCEPT !.pc = "stop"]
             t == [call[c] EXCEPT !.tries = call[c].tries + 1, !.pc = "read"]
  <2>0. s.pc = "stop" /\ t.pc = "read"
    BY <1>0 DEF CallState
  <2>1. CASE CompareAndSet(call[c].seen)
    <3>1. /\ UNCHANGED <<dirs, run>> /\ status' = "CANCELLED" /\ attempts' = CancelledRows
          /\ call' = [call EXCEPT ![c] = s]
          /\ status \in Statuses /\ ~Terminal(status)
      BY <1>2, <2>1 DEF Cancel, disk, Inv, CallKnows, CompareAndSet
    <3> HIDE DEF s, t
    <3>2. call'[c].pc = "stop" /\ CallsStay(c)
      BY <1>become, <2>0, <3>1
    <3>3. /\ Len(attempts') = Latest
          /\ \A n \in 1..Latest :
               /\ attempts'[n].owner = attempts[n].owner
               /\ attempts'[n].path = attempts[n].path
               /\ attempts'[n].worktree =
                    IF attempts[n].worktree = "ACTIVE" THEN "RETAINED" ELSE attempts[n].worktree
      BY <1>0, <3>1, CancelledRowsEnd
    <3>4. CancelsTask(c)
      BY <3>1, <3>2, <3>3 DEF CancelsTask, Latest
    <3> QED
      BY <3>4 DEF CallEffect
  <2>2. CASE ~CompareAndSet(call[c].seen)
    <3>1. /\ UNCHANGED <<attempts, status, dirs, run>>
          /\ Return(c) \/ call' = [call EXCEPT ![c] = t]
      BY <1>2, <2>2 DEF Cancel, db, disk
    <3> HIDE DEF s, t
    <3>2. call'[c].pc \in {"idle", "done", "read"} /\ CallsStay(c)
      BY <1>return, <1>become, <2>0, <3>1
    <3> QED
      BY <1>same, <3>1, <3>2 DEF GoesOn, CallEffect
  <2> QED
    BY <2>1, <2>2
<1>3. CASE StopLocalRun(c)
  BY <1>return, <1>same, <1>3 DEF StopLocalRun, db, disk, GoesOn, CallEffect
<1>4. CASE CheckRemovable(c)
  <2> DEFINE s == [call[c] EXCEPT !.pc = "lookup"]
  <2>1. /\ UNCHANGED <<attempts, status, dirs, run>> /\ c \in Removers
        /\ Return(c) \/ call' = [call EXCEPT ![c] = s]
    BY <1>4 DEF CheckRemovable, db, disk
  <2>2. s.pc = "lookup"
    BY <1>0 DEF CallState
  <2> HIDE DEF s
  <2>3. call'[c].pc \in {"idle", "done", "lookup"} /\ CallsStay(c)
    BY <1>return, <1>become, <2>1, <2>2
  <2> QED
    BY <1>same, <2>1, <2>3 DEF GoesOn, CallEffect
<1>5. CASE LookupWorktree(c)
  <2> DEFINE s == [call[c] EXCEPT !.pc = "remove", !.target = Latest,
                                  !.path = attempts[Latest].path]
  <2>1. UNCHANGED <<attempts, status, dirs, run>> /\ call[c].pc = "lookup"
    BY <1>5 DEF LookupWorktree, db, disk
  <2>2. CASE Return(c)
    BY <1>return, <1>same, <2>1, <2>2 DEF GoesOn, CallEffect
  <2>3. CASE ~Return(c)
    <3>1. HasRow(Latest) /\ Named(Latest) /\ call' = [call EXCEPT ![c] = s]
      BY <1>0, <1>5, <2>3 DEF LookupWorktree, HasRow, Named
    <3>2. s.pc = "remove" /\ s.target = Latest /\ s.path = attempts[Latest].path
      BY <1>0 DEF CallState
    <3> HIDE DEF s
    <3>3. call'[c] = s /\ CallsStay(c)
      BY <1>become, <3>1
    <3> QED
      BY <1>same, <2>1, <3>1, <3>2, <3>3 DEF Finds, CallEffect
  <2> QED
    BY <2>2, <2>3
<1>6. CASE RemoveDirectory(c)
  <2> DEFINE s == [call[c] EXCEPT !.pc = "mark"]
  <2>1. /\ UNCHANGED <<attempts, status, run>> /\ call[c].pc = "remove"
        /\ \/ dirs' = dirs \ {call[c].path} /\ call' = [call EXCEPT ![c] = s]
           \/ UNCHANGED dirs /\ Return(c)
    BY <1>6 DEF RemoveDirectory, db
  <2>2. CASE UNCHANGED dirs /\ Return(c)
    BY <1>return, <1>same, <2>1, <2>2 DEF GoesOn, CallEffect
  <2>3. CASE dirs' = dirs \ {call[c].path} /\ call' = [call EXCEPT ![c] = s]
    <3>1. s.pc = "mark" /\ s.target = call[c].target /\ s.path = call[c].path
      BY <1>0 DEF CallState
    <3> HIDE DEF s
    <3>2. call'[c] = s /\ CallsStay(c)
      BY <1>become, <2>3
    <3> QED
      BY <1>same, <2>1, <2>3, <3>1, <3>2 DEF RemovesIt, CallEffect
  <2> QED
    BY <2>1, <2>2, <2>3
<1>7. CASE MarkRemoved(c)
  <2>1. /\ UNCHANGED <<status, dirs, run>> /\ call[c].pc = "mark" /\ Return(c)
        /\ attempts' = Marked(attempts, {call[c].target}, "REMOVED")
    BY <1>7 DEF MarkRemoved, disk
  <2>2. "REMOVED" \in WorktreeStatuses
    BY DEF WorktreeStatuses
  <2>3. /\ Len(attempts') = Len(attempts)
        /\ \A n \in 1..Len(attempts) :
             /\ attempts'[n].owner = attempts[n].owner
             /\ attempts'[n].path = attempts[n].path
             /\ attempts'[n].worktree =
                  IF n \in {call[c].target} THEN "REMOVED" ELSE attempts[n].worktree
    BY <1>0, <2>1, <2>2, MarkedRows
  <2>4. Marks({call[c].target}, "REMOVED")
    BY <2>3 DEF Marks, Latest
  <2> QED
    BY <1>return, <2>1, <2>4 DEF MarksIt, CallEffect
<1> QED
  BY <1>1, <1>2, <1>3, <1>4, <1>5, <1>6, <1>7 DEF CancelStep, RemoveStep

(* Every step is one of these, or the task's deletion. *)
LEMMA Effects ==
  ASSUME Inv, [Next]_vars
  PROVE  \/ \E r \in Runs : RunEffect(r)
         \/ \E c \in Callers : CallEffect(c)
         \/ NoEffect
         \/ DeleteTask
<1>0. attempts \in Seq(Attempt) /\ Latest \in Nat /\ Latest = Len(attempts)
  BY TypeParts DEF Inv, TypeOK, Latest
<1>lease. ASSUME NEW n, NEW lease \in {"live", "expired"},
                 attempts' = [attempts EXCEPT ![n].lease = lease]
          PROVE  SameWork
  <2>1. /\ Len(attempts') = Len(attempts)
        /\ \A k \in 1..Len(attempts) : /\ attempts'[k].owner = attempts[k].owner
                                       /\ attempts'[k].worktree = attempts[k].worktree
                                       /\ attempts'[k].path = attempts[k].path
    BY <1>0, <1>lease, LeasedRows
  <2> QED
    BY <2>1 DEF SameWork, Latest
<1>same. UNCHANGED attempts => SameWork
  BY DEF SameWork, Latest
<1>1. ASSUME NEW r \in Runs, WatchForCancel(r) \/ Interrupt(r) PROVE NoEffect
  <2>1. /\ UNCHANGED <<status, dirs, run, call>>
        /\ UNCHANGED attempts \/ attempts' = [attempts EXCEPT ![run[r].att].lease = "live"]
    BY <1>1 DEF WatchForCancel, Interrupt, db, disk
  <2> QED
    BY <1>lease, <1>same, <2>1 DEF NoEffect
<1>2. ASSUME NEW n, LeaseExpires(n) PROVE NoEffect
  <2>1. /\ UNCHANGED <<status, dirs, run, call>>
        /\ attempts' = [attempts EXCEPT ![n].lease = "expired"]
    BY <1>2 DEF LeaseExpires, disk
  <2> QED
    BY <1>lease, <2>1 DEF NoEffect
<1>3. CASE UNCHANGED vars
  BY <1>same, <1>3 DEF NoEffect, vars
<1>4. ASSUME NEW r \in Runs,
             \/ RunTask(r) \/ Proceed(r) \/ RunAgent(r) \/ Crash(r) \/ DatabaseError(r)
      PROVE  RunEffect(r)
  BY <1>4, RunEffects
<1>5. ASSUME NEW c \in Callers, Recover(c) \/ CancelStep(c) \/ RemoveStep(c)
      PROVE  CallEffect(c)
  BY <1>5, CallEffects
<1> QED
  BY <1>1, <1>2, <1>3, <1>4, <1>5, Zenon DEF Next

-----------------------------------------------------------------------------
(*                 Which row names which directory                         *)

(* Attempt n, if it is one, has a worktree row that names this directory. *)
Holds(n, path) ==
  n # 0 => HasRow(n) /\ Named(n) /\ attempts[n].path = path

(* The same, after the step. *)
HoldsNext(n, path) ==
  n # 0 => n \in 1..Latest' /\ attempts'[n].worktree # "none" /\ attempts'[n].path = path

(* Where a run works.  Until its worktree is recorded, no row is its own;   *)
(* once it is, the run has that row.                                        *)
RunWhere(r) ==
  status # Gone =>
    /\ Holds(run[r].rec, run[r].path) /\ Holds(run[r].prev, run[r].path)
    /\ run[r].pc \in Preparing => ~Named(run[r].att) /\ run[r].rec = 0
    /\ run[r].pc \in {"create", "record"} => run[r].prev = 0
    /\ run[r].pc \in {"continue", "continued"} => run[r].prev # 0
    /\ run[r].pc = "record" => run[r].path = run[r].att
    /\ run[r].pc \in InAttempt /\ attempts[run[r].att].worktree = "ACTIVE"
         => run[r].rec = run[r].att

(* A directory is named by the attempt it was made for, and only with it by *)
(* the attempts that continued in it.                                       *)
RowPaths ==
  \A n \in 1..Latest : Named(n) =>
    /\ attempts[n].path \in 1..n
    /\ Named(attempts[n].path)
    /\ attempts[attempts[n].path].path = attempts[n].path

(* What a `worktree remove` looked up. *)
CallWhere(c) ==
  /\ call[c].pc \in {"lookup", "remove", "mark"} => c \in Removers
  /\ call[c].pc \in {"remove", "mark"} /\ status # Gone =>
       /\ HasRow(call[c].target) /\ Named(call[c].target)
       /\ attempts[call[c].target].path = call[c].path

WhereInv ==
  /\ RowPaths
  /\ \A r \in Runs : RunWhere(r)
  /\ \A c \in Callers : CallWhere(c)

(* A step keeps what the rows say, but for row k, which it may record. *)
Persist(k) ==
  /\ Latest' \in Nat /\ Latest <= Latest'
  /\ \A n \in 1..Latest :
       /\ attempts'[n].owner = attempts[n].owner
       /\ Named(n) => attempts'[n].worktree # "none" /\ attempts'[n].path = attempts[n].path
       /\ n # k /\ attempts'[n].worktree # "none" => Named(n)
       /\ n # k /\ attempts'[n].worktree = "ACTIVE" => attempts[n].worktree = "ACTIVE"

LEMMA RunPersists ==
  ASSUME Inv, WhereInv, status # Gone, NEW r \in Runs, RunEffect(r)
  PROVE  \/ Persist(0)
         \/ Records(r) /\ Persist(run[r].att)
<1>0. Latest \in Nat /\ Holds(run[r].rec, run[r].path) /\ RunWhere(r)
  BY TypeParts DEF Inv, WhereInv, RunWhere
<1>1. ASSUME NEW mark \in {"RETAINED", "REMOVED", "REUSED"}, Marks({run[r].rec}, mark)
      PROVE  Persist(0)
  BY <1>0, <1>1 DEF Marks, Persist, Holds, HasRow, Named
<1>2. SameWork => Persist(0)
  BY <1>0 DEF SameWork, Persist, Named
<1>3. CASE Starts(r)
  BY <1>0, <1>3 DEF Starts, Persist, Named
<1>4. CASE Records(r)
  <2>1. ~Named(run[r].att)
    BY <1>0, <1>4 DEF RunWhere, Records, Preparing
  <2> QED
    BY <1>0, <1>4, <2>1 DEF Records, Persist, Named
<1> QED
  BY <1>1, <1>2, <1>3, <1>4 DEF RunEffect, MovesOn, FallsBack, Makes, Discards,
     Succeeds, Cleans, Keeps, Reports, HandsOver, Ends

LEMMA CallPersists ==
  ASSUME Inv, WhereInv, status # Gone, NEW c \in Callers, CallEffect(c)
  PROVE  Persist(0)
<1>0. Latest \in Nat /\ CallWhere(c)
  BY TypeParts DEF Inv, WhereInv
<1>1. SameWork => Persist(0)
  BY <1>0 DEF SameWork, Persist, Named
<1>2. CASE CancelsTask(c)
  BY <1>0, <1>2 DEF CancelsTask, Persist, Named
<1>3. CASE MarksIt(c)
  BY <1>0, <1>3 DEF MarksIt, CallWhere, Marks, Persist, HasRow, Named
<1> QED
  BY <1>1, <1>2, <1>3 DEF CallEffect, Finds, RemovesIt, GoesOn

LEMMA HoldsStay ==
  ASSUME Latest \in Nat, NEW k, Persist(k), NEW n, NEW path, Holds(n, path)
  PROVE  HoldsNext(n, path)
BY DEF Holds, HoldsNext, HasRow, Persist, Named

(* A run that does not move stays where it is. *)
LEMMA RunStays ==
  ASSUME Inv, status # Gone, NEW q \in Runs, RunWhere(q), run'[q] = run[q],
         NEW k, Persist(k), run[q].pc \in InAttempt => run[q].att # k
  PROVE  RunWhere(q)'
<1>1. /\ Latest \in Nat /\ Latest' \in Nat /\ Latest <= Latest'
      /\ run[q].pc \in InAttempt => HasRow(run[q].att)
  BY TypeParts DEF Inv, Persist, Knows, RowsInv, RunOwns
<1>2. HoldsNext(run[q].rec, run[q].path) /\ HoldsNext(run[q].prev, run[q].path)
  BY <1>1, HoldsStay DEF RunWhere
<1>3. (Holds(run[q].rec, run[q].path) /\ Holds(run[q].prev, run[q].path))'
  BY <1>2 DEF Holds, HoldsNext, HasRow, Named
<1>4. run[q].pc \in Preparing => run[q].pc \in InAttempt
  BY DEF Preparing, InAttempt, Claimed
<1>5. /\ run[q].pc \in Preparing => ~Named(run[q].att)'
      /\ run[q].pc \in InAttempt /\ attempts'[run[q].att].worktree = "ACTIVE"
           => run[q].rec = run[q].att
  BY <1>1, <1>4 DEF RunWhere, Persist, HasRow, Named
<1> QED
  BY <1>3, <1>5 DEF RunWhere, Named

(* The run that moves. *)
LEMMA MoverWhere ==
  ASSUME Inv, WhereInv, status # Gone, NEW r \in Runs, RunEffect(r)
  PROVE  RunWhere(r)'
<1>0. /\ Latest \in Nat /\ RunWhere(r) /\ Knows(run[r]) /\ RunOwns(r)
      /\ run[r].att \in Nat /\ run[r].rec \in Nat /\ run[r].prev \in Nat
      /\ run[r].pc \in InAttempt => HasRow(run[r].att)
  <2>1. Latest \in Nat /\ run[r] \in RunState
    BY TypeParts DEF Inv
  <2>2. RunWhere(r) /\ Knows(run[r]) /\ RunOwns(r)
    BY DEF Inv, RowsInv, WhereInv
  <2> QED
    BY <2>1, <2>2 DEF RunState, Knows, RunOwns
<1>held. ASSUME NEW k, Persist(k)
         PROVE  /\ HoldsNext(run[r].rec, run[r].path) /\ HoldsNext(run[r].prev, run[r].path)
  BY <1>0, <1>held, HoldsStay DEF RunWhere
<1>pcs. Preparing \subseteq InAttempt
  BY DEF Preparing, InAttempt, Claimed
<1>1. CASE MovesOn(r)
  <2>1. Persist(0)
    BY <1>0, <1>1 DEF MovesOn, SameWork, Persist, Named
  <2>2. (Holds(run[r].rec, run[r].path) /\ Holds(run[r].prev, run[r].path))'
    BY <1>held, <1>1, <2>1 DEF MovesOn, Carries, Holds, HoldsNext, HasRow, Named
  <2>3. run'[r].pc \in Preparing =>
          /\ run'[r].pc = "continued" /\ run'[r].rec = 0 /\ run'[r].prev # 0
          /\ attempts'[run'[r].att].worktree = "none"
    BY <1>0, <1>1 DEF MovesOn, Carries, SameWork, RunWhere, Preparing, InAttempt, Claimed,
       HasRow, Named
  <2>4. run'[r].pc \in InAttempt /\ attempts'[run'[r].att].worktree = "ACTIVE"
          => run'[r].rec = run'[r].att
    BY <1>0, <1>1 DEF MovesOn, Carries, SameWork, RunWhere, HasRow
  <2> QED
    BY <2>2, <2>3, <2>4 DEF RunWhere, Named, Preparing
<1>2. CASE FallsBack(r)
  <2>1. Persist(0) /\ run[r].pc \in Preparing /\ run[r].pc \in InAttempt
    BY <1>0, <1>2 DEF FallsBack, SameWork, Persist, Named, Preparing, InAttempt, Claimed
  <2>2. (Holds(run[r].rec, run[r].path) /\ Holds(run[r].prev, run[r].path))'
    BY <1>held, <1>2, <2>1 DEF FallsBack, Holds, HoldsNext, HasRow, Named
  <2>3. attempts'[run'[r].att].worktree = "none" /\ run'[r].pc = "fail"
    BY <1>0, <1>2, <2>1 DEF FallsBack, SameWork, RunWhere, HasRow, Named
  <2> QED
    BY <2>2, <2>3 DEF RunWhere, Preparing
<1>3. CASE Starts(r)
  <2>1. Persist(0)
    BY <1>0, <1>3 DEF Starts, Persist, Named
  <2>2. (Holds(run[r].rec, run[r].path) /\ Holds(run[r].prev, run[r].path))'
    BY <1>held, <1>3, <2>1 DEF Starts, Holds, HoldsNext, HasRow, Named
  <2>3. /\ attempts'[run'[r].att].worktree = "none" /\ run'[r].rec = 0
        /\ run'[r].pc \in {"create", "continue"}
        /\ run'[r].pc = "create" <=> run'[r].prev = 0
    BY <1>0, <1>3 DEF Starts
  <2> QED
    BY <2>2, <2>3 DEF RunWhere, Named
<1>4. CASE Makes(r)
  <2>1. /\ run[r].pc \in InAttempt /\ run[r].rec = 0 /\ run[r].prev = 0
        /\ ~Named(run[r].att)
    BY <1>0, <1>4 DEF Makes, RunWhere, Preparing, InAttempt, Claimed
  <2>2. attempts'[run'[r].att].worktree = "none"
    BY <1>0, <1>4, <2>1 DEF Makes, SameWork, HasRow, Named
  <2> QED
    BY <1>4, <2>1, <2>2 DEF Makes, RunWhere, Holds, Named
<1>5. CASE Records(r)
  <2>1. run[r].pc \in InAttempt
    BY <1>5 DEF Records, InAttempt, Claimed
  <2>2. Persist(run[r].att)
    BY <1>5, RunPersists DEF Records, Persist
  <2>3. (Holds(run[r].rec, run[r].path) /\ Holds(run[r].prev, run[r].path))'
    BY <1>0, <1>held, <1>5, <2>1, <2>2 DEF Records, Holds, HoldsNext, HasRow, Named
  <2> QED
    BY <1>5, <2>3 DEF Records, RunWhere, Preparing
<1>6. CASE Discards(r)
  <2>1. Persist(0) /\ run[r].pc \in Preparing /\ run[r].pc \in InAttempt
    BY <1>0, <1>6 DEF Discards, SameWork, Persist, Named, Preparing, InAttempt, Claimed
  <2>2. (Holds(run[r].rec, run[r].path) /\ Holds(run[r].prev, run[r].path))'
    BY <1>held, <1>6, <2>1 DEF Discards, Carries, Holds, HoldsNext, HasRow, Named
  <2>3. attempts'[run'[r].att].worktree = "none" /\ run'[r].pc = "fail"
    BY <1>0, <1>6, <2>1 DEF Discards, Carries, SameWork, RunWhere, HasRow, Named
  <2> QED
    BY <2>2, <2>3 DEF RunWhere, Preparing
<1>7. CASE Succeeds(r) \/ Cleans(r) \/ Keeps(r) \/ Reports(r) \/ Ends(r)
  <2>1. Persist(0)
    BY <1>7, RunPersists DEF RunEffect, Records, Succeeds, Cleans, Keeps, Reports, Ends
  <2>2. Carries(r) /\ run'[r].pc \in {"cleanup", "cleaned", "done"}
    BY <1>7 DEF Succeeds, Cleans, Keeps, Reports, Ends
  <2>3. (Holds(run[r].rec, run[r].path) /\ Holds(run[r].prev, run[r].path))'
    BY <1>held, <2>1, <2>2 DEF Carries, Holds, HoldsNext, HasRow, Named
  <2> QED
    BY <2>2, <2>3 DEF RunWhere, Preparing, InAttempt, Claimed
<1>8. CASE HandsOver(r)
  <2>1. Persist(0)
    BY <1>8, RunPersists DEF RunEffect, Records, HandsOver
  <2>2. (Holds(run[r].rec, run[r].path) /\ Holds(run[r].prev, run[r].path))'
    BY <1>held, <1>8, <2>1 DEF HandsOver, Holds, HoldsNext, HasRow, Named
  <2> QED
    BY <1>8, <2>2 DEF HandsOver, RunWhere, Preparing, InAttempt, Claimed
<1> QED
  BY <1>1, <1>2, <1>3, <1>4, <1>5, <1>6, <1>7, <1>8 DEF RunEffect

(* The rows go on naming what they name. *)
LEMMA PathsPersist ==
  ASSUME RowPaths, Latest \in Nat, Persist(0), Latest' = Latest
  PROVE  RowPaths'
BY DEF RowPaths, Persist, Named

LEMMA PathsStep ==
  ASSUME Inv, WhereInv, status # Gone, NEW r \in Runs, RunEffect(r)
  PROVE  RowPaths'
<1>0. Latest \in Nat /\ RowPaths /\ RunWhere(r) /\ RowsInv /\ run[r].att \in Nat
      /\ run[r].prev \in Nat
  BY TypeParts DEF Inv, WhereInv, RunState
<1>1. CASE Starts(r)
  <2>1. ASSUME NEW n \in 1..Latest', attempts'[n].worktree # "none"
        PROVE  n \in 1..Latest /\ Named(n) /\ attempts'[n] = attempts[n]
    BY <1>0, <1>1, <2>1 DEF Starts, Named
  <2> QED
    BY <1>0, <1>1, <2>1 DEF Starts, RowPaths, Named
<1>2. CASE Records(r)
  <2> DEFINE n == run[r].att
             p == run[r].path
  <2>1. run[r].open /\ n = Latest /\ HasRow(n) /\ ~Named(n)
    <3>1. run[r].open
      BY <1>2 DEF Inv, Knows, Records, InAttempt, Claimed
    <3> QED
      BY <1>0, <1>2, <3>1, FencedIsLatest DEF Records, RunWhere, Preparing
  <2>2. \/ p = n
        \/ p \in 1..n /\ p # n /\ Named(p) /\ attempts[p].path = p
    <3>1. CASE run[r].pc = "record"
      BY <1>0, <3>1 DEF RunWhere
    <3>2. CASE run[r].pc = "continued"
      <4>1. HasRow(run[r].prev) /\ Named(run[r].prev) /\ attempts[run[r].prev].path = p
        BY <1>0, <3>2 DEF RunWhere, Holds
      <4> QED
        BY <1>0, <2>1, <4>1 DEF RowPaths, HasRow
    <3> QED
      BY <1>2, <3>1, <3>2 DEF Records
  <2> HIDE DEF n, p
  <2>3. /\ Latest' = Latest
        /\ \A m \in 1..Latest :
             /\ attempts'[m].path = IF m = n THEN p ELSE attempts[m].path
             /\ attempts'[m].worktree = IF m = n THEN "ACTIVE" ELSE attempts[m].worktree
    BY <1>2 DEF Records, n, p
  <2>4. ASSUME NEW m \in 1..Latest, attempts'[m].worktree # "none"
        PROVE  /\ attempts'[m].path \in 1..m
               /\ attempts'[attempts'[m].path].worktree # "none"
               /\ attempts'[attempts'[m].path].path = attempts'[m].path
    <3>1. CASE m = n
      BY <1>0, <2>1, <2>2, <2>3, <3>1 DEF HasRow, Named
    <3>2. CASE m # n
      <4>1. /\ attempts[m].path \in 1..m /\ Named(attempts[m].path)
            /\ attempts[attempts[m].path].path = attempts[m].path
            /\ attempts'[m].path = attempts[m].path
        BY <1>0, <2>3, <2>4, <3>2 DEF RowPaths, Named
      <4>2. attempts[m].path # n /\ attempts[m].path \in 1..Latest
        BY <1>0, <2>1, <4>1
      <4> QED
        BY <2>3, <4>1, <4>2 DEF Named
    <3> QED
      BY <3>1, <3>2
  <2> QED
    BY <2>3, <2>4 DEF RowPaths, Named
<1>3. CASE ~Starts(r) /\ ~Records(r)
  <2>1. Persist(0)
    BY <1>3, RunPersists
  <2>2. Latest' = Latest
    BY <1>3 DEF RunEffect, MovesOn, FallsBack, Makes, Discards, Succeeds, Cleans, Keeps,
       Reports, HandsOver, Ends, SameWork, Marks
  <2> QED
    BY <1>0, <2>1, <2>2, PathsPersist
<1> QED
  BY <1>1, <1>2, <1>3

(* A deleted task stays deleted, and has no rows. *)
LEMMA GoneStays ==
  ASSUME Inv, Inv', [Next]_vars
  PROVE  /\ status = Gone => status' = Gone
         /\ status' = Gone => Latest' = 0
         /\ DeleteTask => status' = Gone
<1>1. status = Gone => status' = Gone
  BY StatusStep DEF Statuses, Terminal, Gone
<1>2. status' = Gone => Latest' = 0
  BY DEF Inv, RowsInv, RestingRows
<1>3. DeleteTask => status' = Gone
  BY DEF DeleteTask
<1> QED
  BY <1>1, <1>2, <1>3

(* A call that does not move keeps its target. *)
LEMMA CallStays ==
  ASSUME Latest \in Nat, status # Gone, NEW c \in Callers, CallWhere(c), call'[c] = call[c],
         NEW k, Persist(k)
  PROVE  CallWhere(c)'
BY DEF CallWhere, Persist, HasRow, Named

(* Two runs never work for the same attempt. *)
LEMMA OwnAttempts ==
  ASSUME Inv, status # Gone, NEW q \in Runs, NEW r \in Runs, q # r,
         run[q].pc \in InAttempt, run[r].pc \in InAttempt
  PROVE  run[q].att # run[r].att
BY DEF Inv, RowsInv, RunOwns, Knows

LEMMA WhereStep ==
  ASSUME Inv, Inv', WhereInv, [Next]_vars
  PROVE  WhereInv'
<1>0. Latest \in Nat /\ RowPaths /\ (\A r \in Runs : RunWhere(r))
      /\ \A c \in Callers : CallWhere(c)
  BY TypeParts DEF Inv, WhereInv
<1>1. CASE status' = Gone
  <2>1. RowPaths' /\ \A r \in Runs : RunWhere(r)'
    BY <1>1, GoneStays DEF RowPaths, RunWhere
  <2>2. ASSUME NEW c \in Callers,
               call'[c].pc \in {"lookup", "remove", "mark"} => c \in Removers
        PROVE  CallWhere(c)'
    BY <1>1, <2>2 DEF CallWhere
  <2>3. \A c \in Callers : call[c].pc \in {"lookup", "remove", "mark"} => c \in Removers
    BY <1>0 DEF CallWhere
  <2>4. CASE UNCHANGED call
    BY <2>1, <2>2, <2>3, <2>4 DEF WhereInv
  <2>5. ASSUME NEW c \in Callers, CallEffect(c) PROVE WhereInv'
    <3>1. /\ CallsStay(c)
          /\ call'[c].pc \in {"lookup", "remove", "mark"} => c \in Removers
      BY <2>3, <2>5 DEF CallEffect, CancelsTask, Finds, RemovesIt, MarksIt, GoesOn
    <3> QED
      BY <2>1, <2>2, <2>3, <3>1 DEF CallsStay, WhereInv
  <2>6. ASSUME NEW r \in Runs, RunEffect(r) PROVE UNCHANGED call
    BY <2>6 DEF RunEffect, MovesOn, FallsBack, Starts, Makes, Records, Discards,
       Succeeds, Cleans, Keeps, Reports, HandsOver, Ends
  <2>7. NoEffect \/ DeleteTask => UNCHANGED call
    BY DEF NoEffect, DeleteTask
  <2> QED
    BY <2>4, <2>5, <2>6, <2>7, Effects
<1>2. CASE status' # Gone
  <2>0. status # Gone /\ ~DeleteTask
    BY <1>2, GoneStays
  <2>1. ASSUME NEW r \in Runs, RunEffect(r) PROVE WhereInv'
    <3>1. PICK k : Persist(k) /\ (k = 0 \/ (Records(r) /\ k = run[r].att))
      <4>1. Persist(0) \/ (Records(r) /\ Persist(run[r].att))
        BY <2>0, <2>1, RunPersists
      <4> QED
        BY <4>1, Zenon
    <3>2. UNCHANGED call /\ OthersStay(r)
      BY <2>1 DEF RunEffect, MovesOn, FallsBack, Starts, Makes, Records, Discards,
         Succeeds, Cleans, Keeps, Reports, HandsOver, Ends
    <3>3. ASSUME NEW q \in Runs, q # r PROVE RunWhere(q)'
      <4>1. run[q].pc \in InAttempt => run[q].att # k
        <5>1. CASE k = 0
          BY <2>0, <5>1 DEF Inv, RowsInv, RunOwns, Knows, HasRow
        <5>2. CASE Records(r) /\ k = run[r].att
          BY <2>0, <3>3, <5>2, OwnAttempts DEF Records, InAttempt, Claimed
        <5> QED
          BY <3>1, <5>1, <5>2
      <4>2. run'[q] = run[q]
        BY <3>2, <3>3 DEF OthersStay
      <4> QED
        BY <1>0, <2>0, <3>1, <4>1, <4>2, RunStays
    <3>4. RunWhere(r)' /\ RowPaths'
      BY <2>0, <2>1, MoverWhere, PathsStep
    <3>5. \A c \in Callers : CallWhere(c)'
      BY <1>0, <2>0, <3>1, <3>2, CallStays
    <3> QED
      BY <3>3, <3>4, <3>5 DEF WhereInv
  <2>2. ASSUME UNCHANGED run, Persist(0), Latest' = Latest
        PROVE  RowPaths' /\ \A q \in Runs : RunWhere(q)'
    <3>1. \A q \in Runs : run[q].pc \in InAttempt => run[q].att # 0
      BY <2>0 DEF Inv, RowsInv, RunOwns, Knows, HasRow
    <3>2. ASSUME NEW q \in Runs PROVE RunWhere(q)'
      BY <1>0, <2>0, <2>2, <3>1, RunStays
    <3> QED
      BY <1>0, <2>2, <3>2, PathsPersist
  <2>3. ASSUME NEW c \in Callers, CallEffect(c) PROVE WhereInv'
    <3>1. Persist(0) /\ UNCHANGED run /\ Latest' = Latest /\ CallsStay(c)
      BY <2>0, <2>3, CallPersists DEF CallEffect, CancelsTask, Finds, RemovesIt, MarksIt,
         GoesOn, SameWork, Marks
    <3>2. ASSUME NEW d \in Callers, d # c PROVE CallWhere(d)'
      <4>1. call'[d] = call[d]
        BY <3>1, <3>2 DEF CallsStay
      <4> QED
        BY <1>0, <2>0, <3>1, <4>1, CallStays
    <3>3. CallWhere(c)'
      <4>0. CallWhere(c)
        BY <1>0
      <4>1. CASE Finds(c)
        BY <1>0, <4>0, <4>1 DEF CallWhere, Finds, SameWork, HasRow, Named
      <4>2. CASE RemovesIt(c)
        BY <1>0, <4>0, <2>0, <4>2 DEF CallWhere, RemovesIt, SameWork, HasRow, Named
      <4>3. CASE CancelsTask(c) \/ MarksIt(c) \/ GoesOn(c)
        BY <4>3 DEF CallWhere, CancelsTask, MarksIt, GoesOn
      <4> QED
        BY <2>3, <4>1, <4>2, <4>3 DEF CallEffect
    <3> QED
      BY <2>2, <3>1, <3>2, <3>3 DEF WhereInv
  <2>4. CASE NoEffect
    <3>1. Persist(0) /\ UNCHANGED <<run, call>> /\ Latest' = Latest
      BY <1>0, <2>4 DEF NoEffect, SameWork, Persist, Named
    <3>2. \A c \in Callers : CallWhere(c)'
      BY <1>0, <2>0, <3>1, CallStays
    <3> QED
      BY <2>2, <3>1, <3>2 DEF WhereInv
  <2> QED
    BY <2>0, <2>1, <2>3, <2>4, Effects
<1> QED
  BY <1>1, <1>2

-----------------------------------------------------------------------------
(*                     What the worktree rows say                          *)

(* Only the latest attempt's worktree can be ACTIVE, while it is open or    *)
(* when it succeeded; RETAINED is said of tasks that ended.                 *)
MarkInv ==
  \A n \in 1..Latest :
    /\ attempts[n].worktree = "ACTIVE" =>
         n = Latest /\ (Active(status) \/ status = "SUCCEEDED")
    /\ attempts[n].worktree = "RETAINED" => Terminal(status)

(* The run that cleans up is the one that succeeded, and nothing has been   *)
(* retained so far.                                                         *)
CleanInv(r) ==
  run[r].pc \in {"cleanup", "cleaned"} /\ status # Gone =>
    /\ status = "SUCCEEDED" /\ run[r].att = Latest /\ attempts[Latest].owner = r
    /\ \A n \in 1..Latest : attempts[n].worktree # "RETAINED"

(* The holder of the open attempt has seen the status the task has. *)
SeesInv(r) ==
  /\ run[r].pc \in {"check", "succeed"} => run[r].seen = "VERIFYING"
  /\ run[r].pc \in InAttempt /\ Fence(r) => status = run[r].seen

LEMMA MarkStep ==
  ASSUME Inv, Inv', WhereInv, MarkInv, \A q \in Runs : CleanInv(q), [Next]_vars
  PROVE  MarkInv'
<1>0. Latest \in Nat /\ RowsInv /\ \A q \in Runs : Knows(run[q]) /\ RunWhere(q)
  BY TypeParts DEF Inv, WhereInv
<1>1. CASE status' = Gone
  BY <1>1, GoneStays DEF MarkInv
<1>2. CASE status' # Gone
  <2>0. status # Gone /\ ~DeleteTask
    BY <1>2, GoneStays
  <2>same. ASSUME SameWork, UNCHANGED status PROVE MarkInv'
    BY <2>same DEF MarkInv, SameWork
  <2>removed. ASSUME NEW which, Marks(which, "REMOVED"), UNCHANGED status PROVE MarkInv'
    BY <2>removed DEF MarkInv, Marks
  <2>1. ASSUME NEW r \in Runs, RunEffect(r) PROVE MarkInv'
    <3>fenced. Fence(r) /\ run[r].pc \in InAttempt => run[r].att = Latest /\ Active(status)
      BY <1>0, FencedIsLatest DEF Knows
    <3>1. CASE MovesOn(r)
      <4>1. CASE UNCHANGED status
        BY <2>same, <3>1, <4>1 DEF MovesOn
      <4>2. CASE Latest = 0
        BY <3>1, <4>2 DEF MovesOn, SameWork, MarkInv
      <4>3. CASE Fence(r) /\ run[r].open /\ status' = "VERIFYING"
        <5>1. Active(status) /\ Active(status') /\ ~Terminal(status)
          BY <1>0, <4>3, FencedIsLatest DEF Active, Terminal
        <5> QED
          BY <3>1, <5>1 DEF MovesOn, SameWork, MarkInv
      <4> QED
        BY <3>1, <4>1, <4>2, <4>3 DEF MovesOn
    <3>2. CASE FallsBack(r) \/ Makes(r) \/ Discards(r) \/ Cleans(r)
      BY <2>same, <3>2 DEF FallsBack, Makes, Discards, Cleans
    <3>3. CASE Starts(r)
      <4>1. \A n \in 1..Latest : attempts[n].worktree \notin {"ACTIVE", "RETAINED"}
        BY <3>3 DEF Starts, MarkInv, Active, Terminal
      <4> QED
        BY <1>0, <3>3, <4>1 DEF Starts, MarkInv
    <3>4. CASE Records(r)
      <4>1. run[r].att = Latest /\ Active(status)
        BY <3>fenced, <3>4 DEF Records, InAttempt, Claimed
      <4> QED
        BY <1>0, <3>4, <4>1 DEF Records, MarkInv
    <3>5. CASE Succeeds(r)
      BY <1>0, <3>5 DEF Succeeds, SameWork, MarkInv, Active, Terminal
    <3>6. CASE Keeps(r)
      <4>1. status = "SUCCEEDED"
        BY <2>0, <3>6 DEF Keeps, CleanInv
      <4> QED
        BY <1>0, <3>6, <4>1 DEF Keeps, Marks, MarkInv, Terminal
    <3>7. CASE Reports(r)
      BY <2>removed, <3>7 DEF Reports
    <3>8. CASE HandsOver(r) \/ Ends(r)
      <4>1. /\ run[r].att = Latest /\ Active(status) /\ ~Terminal(status)
            /\ run[r].pc \in InAttempt
        BY <3>fenced, <3>8 DEF HandsOver, Ends, InAttempt, Active, Terminal
      <4>2. \A n \in 1..Latest : attempts[n].worktree = "ACTIVE" => n = run[r].rec
        BY <1>0, <2>0, <4>1 DEF MarkInv, RunWhere
      <4>3. \A n \in 1..Latest : attempts[n].worktree # "RETAINED"
        BY <4>1 DEF MarkInv
      <4>4. CASE HandsOver(r)
        BY <1>0, <4>2, <4>3, <4>4 DEF HandsOver, Marks, MarkInv
      <4>5. CASE Ends(r)
        BY <1>0, <4>2, <4>3, <4>5 DEF Ends, Marks, MarkInv, Terminal
      <4> QED
        BY <3>8, <4>4, <4>5
    <3> QED
      BY <2>1, <3>1, <3>2, <3>3, <3>4, <3>5, <3>6, <3>7, <3>8 DEF RunEffect
  <2>2. ASSUME NEW c \in Callers, CallEffect(c) PROVE MarkInv'
    <3>1. CASE CancelsTask(c)
      BY <1>0, <3>1 DEF CancelsTask, MarkInv, Terminal
    <3> QED
      BY <2>same, <2>removed, <2>2, <3>1 DEF CallEffect, Finds, RemovesIt, MarksIt, GoesOn
  <2>3. CASE NoEffect
    BY <2>same, <2>3 DEF NoEffect
  <2> QED
    BY <2>0, <2>1, <2>2, <2>3, Effects
<1> QED
  BY <1>1, <1>2

LEMMA CleanStep ==
  ASSUME Inv, Inv', MarkInv, \A q \in Runs : CleanInv(q), [Next]_vars, NEW q \in Runs
  PROVE  CleanInv(q)'
<1>0. Latest \in Nat /\ RowsInv /\ \A r \in Runs : Knows(run[r])
  BY TypeParts DEF Inv
<1> SUFFICES ASSUME status' # Gone, run'[q].pc \in {"cleanup", "cleaned"}
             PROVE  CleanInv(q)'
  BY DEF CleanInv
<1>1. status # Gone /\ ~DeleteTask
  BY GoneStays
<1>2. status = "SUCCEEDED" => status' = "SUCCEEDED"
  BY StatusStep DEF Transitions, Terminal, Gone
(* A run that was cleaning up is undisturbed when no row becomes RETAINED. *)
<1>3. ASSUME run[q].pc \in {"cleanup", "cleaned"}, run'[q].att = run[q].att,
             SameWork \/ \E which : Marks(which, "REMOVED")
      PROVE  CleanInv(q)'
  <2>1. /\ status' = "SUCCEEDED" /\ run[q].att = Latest /\ attempts[Latest].owner = q
        /\ \A n \in 1..Latest : attempts[n].worktree # "RETAINED"
    BY <1>1, <1>2, <1>3 DEF CleanInv
  <2>2. /\ Latest' = Latest
        /\ \A n \in 1..Latest :
             /\ attempts'[n].owner = attempts[n].owner
             /\ attempts'[n].worktree \in {attempts[n].worktree, "REMOVED"}
    BY <1>3 DEF SameWork, Marks
  <2>3. Latest > 0
    BY <1>0, <1>1, <1>3, <2>1 DEF RowsInv, SuccessIsVerified, CleanInv
  <2> QED
    BY <1>0, <1>3, <2>1, <2>2, <2>3 DEF CleanInv
<1>4. ASSUME NEW r \in Runs, RunEffect(r) PROVE CleanInv(q)'
  <2>fenced. Fence(r) /\ run[r].pc \in InAttempt =>
               /\ run[r].att = Latest /\ Active(status)
               /\ HasRow(Latest) /\ attempts[Latest].owner = r
    BY <1>0, FencedIsLatest DEF Knows, Fence
  <2>1. CASE q = r
    <3>1. Succeeds(r) \/ Cleans(r)
      BY <1>4, <2>1 DEF RunEffect, MovesOn, FallsBack, Starts, Makes, Records, Discards,
         Keeps, Reports, HandsOver, Ends
    <3>2. CASE Succeeds(r)
      <4>1. run[r].att = Latest /\ HasRow(Latest) /\ attempts[Latest].owner = r
        BY <2>fenced, <3>2 DEF Succeeds, InAttempt
      <4>2. \A n \in 1..Latest : attempts[n].worktree # "RETAINED"
        BY <3>2 DEF Succeeds, MarkInv, Terminal
      <4> QED
        BY <2>1, <3>2, <4>1, <4>2 DEF Succeeds, SameWork, Carries, CleanInv, HasRow
    <3>3. CASE Cleans(r)
      BY <1>3, <2>1, <3>3 DEF Cleans, Carries
    <3> QED
      BY <3>1, <3>2, <3>3
  <2>2. CASE q # r
    <3>1. run'[q] = run[q]
      BY <1>4, <2>2 DEF RunEffect, MovesOn, FallsBack, Starts, Makes, Records, Discards,
         Succeeds, Cleans, Keeps, Reports, HandsOver, Ends, OthersStay
    <3>2. status = "SUCCEEDED" /\ attempts[Latest].owner = q
      BY <1>1, <3>1 DEF CleanInv
    <3>3. ~Starts(r) /\ ~Records(r) /\ ~HandsOver(r) /\ ~Ends(r)
      BY <2>fenced, <3>2 DEF Starts, Records, HandsOver, Ends, InAttempt, Claimed, Active
    <3>4. ~Keeps(r)
      BY <1>1, <2>2, <3>2 DEF Keeps, CleanInv
    <3>5. SameWork \/ \E which : Marks(which, "REMOVED")
      BY <1>4, <3>3, <3>4 DEF RunEffect, MovesOn, FallsBack, Makes, Discards, Succeeds,
         Cleans, Reports
    <3> QED
      BY <1>3, <3>1, <3>5
  <2> QED
    BY <2>1, <2>2
<1>5. ASSUME UNCHANGED run, SameWork \/ \E which : Marks(which, "REMOVED")
      PROVE  CleanInv(q)'
  BY <1>3, <1>5
<1>6. ASSUME NEW c \in Callers, CallEffect(c) PROVE CleanInv(q)'
  <2>1. UNCHANGED run
    BY <1>6 DEF CallEffect, CancelsTask, Finds, RemovesIt, MarksIt, GoesOn
  <2>2. ~CancelsTask(c)
    BY <1>1, <2>1 DEF CleanInv, CancelsTask, Terminal
  <2>3. SameWork \/ \E which : Marks(which, "REMOVED")
    BY <1>6, <2>2 DEF CallEffect, Finds, RemovesIt, MarksIt, GoesOn
  <2> QED
    BY <1>5, <2>1, <2>3
<1>7. NoEffect => CleanInv(q)'
  BY <1>5 DEF NoEffect
<1> QED
  BY <1>1, <1>4, <1>6, <1>7, Effects

(* A run that holds its attempt after a step held it before: nobody is given *)
(* an attempt back.                                                         *)
LEMMA FenceBefore ==
  ASSUME Inv, Inv', [Next]_vars, NEW q \in Runs, run[q].pc \in InAttempt,
         run'[q].open, run'[q].att = run[q].att, Fence(q)'
  PROVE  /\ Fence(q) /\ run[q].open /\ run[q].att = Latest /\ Active(status)
         /\ Active(status') /\ attempts[Latest].owner = q /\ HasRow(Latest)
<1>0. RowsInv /\ run[q].open /\ RowsInv'
  BY DEF Inv, Knows
<1>1. /\ run[q].att \in 1..Latest' /\ attempts'[run[q].att].status = "RUNNING"
      /\ run[q].att = Latest' /\ Active(status')
  BY <1>0 DEF Fence, HasRow, RowsInv, OneOpenAttempt
<1>2. status # Gone /\ status' # Gone
  BY <1>1, GoneStays DEF Active, Gone
<1>3. /\ HasRow(run[q].att) /\ attempts[run[q].att].owner = q
      /\ attempts[run[q].att].status \in {"RUNNING", "CANCELLED"}
  BY <1>0, <1>2 DEF RowsInv, RunOwns
<1>4. status \notin {"PENDING", "WAITING_APPROVAL", "READY"}
  BY <1>0, <1>3 DEF RowsInv, RestingRows, HasRow
<1>5. ~Terminal(status)
  BY <1>1, <1>2, StatusStep DEF Terminal, Transitions, Active
<1>6. status \in Statuses
  BY <1>2, TypeParts DEF Inv, TypeOK
<1>7. Active(status)
  BY <1>4, <1>5, <1>6 DEF Statuses, Active, Terminal
<1>8. Latest \in Nat
  BY TypeParts DEF Inv
<1>9. attempts[run[q].att].status = "RUNNING" /\ run[q].att = Latest
  <2>1. Latest' \in Nat /\ Latest' <= Latest /\ Latest \in 1..Latest
    BY <1>1, <1>3, <1>8 DEF HasRow
  <2>2. Latest' >= Latest
    <3>1. SameWork \/ (\E which, mark : Marks(which, mark)) \/ Latest' = Latest \/ Latest' = Latest + 1
      BY <1>2, Effects, GoneStays DEF RunEffect, MovesOn, FallsBack, Starts, Makes, Records, Discards,
         Succeeds, Cleans, Keeps, Reports, HandsOver, Ends, CallEffect, CancelsTask, Finds,
         RemovesIt, MarksIt, GoesOn, NoEffect
    <3> QED
      BY <1>8, <3>1 DEF SameWork, Marks
  <2>3. run[q].att = Latest
    BY <1>1, <1>8, <2>1, <2>2
  <2> QED
    BY <1>0, <1>7, <2>1, <2>3 DEF RowsInv, OneOpenAttempt
<1> QED
  BY <1>0, <1>1, <1>3, <1>7, <1>9 DEF Fence

LEMMA SeesStep ==
  ASSUME Inv, Inv', \A r \in Runs : SeesInv(r), [Next]_vars, NEW q \in Runs
  PROVE  SeesInv(q)'
<1>0. Latest \in Nat /\ RowsInv /\ SeesInv(q) /\ Knows(run[q])
  BY TypeParts DEF Inv
<1>open. run'[q].pc \in InAttempt => run'[q].open
  BY DEF Inv, Knows
<1>words. {"check", "succeed"} \subseteq InAttempt
  BY DEF InAttempt
(* A run that does not look again, in a step that leaves the status of an   *)
(* open attempt alone.                                                      *)
<1>1. ASSUME run'[q].pc = run[q].pc, run'[q].seen = run[q].seen, run'[q].att = run[q].att,
             Fence(q) /\ run[q].open /\ Active(status) /\ Active(status') => UNCHANGED status
      PROVE  SeesInv(q)'
  <2>1. run'[q].pc \in {"check", "succeed"} => run'[q].seen = "VERIFYING"
    BY <1>0, <1>1 DEF SeesInv
  <2>2. ASSUME run'[q].pc \in InAttempt, Fence(q)' PROVE status' = run'[q].seen
    <3>1. Fence(q) /\ run[q].open /\ Active(status) /\ Active(status')
      BY <1>1, <1>open, <2>2, FenceBefore
    <3> QED
      BY <1>0, <1>1, <2>2, <3>1 DEF SeesInv
  <2> QED
    BY <2>1, <2>2 DEF SeesInv
<1>2. ASSUME NEW r \in Runs, RunEffect(r), r # q PROVE SeesInv(q)'
  <2>1. run'[q] = run[q]
    BY <1>2 DEF RunEffect, MovesOn, FallsBack, Starts, Makes, Records, Discards,
       Succeeds, Cleans, Keeps, Reports, HandsOver, Ends, OthersStay
  <2>2. ASSUME Fence(q), run[q].open, Active(status), Active(status') PROVE UNCHANGED status
    <3>1. attempts[Latest].owner = q /\ Latest # 0
      BY <1>0, <2>2, FencedIsLatest DEF Fence, HasRow
    <3>2. ~(Fence(r) /\ run[r].open)
      BY <1>0, <1>2, <3>1, FencedIsLatest DEF Fence
    <3> QED
      BY <1>2, <2>2, <3>1, <3>2 DEF RunEffect, MovesOn, FallsBack, Starts, Makes, Records,
         Discards, Succeeds, Cleans, Keeps, Reports, HandsOver, Ends, Active
  <2> QED
    BY <1>1, <2>1, <2>2
<1>3. ASSUME RunEffect(q) PROVE SeesInv(q)'
  <2>1. CASE MovesOn(q)
    <3>1. run'[q].pc \in {"check", "succeed"} => run'[q].seen = "VERIFYING"
      BY <1>0, <1>words, <2>1 DEF MovesOn, SeesInv
    <3>2. ASSUME run'[q].pc \in InAttempt, Fence(q)' PROVE status' = run'[q].seen
      <4>1. Fence(q)
        BY <1>open, <2>1, <3>2, FenceBefore DEF MovesOn, Carries
      <4> QED
        BY <1>0, <2>1, <3>2, <4>1 DEF MovesOn, SeesInv
    <3> QED
      BY <3>1, <3>2 DEF SeesInv
  <2>2. CASE FallsBack(q) \/ Makes(q) \/ Records(q) \/ Discards(q)
    <3>1. /\ run[q].pc \in InAttempt /\ run'[q].pc \notin {"check", "succeed"}
          /\ UNCHANGED status /\ run'[q].seen = run[q].seen /\ run'[q].att = run[q].att
      BY <2>2 DEF FallsBack, Makes, Records, Discards, Carries, InAttempt, Claimed
    <3>2. ASSUME run'[q].pc \in InAttempt, Fence(q)' PROVE status' = run'[q].seen
      <4>1. Fence(q)
        BY <1>open, <3>1, <3>2, FenceBefore
      <4> QED
        BY <1>0, <3>1, <4>1 DEF SeesInv
    <3> QED
      BY <3>1, <3>2 DEF SeesInv
  <2>3. CASE Starts(q)
    BY <2>3 DEF Starts, SeesInv
  <2>4. CASE Succeeds(q) \/ Cleans(q) \/ Keeps(q) \/ Reports(q) \/ HandsOver(q) \/ Ends(q)
    <3>1. run'[q].pc \notin InAttempt
      BY <2>4 DEF Succeeds, Cleans, Keeps, Reports, HandsOver, Ends, InAttempt, Claimed
    <3> QED
      BY <1>words, <3>1 DEF SeesInv
  <2> QED
    BY <1>3, <2>1, <2>2, <2>3, <2>4 DEF RunEffect
<1>4. ASSUME UNCHANGED run, UNCHANGED status \/ ~Active(status') PROVE SeesInv(q)'
  BY <1>1, <1>4
<1>5. ASSUME NEW c \in Callers, CallEffect(c) PROVE SeesInv(q)'
  BY <1>4, <1>5 DEF CallEffect, CancelsTask, Finds, RemovesIt, MarksIt, GoesOn, Active
<1>6. NoEffect \/ DeleteTask => SeesInv(q)'
  BY <1>4 DEF NoEffect, DeleteTask, Active, Gone
<1> QED
  BY <1>2, <1>3, <1>5, <1>6, Effects

-----------------------------------------------------------------------------
(*                    Rows that say REMOVED are true                       *)

(* A directory that is removed stays so until the row says it, and after. *)
GoneInv ==
  /\ RemovedIsGone
  /\ \A r \in Runs : status # Gone /\ run[r].pc = "cleaned" /\ run[r].rec # 0
                       => run[r].path \notin dirs
  /\ \A c \in Callers : status # Gone /\ call[c].pc = "mark" => call[c].path \notin dirs

(* No directory is made under the name of one that a row names. *)
LEMMA NeverRemade ==
  ASSUME Inv, WhereInv, status # Gone, [Next]_vars,
         NEW n, HasRow(n), Named(n), attempts[n].path \notin dirs
  PROVE  attempts[n].path \notin dirs'
<1>1. ASSUME NEW r \in Runs, Makes(r) PROVE attempts[n].path # run[r].att
  <2>1. ~Named(run[r].att)
    BY <1>1 DEF Makes, WhereInv, RunWhere, Preparing
  <2>2. Named(attempts[n].path)
    BY DEF WhereInv, RowPaths, HasRow
  <2> QED
    BY <2>1, <2>2
<1>2. \/ dirs' \subseteq dirs
      \/ \E r \in Runs : Makes(r) /\ dirs' = dirs \cup {run[r].att}
  <2>1. ASSUME NEW r \in Runs, RunEffect(r)
        PROVE  dirs' \subseteq dirs \/ (Makes(r) /\ dirs' = dirs \cup {run[r].att})
    BY <2>1 DEF RunEffect, MovesOn, FallsBack, Starts, Makes, Records, Discards,
       Succeeds, Cleans, Keeps, Reports, HandsOver, Ends
  <2>2. ASSUME NEW c \in Callers, CallEffect(c) PROVE dirs' \subseteq dirs
    BY <2>2 DEF CallEffect, CancelsTask, Finds, RemovesIt, MarksIt, GoesOn
  <2>3. NoEffect \/ DeleteTask => dirs' \subseteq dirs
    BY DEF NoEffect, DeleteTask, disk
  <2> QED
    BY <2>1, <2>2, <2>3, Effects
<1> QED
  BY <1>1, <1>2

LEMMA GoneStep ==
  ASSUME Inv, Inv', WhereInv, GoneInv, [Next]_vars
  PROVE  GoneInv'
<1>0. /\ Latest \in Nat /\ RemovedIsGone
      /\ \A r \in Runs : RunWhere(r) /\ (status # Gone => Holds(run[r].rec, run[r].path))
      /\ \A c \in Callers : CallWhere(c)
  BY TypeParts DEF Inv, WhereInv, GoneInv, RunWhere
<1>1. CASE status' = Gone
  BY <1>1, GoneStays DEF GoneInv, RemovedIsGone
<1>2. CASE status' # Gone
  <2>0. status # Gone /\ ~DeleteTask
    BY <1>2, GoneStays
  <2>gone. \A n \in 1..Latest : Named(n) /\ attempts[n].path \notin dirs
                                  => attempts[n].path \notin dirs'
    BY <2>0, NeverRemade DEF HasRow
  (* A row that says so already, a run or a call that is about to. *)
  <2>row. ASSUME NEW n \in 1..Latest, attempts[n].worktree = "REMOVED"
          PROVE  attempts[n].path \notin dirs'
    BY <1>0, <2>gone, <2>row DEF RemovedIsGone, Named
  <2>run. ASSUME NEW r \in Runs, run[r].pc = "cleaned", run[r].rec # 0
          PROVE  /\ run[r].path \notin dirs' /\ HasRow(run[r].rec)
                 /\ attempts[run[r].rec].path = run[r].path
    <3>1. HasRow(run[r].rec) /\ Named(run[r].rec) /\ attempts[run[r].rec].path = run[r].path
      BY <1>0, <2>0, <2>run DEF Holds
    <3>2. run[r].path \notin dirs
      BY <2>0, <2>run DEF GoneInv
    <3> QED
      BY <2>gone, <3>1, <3>2 DEF HasRow
  <2>call. ASSUME NEW c \in Callers, call[c].pc = "mark"
           PROVE  /\ call[c].path \notin dirs'
                  /\ attempts[call[c].target].path = call[c].path
    <3>1. /\ HasRow(call[c].target) /\ Named(call[c].target)
          /\ attempts[call[c].target].path = call[c].path
      BY <1>0, <2>0, <2>call DEF CallWhere
    <3>2. call[c].path \notin dirs
      BY <2>0, <2>call DEF GoneInv
    <3> QED
      BY <2>gone, <3>1, <3>2 DEF HasRow
  <2>same. SameWork => RemovedIsGone'
    BY <2>row DEF SameWork, RemovedIsGone
  <2>mark. ASSUME NEW which, NEW mark, Marks(which, mark), mark # "REMOVED"
           PROVE  RemovedIsGone'
    BY <2>mark, <2>row DEF Marks, RemovedIsGone
  <2>1. ASSUME NEW r \in Runs, RunEffect(r) PROVE GoneInv'
    <3>1. RemovedIsGone'
      <4>1. CASE Starts(r)
        <5>1. ASSUME NEW n \in 1..Latest', attempts'[n].worktree = "REMOVED"
              PROVE  attempts'[n].path \notin dirs'
          <6>1. n \in 1..Latest /\ attempts'[n] = attempts[n]
            BY <1>0, <4>1, <5>1 DEF Starts
          <6> QED
            BY <2>row, <5>1, <6>1
        <5> QED
          BY <5>1 DEF RemovedIsGone
      <4>2. CASE Records(r)
        BY <2>row, <4>2 DEF Records, RemovedIsGone
      <4>3. CASE Reports(r)
        <5>1. ASSUME NEW n \in 1..Latest, n = run[r].rec
              PROVE  attempts[n].path \notin dirs'
          BY <1>0, <2>run, <4>3, <5>1 DEF Reports
        <5> QED
          BY <2>row, <4>3, <5>1 DEF Reports, Marks, RemovedIsGone
      <4> QED
        BY <2>1, <2>same, <2>mark, <4>1, <4>2, <4>3 DEF RunEffect, MovesOn, FallsBack, Makes,
           Discards, Succeeds, Cleans, Keeps, HandsOver, Ends
    <3>2. ASSUME NEW q \in Runs, run'[q].pc = "cleaned", run'[q].rec # 0
          PROVE  run'[q].path \notin dirs'
      <4>1. CASE q = r
        <5>1. Cleans(r)
          BY <2>1, <3>2, <4>1 DEF RunEffect, MovesOn, FallsBack, Starts, Makes, Records,
             Discards, Succeeds, Keeps, Reports, HandsOver, Ends
        <5> QED
          BY <4>1, <5>1 DEF Cleans, Carries
      <4>2. CASE q # r
        <5>1. run'[q] = run[q]
          BY <2>1, <4>2 DEF RunEffect, MovesOn, FallsBack, Starts, Makes, Records, Discards,
             Succeeds, Cleans, Keeps, Reports, HandsOver, Ends, OthersStay
        <5> QED
          BY <2>run, <3>2, <5>1
      <4> QED
        BY <4>1, <4>2
    <3>3. UNCHANGED call
      BY <2>1 DEF RunEffect, MovesOn, FallsBack, Starts, Makes, Records, Discards,
         Succeeds, Cleans, Keeps, Reports, HandsOver, Ends
    <3> QED
      BY <2>call, <3>1, <3>2, <3>3 DEF GoneInv
  <2>2. ASSUME NEW c \in Callers, CallEffect(c) PROVE GoneInv'
    <3>1. RemovedIsGone'
      <4>1. CASE CancelsTask(c)
        BY <2>row, <4>1 DEF CancelsTask, RemovedIsGone
      <4>2. CASE MarksIt(c)
        BY <2>row, <2>call, <4>2 DEF MarksIt, Marks, RemovedIsGone
      <4> QED
        BY <2>2, <2>same, <4>1, <4>2 DEF CallEffect, Finds, RemovesIt, GoesOn
    <3>2. UNCHANGED run
      BY <2>2 DEF CallEffect, CancelsTask, Finds, RemovesIt, MarksIt, GoesOn
    <3>3. ASSUME NEW d \in Callers, call'[d].pc = "mark" PROVE call'[d].path \notin dirs'
      <4>1. CASE d = c
        <5>1. RemovesIt(c)
          BY <2>2, <3>3, <4>1 DEF CallEffect, CancelsTask, Finds, MarksIt, GoesOn
        <5> QED
          BY <4>1, <5>1 DEF RemovesIt
      <4>2. CASE d # c
        <5>1. call'[d] = call[d]
          BY <2>2, <4>2 DEF CallEffect, CancelsTask, Finds, RemovesIt, MarksIt, GoesOn, CallsStay
        <5> QED
          BY <2>call, <3>3, <5>1
      <4> QED
        BY <4>1, <4>2
    <3> QED
      BY <2>run, <3>1, <3>2, <3>3 DEF GoneInv
  <2>3. CASE NoEffect
    BY <2>same, <2>run, <2>call, <2>3 DEF NoEffect, GoneInv
  <2> QED
    BY <2>0, <2>1, <2>2, <2>3, Effects
<1> QED
  BY <1>1, <1>2

-----------------------------------------------------------------------------
(*                     Work that is kept is on disk                        *)

(* While no operator removes worktrees: until the task has succeeded every  *)
(* directory a row names is there; what is RETAINED is there; and so is the *)
(* directory a run is about to record or to clean up.                       *)
DiskInv == Removers = {} =>
  /\ status \notin {"SUCCEEDED", Gone} =>
       \A n \in 1..Latest : Named(n) => attempts[n].path \in dirs
  /\ \A n \in 1..Latest : attempts[n].worktree = "RETAINED" => attempts[n].path \in dirs
  /\ \A r \in Runs :
       /\ run[r].pc = "record" /\ run[r].open /\ Fence(r) => run[r].path \in dirs
       /\ run[r].pc = "cleanup" /\ status # Gone /\ run[r].rec # 0 => run[r].path \in dirs

(* Who removes a directory. *)
LEMMA WhoRemoves ==
  ASSUME Inv, WhereInv, Removers = {}, [Next]_vars, NEW d \in dirs, d \notin dirs'
  PROVE  \E r \in Runs : (Discards(r) \/ Cleans(r)) /\ run[r].path = d
<1>1. ASSUME NEW r \in Runs, RunEffect(r)
      PROVE  (Discards(r) \/ Cleans(r)) /\ run[r].path = d
  BY <1>1 DEF RunEffect, MovesOn, FallsBack, Starts, Makes, Records, Discards,
     Succeeds, Cleans, Keeps, Reports, HandsOver, Ends
<1>2. ASSUME NEW c \in Callers, CallEffect(c) PROVE FALSE
  <2>1. ~RemovesIt(c)
    BY DEF RemovesIt, WhereInv, CallWhere
  <2> QED
    BY <1>2, <2>1 DEF CallEffect, CancelsTask, Finds, MarksIt, GoesOn
<1>3. ~NoEffect /\ ~DeleteTask
  BY DEF NoEffect, DeleteTask, disk
<1> QED
  BY <1>1, <1>2, <1>3, Effects

(* A directory that a row names goes only in the clean-up after a success,  *)
(* when no row is RETAINED.                                                 *)
LEMMA NamedStays ==
  ASSUME Inv, WhereInv, \A r \in Runs : CleanInv(r), Removers = {}, status # Gone, [Next]_vars,
         NEW n, HasRow(n), Named(n), attempts[n].path \in dirs, attempts[n].path \notin dirs'
  PROVE  /\ status = "SUCCEEDED"
         /\ \A k \in 1..Latest : attempts[k].worktree # "RETAINED"
         /\ run[attempts[Latest].owner].pc = "cleanup"
         /\ Cleans(attempts[Latest].owner)
<1>1. PICK r \in Runs : (Discards(r) \/ Cleans(r)) /\ run[r].path = attempts[n].path
  BY WhoRemoves
<1>2. ~Discards(r)
  <2>1. ASSUME Discards(r) PROVE run[r].path = run[r].att /\ ~Named(run[r].att)
    BY <2>1 DEF Discards, WhereInv, RunWhere, Preparing
  <2>2. Named(attempts[n].path)
    BY DEF WhereInv, RowPaths, HasRow
  <2> QED
    BY <1>1, <2>1, <2>2
<1>3. run[r].pc = "cleanup" /\ Cleans(r)
  BY <1>1, <1>2 DEF Cleans
<1> QED
  BY <1>3 DEF CleanInv

LEMMA DiskStep ==
  ASSUME Inv, Inv', WhereInv, WhereInv', MarkInv, \A r \in Runs : CleanInv(r),
         DiskInv, [Next]_vars
  PROVE  DiskInv'
<1> SUFFICES ASSUME Removers = {} PROVE DiskInv'
  BY DEF DiskInv
<1>0. /\ Latest \in Nat /\ RowsInv
      /\ \A r \in Runs : RunWhere(r) /\ Knows(run[r])
  BY TypeParts DEF Inv, WhereInv
<1>disk. /\ status \notin {"SUCCEEDED", Gone} =>
              \A n \in 1..Latest : Named(n) => attempts[n].path \in dirs
         /\ \A n \in 1..Latest : attempts[n].worktree = "RETAINED" => attempts[n].path \in dirs
         /\ \A r \in Runs :
              /\ run[r].pc = "record" /\ run[r].open /\ Fence(r) => run[r].path \in dirs
              /\ run[r].pc = "cleanup" /\ status # Gone /\ run[r].rec # 0 => run[r].path \in dirs
  BY DEF DiskInv
<1>1. CASE status' = Gone
  <2>1. ASSUME NEW r \in Runs PROVE ~(run'[r].open /\ Fence(r)')
    BY <1>1, GoneStays DEF Fence, HasRow
  <2> QED
    BY <1>1, <2>1, GoneStays DEF DiskInv
<1>2. CASE status' # Gone
  <2>0. status # Gone /\ ~DeleteTask
    BY <1>2, GoneStays
  <2>held. \A n, path : n # 0 /\ Holds(n, path) /\ status # "SUCCEEDED" => path \in dirs
    BY <1>disk, <2>0 DEF Holds, HasRow
  <2>kept. \A n \in 1..Latest : Named(n) /\ attempts[n].path \in dirs /\ status # "SUCCEEDED"
                                  => attempts[n].path \in dirs'
    BY <2>0, NamedStays DEF HasRow
  <2>success. status = "SUCCEEDED" => status' = "SUCCEEDED"
    BY <1>2, StatusStep DEF Transitions, Terminal, Gone
  (* The runs that are about to record or to clean up. *)
  <2>record. ASSUME NEW r \in Runs, run'[r].pc = "record", run'[r].open, Fence(r)'
             PROVE  run'[r].path \in dirs'
    <3>1. CASE Makes(r)
      BY <3>1 DEF Makes
    <3>2. CASE ~Makes(r)
      <4>1. run'[r] = run[r]
        <5>1. ASSUME NEW q \in Runs, RunEffect(q) PROVE run'[r] = run[r]
          <6>1. CASE q = r
            BY <2>record, <3>2, <5>1, <6>1 DEF RunEffect, MovesOn, FallsBack, Starts, Records,
               Discards, Succeeds, Cleans, Keeps, Reports, HandsOver, Ends, Preparing
          <6>2. CASE q # r
            BY <5>1, <6>2 DEF RunEffect, MovesOn, FallsBack, Starts, Makes, Records, Discards,
               Succeeds, Cleans, Keeps, Reports, HandsOver, Ends, OthersStay
          <6> QED
            BY <6>1, <6>2
        <5>2. \A c \in Callers : CallEffect(c) => UNCHANGED run
          BY DEF CallEffect, CancelsTask, Finds, RemovesIt, MarksIt, GoesOn
        <5>3. NoEffect => UNCHANGED run
          BY DEF NoEffect
        <5> QED
          BY <2>0, <5>1, <5>2, <5>3, Effects
      <4>2. run[r].pc \in InAttempt
        BY <2>record, <4>1 DEF InAttempt, Claimed
      <4>3. Fence(r) /\ run[r].open /\ Active(status)
        BY <2>record, <4>1, <4>2, FenceBefore
      <4>4. run[r].path \in dirs
        BY <1>disk, <2>record, <4>1, <4>3
      <4>5. ASSUME run[r].path \notin dirs' PROVE FALSE
        <5>1. PICK q \in Runs : (Discards(q) \/ Cleans(q)) /\ run[q].path = run[r].path
          BY <4>4, <4>5, WhoRemoves
        <5>2. ~Cleans(q)
          BY <2>0, <4>3 DEF Cleans, CleanInv, Active
        <5>3. q # r
          BY <2>record, <5>1, <5>2 DEF Discards
        <5>4. run[q].path = run[q].att /\ run[q].pc \in InAttempt
          BY <1>0, <2>0, <5>1, <5>2 DEF Discards, RunWhere, InAttempt, Claimed
        <5>5. run[r].path = run[r].att
          BY <1>0, <2>0, <2>record, <4>1 DEF RunWhere
        <5> QED
          BY <2>0, <4>2, <5>1, <5>3, <5>4, <5>5, OwnAttempts
      <4> QED
        BY <4>1, <4>5
    <3> QED
      BY <3>1, <3>2
  <2>clean. ASSUME NEW r \in Runs, run'[r].pc = "cleanup", run'[r].rec # 0
            PROVE  run'[r].path \in dirs'
    <3>1. CASE Succeeds(r)
      <4>1. run[r].path \in dirs
        BY <1>0, <2>0, <2>held, <2>clean, <3>1 DEF Succeeds, Carries, RunWhere
      <4> QED
        BY <3>1, <4>1 DEF Succeeds, Carries
    <3>2. CASE ~Succeeds(r)
      <4>1. run'[r] = run[r] /\ ~Cleans(r)
        <5>1. ASSUME NEW q \in Runs, RunEffect(q) PROVE run'[r] = run[r]
          <6>1. CASE q = r
            BY <2>clean, <3>2, <5>1, <6>1 DEF RunEffect, MovesOn, FallsBack, Starts, Makes,
               Records, Discards, Cleans, Keeps, Reports, HandsOver, Ends
          <6>2. CASE q # r
            BY <5>1, <6>2 DEF RunEffect, MovesOn, FallsBack, Starts, Makes, Records, Discards,
               Succeeds, Cleans, Keeps, Reports, HandsOver, Ends, OthersStay
          <6> QED
            BY <6>1, <6>2
        <5>2. \A c \in Callers : CallEffect(c) => UNCHANGED run
          BY DEF CallEffect, CancelsTask, Finds, RemovesIt, MarksIt, GoesOn
        <5>3. NoEffect => UNCHANGED run
          BY DEF NoEffect
        <5>4. ~Cleans(r)
          BY <2>clean DEF Cleans
        <5> QED
          BY <2>0, <5>1, <5>2, <5>3, <5>4, Effects
      <4>2. /\ HasRow(run[r].rec) /\ Named(run[r].rec)
            /\ attempts[run[r].rec].path = run[r].path /\ run[r].path \in dirs
        BY <1>0, <1>disk, <2>0, <2>clean, <4>1 DEF RunWhere, Holds
      <4>3. attempts[Latest].owner = r
        BY <2>0, <2>clean, <4>1 DEF CleanInv
      <4> QED
        BY <2>0, <4>1, <4>2, <4>3, NamedStays
    <3> QED
      BY <3>1, <3>2
  (* The rows. *)
  <2>named. ASSUME status' # "SUCCEEDED", NEW n \in 1..Latest', attempts'[n].worktree # "none"
            PROVE  attempts'[n].path \in dirs'
    <3>0. status # "SUCCEEDED"
      BY <2>success, <2>named
    <3>1. ASSUME NEW k, Persist(k), n # k, n \in 1..Latest PROVE attempts'[n].path \in dirs'
      <4>1. Named(n) /\ attempts'[n].path = attempts[n].path
        BY <2>named, <3>1 DEF Persist
      <4>2. attempts[n].path \in dirs
        BY <1>disk, <2>0, <3>0, <3>1, <4>1
      <4> QED
        BY <2>kept, <3>0, <3>1, <4>1, <4>2
    <3>2. ASSUME NEW r \in Runs, RunEffect(r) PROVE attempts'[n].path \in dirs'
      <4>1. CASE Starts(r)
        <5>1. n \in 1..Latest
          BY <1>0, <2>named, <4>1 DEF Starts
        <5>2. Named(n) /\ attempts'[n].path = attempts[n].path
          BY <2>named, <4>1, <5>1 DEF Starts, Named
        <5>3. attempts[n].path \in dirs
          BY <1>disk, <2>0, <3>0, <5>1, <5>2
        <5> QED
          BY <2>kept, <3>0, <5>1, <5>2, <5>3
      <4>2. CASE Records(r)
        <5>1. CASE n = run[r].att
          <6>1. attempts'[n].path = run[r].path /\ UNCHANGED dirs
            BY <2>named, <4>2, <5>1 DEF Records
          <6>2. CASE run[r].pc = "record"
            BY <1>0, <1>disk, <4>2, <6>1, <6>2 DEF Records, Knows, InAttempt, Claimed
          <6>3. CASE run[r].pc = "continued"
            BY <1>0, <2>0, <2>held, <3>0, <6>1, <6>3 DEF RunWhere
          <6> QED
            BY <4>2, <6>2, <6>3 DEF Records
        <5>2. CASE n # run[r].att
          <6>1. /\ n \in 1..Latest /\ Named(n) /\ attempts'[n].path = attempts[n].path
                /\ UNCHANGED dirs
            BY <2>named, <4>2, <5>2 DEF Records, Named
          <6> QED
            BY <1>disk, <2>0, <3>0, <6>1
        <5> QED
          BY <5>1, <5>2
      <4>3. CASE ~Starts(r) /\ ~Records(r)
        <5>1. Persist(0) /\ n \in 1..Latest
          BY <2>0, <2>named, <3>2, <4>3, RunPersists DEF RunEffect, MovesOn, FallsBack, Makes,
             Discards, Succeeds, Cleans, Keeps, Reports, HandsOver, Ends, SameWork, Marks
        <5> QED
          BY <1>0, <3>1, <5>1
      <4> QED
        BY <4>1, <4>2, <4>3
    <3>3. ASSUME NEW c \in Callers, CallEffect(c) PROVE attempts'[n].path \in dirs'
      <4>1. Persist(0) /\ n \in 1..Latest
        BY <2>0, <2>named, <3>3, CallPersists DEF CallEffect, CancelsTask, Finds, RemovesIt,
           MarksIt, GoesOn, SameWork, Marks
      <4> QED
        BY <1>0, <3>1, <4>1
    <3>4. CASE NoEffect
      <4>1. Persist(0) /\ n \in 1..Latest
        BY <1>0, <2>named, <3>4 DEF NoEffect, SameWork, Persist, Named
      <4> QED
        BY <1>0, <3>1, <4>1
    <3> QED
      BY <2>0, <3>2, <3>3, <3>4, Effects
  <2>retained. ASSUME NEW n \in 1..Latest', attempts'[n].worktree = "RETAINED"
               PROVE  attempts'[n].path \in dirs'
    <3>1. CASE status' # "SUCCEEDED"
      BY <2>named, <2>retained, <3>1
    <3>2. CASE status' = "SUCCEEDED"
      <4>1. ASSUME n \in 1..Latest, attempts[n].worktree = "RETAINED",
                   attempts'[n].path = attempts[n].path
            PROVE  attempts'[n].path \in dirs'
        <5>1. Named(n) /\ attempts[n].path \in dirs
          BY <1>disk, <4>1 DEF Named
        <5> QED
          BY <2>0, <4>1, <5>1, NamedStays DEF HasRow
      <4>2. ASSUME NEW r \in Runs, RunEffect(r) PROVE attempts'[n].path \in dirs'
        <5>1. CASE Keeps(r)
          <6>1. CASE n = run[r].rec
            <7>1. /\ n \in 1..Latest /\ attempts'[n].path = attempts[n].path /\ UNCHANGED dirs
                  /\ run[r].pc = "cleanup"
              BY <2>retained, <5>1 DEF Keeps, Marks
            <7>2. run[r].path \in dirs /\ attempts[n].path = run[r].path
              BY <1>0, <1>disk, <2>0, <6>1, <7>1 DEF RunWhere, Holds
            <7> QED
              BY <7>1, <7>2
          <6>2. CASE n # run[r].rec
            BY <2>retained, <4>1, <5>1, <6>2 DEF Keeps, Marks
          <6> QED
            BY <6>1, <6>2
        <5>2. CASE Starts(r) \/ HandsOver(r) \/ Ends(r)
          BY <3>2, <5>2 DEF Starts, HandsOver, Ends
        <5>3. CASE Records(r)
          BY <2>retained, <4>1, <5>3 DEF Records
        <5>4. CASE Reports(r)
          BY <2>retained, <4>1, <5>4 DEF Reports, Marks
        <5>5. CASE SameWork
          BY <2>retained, <4>1, <5>5 DEF SameWork
        <5> QED
          BY <4>2, <5>1, <5>2, <5>3, <5>4, <5>5 DEF RunEffect, MovesOn, FallsBack, Makes,
             Discards, Succeeds, Cleans
      <4>3. ASSUME NEW c \in Callers, CallEffect(c) PROVE attempts'[n].path \in dirs'
        <5>1. CASE MarksIt(c)
          BY <2>retained, <4>1, <5>1 DEF MarksIt, Marks
        <5>2. CASE SameWork
          BY <2>retained, <4>1, <5>2 DEF SameWork
        <5> QED
          BY <3>2, <4>3, <5>1, <5>2 DEF CallEffect, CancelsTask, Finds, RemovesIt, GoesOn
      <4>4. CASE NoEffect
        BY <2>retained, <4>1, <4>4 DEF NoEffect, SameWork
      <4> QED
        BY <2>0, <4>2, <4>3, <4>4, Effects
    <3> QED
      BY <3>1, <3>2
  <2> QED
    BY <1>2, <2>named, <2>retained, <2>record, <2>clean DEF DiskInv, Named
<1> QED
  BY <1>1, <1>2

-----------------------------------------------------------------------------
(*                     A delivery that is not declared                     *)

(* A branch that holds a delivery held it before, or succeed has moved it:  *)
(* behind the fence, and either the task SUCCEEDED or a transaction failed. *)
LEMMA Delivering ==
  ASSUME Inv, \A r \in Runs : SeesInv(r), [Next]_vars,
         NEW n \in DOMAIN branch', branch'[n] = "delivered"
  PROVE  \/ n \in DOMAIN branch /\ branch[n] = "delivered"
         \/ status' = "SUCCEEDED"
         \/ faults' = faults + 1
<1> DEFINE Was == n \in DOMAIN branch /\ branch[n] = "delivered"
<1>point. ASSUME NEW k, NEW content, content # "delivered", branch' = Pointing(k, content)
          PROVE  Was
  BY <1>point DEF Pointing
<1>without. ASSUME NEW k, branch' = Without(k) PROVE Was
  BY <1>without DEF Without
<1>1. ASSUME NEW r \in Runs, Succeed(r)
      PROVE  Was \/ status' = "SUCCEEDED" \/ faults' = faults + 1
  <2>1. CASE UNCHANGED branch
    BY <2>1
  <2>2. CASE faults' = faults + 1
    BY <2>2
  <2>3. CASE status' = "SUCCEEDED"
    BY <2>3
  <2>4. Fence(r) /\ run[r].pc \in InAttempt => status = "VERIFYING"
    BY <1>1 DEF SeesInv, Succeed
  <2> QED
    BY <1>1, <2>1, <2>2, <2>3, <2>4 DEF Succeed, CanFault, CompareAndSet, InAttempt
<1>2. ASSUME NEW r \in Runs, PrepareWorktree(r) \/ ContinueOnNewBranch(r) PROVE Was
  <2>1. UNCHANGED branch \/ \E k : branch' = Pointing(k, "base") \/ branch' = Pointing(k, "partial")
    BY <1>2 DEF PrepareWorktree, ContinueOnNewBranch
  <2> QED
    BY <1>point, <2>1
<1>3. ASSUME NEW r \in Runs, RecordContinued(r) PROVE Was
  <2>1. UNCHANGED branch \/ \E k : branch' = Without(k)
    BY <1>3 DEF RecordContinued
  <2> QED
    BY <1>without, <2>1
<1>4. ASSUME NEW r \in Runs, ScheduleRetry(r) PROVE Was
  <2>1. UNCHANGED branch \/ \E k : branch' = Pointing(k, "partial")
    BY <1>4 DEF ScheduleRetry
  <2> QED
    BY <1>point, <2>1
<1>5. ASSUME NEW r \in Runs,
             \/ RunTask(r) \/ BecomeReady(r) \/ StartAttempt(r) \/ RecordWorktree(r)
             \/ BaseCheck(r) \/ RunAgent(r) \/ StopAgent(r) \/ CheckContainment(r)
             \/ Verify(r) \/ RunChecks(r) \/ CleanupAfterSuccess(r) \/ RecordRemoval(r)
             \/ Fail(r) \/ EndAttempt(r) \/ WatchForCancel(r) \/ Interrupt(r)
             \/ Crash(r) \/ DatabaseError(r)
      PROVE  UNCHANGED branch
  BY <1>5 DEF RunTask, BecomeReady, StartAttempt, RecordWorktree, BaseCheck, RunAgent,
     StopAgent, CheckContainment, Verify, RunChecks, CleanupAfterSuccess, RecordRemoval,
     Fail, EndAttempt, WatchForCancel, Interrupt, Crash, DatabaseError, disk
<1>6. ASSUME NEW c \in Callers, Recover(c) \/ CancelStep(c) \/ RemoveStep(c)
      PROVE  UNCHANGED branch
  BY <1>6 DEF Recover, CancelStep, ReadForCancel, Cancel, StopLocalRun, RemoveStep,
     CheckRemovable, LookupWorktree, RemoveDirectory, MarkRemoved, disk
<1>7. ASSUME NEW k, LeaseExpires(k) PROVE UNCHANGED branch
  BY <1>7 DEF LeaseExpires, disk
<1>8. DeleteTask \/ UNCHANGED vars => UNCHANGED branch
  BY DEF DeleteTask, vars, disk
<1>9. UNCHANGED branch => Was
  OBVIOUS
<1> HIDE DEF Was
<1>10. ASSUME NEW r \in Runs,
              \/ RunTask(r) \/ Proceed(r) \/ RunAgent(r) \/ WatchForCancel(r)
              \/ Interrupt(r) \/ Crash(r) \/ DatabaseError(r)
       PROVE  Was \/ status' = "SUCCEEDED" \/ faults' = faults + 1
  BY <1>1, <1>2, <1>3, <1>4, <1>5, <1>9, <1>10, Zenon DEF Proceed
<1>11. Was \/ status' = "SUCCEEDED" \/ faults' = faults + 1
  BY <1>6, <1>7, <1>8, <1>9, <1>10, Zenon DEF Next
<1> QED
  BY <1>11 DEF Was

(* Faults are only counted up. *)
LEMMA FaultsGrow ==
  ASSUME Inv, [Next]_vars
  PROVE  faults \in Nat /\ faults' \in {faults, faults + 1}
<1>0. faults \in Nat
  BY BoundAssumption DEF Inv, TypeOK
<1>1. ASSUME NEW r \in Runs, Proceed(r) PROVE faults' \in {faults, faults + 1}
  BY <1>1 DEF Proceed, BecomeReady, StartAttempt, PrepareWorktree, RecordWorktree,
     BaseCheck, ContinueOnNewBranch, RecordContinued, StopAgent, CheckContainment,
     Verify, RunChecks, Succeed, CleanupAfterSuccess, RecordRemoval, Fail,
     ScheduleRetry, EndAttempt, CanFault, bounds
<1>2. ASSUME NEW r \in Runs,
             \/ RunTask(r) \/ RunAgent(r) \/ WatchForCancel(r) \/ Interrupt(r)
             \/ Crash(r) \/ DatabaseError(r)
      PROVE  faults' \in {faults, faults + 1}
  BY <1>2 DEF RunTask, RunAgent, WatchForCancel, Interrupt, Crash, DatabaseError,
     CanFault, bounds
<1>3. ASSUME NEW c \in Callers, Recover(c) \/ CancelStep(c) \/ RemoveStep(c)
      PROVE  UNCHANGED faults
  BY <1>3 DEF Recover, CancelStep, ReadForCancel, Cancel, StopLocalRun, RemoveStep,
     CheckRemovable, LookupWorktree, RemoveDirectory, MarkRemoved, bounds
<1>4. ASSUME NEW n, LeaseExpires(n) PROVE UNCHANGED faults
  BY <1>4 DEF LeaseExpires, bounds
<1>5. DeleteTask \/ UNCHANGED vars => UNCHANGED faults
  BY DEF DeleteTask, vars, bounds
<1> QED
  BY <1>0, <1>1, <1>2, <1>3, <1>4, <1>5 DEF Next

LEMMA DeliveryStep ==
  ASSUME Inv, \A r \in Runs : SeesInv(r), NoUndeclaredDelivery, [Next]_vars
  PROVE  NoUndeclaredDelivery'
<1> SUFFICES ASSUME faults' = 0, NEW n \in DOMAIN branch', branch'[n] = "delivered"
             PROVE  status' \in {"SUCCEEDED", Gone}
  BY DEF NoUndeclaredDelivery
<1>1. faults = 0 /\ faults' # faults + 1
  BY FaultsGrow
<1>2. CASE status' = "SUCCEEDED"
  BY <1>2
<1>3. CASE n \in DOMAIN branch /\ branch[n] = "delivered"
  <2>1. status \in {"SUCCEEDED", Gone}
    BY <1>1, <1>3 DEF NoUndeclaredDelivery
  <2> QED
    BY <2>1, StatusStep DEF Transitions, Terminal, Gone, Statuses
<1> QED
  BY <1>1, <1>2, <1>3, Delivering

-----------------------------------------------------------------------------
(*                     The worktree theorems                               *)

(* The second inductive invariant: what the runs, the calls and the rows    *)
(* know of the worktrees, on top of Inv.                                    *)
WorkInv ==
  /\ WhereInv
  /\ MarkInv
  /\ \A r \in Runs : CleanInv(r)
  /\ \A r \in Runs : SeesInv(r)
  /\ GoneInv
  /\ DiskInv
  /\ NoUndeclaredDelivery

LEMMA WorkInit == Init => WorkInv
<1> SUFFICES ASSUME Init PROVE WorkInv
  OBVIOUS
<1>1. /\ Latest = 0 /\ status = "PENDING" /\ DOMAIN branch = {}
      /\ \A r \in Runs : run[r] = NewRun
      /\ \A c \in Callers : call[c] = NewCall
  BY DEF Init, Latest
<1>2. \A r \in Runs : run[r].pc = "idle" /\ run[r].rec = 0 /\ run[r].prev = 0
  BY <1>1 DEF NewRun
<1>3. \A c \in Callers : call[c].pc = "idle"
  BY <1>1 DEF NewCall
<1>4. WhereInv
  BY <1>1, <1>2, <1>3 DEF WhereInv, RowPaths, RunWhere, CallWhere, Holds, Preparing,
     InAttempt, Claimed
<1>5. MarkInv /\ GoneInv /\ DiskInv /\ NoUndeclaredDelivery
  BY <1>1, <1>2, <1>3 DEF MarkInv, GoneInv, RemovedIsGone, DiskInv, NoUndeclaredDelivery
<1>6. \A r \in Runs : CleanInv(r) /\ SeesInv(r)
  BY <1>2 DEF CleanInv, SeesInv, InAttempt, Claimed
<1> QED
  BY <1>4, <1>5, <1>6 DEF WorkInv

LEMMA WorkStep == Inv /\ Inv' /\ WorkInv /\ [Next]_vars => WorkInv'
<1> SUFFICES ASSUME Inv, Inv', WorkInv, [Next]_vars PROVE WorkInv'
  OBVIOUS
<1>0. /\ WhereInv /\ MarkInv /\ GoneInv /\ DiskInv /\ NoUndeclaredDelivery
      /\ (\A r \in Runs : CleanInv(r)) /\ \A r \in Runs : SeesInv(r)
  BY DEF WorkInv
<1>1. WhereInv'
  BY <1>0, WhereStep
<1>2. MarkInv'
  BY <1>0, MarkStep
<1>3. \A q \in Runs : CleanInv(q)'
  BY <1>0, CleanStep
<1>4. \A q \in Runs : SeesInv(q)'
  BY <1>0, SeesStep
<1>5. GoneInv'
  BY <1>0, GoneStep
<1>6. DiskInv'
  BY <1>0, <1>1, DiskStep
<1>7. NoUndeclaredDelivery'
  BY <1>0, DeliveryStep
<1> QED
  BY <1>1, <1>2, <1>3, <1>4, <1>5, <1>6, <1>7 DEF WorkInv

(* Both invariants hold in every state of every behaviour. *)
THEOREM WorkInvariance == Spec => [](Inv /\ WorkInv)
<1>1. Init => WorkInv
  BY WorkInit
<1>2. Inv /\ Inv' /\ WorkInv /\ [Next]_vars => WorkInv'
  BY WorkStep
<1> QED
  BY <1>1, <1>2, Invariance, PTL DEF Spec

(* A branch that holds a delivery belongs to a task that SUCCEEDED, or to   *)
(* one deleted since, unless a transaction or a clean-up failed: succeed    *)
(* moves the branch behind the lease fence, and whoever is behind it has    *)
(* seen the status the task has.                                            *)
THEOREM DeliveryDeclared == Spec => []NoUndeclaredDelivery
<1>1. Inv /\ WorkInv => NoUndeclaredDelivery
  BY DEF WorkInv
<1> QED
  BY <1>1, WorkInvariance, PTL

(* A row that says REMOVED names no directory: cleanupAfterSuccess and      *)
(* `worktree remove` write it after the directory went, and `git worktree   *)
(* add` makes one for an attempt that has no row.                           *)
THEOREM RemovedTrue == Spec => []RemovedIsGone
<1>1. Inv /\ WorkInv => RemovedIsGone
  BY DEF WorkInv, GoneInv
<1> QED
  BY <1>1, WorkInvariance, PTL

(* No task that FAILED or was CANCELLED has a row still ACTIVE, whatever    *)
(* the run was doing to its worktree when the task ended: fail, Cancel and  *)
(* scheduleRetry mark it in the transaction that ends the attempt, and the  *)
(* row is recorded behind the fence.                                        *)
THEOREM EndedKept == Spec => []EndedWorktreesKept
<1>1. MarkInv => EndedWorktreesKept
  BY DEF MarkInv, EndedWorktreesKept, Active
<1>2. Inv /\ WorkInv => EndedWorktreesKept
  BY <1>1 DEF WorkInv
<1> QED
  BY <1>2, WorkInvariance, PTL

(* The worktree rows tell the truth of the disk as well, for a task whose   *)
(* worktrees no operator removes: what is kept for the next attempt, for    *)
(* the delivery or for the reader of a failed task is there.                *)
THEOREM RowsTrue ==
  ASSUME Removers = {}
  PROVE  Spec => []WorktreeRowsTrue
<1>1. ASSUME Inv, WorkInv PROVE WorktreeRowsTrue
  <2>1. EndedWorktreesKept
    BY <1>1 DEF WorkInv, MarkInv, EndedWorktreesKept, Active
  <2>2. status = Gone => Latest = 0
    BY <1>1 DEF Inv, RowsInv, RestingRows
  <2>3. KeptWorkOnDisk
    BY <1>1, <2>2 DEF WorkInv, DiskInv, KeptWorkOnDisk, Named
  <2> QED
    BY <2>1, <2>3 DEF WorktreeRowsTrue
<1>2. Inv /\ WorkInv => WorktreeRowsTrue
  BY <1>1
<1> QED
  BY <1>2, WorkInvariance, PTL

(* No run deletes recorded work: prepareWorktree discards only a directory  *)
(* no row names, cleanupAfterSuccess only one of a task that SUCCEEDED, and *)
(* any other removal is the operator's `worktree remove`.                   *)
THEOREM NothingRecordedDeleted == Spec => RunsDeleteNoRecordedWork
<1> DEFINE Unnamed(d) ==
      \A n \in 1..Latest : attempts[n].worktree # "none" => attempts[n].path # d
    Kept ==
      \A d \in dirs \ dirs' :
        \/ Unnamed(d)
        \/ status = "SUCCEEDED"
        \/ \E c \in Removers : call[c].pc = "remove" /\ call'[c].pc = "mark"
<1>1. ASSUME Inv, WorkInv, [Next]_vars PROVE Kept
  <2> SUFFICES ASSUME NEW d \in dirs \ dirs'
               PROVE  \/ Unnamed(d)
                      \/ status = "SUCCEEDED"
                      \/ \E c \in Removers : call[c].pc = "remove" /\ call'[c].pc = "mark"
    OBVIOUS
  <2>0. WhereInv /\ \A r \in Runs : CleanInv(r)
    BY <1>1 DEF WorkInv
  <2>1. status = Gone => Unnamed(d)
    BY <1>1 DEF Inv, RowsInv, RestingRows
  <2>2. ASSUME status # Gone, NEW r \in Runs, RunEffect(r)
        PROVE  Unnamed(d) \/ status = "SUCCEEDED"
    <3>1. Discards(r) \/ Cleans(r)
      BY <2>2 DEF RunEffect, MovesOn, FallsBack, Starts, Makes, Records, Discards,
         Succeeds, Cleans, Keeps, Reports, HandsOver, Ends
    <3>2. CASE Discards(r)
      <4>1. d = run[r].path /\ run[r].path = run[r].att /\ ~Named(d)
        BY <2>0, <2>2, <3>2 DEF Discards, WhereInv, RunWhere, Preparing
      <4> QED
        BY <2>0, <4>1 DEF WhereInv, RowPaths, Named
    <3>3. CASE Cleans(r)
      BY <2>0, <2>2, <3>3 DEF Cleans, CleanInv
    <3> QED
      BY <3>1, <3>2, <3>3
  <2>3. ASSUME NEW c \in Callers, CallEffect(c)
        PROVE  \E b \in Removers : call[b].pc = "remove" /\ call'[b].pc = "mark"
    <3>1. RemovesIt(c)
      BY <2>3 DEF CallEffect, CancelsTask, Finds, RemovesIt, MarksIt, GoesOn
    <3>2. c \in Removers
      BY <2>0, <3>1 DEF RemovesIt, WhereInv, CallWhere
    <3> QED
      BY <3>1, <3>2 DEF RemovesIt
  <2>4. ~NoEffect /\ ~DeleteTask
    BY DEF NoEffect, DeleteTask, disk
  <2> QED
    BY <1>1, <2>1, <2>2, <2>3, <2>4, Effects
<1>2. Inv /\ WorkInv /\ [Next]_vars => [Kept]_vars
  BY <1>1
<1>3. Spec => [][Kept]_vars
  BY <1>2, WorkInvariance, PTL DEF Spec
<1> QED
  BY <1>3 DEF RunsDeleteNoRecordedWork

(* A run that lost its attempt moves nothing, and nobody re-opens an ending:  *)
(* once the task has ended no attempt's outcome changes and no branch that   *)
(* exists is moved.  succeed, scheduleRetry and fail are behind the fence,   *)
(* `git worktree add -b` refuses a branch that exists, and Cancel starts     *)
(* from a task that has not ended.                                           *)
THEOREM EndingFinal == Spec => EndingIsFinal
<1> DEFINE
    BranchesStay == \A n \in DOMAIN branch \cap DOMAIN branch' : branch'[n] = branch[n]
    OutcomesStay == \A n \in 1..Latest : attempts'[n].status = attempts[n].status
    Stays ==
      Terminal(status) =>
        /\ \A n \in DOMAIN branch \cap DOMAIN branch' : branch'[n] = branch[n]
        /\ status' # Gone =>
             \A n \in 1..Latest : attempts'[n].status = attempts[n].status
<1>1. ASSUME Inv, [Next]_vars, Terminal(status) PROVE BranchesStay /\ (status' # Gone => OutcomesStay)
  <2>0. /\ attempts \in Seq(Attempt) /\ Latest \in Nat /\ Latest = Len(attempts)
        /\ RowsInv /\ \A r \in Runs : Knows(run[r]) /\ run[r] \in RunState
    BY <1>1, TypeParts DEF Inv, TypeOK, Latest
  <2>fence. ASSUME NEW r \in Runs, run[r].pc \in InAttempt PROVE ~Fence(r)
    BY <1>1, <2>0, <2>fence, FencedIsLatest DEF Knows, Active, Terminal
  <2>point. ASSUME NEW n, NEW content, n \notin DOMAIN branch, branch' = Pointing(n, content)
            PROVE  BranchesStay
    BY <2>point DEF Pointing
  <2>without. ASSUME NEW n, branch' = Without(n) PROVE BranchesStay
    BY <2>without DEF Without
  <2>branch. UNCHANGED branch => BranchesStay
    OBVIOUS
  <2>rows. UNCHANGED attempts => OutcomesStay
    OBVIOUS
  <2>marked. ASSUME NEW which, NEW mark \in {"RETAINED", "REMOVED"},
                    attempts' = Marked(attempts, which, mark)
             PROVE  OutcomesStay
    BY <2>0, <2>marked, MarkedRows DEF WorktreeStatuses
  <2>leased. ASSUME NEW n, NEW lease \in {"live", "expired"},
                    attempts' = [attempts EXCEPT ![n].lease = lease]
             PROVE  OutcomesStay
    BY <2>0, <2>leased, LeasedRows
  <2> HIDE DEF BranchesStay, OutcomesStay
  (* Behind the fence: none of these is. *)
  <2>1. ASSUME NEW r \in Runs,
               \/ Succeed(r) \/ ScheduleRetry(r) \/ EndAttempt(r) \/ RecordWorktree(r)
        PROVE  UNCHANGED <<attempts, branch>>
    <3>1. CASE Succeed(r)
      <4>1. ~Fence(r)
        BY <2>fence, <3>1 DEF Succeed, InAttempt
      <4> QED
        BY <3>1, <4>1 DEF Succeed, db
    <3>2. CASE ScheduleRetry(r)
      <4>1. ~Fence(r)
        BY <2>fence, <3>2 DEF ScheduleRetry, InAttempt
      <4> QED
        BY <3>2, <4>1 DEF ScheduleRetry, db
    <3>3. CASE EndAttempt(r)
      <4>1. ~Fence(r)
        BY <2>fence, <3>3 DEF EndAttempt, InAttempt
      <4> QED
        BY <3>3, <4>1 DEF EndAttempt, db, disk
    <3>4. CASE RecordWorktree(r)
      <4>1. ~Fence(r)
        BY <2>fence, <3>4 DEF RecordWorktree, InAttempt, Claimed
      <4> QED
        BY <3>4, <4>1 DEF RecordWorktree
    <3> QED
      BY <2>1, <3>1, <3>2, <3>3, <3>4
  <2>2. ASSUME NEW r \in Runs, RecordContinued(r) PROVE UNCHANGED attempts /\ BranchesStay
    <3>1. ~Fence(r)
      BY <2>fence, <2>2 DEF RecordContinued, InAttempt, Claimed
    <3>2. UNCHANGED attempts /\ (UNCHANGED branch \/ \E n : branch' = Without(n))
      BY <2>2, <3>1 DEF RecordContinued
    <3> QED
      BY <2>branch, <2>without, <3>2
  <2>3. ASSUME NEW r \in Runs, PrepareWorktree(r) \/ ContinueOnNewBranch(r)
        PROVE  UNCHANGED attempts /\ BranchesStay
    <3>1. /\ UNCHANGED attempts
          /\ \/ UNCHANGED branch
             \/ \E n, content : n \notin DOMAIN branch /\ branch' = Pointing(n, content)
      BY <2>3 DEF PrepareWorktree, ContinueOnNewBranch, db
    <3> QED
      BY <2>branch, <2>point, <3>1
  <2>4. ASSUME NEW r \in Runs, StartAttempt(r) \/ BecomeReady(r) \/ Verify(r)
        PROVE  UNCHANGED <<attempts, branch>>
    <3>1. CASE StartAttempt(r)
      BY <1>1, <2>0, <3>1 DEF StartAttempt, CompareAndSet, Knows, Terminal, db, disk
    <3> QED
      BY <2>4, <3>1 DEF BecomeReady, Verify, disk
  <2>5. ASSUME NEW r \in Runs, CleanupAfterSuccess(r) \/ RecordRemoval(r)
        PROVE  UNCHANGED branch /\ OutcomesStay
    <3>1. /\ UNCHANGED branch
          /\ \/ UNCHANGED attempts
             \/ \E which : attempts' = Marked(attempts, which, "RETAINED")
             \/ \E which : attempts' = Marked(attempts, which, "REMOVED")
      BY <2>5 DEF CleanupAfterSuccess, RecordRemoval, disk
    <3> QED
      BY <2>rows, <2>marked, <3>1
  <2>6. ASSUME NEW r \in Runs,
               \/ RunTask(r) \/ BaseCheck(r) \/ RunAgent(r) \/ StopAgent(r)
               \/ CheckContainment(r) \/ RunChecks(r) \/ Fail(r) \/ Interrupt(r)
               \/ Crash(r) \/ DatabaseError(r)
        PROVE  UNCHANGED <<attempts, branch>>
    BY <2>6 DEF RunTask, BaseCheck, RunAgent, StopAgent, CheckContainment, RunChecks,
       Fail, Interrupt, Crash, DatabaseError, db, disk
  <2>7. ASSUME NEW r \in Runs, WatchForCancel(r) PROVE UNCHANGED branch /\ OutcomesStay
    <3>1. /\ UNCHANGED branch
          /\ UNCHANGED attempts \/ attempts' = [attempts EXCEPT ![run[r].att].lease = "live"]
      BY <2>7 DEF WatchForCancel, disk
    <3> QED
      BY <2>rows, <2>leased, <3>1
  <2>8. ASSUME NEW n, LeaseExpires(n) PROVE UNCHANGED branch /\ OutcomesStay
    <3>1. UNCHANGED branch /\ attempts' = [attempts EXCEPT ![n].lease = "expired"]
      BY <2>8 DEF LeaseExpires, disk
    <3> QED
      BY <2>leased, <3>1
  <2>9. ASSUME NEW c \in Callers, Recover(c) \/ CancelStep(c)
        PROVE  UNCHANGED <<attempts, branch>>
    <3>1. CASE Cancel(c)
      <4>1. ~CompareAndSet(call[c].seen)
        BY <1>1, <3>1 DEF Cancel, CompareAndSet, Inv, CallKnows
      <4> QED
        BY <3>1, <4>1 DEF Cancel, db, disk
    <3> QED
      BY <2>9, <3>1 DEF CancelStep, Recover, ReadForCancel, StopLocalRun, db, disk
  <2>10. ASSUME NEW c \in Callers, RemoveStep(c) PROVE UNCHANGED branch /\ OutcomesStay
    <3>1. /\ UNCHANGED branch
          /\ UNCHANGED attempts \/ \E which : attempts' = Marked(attempts, which, "REMOVED")
      BY <2>10 DEF RemoveStep, CheckRemovable, LookupWorktree, RemoveDirectory, MarkRemoved,
         db, disk
    <3> QED
      BY <2>rows, <2>marked, <3>1
  <2>11. DeleteTask => UNCHANGED branch /\ status' = Gone
    BY DEF DeleteTask, disk
  <2>12. UNCHANGED vars => UNCHANGED <<attempts, branch>>
    BY DEF vars
  <2>13. ASSUME NEW r \in Runs,
                \/ RunTask(r) \/ Proceed(r) \/ RunAgent(r) \/ WatchForCancel(r)
                \/ Interrupt(r) \/ Crash(r) \/ DatabaseError(r)
         PROVE  BranchesStay /\ OutcomesStay
    BY <2>branch, <2>rows, <2>1, <2>2, <2>3, <2>4, <2>5, <2>6, <2>7, <2>13 DEF Proceed
  <2> QED
    BY <1>1, <2>branch, <2>rows, <2>8, <2>9, <2>10, <2>11, <2>12, <2>13 DEF Next
<1>2. Inv /\ [Next]_vars => [Stays]_vars
  BY <1>1
<1>3. Spec => [][Stays]_vars
  BY <1>2, Invariance, PTL DEF Spec
<1> QED
  BY <1>3 DEF EndingIsFinal

=============================================================================
