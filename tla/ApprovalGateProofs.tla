------------------------- MODULE ApprovalGateProofs -------------------------
(***************************************************************************)
(* What ApprovalGate's runs check on small instances, proved for any       *)
(* number of runs and deciders, any max_retries and any number of policy   *)
(* changes.                                                                *)
(***************************************************************************)
EXTENDS ApprovalGate, TLAPS

(* What a run remembers is a status its next compare-and-set may start at. *)
SeenInv ==
  \A r \in Runs :
    /\ run[r].pc \in {"policy", "approval", "gate", "ready"} =>
         run[r].seen \in {"PENDING", "READY", "WAITING_APPROVAL"}
    /\ run[r].pc = "claim" => run[r].seen = "READY"
    /\ run[r].pc = "attempt" => Active(run[r].seen)

(* A task that can still be started has an attempt left. *)
BudgetInv ==
  status \in {"PENDING", "READY", "WAITING_APPROVAL"} => opened <= MaxRetries

(* Only the newest request can be pending. *)
PendingIsLast ==
  \A i \in DOMAIN approvals : approvals[i] = "PENDING" => i = Len(approvals)

Gated == TaskRequires \/ (policy /\ toggles = 0)

(* A gated task has passed the gate only after a grant: in its status, in   *)
(* its attempts, and in what its runs are about to do.                      *)
GateInv ==
  Gated =>
    /\ status \in {"READY", "RUNNING", "VERIFYING", "SUCCEEDED"} => Granted
    /\ opened > 0 => Granted
    /\ \A r \in Runs : run[r].pc = "ready" => Granted

Inv ==
  /\ TypeOK
  /\ SeenInv
  /\ BudgetInv
  /\ PendingIsLast
  /\ status = "WAITING_APPROVAL" => HasPending
  /\ Denied => status = "FAILED"
  /\ \A i, j \in DOMAIN approvals :
       i < j /\ approvals[i] = "DENIED" => approvals[j] = "PENDING"
  /\ GateInv

-----------------------------------------------------------------------------
(* The invariant holds initially: no row, no attempt, nobody under way. *)
LEMMA InvInit == Init => Inv
<1> SUFFICES ASSUME Init PROVE Inv
  OBVIOUS
<1>1. TypeOK
  BY TaskAssumption, EnvironmentAssumption
  DEF Init, TypeOK, NewRun, RunPCs, Statuses, ApprovalStatuses
<1>2. SeenInv /\ BudgetInv
  BY TaskAssumption DEF Init, SeenInv, BudgetInv, NewRun
<1>3. DOMAIN approvals = {}
  BY DEF Init
<1>4. /\ PendingIsLast
      /\ status = "WAITING_APPROVAL" => HasPending
      /\ Denied => status = "FAILED"
      /\ \A i, j \in DOMAIN approvals :
           i < j /\ approvals[i] = "DENIED" => approvals[j] = "PENDING"
  BY <1>3 DEF Init, PendingIsLast, Denied
<1>5. GateInv
  BY DEF Init, GateInv, NewRun
<1> QED
  BY <1>1, <1>2, <1>4, <1>5 DEF Inv

(* RequestApproval: a pending row after the others, which stay as they are. *)
LEMMA Requested ==
  ASSUME approvals \in Seq(ApprovalStatuses),
         approvals' = Append(approvals, "PENDING")
  PROVE  /\ approvals' \in Seq(ApprovalStatuses)
         /\ Len(approvals') = Len(approvals) + 1
         /\ DOMAIN approvals' = 1..Len(approvals')
         /\ DOMAIN approvals = 1..Len(approvals)
         /\ Len(approvals) \in Nat
         /\ approvals'[Len(approvals')] = "PENDING"
         /\ \A i \in DOMAIN approvals : approvals'[i] = approvals[i]
  BY DEF ApprovalStatuses

(* DecideApproval: as many rows, and only the pending ones change. *)
LEMMA DecidedRows ==
  ASSUME approvals \in Seq(ApprovalStatuses),
         NEW decision \in {"GRANTED", "DENIED"},
         approvals' = DecideApproval(decision)
  PROVE  /\ approvals' \in Seq(ApprovalStatuses)
         /\ DOMAIN approvals' = DOMAIN approvals
         /\ Len(approvals') = Len(approvals)
         /\ DOMAIN approvals = 1..Len(approvals)
         /\ Len(approvals) \in Nat
         /\ \A i \in DOMAIN approvals :
              approvals'[i] = IF approvals[i] = "PENDING" THEN decision
                              ELSE approvals[i]
<1>1. DOMAIN approvals = 1..Len(approvals) /\ Len(approvals) \in Nat
  OBVIOUS
<1>2. approvals' = [i \in 1..Len(approvals) |->
         IF approvals[i] = "PENDING" THEN decision ELSE approvals[i]]
  BY <1>1 DEF DecideApproval
<1>3. \A i \in 1..Len(approvals) : approvals[i] \in ApprovalStatuses
  BY <1>1
<1>4. \A i \in 1..Len(approvals) :
        (IF approvals[i] = "PENDING" THEN decision ELSE approvals[i])
          \in ApprovalStatuses
  BY <1>3 DEF ApprovalStatuses
<1>5. approvals' \in [1..Len(approvals) -> ApprovalStatuses]
  BY <1>2, <1>4
<1>6. approvals' \in Seq(ApprovalStatuses) /\ Len(approvals') = Len(approvals)
  BY <1>1, <1>5
<1> QED
  BY <1>1, <1>2, <1>6

(* Types, and with them the bound on attempts, are preserved. *)
LEMMA TypeStep == Inv /\ [Next]_vars => TypeOK'
<1> SUFFICES ASSUME Inv, [Next]_vars PROVE TypeOK'
  OBVIOUS
<1> USE TaskAssumption, EnvironmentAssumption
<1>t. TypeOK
  BY DEF Inv
<1>1. CASE UNCHANGED vars
  BY <1>t, <1>1 DEF TypeOK, vars
<1>2. ASSUME NEW r \in Runs,
             RunTask(r) \/ RequiredBy(r) \/ ReadApproval(r)
      PROVE  TypeOK'
  BY <1>t, <1>2 DEF TypeOK, RunTask, RequiredBy, ReadApproval, Goto, RunPCs
<1>3. ASSUME NEW r \in Runs, Gate(r) PROVE TypeOK'
  <2>1. approvals' \in Seq(ApprovalStatuses)
    BY <1>t, <1>3, Requested DEF TypeOK, Gate
  <2>2. status' \in Statuses
    BY <1>t, <1>3 DEF TypeOK, Gate, Statuses
  <2>3. Goto(r, "lost") \/ Goto(r, "aborted") \/ Goto(r, "gated")
    BY <1>3 DEF Gate
  <2>4. run' \in [Runs -> [pc : RunPCs, seen : Statuses]]
    <3>1. \A pc \in RunPCs : Goto(r, pc) => run' \in [Runs -> [pc : RunPCs, seen : Statuses]]
      BY <1>t DEF TypeOK, Goto
    <3>2. {"lost", "aborted", "gated"} \subseteq RunPCs
      BY DEF RunPCs
    <3> QED
      BY <2>3, <3>1, <3>2
  <2> QED
    BY <1>t, <1>3, <2>1, <2>2, <2>4 DEF TypeOK, Gate
<1>4. ASSUME NEW r \in Runs, BecomeReady(r) PROVE TypeOK'
  <2>1. [pc |-> "claim", seen |-> "READY"] \in [pc : RunPCs, seen : Statuses]
    BY DEF RunPCs, Statuses
  <2>2. run' \in [Runs -> [pc : RunPCs, seen : Statuses]]
    BY <1>t, <1>4, <2>1 DEF TypeOK, BecomeReady, Goto, RunPCs
  <2>3. status' \in Statuses
    BY <1>t, <1>4 DEF TypeOK, BecomeReady, Statuses
  <2> QED
    BY <1>t, <1>4, <2>2, <2>3 DEF TypeOK, BecomeReady
<1>5. ASSUME NEW r \in Runs, StartAttempt(r) PROVE TypeOK'
  <2>1. CompareAndSet(run[r].seen) => opened <= MaxRetries
    BY <1>t, <1>5 DEF Inv, SeenInv, BudgetInv, StartAttempt, CompareAndSet
  <2>2. opened' \in 0..(MaxRetries + 1)
    BY <1>t, <1>5, <2>1 DEF TypeOK, StartAttempt
  <2>3. [pc |-> "attempt", seen |-> "RUNNING"] \in [pc : RunPCs, seen : Statuses]
    BY DEF RunPCs, Statuses
  <2>4. run' \in [Runs -> [pc : RunPCs, seen : Statuses]]
    BY <1>t, <1>5, <2>3 DEF TypeOK, StartAttempt, Goto, RunPCs
  <2>5. status' \in Statuses
    BY <1>t, <1>5 DEF TypeOK, StartAttempt, Statuses
  <2> QED
    BY <1>t, <1>5, <2>2, <2>4, <2>5 DEF TypeOK, StartAttempt
<1>6. ASSUME NEW r \in Runs, EndAttempt(r) PROVE TypeOK'
  BY <1>t, <1>6 DEF TypeOK, EndAttempt, Goto, RunPCs, Statuses, Endings
<1>7. ASSUME NEW d \in Deciders, ReadForDecision(d) PROVE TypeOK'
  BY <1>t, <1>7 DEF TypeOK, ReadForDecision
<1>8. ASSUME NEW d \in Deciders, Decide(d) PROVE TypeOK'
  <2>1. approvals' \in Seq(ApprovalStatuses)
    BY <1>t, <1>8, DecidedRows DEF TypeOK, Decide
  <2> QED
    BY <1>t, <1>8, <2>1 DEF TypeOK, Decide, Statuses
<1>9. CASE SetPolicy
  <2>1. toggles' \in 0..MaxToggles
    BY <1>t, <1>9 DEF TypeOK, SetPolicy
  <2>2. policy' \in BOOLEAN
    BY <1>9 DEF SetPolicy
  <2> QED
    BY <1>t, <1>9, <2>1, <2>2 DEF TypeOK, SetPolicy
<1>10. CASE Cancel
  BY <1>t, <1>10 DEF TypeOK, Cancel, Statuses
<1> QED
  BY <1>1, <1>2, <1>3, <1>4, <1>5, <1>6, <1>7, <1>8, <1>9, <1>10 DEF Next

(* What the runs remember, and the attempts left, are preserved. *)
LEMMA SeenStep == Inv /\ [Next]_vars => SeenInv' /\ BudgetInv'
<1> SUFFICES ASSUME Inv, [Next]_vars PROVE SeenInv' /\ BudgetInv'
  OBVIOUS
<1> USE TaskAssumption
<1>t. TypeOK /\ SeenInv /\ BudgetInv
  BY DEF Inv
<1>r. run \in [Runs -> [pc : RunPCs, seen : Statuses]] /\ opened \in Nat
  BY <1>t DEF TypeOK
<1>1. CASE UNCHANGED vars
  BY <1>t, <1>1 DEF SeenInv, BudgetInv, vars
<1>2. ASSUME NEW r \in Runs, RunTask(r) PROVE SeenInv' /\ BudgetInv'
  <2>1. status \in Statuses
    BY <1>t DEF TypeOK
  <2> QED
    BY <1>t, <1>r, <1>2, <2>1
    DEF SeenInv, BudgetInv, RunTask, Goto, Terminal, Active, Statuses
<1>3. ASSUME NEW r \in Runs, RequiredBy(r) \/ ReadApproval(r)
      PROVE  SeenInv' /\ BudgetInv'
  BY <1>t, <1>r, <1>3 DEF SeenInv, BudgetInv, RequiredBy, ReadApproval, Goto
<1>4. ASSUME NEW r \in Runs, Gate(r) PROVE SeenInv' /\ BudgetInv'
  <2>1. SeenInv'
    BY <1>t, <1>r, <1>4 DEF SeenInv, Gate, Goto
  <2>2. BudgetInv'
    BY <1>t, <1>r, <1>4 DEF SeenInv, BudgetInv, Gate, CompareAndSet
  <2> QED
    BY <2>1, <2>2
<1>5. ASSUME NEW r \in Runs, BecomeReady(r) PROVE SeenInv' /\ BudgetInv'
  <2>1. SeenInv'
    BY <1>t, <1>r, <1>5 DEF SeenInv, BecomeReady, Goto
  <2>2. BudgetInv'
    BY <1>t, <1>r, <1>5 DEF SeenInv, BudgetInv, BecomeReady, CompareAndSet
  <2> QED
    BY <2>1, <2>2
<1>6. ASSUME NEW r \in Runs, StartAttempt(r) PROVE SeenInv' /\ BudgetInv'
  <2>1. SeenInv'
    BY <1>t, <1>r, <1>6 DEF SeenInv, StartAttempt, Goto, Active
  <2>2. BudgetInv'
    BY <1>t, <1>r, <1>6 DEF SeenInv, BudgetInv, StartAttempt
  <2> QED
    BY <2>1, <2>2
<1>7. ASSUME NEW r \in Runs, EndAttempt(r) PROVE SeenInv' /\ BudgetInv'
  <2>1. SeenInv'
    BY <1>t, <1>r, <1>7 DEF SeenInv, EndAttempt, Goto, Active
  <2>2. BudgetInv'
    BY <1>t, <1>r, <1>7
    DEF SeenInv, BudgetInv, EndAttempt, Endings, AttemptsLeft
  <2> QED
    BY <2>1, <2>2
<1>8. ASSUME NEW d \in Deciders, ReadForDecision(d) \/ Decide(d)
      PROVE  SeenInv' /\ BudgetInv'
  BY <1>t, <1>r, <1>8
  DEF SeenInv, BudgetInv, ReadForDecision, Decide, CompareAndSet
<1>9. CASE SetPolicy \/ Cancel
  BY <1>t, <1>9 DEF SeenInv, BudgetInv, SetPolicy, Cancel
<1> QED
  BY <1>1, <1>2, <1>3, <1>4, <1>5, <1>6, <1>7, <1>8, <1>9 DEF Next

(* What the rows say of the status: a waiting task can be decided, a denial *)
(* was the last word.                                                       *)
RowsInv ==
  /\ PendingIsLast
  /\ status = "WAITING_APPROVAL" => HasPending
  /\ Denied => status = "FAILED"
  /\ \A i, j \in DOMAIN approvals :
       i < j /\ approvals[i] = "DENIED" => approvals[j] = "PENDING"

(* A step that leaves the requests alone and makes the task neither waiting *)
(* nor, once failed, anything else.                                         *)
LEMMA RowsKept ==
  ASSUME RowsInv, approvals' = approvals,
         status' = status \/ (status # "FAILED" /\ status' # "WAITING_APPROVAL")
  PROVE  RowsInv'
  BY DEF RowsInv, PendingIsLast, HasPending, Denied

(* One pending request at most, always the last one; a waiting task has it; *)
(* a denied task is FAILED.  One step per action.                           *)
LEMMA RowsStep == Inv /\ [Next]_vars => RowsInv'
<1> SUFFICES ASSUME Inv, [Next]_vars PROVE RowsInv'
  OBVIOUS
<1>t. TypeOK /\ SeenInv /\ RowsInv
  BY DEF Inv, RowsInv
<1>a. approvals \in Seq(ApprovalStatuses)
  BY <1>t DEF TypeOK
<1>1. CASE UNCHANGED vars
  BY <1>t, <1>1, RowsKept DEF vars
<1>2. ASSUME NEW r \in Runs,
             RunTask(r) \/ RequiredBy(r) \/ ReadApproval(r)
      PROVE  RowsInv'
  BY <1>t, <1>2, RowsKept DEF RunTask, RequiredBy, ReadApproval
<1>3. ASSUME NEW r \in Runs, Gate(r) PROVE RowsInv'
  <2>1. CASE UNCHANGED <<status, approvals>>
    BY <1>t, <2>1, RowsKept
  <2>2. CASE ~UNCHANGED <<status, approvals>>
    <3>1. /\ ~HasPending
          /\ approvals' = Append(approvals, "PENDING")
          /\ status' = status
             \/ (CompareAndSet(run[r].seen) /\ status' = "WAITING_APPROVAL")
      BY <1>3, <2>2 DEF Gate, UniqueViolation
    <3>2. /\ Len(approvals') = Len(approvals) + 1
          /\ DOMAIN approvals' = 1..Len(approvals')
          /\ DOMAIN approvals = 1..Len(approvals)
          /\ Len(approvals) \in Nat
          /\ approvals'[Len(approvals')] = "PENDING"
          /\ \A i \in DOMAIN approvals : approvals'[i] = approvals[i]
      BY <1>a, <3>1, Requested
    <3>3. PendingIsLast' /\ HasPending'
      BY <3>1, <3>2 DEF PendingIsLast, HasPending
    <3>4. Denied' => Denied
      BY <3>2 DEF Denied
    <3>5. CompareAndSet(run[r].seen) => status # "FAILED" \/ status' = status
      BY <1>t, <1>3 DEF SeenInv, Gate, CompareAndSet
    <3>6. (Denied => status = "FAILED")'
      BY <1>t, <3>1, <3>4, <3>5 DEF RowsInv
    <3>7. ASSUME NEW i \in DOMAIN approvals', NEW j \in DOMAIN approvals',
                 i < j, approvals'[i] = "DENIED"
          PROVE  approvals'[j] = "PENDING"
      BY <1>t, <3>2, <3>7 DEF RowsInv
    <3> QED
      BY <3>3, <3>6, <3>7 DEF RowsInv
  <2> QED
    BY <2>1, <2>2
<1>4. ASSUME NEW r \in Runs, BecomeReady(r) \/ StartAttempt(r) \/ EndAttempt(r)
      PROVE  RowsInv'
  <2>1. /\ approvals' = approvals
        /\ status' = status \/ (status # "FAILED" /\ status' # "WAITING_APPROVAL")
    BY <1>t, <1>4 DEF SeenInv, BecomeReady, StartAttempt, EndAttempt, Endings,
                      CompareAndSet, Active
  <2> QED
    BY <1>t, <2>1, RowsKept
<1>5. ASSUME NEW d \in Deciders, ReadForDecision(d) PROVE RowsInv'
  BY <1>t, <1>5, RowsKept DEF ReadForDecision
<1>6. ASSUME NEW d \in Deciders, Decide(d) PROVE RowsInv'
  <2>1. CASE UNCHANGED <<status, approvals>>
    BY <1>t, <2>1, RowsKept
  <2>2. CASE ~UNCHANGED <<status, approvals>>
    <3>1. PICK granted \in BOOLEAN :
            /\ status = "WAITING_APPROVAL"
            /\ status' = IF granted THEN "READY" ELSE "FAILED"
            /\ approvals' = DecideApproval(IF granted THEN "GRANTED" ELSE "DENIED")
      BY <1>6, <2>2 DEF Decide, CompareAndSet
    <3> DEFINE decision == IF granted THEN "GRANTED" ELSE "DENIED"
    <3>2. decision \in {"GRANTED", "DENIED"}
      OBVIOUS
    <3>3. /\ DOMAIN approvals' = DOMAIN approvals
          /\ Len(approvals') = Len(approvals)
          /\ DOMAIN approvals = 1..Len(approvals)
          /\ Len(approvals) \in Nat
          /\ \A i \in DOMAIN approvals :
               approvals'[i] = IF approvals[i] = "PENDING" THEN decision
                               ELSE approvals[i]
      BY <1>a, <3>1, <3>2, DecidedRows
    <3>4. ~Denied
      BY <1>t, <3>1 DEF RowsInv
    <3>5. \A i \in DOMAIN approvals : approvals[i] # "DENIED"
      BY <3>4 DEF Denied
    <3>6. PendingIsLast'
      BY <3>2, <3>3 DEF PendingIsLast
    <3>7. Denied' => status' = "FAILED"
      BY <3>1, <3>3, <3>5 DEF Denied
    <3>8. \A i, j \in DOMAIN approvals' :
            i < j /\ approvals'[i] = "DENIED" => approvals'[j] = "PENDING"
      BY <1>t, <3>3, <3>5 DEF RowsInv, PendingIsLast
    <3> QED
      BY <3>1, <3>6, <3>7, <3>8 DEF RowsInv
  <2> QED
    BY <2>1, <2>2
<1>7. CASE SetPolicy
  BY <1>t, <1>7, RowsKept DEF SetPolicy
<1>8. CASE Cancel
  BY <1>t, <1>8, RowsKept DEF Cancel, Terminal
<1> QED
  BY <1>1, <1>2, <1>3, <1>4, <1>5, <1>6, <1>7, <1>8 DEF Next

(* No step takes a grant back. *)
LEMMA GrantStays == Inv /\ [Next]_vars /\ Granted => Granted'
<1> SUFFICES ASSUME Inv, [Next]_vars, Granted PROVE Granted'
  OBVIOUS
<1>a. approvals \in Seq(ApprovalStatuses)
  BY DEF Inv, TypeOK
<1>1. CASE approvals' = approvals
  BY <1>1 DEF Granted
<1>2. CASE approvals' = Append(approvals, "PENDING")
  BY <1>a, <1>2, Requested DEF Granted
<1>3. ASSUME NEW decision \in {"GRANTED", "DENIED"},
             approvals' = DecideApproval(decision)
      PROVE  Granted'
  <2>1. PICK i \in DOMAIN approvals : approvals[i] = "GRANTED"
    BY DEF Granted
  <2>2. i \in DOMAIN approvals' /\ approvals'[i] = "GRANTED"
    BY <1>a, <1>3, <2>1, DecidedRows
  <2> QED
    BY <2>2 DEF Granted
<1>4. \/ approvals' = approvals
      \/ approvals' = Append(approvals, "PENDING")
      \/ \E decision \in {"GRANTED", "DENIED"} : approvals' = DecideApproval(decision)
  BY DEF Next, vars, RunTask, RequiredBy, ReadApproval, Gate, BecomeReady,
         StartAttempt, EndAttempt, ReadForDecision, Decide, SetPolicy, Cancel
<1> QED
  BY <1>1, <1>2, <1>3, <1>4

(* The gate is never passed without a grant. *)
LEMMA GateStep == Inv /\ [Next]_vars => GateInv'
<1> SUFFICES ASSUME Inv, [Next]_vars, Gated' PROVE
      /\ status' \in {"READY", "RUNNING", "VERIFYING", "SUCCEEDED"} => Granted'
      /\ opened' > 0 => Granted'
      /\ \A r \in Runs : run'[r].pc = "ready" => Granted'
  BY DEF GateInv
<1>t. TypeOK /\ SeenInv /\ GateInv
  BY DEF Inv
<1>r. /\ run \in [Runs -> [pc : RunPCs, seen : Statuses]]
      /\ opened \in Nat
      /\ approvals \in Seq(ApprovalStatuses)
      /\ toggles \in Nat
  BY <1>t, TaskAssumption, EnvironmentAssumption DEF TypeOK
<1>g. Gated
  BY <1>r DEF Gated, Next, vars, RunTask, RequiredBy, ReadApproval, Gate,
              BecomeReady, StartAttempt, EndAttempt, ReadForDecision, Decide,
              SetPolicy, Cancel
<1>c. CASE Granted
  BY <1>c, GrantStays
<1>n. CASE ~Granted
  <2>1. /\ status \notin {"READY", "RUNNING", "VERIFYING", "SUCCEEDED"}
        /\ opened = 0
        /\ \A r \in Runs : run[r].pc # "ready"
    BY <1>t, <1>r, <1>g, <1>n DEF GateInv
  <2>2. Required
    BY <1>g DEF Gated, Required
  <2>3. LatestApproval # "GRANTED"
    BY <1>r, <1>n DEF LatestApproval, Granted
  <2>4. CASE UNCHANGED vars
    BY <2>1, <2>4 DEF vars
  <2>5. ASSUME NEW r \in Runs,
               RunTask(r) \/ RequiredBy(r) \/ ReadApproval(r) \/ Gate(r)
        PROVE  /\ status' \notin {"READY", "RUNNING", "VERIFYING", "SUCCEEDED"}
               /\ opened' = 0
               /\ \A q \in Runs : run'[q].pc # "ready"
    BY <1>r, <2>1, <2>2, <2>3, <2>5
    DEF RunTask, RequiredBy, ReadApproval, Gate, Goto
  <2>6. ASSUME NEW r \in Runs, BecomeReady(r) \/ StartAttempt(r) \/ EndAttempt(r)
        PROVE  /\ status' \notin {"READY", "RUNNING", "VERIFYING", "SUCCEEDED"}
               /\ opened' = 0
               /\ \A q \in Runs : run'[q].pc # "ready"
    BY <1>t, <1>r, <2>1, <2>6
    DEF SeenInv, BecomeReady, StartAttempt, EndAttempt, Goto, CompareAndSet, Active
  <2>7. ASSUME NEW d \in Deciders, ReadForDecision(d)
        PROVE  UNCHANGED <<status, opened, run>>
    BY <2>7 DEF ReadForDecision
  <2>8. ASSUME NEW d \in Deciders, Decide(d), ~Granted'
        PROVE  /\ status' \notin {"READY", "RUNNING", "VERIFYING", "SUCCEEDED"}
               /\ UNCHANGED <<opened, run>>
    <3>1. UNCHANGED <<opened, run>>
      BY <2>8 DEF Decide
    <3>2. ASSUME HasPending, approvals' = DecideApproval("GRANTED") PROVE FALSE
      <4>1. PICK i \in DOMAIN approvals : approvals[i] = "PENDING"
        BY <3>2 DEF HasPending
      <4>2. i \in DOMAIN approvals' /\ approvals'[i] = "GRANTED"
        BY <1>r, <3>2, <4>1, DecidedRows
      <4> QED
        BY <2>8, <4>2 DEF Granted
    <3> QED
      BY <2>1, <2>8, <3>1, <3>2 DEF Decide
  <2>9. CASE SetPolicy \/ Cancel
    BY <2>1, <2>9 DEF SetPolicy, Cancel
  <2> QED
    BY <2>1, <2>4, <2>5, <2>6, <2>7, <2>8, <2>9 DEF Next
<1> QED
  BY <1>c, <1>n

(* The inductive step. *)
LEMMA InvStep == Inv /\ [Next]_vars => Inv'
<1> SUFFICES ASSUME Inv, [Next]_vars PROVE Inv'
  OBVIOUS
<1> QED
  BY TypeStep, SeenStep, RowsStep, GateStep DEF Inv, RowsInv

(* The invariant the properties follow from holds in every behaviour of the *)
(* runs, the deciders and the policy.                                       *)
THEOREM Invariance == Spec => []Inv
  BY InvInit, InvStep, PTL DEF Spec

(* Type correctness, with max_retries bounding the attempts however often   *)
(* the task went through the gate.                                          *)
THEOREM TypeCorrect == Spec => []TypeOK
<1>1. Inv => TypeOK
  BY DEF Inv
<1> QED
  BY <1>1, Invariance, PTL

(* enforceApproval: no attempt of a gated task before a grant. *)
THEOREM NoBypass == Spec => []GateNotBypassed
<1>1. Inv => GateNotBypassed
  BY DEF Inv, GateInv, Gated, GateNotBypassed
<1> QED
  BY <1>1, Invariance, PTL

(* A waiting task has exactly one pending request. *)
THEOREM Decidable == Spec => []WaitingHasRequest
<1>1. Inv => WaitingHasRequest
  BY DEF Inv, PendingIsLast, WaitingHasRequest
<1> QED
  BY <1>1, Invariance, PTL

(* Approve: a denial is final, whoever else decides at the same time. *)
THEOREM DenialFinal == Spec => []DenialIsFinal
<1>1. Inv => DenialIsFinal
  BY DEF Inv, DenialIsFinal
<1> QED
  BY <1>1, Invariance, PTL

(* A person's decision binds every run: nothing gated is opened before a    *)
(* grant, and nothing is granted or run after a denial.                     *)
THEOREM DecisionsBinding == Spec => []DecisionsBind
BY NoBypass, DenialFinal, PTL DEF DecisionsBind

(* A decision is never rewritten: DecideApproval updates the pending        *)
(* request only, and the gate adds a request without touching the others.   *)
THEOREM NeverRewritten == Spec => DecisionsStand
<1> DEFINE Stand ==
      \A i \in DOMAIN approvals :
        approvals[i] # "PENDING" => approvals'[i] = approvals[i]
<1>1. ASSUME Inv, [Next]_vars PROVE Stand
  <2>0. approvals \in Seq(ApprovalStatuses)
    BY <1>1 DEF Inv, TypeOK
  <2>1. UNCHANGED approvals => Stand
    OBVIOUS
  <2>2. ASSUME NEW r \in Runs, Gate(r) PROVE Stand
    <3>1. UNCHANGED approvals \/ approvals' = Append(approvals, "PENDING")
      BY <2>2 DEF Gate
    <3>2. "PENDING" \in ApprovalStatuses
      BY DEF ApprovalStatuses
    <3> QED
      BY <2>0, <2>1, <3>1, <3>2
  <2>3. ASSUME NEW d \in Deciders, Decide(d) PROVE Stand
    <3>1. UNCHANGED approvals \/ \E decision : approvals' = DecideApproval(decision)
      BY <2>3 DEF Decide
    <3> QED
      BY <2>1, <3>1 DEF DecideApproval
  <2>4. ASSUME NEW r \in Runs,
               \/ RunTask(r) \/ RequiredBy(r) \/ ReadApproval(r)
               \/ BecomeReady(r) \/ StartAttempt(r) \/ EndAttempt(r)
        PROVE  UNCHANGED approvals
    BY <2>4 DEF RunTask, RequiredBy, ReadApproval, BecomeReady, StartAttempt, EndAttempt
  <2>5. ASSUME NEW d \in Deciders, ReadForDecision(d) PROVE UNCHANGED approvals
    BY <2>5 DEF ReadForDecision
  <2>6. SetPolicy \/ Cancel \/ UNCHANGED vars => UNCHANGED approvals
    BY DEF SetPolicy, Cancel, vars
  <2> HIDE DEF Stand
  <2> QED
    BY <1>1, <2>1, <2>2, <2>3, <2>4, <2>5, <2>6 DEF Next
<1>2. Inv /\ [Next]_vars => [Stand]_vars
  BY <1>1
<1>3. Spec => [][Stand]_vars
  BY <1>2, Invariance, PTL DEF Spec
<1> QED
  BY <1>3 DEF DecisionsStand

(* The gate implements the abstract task row. *)
THEOREM ImplementsTaskStatus == Spec => RowSpec
<1>1. Init => Row!Init
  BY DEF Init, Row!Init
<1>2. Inv /\ [Next]_vars => [Row!Next]_status
  <2> SUFFICES ASSUME Inv, [Next]_vars, status' # status PROVE Row!Next
    OBVIOUS
  <2>t. TypeOK /\ SeenInv
    BY DEF Inv
  <2>1. ASSUME NEW r \in Runs,
               \/ RunTask(r) \/ RequiredBy(r) \/ ReadApproval(r) \/ Gate(r)
               \/ BecomeReady(r) \/ StartAttempt(r) \/ EndAttempt(r)
        PROVE  status' \in Transitions(status)
    BY <2>t, <2>1 DEF SeenInv, RunTask, RequiredBy, ReadApproval, Gate, BecomeReady,
                      StartAttempt, EndAttempt, Endings, CompareAndSet, Active,
                      Transitions
  <2>2. ASSUME NEW d \in Deciders, ReadForDecision(d) \/ Decide(d)
        PROVE  status' \in Transitions(status)
    BY <2>2 DEF ReadForDecision, Decide, CompareAndSet, Transitions
  <2>3. ASSUME SetPolicy \/ Cancel PROVE status' \in Transitions(status)
    BY <2>t, <2>3 DEF TypeOK, SetPolicy, Cancel, Terminal, Statuses, Transitions
  <2>4. status' \in Transitions(status)
    BY <2>1, <2>2, <2>3 DEF Next, vars
  <2>5. status \in Statuses /\ status' \in Statuses
    BY <2>t, TypeStep DEF TypeOK
  <2> QED
    BY <2>4, <2>5 DEF Row!Next, Row!TransitionTask, Row!Statuses, Row!Transitions, Statuses, Transitions
<1> QED
  BY <1>1, <1>2, Invariance, PTL DEF Spec, RowSpec, Row!Spec
=============================================================================
