---------------------------- MODULE ApprovalGate ----------------------------
(***************************************************************************)
(* The approval gate of one task (worker/run.go requiredBy and             *)
(* enforceApproval, worker/worker.go Approve, store/approval.go), between  *)
(* RunTask reading the task and startAttempt claiming it.  Several runs    *)
(* and several people deciding share the task row, its approval requests   *)
(* and the project's policy; each of them reads first and writes later, in *)
(* one transaction.  What an attempt does is TaskLifecycle's subject: here *)
(* it only ends.                                                           *)
(***************************************************************************)
EXTENDS StatusTable, Naturals, Sequences

CONSTANTS
  Runs,          \* RunTask calls
  Deciders,      \* Approve calls, from the CLI or from MCP
  TaskRequires,  \* tasks.requires_approval, fixed when the task is created
  MaxRetries,    \* the task's max_retries
  Cancelling,    \* the task may be cancelled
  MaxToggles     \* bound: changes of the project's policy

ASSUME TaskAssumption == TaskRequires \in BOOLEAN /\ MaxRetries \in Nat
ASSUME EnvironmentAssumption == Cancelling \in BOOLEAN /\ MaxToggles \in Nat

VARIABLES
  status,      \* tasks.status
  approvals,   \* the approval rows' statuses, in the order of requested_at
  policy,      \* projects.requires_approval
  toggles,     \* how often the policy changed
  opened,      \* attempts opened so far
  run,         \* the local state of each run
  decider      \* the local state of each Approve call

vars == <<status, approvals, policy, toggles, opened, run, decider>>

NewRun == [pc |-> "idle", seen |-> "PENDING"]

ApprovalStatuses == {"PENDING", "GRANTED", "DENIED"}

Goto(r, pc) == run' = [run EXCEPT ![r] = [run[r] EXCEPT !.pc = pc]]

HasPending == \E i \in DOMAIN approvals : approvals[i] = "PENDING"

(* LatestApproval, or "none" when there is no row. *)
LatestApproval ==
  IF approvals = <<>> THEN "none" ELSE approvals[Len(approvals)]

OverwriteStatus(seen) == TRUE   \* wrong variant: an unconditional update

(* store.TransitionTask: the row must still have the status that was read. *)
CompareAndSet(seen) == status = seen

-----------------------------------------------------------------------------
(* The policy may be on or off when the task is created. *)
Init ==
  /\ status = "PENDING"
  /\ approvals = <<>>
  /\ policy \in BOOLEAN
  /\ toggles = 0
  /\ opened = 0
  /\ run = [r \in Runs |-> NewRun]
  /\ decider = [d \in Deciders |-> "idle"]

-----------------------------------------------------------------------------
(*                                 A run                                   *)

(* RunTask reads the task; execute refuses one that is finished or running. *)
RunTask(r) ==
  /\ run[r].pc = "idle"
  /\ IF Terminal(status) \/ Active(status)
     THEN Goto(r, "refused")
     ELSE run' = [run EXCEPT ![r] = [pc |-> "policy", seen |-> status]]
  /\ UNCHANGED <<status, approvals, policy, toggles, opened, decider>>

BothRequire == TaskRequires /\ policy   \* wrong variant: one flag is not enough

(* requiredBy: the task's own flag or the project's policy. *)
Required == TaskRequires \/ policy

(* enforceApproval reads the policy first; a task nobody gates goes on. *)
RequiredBy(r) ==
  /\ run[r].pc = "policy"
  /\ Goto(r, IF Required THEN "approval" ELSE "ready")
  /\ UNCHANGED <<status, approvals, policy, toggles, opened, decider>>

(* enforceApproval then reads the latest request: a grant lets the run on,  *)
(* a denial ends it, anything else opens the gate's transaction.            *)
ReadApproval(r) ==
  /\ run[r].pc = "approval"
  /\ Goto(r, CASE LatestApproval = "GRANTED" -> "ready"
               [] LatestApproval = "DENIED"  -> "refused"
               [] OTHER                      -> "gate")
  /\ UNCHANGED <<status, approvals, policy, toggles, opened, decider>>

NoUniqueIndex == FALSE   \* wrong variant: every request is inserted

(* The partial unique index: a second pending request is refused. *)
UniqueViolation == HasPending

(* The gate's transaction.  The status is compared only when it has to      *)
(* change: a run that read WAITING_APPROVAL does not look at it again.      *)
(* RequestApproval meets the unique index on pending requests; the          *)
(* LatestApproval that follows ErrAlreadyExists runs in a transaction       *)
(* PostgreSQL has already aborted, so the whole of it is rolled back and    *)
(* the run returns that error.                                              *)
Gate(r) ==
  LET waiting == run[r].seen = "WAITING_APPROVAL" IN
  /\ run[r].pc = "gate"
  /\ \/ /\ ~waiting /\ ~CompareAndSet(run[r].seen)
        /\ Goto(r, "lost")
        /\ UNCHANGED <<status, approvals>>
     \/ /\ waiting \/ CompareAndSet(run[r].seen)
        /\ UniqueViolation
        /\ Goto(r, "aborted")
        /\ UNCHANGED <<status, approvals>>
     \/ /\ waiting \/ CompareAndSet(run[r].seen)
        /\ ~UniqueViolation
        /\ status' = IF waiting THEN status ELSE "WAITING_APPROVAL"
        /\ approvals' = Append(approvals, "PENDING")
        /\ Goto(r, "gated")
  /\ UNCHANGED <<policy, toggles, opened, decider>>

(* becomeReady.  A run that read WAITING_APPROVAL takes the task out of it. *)
BecomeReady(r) ==
  /\ run[r].pc = "ready"
  /\ IF run[r].seen = "READY"
     THEN Goto(r, "claim") /\ UNCHANGED status
     ELSE IF CompareAndSet(run[r].seen)
     THEN /\ status' = "READY"
          /\ run' = [run EXCEPT ![r] = [pc |-> "claim", seen |-> "READY"]]
     ELSE Goto(r, "lost") /\ UNCHANGED status
  /\ UNCHANGED <<approvals, policy, toggles, opened, decider>>

(* startAttempt. *)
StartAttempt(r) ==
  /\ run[r].pc = "claim"
  /\ IF CompareAndSet(run[r].seen)
     THEN /\ status' = "RUNNING"
          /\ opened' = opened + 1
          /\ run' = [run EXCEPT ![r] = [pc |-> "attempt", seen |-> "RUNNING"]]
     ELSE Goto(r, "lost") /\ UNCHANGED <<status, opened>>
  /\ UNCHANGED <<approvals, policy, toggles, decider>>

Endings(s) == IF s = "VERIFYING" THEN {"SUCCEEDED", "FAILED"} ELSE {"FAILED"}

AnotherRetry == TRUE   \* wrong variant: max_retries is not looked at

(* willRetry: attempts are left. *)
AttemptsLeft == opened <= MaxRetries

(* The attempt reaches verification, ends the task, or returns it to READY  *)
(* for the next attempt, which execute starts without asking the gate       *)
(* again.  All of it is behind a compare-and-set.                           *)
EndAttempt(r) ==
  /\ run[r].pc = "attempt"
  /\ \/ /\ run[r].seen = "RUNNING"
        /\ CompareAndSet(run[r].seen)
        /\ status' = "VERIFYING"
        /\ run' = [run EXCEPT ![r] = [pc |-> "attempt", seen |-> "VERIFYING"]]
     \/ /\ CompareAndSet(run[r].seen)
        /\ status' \in Endings(run[r].seen)
        /\ Goto(r, "ended")
     \/ /\ CompareAndSet(run[r].seen)
        /\ AttemptsLeft
        /\ status' = "READY"
        /\ run' = [run EXCEPT ![r] = [pc |-> "claim", seen |-> "READY"]]
     \/ /\ ~CompareAndSet(run[r].seen)
        /\ Goto(r, "lost")
        /\ UNCHANGED status
  /\ UNCHANGED <<approvals, policy, toggles, opened, decider>>

-----------------------------------------------------------------------------
(*                          People and the policy                          *)

(* Approve reads the task and refuses one that is not WAITING_APPROVAL. *)
ReadForDecision(d) ==
  /\ decider[d] = "idle"
  /\ decider' = [decider EXCEPT ![d] =
       IF status = "WAITING_APPROVAL" THEN "decide" ELSE "done"]
  /\ UNCHANGED <<status, approvals, policy, toggles, opened, run>>

(* Wrong variant: every request of the task is decided. *)
DecideAll(decision) == [i \in DOMAIN approvals |-> decision]

(* DecideApproval: UPDATE approvals ... WHERE status = 'PENDING'. *)
DecideApproval(decision) ==
  [i \in DOMAIN approvals |->
     IF approvals[i] = "PENDING" THEN decision ELSE approvals[i]]

(* Approve's transaction: decide the pending request, if there is one, and  *)
(* move the task from WAITING_APPROVAL; without either nothing is written.  *)
(* (No attempt is open then, so finishOpenAttempts finds none.)             *)
Decide(d) ==
  /\ decider[d] = "decide"
  /\ \/ /\ HasPending
        /\ CompareAndSet("WAITING_APPROVAL")
        /\ \E granted \in BOOLEAN :
             /\ status' = IF granted THEN "READY" ELSE "FAILED"
             /\ approvals' = DecideApproval(IF granted THEN "GRANTED" ELSE "DENIED")
     \/ /\ ~HasPending \/ ~CompareAndSet("WAITING_APPROVAL")
        /\ UNCHANGED <<status, approvals>>
  /\ decider' = [decider EXCEPT ![d] = "done"]
  /\ UNCHANGED <<policy, toggles, opened, run>>

(* SetProjectRequiresApproval: the policy is switched. *)
SetPolicy ==
  /\ toggles < MaxToggles
  /\ toggles' = toggles + 1
  /\ policy' = ~policy
  /\ UNCHANGED <<status, approvals, opened, run, decider>>

(* Cancel.  It reads the status and compares it in its transaction, so the  *)
(* one that takes effect is a single step.  Pending requests stay.          *)
Cancel ==
  /\ Cancelling
  /\ ~Terminal(status)
  /\ status' = "CANCELLED"
  /\ UNCHANGED <<approvals, policy, toggles, opened, run, decider>>

-----------------------------------------------------------------------------
Next ==
  \/ \E r \in Runs :
       \/ RunTask(r) \/ RequiredBy(r) \/ ReadApproval(r) \/ Gate(r)
       \/ BecomeReady(r) \/ StartAttempt(r) \/ EndAttempt(r)
  \/ \E d \in Deciders : ReadForDecision(d) \/ Decide(d)
  \/ SetPolicy
  \/ Cancel

Spec == Init /\ [][Next]_vars

-----------------------------------------------------------------------------
(*                              Properties                                 *)

RunPCs == {"idle", "policy", "approval", "gate", "ready", "claim", "attempt",
           "refused", "lost", "aborted", "gated", "ended"}

(* The type invariant.  Attempts are bounded by max_retries, whichever runs *)
(* opened them and however often the task went through the gate.            *)
TypeOK ==
  /\ status \in Statuses
  /\ approvals \in Seq(ApprovalStatuses)
  /\ policy \in BOOLEAN
  /\ toggles \in 0..MaxToggles
  /\ opened \in 0..(MaxRetries + 1)
  /\ run \in [Runs -> [pc : RunPCs, seen : Statuses]]
  /\ decider \in [Deciders -> {"idle", "decide", "done"}]

Granted == \E i \in DOMAIN approvals : approvals[i] = "GRANTED"
Denied  == \E i \in DOMAIN approvals : approvals[i] = "DENIED"

(* "The gate runs before anything is claimed": when the task asks for       *)
(* approval, or its project always did, no attempt is ever opened before a  *)
(* person granted a request - not by a run whose reads are stale, not by a  *)
(* run that takes the task out of WAITING_APPROVAL, not by a retry.         *)
GateNotBypassed ==
  (TaskRequires \/ (policy /\ toggles = 0)) /\ opened > 0 => Granted

(* A task waiting for a person can be decided: it has exactly one pending   *)
(* request, and no status ever has two.                                     *)
WaitingHasRequest ==
  /\ status = "WAITING_APPROVAL" => HasPending
  /\ \A i, j \in DOMAIN approvals :
       approvals[i] = "PENDING" /\ approvals[j] = "PENDING" => i = j

(* A denial is final.  Whatever a second person decides at the same time    *)
(* and whatever the runs had read, the task is FAILED and stays so, and no  *)
(* request made after the denial is granted.                                *)
DenialIsFinal ==
  /\ Denied => status = "FAILED"
  /\ \A i, j \in DOMAIN approvals :
       i < j /\ approvals[i] = "DENIED" => approvals[j] = "PENDING"

(* A person's decision binds every run, whatever it had read: nothing gated *)
(* is opened before a grant, and a denial ends the task for good.           *)
DecisionsBind == GateNotBypassed /\ DenialIsFinal

(* A decision is never rewritten, by a second person deciding at the same   *)
(* time or when the task passes the gate again.                             *)
DecisionsStand ==
  [][\A i \in DOMAIN approvals :
       approvals[i] # "PENDING" => approvals'[i] = approvals[i]]_vars

(* The task row changes only as the state machine says. *)
Row == INSTANCE TaskStatus
RowSpec == Row!Spec

(* Approve's doc: a grant "returns the task to READY so that it can be      *)
(* run".  A READY task whose request was granted is let through by the      *)
(* gate: its latest request is the granted one.                             *)
GrantedIsRunnable ==
  status = "READY" /\ Granted => LatestApproval = "GRANTED"

(* enforceApproval: "gate the task and open a request if there is not one". *)
(* A run that finds a request already pending is gated as the first one     *)
(* was; it does not end in a database error.                                *)
PendingRunsAreGated == \A r \in Runs : run[r].pc # "aborted"
=============================================================================
