--------------------------- MODULE TaskLifecycle ---------------------------
(***************************************************************************)
(* One task of aidev, from RunTask to its ending, as the processes that    *)
(* act on it see it: the runs (worker/run.go, worker/retry.go) with the    *)
(* watcher that renews their lease, the Cancel and Recover calls of        *)
(* worker/cancel.go, and the operator's `worktree remove` and              *)
(* `task delete`.  They share three things: the database rows, the         *)
(* directories of the workspace, and the task's branches.                  *)
(*                                                                         *)
(* A database transaction is one step.  Git work done inside a transaction *)
(* (succeed, scheduleRetry) is part of that step, but its effect stays     *)
(* when the transaction does not commit.  A process may die between any    *)
(* two steps.                                                              *)
(***************************************************************************)
EXTENDS StatusTable, Integers, Sequences

CONSTANTS
  Runs,          \* RunTask calls, each in a process of its own
  Cancels,       \* Cancel calls of an operator or of the planner
  Recovers,      \* callers of Recover, which they may repeat
  Removers,      \* `aidev worktree remove` calls
  SameProcess,   \* <<caller, run>> pairs living in one process
  MaxRetries,    \* the task's max_retries
  CleanupOnSuccess,   \* the configured worktree_cleanup policy is on_success
  ExpectFailOnBase,   \* the task asked for the red-before-green gate
  Deletes,       \* `aidev task delete` is issued
  Interrupts,    \* a run's process may be told to stop (SIGINT, SIGTERM)
  Stalls,        \* a live run may miss its renewals for a whole lease
  MaxCrashes,    \* bound: runs that die
  MaxFaults      \* bound: transactions and clean-ups that fail on their own

ASSUME RetriesAssumption == MaxRetries \in Nat
ASSUME SwitchAssumption ==
  /\ CleanupOnSuccess \in BOOLEAN /\ ExpectFailOnBase \in BOOLEAN
  /\ Deletes \in BOOLEAN /\ Interrupts \in BOOLEAN /\ Stalls \in BOOLEAN
ASSUME BoundAssumption == MaxCrashes \in Nat /\ MaxFaults \in Nat

Callers == Cancels \cup Recovers \cup Removers

(* Cancel gives up after losing its compare-and-set this often. *)
MaxCancelTries == 3

VARIABLES
  status,     \* tasks.status, or Gone
  attempts,   \* task_attempts joined with worktrees: attempts[n] is attempt n
  dirs,       \* directories on disk, named by the attempt they were made for
  branch,     \* branches in the repository: attempt number -> what it holds
  run,        \* the local state of each run
  ctx,        \* the run's context has been cancelled
  call,       \* the local state of each caller
  passed,     \* history: attempts whose checks passed
  crashes, faults   \* how many of each so far

db     == <<status, attempts>>
disk   == <<dirs, branch>>
bounds == <<crashes, faults>>
vars   == <<status, attempts, dirs, branch, run, ctx, call, passed,
            crashes, faults>>

AttemptStatuses  == {"RUNNING", "SUCCEEDED", "FAILED", "CANCELLED"}
WorktreeStatuses == {"none", "ACTIVE", "RETAINED", "REMOVED", "REUSED"}
Contents == {"base", "partial", "delivered"}

(* A new task_attempts row; its worktree is recorded later. *)
NewAttempt(r) == [status |-> "RUNNING", owner |-> r, lease |-> "live",
                  worktree |-> "none", path |-> 0]

(* A run before RunTask.  prev is retryContext.prevRecord: the attempt      *)
(* whose worktree a retry continues in; rec is the attempt whose worktree   *)
(* row the run holds; 0 is nil.                                             *)
NewRun == [pc |-> "idle", seen |-> "PENDING", att |-> 0, open |-> FALSE,
           rec |-> 0, path |-> 0, prev |-> 0, failure |-> "none"]

(* A Cancel, Recover or `worktree remove` call before it begins. *)
NewCall == [pc |-> "idle", seen |-> "PENDING", tries |-> 0, target |-> 0,
            path |-> 0]

Live(r) == run[r].pc \notin {"idle", "done", "dead"}

Latest == Len(attempts)

HasRow(n) == n \in 1..Latest

(* SetWorktreeStatus on the rows of a set of attempts. *)
Marked(rows, which, mark) ==
  [n \in DOMAIN rows |-> IF n \in which THEN [rows[n] EXCEPT !.worktree = mark]
                                        ELSE rows[n]]

(* CreateWorktree: the row of attempt n's worktree. *)
Recorded(rows, n, path) ==
  [rows EXCEPT ![n] = [@ EXCEPT !.worktree = "ACTIVE", !.path = path]]

(* FinishAttempt on attempt n. *)
Finished(rows, n, outcome) == [rows EXCEPT ![n].status = outcome]

Pointing(n, content) ==
  [k \in DOMAIN branch \cup {n} |-> IF k = n THEN content ELSE branch[k]]

Without(n) == [k \in DOMAIN branch \ {n} |-> branch[k]]

(* The local state of run r becomes s. *)
Becomes(r, s) == run' = [run EXCEPT ![r] = s]

Goto(r, pc) == Becomes(r, [run[r] EXCEPT !.pc = pc])

(* A transaction or a clean-up command that fails by itself. *)
CanFault == faults < MaxFaults /\ faults' = faults + 1

FailWith(r, failure) ==
  Becomes(r, [run[r] EXCEPT !.pc = "fail", !.failure = failure])

(* The run fails holding the worktree row of attempt n. *)
FailHolding(r, n) ==
  Becomes(r, [run[r] EXCEPT !.pc = "fail", !.failure = "final", !.rec = n])

-----------------------------------------------------------------------------
(* Wrong variant: the update is not conditional on the status read. *)
OverwriteStatus(seen) == status # Gone

(* store.TransitionTask succeeds when the row still has the status the      *)
(* caller read: UPDATE tasks SET status = ... WHERE status = seen.          *)
CompareAndSet(seen) == status = seen

(* Where a run goes when it lost its attempt or its compare-and-set: it     *)
(* ends, and records nothing.  (Cancel owns the ending, cancelledElsewhere, *)
(* or the error is returned.)                                               *)
CleanUpAnyway == "cleanup"   \* wrong variant
LostAttempt == "done"

(* Wrong variant: any run may write. *)
NoFence(r) == TRUE

(* The lease fence (store.HoldLease): with the task and the attempt locked, *)
(* the attempt must still be RUNNING under this process.  Expiry is not     *)
(* looked at.  A run with no open attempt has nothing to fence.             *)
Fence(r) ==
  run[r].open =>
    /\ HasRow(run[r].att)
    /\ attempts[run[r].att].status = "RUNNING"
    /\ attempts[run[r].att].owner = r

-----------------------------------------------------------------------------
Init ==
  /\ status = "PENDING"
  /\ attempts = <<>>
  /\ dirs = {}
  /\ branch = [n \in {} |-> "base"]
  /\ run = [r \in Runs |-> NewRun]
  /\ ctx = [r \in Runs |-> FALSE]
  /\ call = [c \in Callers |-> NewCall]
  /\ passed = {}
  /\ crashes = 0
  /\ faults = 0

-----------------------------------------------------------------------------
(*                           Claiming the task                             *)

(* RunTask reads the task and execute refuses a finished or running one.    *)
(* The approval gate between the two is ApprovalGate's subject: this task   *)
(* needs no approval.                                                       *)
RunTask(r) ==
  /\ run[r].pc = "idle"
  /\ IF status = Gone \/ Terminal(status) \/ Active(status)
     THEN Goto(r, "done")
     ELSE Becomes(r, [run[r] EXCEPT !.pc = "ready", !.seen = status])
  /\ UNCHANGED <<db, disk, ctx, call, passed, bounds>>

(* becomeReady: a compare-and-set from the status that was read. *)
BecomeReady(r) ==
  /\ run[r].pc = "ready"
  /\ IF run[r].seen = "READY"
     THEN Goto(r, "claim") /\ UNCHANGED status
     ELSE IF CompareAndSet(run[r].seen)
     THEN /\ status' = "READY"
          /\ Becomes(r, [run[r] EXCEPT !.pc = "claim", !.seen = "READY"])
     ELSE Goto(r, LostAttempt) /\ UNCHANGED status
  /\ UNCHANGED <<attempts, disk, ctx, call, passed, bounds>>

(* startAttempt: claim the task and open the next attempt, in one           *)
(* transaction.  A retry clears the failed attempt's fields first           *)
(* (resetForAttempt).  A run that lost the race ends.                       *)
StartAttempt(r) ==
  /\ run[r].pc = "claim"
  /\ IF CompareAndSet(run[r].seen)
     THEN /\ status' = "RUNNING"
          /\ attempts' = Append(attempts, NewAttempt(r))
          /\ Becomes(r, [run[r] EXCEPT
               !.pc = IF run[r].prev = 0 THEN "create" ELSE "continue",
               !.seen = "RUNNING", !.att = Latest + 1, !.open = TRUE,
               !.rec = 0, !.failure = "none"])
     ELSE Goto(r, LostAttempt) /\ UNCHANGED db
  /\ UNCHANGED <<disk, ctx, call, passed, bounds>>

-----------------------------------------------------------------------------
(*                        Preparing the worktree                           *)

(* prepareWorktree, first half: `git worktree add -b`.  It refuses a        *)
(* directory or a branch that exists; when it fails, the branch alone may   *)
(* stay behind (Create removes the directory of a checkout it could not     *)
(* complete, never the branch).                                             *)
PrepareWorktree(r) ==
  LET n == run[r].att IN
  /\ run[r].pc = "create"
  /\ \/ /\ ~ctx[r]
        /\ n \notin dirs
        /\ n \notin DOMAIN branch
        /\ dirs' = dirs \cup {n}
        /\ branch' = Pointing(n, "base")
        /\ Becomes(r, [run[r] EXCEPT !.pc = "record", !.path = n])
     \/ /\ FailWith(r, "final")
        /\ UNCHANGED dirs
        /\ \/ UNCHANGED branch
           \/ n \notin DOMAIN branch /\ branch' = Pointing(n, "base")
  /\ UNCHANGED <<db, ctx, call, passed, bounds>>

AfterRecord == IF ExpectFailOnBase THEN "base" ELSE "agent"

(* prepareWorktree, second half: the row is written behind the fence.  When *)
(* the attempt was taken away, the directory nothing records is removed     *)
(* (its branch stays) - but only on ErrLeaseLost: a task deleted in between *)
(* is ErrNotFound, and any other fault leaves the directory too.            *)
(* Taking the containment baseline can fail after the row is written.       *)
RecordWorktree(r) ==
  LET n == run[r].att IN
  /\ run[r].pc = "record"
  /\ \/ /\ Fence(r)
        /\ attempts' = Recorded(attempts, n, run[r].path)
        /\ \/ /\ ~ctx[r]
              /\ Becomes(r, [run[r] EXCEPT !.pc = AfterRecord, !.rec = n])
           \/ FailHolding(r, n)
        /\ UNCHANGED <<dirs, faults>>
     \/ /\ ~Fence(r)
        /\ dirs' = IF status = Gone THEN dirs ELSE dirs \ {run[r].path}
        /\ FailWith(r, "final")
        /\ UNCHANGED <<attempts, faults>>
     \/ /\ CanFault
        /\ FailWith(r, "final")
        /\ UNCHANGED <<attempts, dirs>>
  /\ UNCHANGED <<status, branch, ctx, call, passed, crashes>>

(* baseCheck: the checks run on the base commit; a pass there, or a check   *)
(* that could not run, ends the attempt.                                    *)
BaseCheck(r) ==
  /\ run[r].pc = "base"
  /\ \/ ~ctx[r] /\ Goto(r, "agent")
     \/ FailWith(r, "final")
  /\ UNCHANGED <<db, disk, ctx, call, passed, bounds>>

(* continueWorktree, first half: the next attempt's branch is created at    *)
(* HEAD of the failed attempt's directory.  When that breaks, the run falls *)
(* back to the record that still describes the directory.                   *)
ContinueOnNewBranch(r) ==
  LET n == run[r].att IN
  /\ run[r].pc = "continue"
  /\ \/ /\ ~ctx[r]
        /\ run[r].path \in dirs
        /\ n \notin DOMAIN branch
        /\ branch' = Pointing(n, "partial")
        /\ Goto(r, "continued")
     \/ /\ FailHolding(r, run[r].prev)
        /\ UNCHANGED branch
  /\ UNCHANGED <<db, dirs, ctx, call, passed, bounds>>

(* continueWorktree, second half: the row of the new attempt, behind the    *)
(* fence, at the same path.  A lost lease abandons the new branch.  Without *)
(* the new row the run falls back to the failed attempt's.                  *)
RecordContinued(r) ==
  LET n == run[r].att IN
  /\ run[r].pc = "continued"
  /\ \/ /\ Fence(r)
        /\ attempts' = Recorded(attempts, n, run[r].path)
        /\ \/ /\ ~ctx[r]
              /\ Becomes(r, [run[r] EXCEPT !.pc = "agent", !.rec = n])
           \/ FailHolding(r, n)
        /\ UNCHANGED <<branch, faults>>
     \/ /\ ~Fence(r)
        /\ branch' = IF status = Gone THEN branch ELSE Without(n)
        /\ FailHolding(r, run[r].prev)
        /\ UNCHANGED <<attempts, faults>>
     \/ /\ CanFault
        /\ FailHolding(r, run[r].prev)
        /\ UNCHANGED <<attempts, branch>>
  /\ UNCHANGED <<status, dirs, ctx, call, passed, crashes>>

-----------------------------------------------------------------------------
(*                       The agent and the checks                          *)

(* runAgent: how the agent ended.  An early stop may be retried; a timeout, *)
(* a refused tool call or an unclassified failure may not.                  *)
RunAgent(r) ==
  /\ run[r].pc = "agent"
  /\ ~ctx[r]
  /\ \/ Goto(r, "inspect")
     \/ \E failure \in {"retryable", "final"} : FailWith(r, failure)
  /\ UNCHANGED <<db, disk, ctx, call, passed, bounds>>

(* runAgent under a cancelled context: the agent is stopped. *)
StopAgent(r) ==
  /\ run[r].pc = "agent"
  /\ ctx[r]
  /\ FailWith(r, "cancelled")
  /\ UNCHANGED <<db, disk, ctx, call, passed, bounds>>

(* checkContainment and snapshotAgentTree: neither failure is retried. *)
CheckContainment(r) ==
  /\ run[r].pc = "inspect"
  /\ \/ ~ctx[r] /\ Goto(r, "verify")
     \/ FailWith(r, "final")
  /\ UNCHANGED <<db, disk, ctx, call, passed, bounds>>

(* verify, first transaction.  Losing it ends the run: either Cancel owns   *)
(* the ending (cancelledElsewhere) or an error is returned.                 *)
Verify(r) ==
  /\ run[r].pc = "verify"
  /\ IF Fence(r) /\ CompareAndSet(run[r].seen)
     THEN /\ status' = "VERIFYING"
          /\ Becomes(r, [run[r] EXCEPT !.pc = "check", !.seen = "VERIFYING"])
     ELSE Goto(r, LostAttempt) /\ UNCHANGED status
  /\ UNCHANGED <<attempts, disk, ctx, call, passed, bounds>>

(* Wrong variant: the outcome of the checks is not looked at. *)
RunChecksUnread(r) ==
  /\ run[r].pc = "check"
  /\ \/ passed' = passed \cup {run[r].att}
     \/ UNCHANGED passed
  /\ Goto(r, "succeed")
  /\ UNCHANGED <<db, disk, ctx, call, bounds>>

(* verify, the rest: the checks pass, fail (retryable), or time out, cannot *)
(* run or are refused (final).  A cancelled context lets nothing pass.      *)
RunChecks(r) ==
  /\ run[r].pc = "check"
  /\ \/ /\ ~ctx[r]
        /\ passed' = passed \cup {run[r].att}
        /\ Goto(r, "succeed")
     \/ /\ \/ ~ctx[r] /\ \E failure \in {"retryable", "final"} : FailWith(r, failure)
           \/ ctx[r] /\ FailWith(r, "cancelled")
        /\ UNCHANGED passed
  /\ UNCHANGED <<db, disk, ctx, call, bounds>>

-----------------------------------------------------------------------------
(*                              The endings                                *)

(* succeed: behind the fence, publish the branch, then record the success.  *)
(* The branch has moved even when the transaction is then lost.  A commit   *)
(* that fails is a failure of the task; so is a head commit that could not  *)
(* be recorded (SetWorktreeHead), with the branch already moved.            *)
Succeed(r) ==
  LET n == run[r].att IN
  /\ run[r].pc = "succeed"
  /\ \/ /\ Fence(r)
        /\ branch' = Pointing(n, "delivered")
        /\ \/ /\ CompareAndSet("VERIFYING")
              /\ status' = "SUCCEEDED"
              /\ attempts' = Finished(attempts, n, "SUCCEEDED")
              /\ Becomes(r, [run[r] EXCEPT !.pc = "cleanup", !.open = FALSE,
                                           !.seen = "SUCCEEDED"])
              /\ UNCHANGED faults
           \/ /\ ~CompareAndSet("VERIFYING")
              /\ Goto(r, LostAttempt)
              /\ UNCHANGED <<db, faults>>
           \/ /\ CanFault
              /\ Goto(r, "done")
              /\ UNCHANGED db
     \/ /\ Fence(r)
        /\ FailWith(r, "final")
        /\ \/ UNCHANGED <<branch, faults>>
           \/ CanFault /\ branch' = Pointing(n, "delivered")
        /\ UNCHANGED db
     \/ /\ ~Fence(r)
        /\ Goto(r, LostAttempt)
        /\ UNCHANGED <<db, branch, faults>>
  /\ UNCHANGED <<dirs, ctx, call, passed, crashes>>

(* cleanupAfterSuccess: remove the worktree when the policy says so.  Git   *)
(* refuses a dirty or missing one, which is then marked RETAINED.           *)
CleanupAfterSuccess(r) ==
  /\ run[r].pc = "cleanup"
  /\ \/ /\ ~CleanupOnSuccess
        /\ Goto(r, "done")
        /\ UNCHANGED <<dirs, attempts>>
     \/ /\ CleanupOnSuccess
        /\ run[r].path \in dirs
        /\ dirs' = dirs \ {run[r].path}
        /\ Goto(r, "cleaned")
        /\ UNCHANGED attempts
     \/ /\ CleanupOnSuccess
        /\ attempts' = Marked(attempts, {run[r].rec}, "RETAINED")
        /\ Goto(r, "done")
        /\ UNCHANGED dirs
  /\ UNCHANGED <<status, branch, ctx, call, passed, bounds>>

(* cleanupAfterSuccess, after the directory is gone. *)
RecordRemoval(r) ==
  /\ run[r].pc = "cleaned"
  /\ attempts' = Marked(attempts, {run[r].rec}, "REMOVED")
  /\ Goto(r, "done")
  /\ UNCHANGED <<status, disk, ctx, call, passed, bounds>>

(* Wrong variant: one attempt too many. *)
WillRetryOnceMore(r) ==
  /\ run[r].failure = "retryable"
  /\ ~ctx[r]
  /\ run[r].att <= MaxRetries + 1

(* willRetry: the failure is one another attempt can fix, nobody stopped    *)
(* the run, and attempts are left.                                          *)
WillRetry(r) ==
  /\ run[r].failure = "retryable"
  /\ ~ctx[r]
  /\ run[r].att <= MaxRetries

(* fail decides what the failure becomes: a cancellation, a retry or the    *)
(* task's failure.                                                          *)
Fail(r) ==
  /\ run[r].pc = "fail"
  /\ Goto(r, IF run[r].failure = "cancelled" \/ ctx[r] THEN "cancel"
             ELSE IF WillRetry(r) THEN "retry" ELSE "end")
  /\ UNCHANGED <<db, disk, ctx, call, passed, bounds>>

(* scheduleRetry: behind the fence, commit the failed attempt's work to its *)
(* branch, return the task to READY and hand the directory over (REUSED).   *)
(* The commit runs under the run's context, and when it fails the task      *)
(* fails instead, the branch moved or not (RestoreToHead comes after it).   *)
ScheduleRetry(r) ==
  LET n == run[r].att
      s == run[r] IN
  /\ s.pc = "retry"
  /\ \/ /\ Fence(r)
        /\ ~ctx[r]
        /\ branch' = Pointing(n, "partial")
        /\ \/ /\ CompareAndSet(s.seen)
              /\ status' = "READY"
              /\ attempts' = Finished(Marked(attempts, {s.rec}, "REUSED"), n, "FAILED")
              /\ Becomes(r, [run[r] EXCEPT !.pc = "claim", !.seen = "READY",
                                           !.open = FALSE, !.prev = s.rec])
              /\ UNCHANGED faults
           \/ /\ ~CompareAndSet(s.seen)
              /\ Goto(r, LostAttempt)
              /\ UNCHANGED <<db, faults>>
           \/ /\ CanFault
              /\ Goto(r, "done")
              /\ UNCHANGED db
     \/ /\ Fence(r)
        /\ Goto(r, "end")
        /\ branch' \in {branch, Pointing(n, "partial")}
        /\ UNCHANGED <<db, faults>>
     \/ /\ ~Fence(r)
        /\ Goto(r, LostAttempt)
        /\ UNCHANGED <<db, branch, faults>>
  /\ UNCHANGED <<dirs, ctx, call, passed, crashes>>

(* fail, its transaction: retain the worktree, end the task and the         *)
(* attempt.  A run that lost its attempt records nothing.                   *)
EndAttempt(r) ==
  LET n == run[r].att
      outcome == IF run[r].pc = "cancel" THEN "CANCELLED" ELSE "FAILED" IN
  /\ run[r].pc \in {"end", "cancel"}
  /\ IF Fence(r) /\ CompareAndSet(run[r].seen)
     THEN /\ status' = outcome
          /\ attempts' = Finished(Marked(attempts, {run[r].rec}, "RETAINED"),
                                  n, outcome)
          /\ Becomes(r, [run[r] EXCEPT !.pc = "done", !.open = FALSE,
                                       !.seen = outcome])
     ELSE Goto(r, LostAttempt) /\ UNCHANGED db
  /\ UNCHANGED <<disk, ctx, call, passed, bounds>>

-----------------------------------------------------------------------------
(*                     Leases, interrupts and crashes                      *)

(* startCancelWatch: the watcher of a run that has claimed the task, until  *)
(* the run ends or its context is cancelled.                                *)
Watching(r) == Live(r) /\ run[r].att # 0 /\ ~ctx[r]

(* Wrong variant: the poll renews the lease and ignores the status. *)
RenewOnly(r) ==
  /\ Watching(r)
  /\ HasRow(run[r].att)
  /\ attempts[run[r].att].lease = "expired"
  /\ attempts' = [attempts EXCEPT ![run[r].att].lease = "live"]
  /\ UNCHANGED <<status, disk, run, ctx, call, passed, bounds>>

(* One poll of watchForCancel (RenewLease): extend the lease of the run's   *)
(* attempt if it still holds it, and stop the run when the task reads       *)
(* CANCELLED.  A deleted task reads as an error: the next poll tries again. *)
WatchForCancel(r) ==
  LET n == run[r].att IN
  /\ Watching(r)
  /\ status # Gone
  /\ attempts' = IF HasRow(n) /\ attempts[n].status = "RUNNING"
                                /\ attempts[n].owner = r
                 THEN [attempts EXCEPT ![n].lease = "live"] ELSE attempts
  /\ ctx' = [ctx EXCEPT ![r] = (status = "CANCELLED")]
  /\ <<attempts, ctx>>' # <<attempts, ctx>>
  /\ UNCHANGED <<status, disk, run, call, passed, bounds>>

(* Time passes without a renewal until the open attempt's lease is over. *)
LeaseExpires(n) ==
  /\ HasRow(n)
  /\ attempts[n].status = "RUNNING"
  /\ attempts[n].lease = "live"
  /\ Stalls \/ ~Watching(attempts[n].owner)
  /\ attempts' = [attempts EXCEPT ![n].lease = "expired"]
  /\ UNCHANGED <<status, disk, run, ctx, call, passed, bounds>>

(* SIGINT or SIGTERM cancels the context RunTask was called with. *)
Interrupt(r) ==
  /\ Interrupts
  /\ Live(r)
  /\ ~ctx[r]
  /\ ctx' = [ctx EXCEPT ![r] = TRUE]
  /\ UNCHANGED <<db, disk, run, call, passed, bounds>>

(* The run's process dies between two of its steps. *)
Crash(r) ==
  /\ crashes < MaxCrashes
  /\ Live(r)
  /\ Goto(r, "dead")
  /\ crashes' = crashes + 1
  /\ UNCHANGED <<db, disk, ctx, call, passed, faults>>

(* A transaction of the run fails before it changed anything: the run       *)
(* returns the error and leaves what it had open to recovery.               *)
DatabaseError(r) ==
  /\ run[r].pc \in {"ready", "claim", "verify", "succeed", "retry", "end",
                    "cancel", "cleaned"}
  /\ CanFault
  /\ Goto(r, "done")
  /\ UNCHANGED <<db, disk, ctx, call, passed, crashes>>

-----------------------------------------------------------------------------
(*                          Cancel and Recover                             *)

(* A call that has returned.  Recover is called again and again: by the     *)
(* operator, and by every MCP server that connects.                         *)
Return(c) ==
  call' = [call EXCEPT ![c] = IF c \in Recovers THEN NewCall
                              ELSE [@ EXCEPT !.pc = "done"]]

(* Wrong variant: a task that is VERIFYING is not looked for. *)
StuckRunning ==
  /\ status = "RUNNING"
  /\ Latest = 0 \/ attempts[Latest].lease = "expired"

(* StuckLeases: RUNNING or VERIFYING, and the latest attempt's lease is over *)
(* (or there is no attempt).                                                *)
Stuck ==
  /\ Active(status)
  /\ Latest = 0 \/ attempts[Latest].lease = "expired"

(* Recover lists the stuck tasks, this one among them, then cancels each. *)
Recover(c) ==
  /\ c \in Recovers
  /\ call[c].pc = "idle"
  /\ Stuck
  /\ call' = [call EXCEPT ![c].pc = "read"]
  /\ UNCHANGED <<db, disk, run, ctx, passed, bounds>>

(* Cancel reads the task; a finished or deleted one is refused. *)
ReadForCancel(c) ==
  /\ \/ c \in Cancels /\ call[c].pc = "idle"
     \/ call[c].pc = "read"
  /\ IF status = Gone \/ Terminal(status)
     THEN Return(c)
     ELSE call' = [call EXCEPT ![c] = [call[c] EXCEPT !.pc = "tx", !.seen = status]]
  /\ UNCHANGED <<db, disk, run, ctx, passed, bounds>>

(* Wrong variant: the open attempt is forgotten. *)
OnlyRetainWorktrees ==
  [n \in 1..Latest |->
     [attempts[n] EXCEPT !.worktree = IF @ = "ACTIVE" THEN "RETAINED" ELSE @]]

(* finishOpenAttempts and retainWorktrees: every RUNNING attempt ends       *)
(* CANCELLED, every ACTIVE worktree is RETAINED, no other row changes.      *)
CancelledRows ==
  [n \in 1..Latest |->
     [attempts[n] EXCEPT
        !.status = IF @ = "RUNNING" THEN "CANCELLED" ELSE @,
        !.worktree = IF @ = "ACTIVE" THEN "RETAINED" ELSE @]]

OneTryTooMany(c) == call[c].tries < MaxCancelTries   \* wrong variant
TriesLeft(c) == call[c].tries + 1 < MaxCancelTries

(* Cancel's transaction, a compare-and-set from the status it read; after a *)
(* lost one it reads again, up to MaxCancelTries times.                     *)
Cancel(c) ==
  /\ call[c].pc = "tx"
  /\ IF CompareAndSet(call[c].seen)
     THEN /\ status' = "CANCELLED"
          /\ attempts' = CancelledRows
          /\ call' = [call EXCEPT ![c].pc = "stop"]
     ELSE /\ IF TriesLeft(c)
             THEN call' = [call EXCEPT ![c] =
                             [call[c] EXCEPT !.tries = @ + 1, !.pc = "read"]]
             ELSE Return(c)
          /\ UNCHANGED db
  /\ UNCHANGED <<disk, run, ctx, passed, bounds>>

(* stopLocalRun: a run registered in the same process is stopped at once.   *)
(* Waiting for the runner (waitForRunner) changes nothing.                  *)
StopLocalRun(c) ==
  /\ call[c].pc = "stop"
  /\ ctx' = [r \in Runs |-> ctx[r] \/ (<<c, r>> \in SameProcess /\ Live(r)
                                                 /\ run[r].att # 0)]
  /\ Return(c)
  /\ UNCHANGED <<db, disk, run, passed, bounds>>

-----------------------------------------------------------------------------
(*                      Worktree removal and deletion                      *)

(* worktreeRemove refuses a task that is RUNNING or VERIFYING. *)
CheckRemovable(c) ==
  /\ c \in Removers
  /\ call[c].pc = "idle"
  /\ IF status = Gone \/ Active(status)
     THEN Return(c)
     ELSE call' = [call EXCEPT ![c].pc = "lookup"]
  /\ UNCHANGED <<db, disk, run, ctx, passed, bounds>>

(* The latest attempt's worktree row, unless it is already REMOVED. *)
LookupWorktree(c) ==
  /\ call[c].pc = "lookup"
  /\ IF Latest = 0 \/ attempts[Latest].worktree \in {"none", "REMOVED"}
     THEN Return(c)
     ELSE call' = [call EXCEPT ![c] =
                     [call[c] EXCEPT !.pc = "remove", !.target = Latest,
                                     !.path = attempts[Latest].path]]
  /\ UNCHANGED <<db, disk, run, ctx, passed, bounds>>

(* Wrong variant: a refused removal is marked all the same. *)
RemoveUnchecked(c) ==
  /\ call[c].pc = "remove"
  /\ call' = [call EXCEPT ![c].pc = "mark"]
  /\ dirs' \in {dirs, dirs \ {call[c].path}}
  /\ UNCHANGED <<db, branch, run, ctx, passed, bounds>>

(* git worktree remove; it refuses uncommitted work without --force.  A     *)
(* directory that is already gone is only reconciled.                       *)
RemoveDirectory(c) ==
  /\ call[c].pc = "remove"
  /\ \/ dirs' = dirs \ {call[c].path} /\ call' = [call EXCEPT ![c].pc = "mark"]
     \/ call[c].path \in dirs /\ Return(c) /\ UNCHANGED dirs
  /\ UNCHANGED <<db, branch, run, ctx, passed, bounds>>

MarkRemoved(c) ==
  /\ call[c].pc = "mark"
  /\ attempts' = Marked(attempts, {call[c].target}, "REMOVED")
  /\ Return(c)
  /\ UNCHANGED <<status, disk, run, ctx, passed, bounds>>

(* DeleteTask: a finished task none of whose worktree rows is ACTIVE or     *)
(* RETAINED goes with all its rows.  Its branches are left alone.           *)
DeleteTask ==
  /\ Deletes
  /\ Terminal(status)
  /\ \A n \in 1..Latest : attempts[n].worktree \notin {"ACTIVE", "RETAINED"}
  /\ status' = Gone
  /\ attempts' = <<>>
  /\ UNCHANGED <<disk, run, ctx, call, passed, bounds>>

-----------------------------------------------------------------------------
(* The steps a run takes by itself once its agent has returned. *)
Proceed(r) ==
  \/ BecomeReady(r) \/ StartAttempt(r)
  \/ PrepareWorktree(r) \/ RecordWorktree(r) \/ BaseCheck(r)
  \/ ContinueOnNewBranch(r) \/ RecordContinued(r)
  \/ StopAgent(r) \/ CheckContainment(r) \/ Verify(r) \/ RunChecks(r)
  \/ Succeed(r) \/ CleanupAfterSuccess(r) \/ RecordRemoval(r)
  \/ Fail(r) \/ ScheduleRetry(r) \/ EndAttempt(r)

CancelStep(c) == ReadForCancel(c) \/ Cancel(c) \/ StopLocalRun(c)

RemoveStep(c) ==
  CheckRemovable(c) \/ LookupWorktree(c) \/ RemoveDirectory(c) \/ MarkRemoved(c)

Next ==
  \/ \E r \in Runs : \/ RunTask(r) \/ Proceed(r) \/ RunAgent(r)
                     \/ WatchForCancel(r) \/ Interrupt(r) \/ Crash(r)
                     \/ DatabaseError(r)
  \/ \E n \in 1..Latest : LeaseExpires(n)
  \/ \E c \in Callers : Recover(c) \/ CancelStep(c) \/ RemoveStep(c)
  \/ DeleteTask

Spec == Init /\ [][Next]_vars

(* A run's goroutine is scheduled, its watcher polls, a Cancel that began   *)
(* goes on, a lease nobody renews runs out, and Recover is called again and *)
(* again.  Nothing here makes the agent return.                             *)
Fairness ==
  /\ \A r \in Runs : WF_vars(Proceed(r)) /\ WF_vars(WatchForCancel(r))
  /\ \A c \in Callers : WF_vars(CancelStep(c))
  /\ \A n \in 1..(MaxRetries + 1) : WF_vars(LeaseExpires(n))
  /\ \A c \in Recovers : WF_vars(Recover(c))

FairSpec == Spec /\ Fairness

-----------------------------------------------------------------------------
(*                              Properties                                 *)

RunPCs == {"idle", "ready", "claim", "create", "record", "base", "continue",
           "continued", "agent", "inspect", "verify", "check", "succeed",
           "cleanup", "cleaned", "fail", "retry", "end", "cancel", "done", "dead"}

RunState == [pc : RunPCs, seen : Statuses, att : Nat, open : BOOLEAN,
             rec : Nat, path : Nat, prev : Nat,
             failure : {"none", "retryable", "final", "cancelled"}]

CallState == [pc : {"idle", "read", "tx", "stop", "lookup", "remove", "mark", "done"},
              seen : Statuses, tries : 0..(MaxCancelTries - 1),
              target : Nat, path : Nat]

Attempt == [status : AttemptStatuses, owner : Runs, lease : {"live", "expired"},
            worktree : WorktreeStatuses, path : Nat]

(* The type invariant. *)
TypeOK ==
  /\ status \in Statuses \cup {Gone}
  /\ attempts \in Seq(Attempt)
  /\ dirs \in SUBSET Nat
  /\ DOMAIN branch \in SUBSET Nat
  /\ \A n \in DOMAIN branch : branch[n] \in Contents
  /\ run \in [Runs -> RunState]
  /\ ctx \in [Runs -> BOOLEAN]
  /\ call \in [Callers -> CallState]
  /\ passed \in SUBSET Nat
  /\ crashes \in 0..MaxCrashes
  /\ faults \in 0..MaxFaults

(* startAttempt's promise, "a task can never be RUNNING without a record of *)
(* which attempt is running it", and its converse: while the task is        *)
(* RUNNING or VERIFYING exactly its latest attempt is open, and otherwise   *)
(* none is - whatever runs, cancels and recoveries raced to get there.      *)
OneOpenAttempt ==
  /\ Active(status) => Latest > 0
  /\ \A n \in 1..Latest :
       attempts[n].status = "RUNNING" <=> (n = Latest /\ Active(status))

(* max_retries bounds the attempts of the task, not of one run: a second    *)
(* run that takes the task over between two attempts shares the budget.     *)
(* Every attempt but the last failed.                                       *)
RetryBudget ==
  /\ Latest <= MaxRetries + 1
  /\ \A n \in 1..(Latest - 1) : attempts[n].status = "FAILED"

(* "A task reaches SUCCEEDED only if the checks pass": the attempt that     *)
(* ended it is the latest, its own checks passed, and its branch was        *)
(* published by succeed.                                                    *)
SuccessIsVerified ==
  status = "SUCCEEDED" =>
    /\ Latest > 0
    /\ attempts[Latest].status = "SUCCEEDED"
    /\ Latest \in passed
    /\ Latest \in DOMAIN branch
    /\ branch[Latest] = "delivered"

(* succeed's promise that nobody ends the attempt "between 'the branch      *)
(* moved' and 'the task succeeded'": unless a transaction itself failed, a  *)
(* published branch belongs to a task that succeeded.                       *)
NoUndeclaredDelivery ==
  faults = 0 =>
    \A n \in DOMAIN branch : branch[n] = "delivered" => status \in {"SUCCEEDED", Gone}

(* A failed or cancelled task has no worktree row still ACTIVE, even when   *)
(* the checkout was being made as the task was cancelled: prepareWorktree   *)
(* and continueWorktree record behind the fence.                            *)
EndedWorktreesKept ==
  status \in {"FAILED", "CANCELLED"} =>
    \A n \in 1..Latest : attempts[n].worktree # "ACTIVE"

(* Work a row says is kept is on disk: a worktree row that is RETAINED, or  *)
(* ACTIVE in a task that has not succeeded, names a directory that exists.  *)
(* (For tasks whose worktrees no operator removed.)                         *)
KeptWorkOnDisk ==
  \A n \in 1..Latest :
    \/ attempts[n].worktree = "RETAINED"
    \/ attempts[n].worktree = "ACTIVE" /\ status # "SUCCEEDED"
    => attempts[n].path \in dirs

(* The worktree rows tell the truth, whoever ended the attempt and at       *)
(* whichever step the run was: nothing that has ended is ACTIVE, and what   *)
(* is to be kept is there.                                                  *)
WorktreeRowsTrue == EndedWorktreesKept /\ KeptWorkOnDisk

(* "A run that already lost its attempt moves nothing": once the task has   *)
(* ended, no attempt's outcome changes and no branch that exists is moved,  *)
(* by runs that have not noticed yet or by anyone else.                     *)
EndingIsFinal ==
  [][Terminal(status) =>
       /\ \A n \in DOMAIN branch \cap DOMAIN branch' : branch'[n] = branch[n]
       /\ status' # Gone =>
            \A n \in 1..Latest : attempts'[n].status = attempts[n].status]_vars

(* No run deletes work somebody was promised: a directory disappears only   *)
(* when no worktree row names it, when its task has succeeded, or by the    *)
(* operator's `worktree remove`.                                            *)
RunsDeleteNoRecordedWork ==
  [][\A d \in dirs \ dirs' :
       \/ \A n \in 1..Latest : attempts[n].worktree # "none" => attempts[n].path # d
       \/ status = "SUCCEEDED"
       \/ \E c \in Removers : call[c].pc = "remove" /\ call'[c].pc = "mark"]_vars

(* A row that says REMOVED is true: no run re-creates or goes on using the  *)
(* directory it names.                                                      *)
RemovedIsGone ==
  \A n \in 1..Latest :
    attempts[n].worktree = "REMOVED" => attempts[n].path \notin dirs

(* The task row itself changes as the state machine says. *)
Row == INSTANCE TaskStatus
RowSpec == Row!Spec

(* Cancel stops a run in any process: once the task is CANCELLED every run  *)
(* ends, without the agent having to return by itself.                      *)
CancelledRunsStop ==
  status = "CANCELLED" ~> \A r \in Runs : ~Live(r)

(* No task is left RUNNING or VERIFYING with nobody working on it: although *)
(* runs die, again and again either the task is at rest or an agent is at   *)
(* work - the lease of a dead run expires and a recovery takes the task     *)
(* back.                                                                    *)
NoTaskStuck == []<>(~Active(status) \/ \E r \in Runs : run[r].pc = "agent")

(* Cancel's doc: the cancelled task's "worktree is retained".  Once a       *)
(* cancelled or failed task has no run left, every directory made for it is *)
(* named by a row that is ACTIVE or RETAINED, which is what `task delete`   *)
(* and `worktree list` go by.                                               *)
EndedDirectoriesNamed ==
  status \in {"FAILED", "CANCELLED"} /\ (\A r \in Runs : ~Live(r)) =>
    \A d \in dirs : \E n \in 1..Latest :
      attempts[n].path = d /\ attempts[n].worktree \in {"ACTIVE", "RETAINED"}

(* cancel.go: "A task whose lease is still alive belongs to a process       *)
(* running right now and is left alone."  What Recover cancels has an       *)
(* expired lease.                                                           *)
RecoverSparesLiveRuns ==
  [][\A c \in Recovers :
       call[c].pc = "tx" /\ call'[c].pc = "stop" /\ Latest > 0
         => attempts[Latest].lease = "expired"]_vars

(* retention.go: a task is not deleted while a worktree of it is on disk,   *)
(* because "deleting the record would leave that directory with nothing     *)
(* pointing at it".  Stated once no run is left to remove anything.         *)
DeletedLeavesNoDirectory ==
  status = Gone /\ (\A r \in Runs : ~Live(r)) => dirs = {}

(* cli/worktree.go refuses a RUNNING or VERIFYING task, "cancel it before   *)
(* removing its worktree": the operator never removes the directory of an   *)
(* attempt that is open.                                                    *)
RemoveSparesOpenAttempt ==
  [][\A c \in Removers, r \in Runs :
       call[c].pc = "remove" /\ call[c].path \in dirs \ dirs'
         => ~(Live(r) /\ run[r].open /\ Fence(r) /\ run[r].path = call[c].path)]_vars
=============================================================================
