----------------------------- MODULE ApplyUndo -----------------------------
(***************************************************************************)
(* `aidev task apply` and `aidev task undo` (worker/apply.go, git/apply.go) *)
(* on the person's own checkout of one repository.  A call holds one       *)
(* database transaction: it locks its task, reads what the history says,   *)
(* runs git in the checkout, asks git for HEAD, and appends an event.  The *)
(* lock is the task's; the checkout is shared by every task of the         *)
(* repository and by the person.  What git did stays when the transaction  *)
(* does not commit.                                                        *)
(***************************************************************************)
EXTENDS Integers, Sequences

CONSTANTS
  Tasks,          \* SUCCEEDED tasks of one repository
  Branches,       \* branches the person works on
  Callers,        \* who calls Apply and Undo, one call after another
  PriorEvents,    \* events every task has before it is first applied
  EventLimit,     \* how many of a task's events ListEvents returns
  SwitchesMidway, \* the person may change branch while a call is running
  MaxCalls,       \* bound: calls that get past their first checks
  MaxBreaks       \* bound: calls that die or cannot write their record

Nobody == "nobody"

ASSUME CallerAssumption == Nobody \notin Callers
ASSUME LimitAssumption == PriorEvents \in Nat /\ EventLimit \in Nat
ASSUME EnvironmentAssumption ==
  SwitchesMidway \in BOOLEAN /\ MaxCalls \in Nat /\ MaxBreaks \in Nat

VARIABLES
  checkout,   \* the branch checked out
  log,        \* per branch, the commits apply and undo made on it
  events,     \* per task, its task.applied and task.apply_undone events
  holder,     \* per task, the call that holds its row lock
  call,       \* each caller's call, running or ended
  calls, breaks   \* how many calls went ahead and how many broke so far

vars == <<checkout, log, events, holder, call, calls, breaks>>

(* A commit is named by its branch and its position there; position 0 is    *)
(* where the branch stood before anything was applied.                      *)
NoCommit == <<"none", 0>>

(* A task never applied or undone. *)
NoRecord == [type |-> "none", into |-> "none", commit |-> NoCommit,
             reapplied |-> FALSE, undid |-> NoCommit]

NoTask == "no task"

NewCall == [pc |-> "idle", op |-> "apply", task |-> NoTask, into |-> "none",
            record |-> NoRecord, before |-> NoCommit, commit |-> NoCommit]

InFlight(c) == call[c].pc \in {"resolve", "git", "head", "record"}

HeadOf(b) == <<b, Len(log[b])>>

(* applyState: the last apply or undo among the events it was given. *)
LastRecord(history) ==
  IF history = <<>> THEN NoRecord ELSE history[Len(history)]

(* ListEvents with its default limit: the oldest EventLimit events. *)
Visible(t) ==
  LET room == EventLimit - PriorEvents IN
  IF Len(events[t]) <= room THEN events[t] ELSE SubSeq(events[t], 1, room)

ApplyState(t) == LastRecord(Visible(t))

(* The task's commits are in the branch's history, reverted or not. *)
Contains(b, t) == \E i \in DOMAIN log[b] : log[b][i].task = t

(* The task's change is in the branch's files: its last commit there put it *)
(* in and did not take it out.                                              *)
Effective(b, t) ==
  \E i \in DOMAIN log[b] :
    /\ log[b][i].task = t /\ log[b][i].adds
    /\ \A j \in DOMAIN log[b] : j > i => log[b][j].task # t

Finish(c, how) ==
  /\ call' = [call EXCEPT ![c].pc = how]
  /\ holder' = [holder EXCEPT ![call[c].task] = Nobody]

-----------------------------------------------------------------------------
Init ==
  /\ checkout \in Branches
  /\ log = [b \in Branches |-> <<>>]
  /\ events = [t \in Tasks |-> <<>>]
  /\ holder = [t \in Tasks |-> Nobody]
  /\ call = [c \in Callers |-> NewCall]
  /\ calls = 0
  /\ breaks = 0

NoLock(t) == TRUE   \* wrong variant: the row is not locked

(* LockTask waits until the row is free. *)
LockTask(t) == holder[t] = Nobody

(* What prepareApply, Apply and Undo refuse before they touch anything. *)
Refuses(op, into, record) ==
  \/ op = "apply" /\ record.type = "applied"
  \/ op = "undo" /\ record.type # "applied"
  \/ op = "undo" /\ record.into # into

(* prepareApply: lock the task, read the branch, the state of the checkout  *)
(* and the history.  A checkout with uncommitted changes is refused.        *)
PrepareApply(c, t, op) ==
  LET record == ApplyState(t) IN
  /\ ~InFlight(c)
  /\ LockTask(t)
  /\ \/ /\ calls < MaxCalls
        /\ ~Refuses(op, checkout, record)
        /\ call' = [call EXCEPT ![c] =
             [NewCall EXCEPT !.pc = IF op = "apply" THEN "resolve" ELSE "git",
                             !.op = op, !.task = t, !.into = checkout,
                             !.record = record]]
        /\ holder' = [holder EXCEPT ![t] = c]
        /\ calls' = calls + 1
     \/ /\ call' = [call EXCEPT ![c] = [NewCall EXCEPT !.pc = "refused"]]
        /\ UNCHANGED <<holder, calls>>
  /\ UNCHANGED <<checkout, log, events, breaks>>

(* Apply remembers HEAD, to notice a merge that changes nothing. *)
ResolveCommit(c) ==
  /\ call[c].pc = "resolve"
  /\ call' = [call EXCEPT ![c] =
       [call[c] EXCEPT !.pc = "git", !.before = HeadOf(checkout)]]
  /\ UNCHANGED <<checkout, log, events, holder, calls, breaks>>

(* Apply undoes its last undo when that was on the same branch. *)
Reapplies(c) ==
  /\ call[c].op = "apply"
  /\ call[c].record.type = "undone"
  /\ call[c].record.into = call[c].into

AlwaysAMerge(c) == TRUE   \* wrong variant: a re-apply is taken for a merge

(* Undo's mainline: 1 for a merge commit, 0 for a re-apply. *)
RevertsMerge(c) == call[c].op = "undo" /\ ~call[c].record.reapplied

Commits(kind, t, adds) ==
  log' = [log EXCEPT ![checkout] =
            Append(@, [kind |-> kind, task |-> t, adds |-> adds])]

(* git merge --no-ff: a merge commit, or nothing at all when the branch     *)
(* already contains the task's commits.                                     *)
MergeNoFF(c) ==
  /\ IF Contains(checkout, call[c].task)
     THEN UNCHANGED log
     ELSE Commits("merge", call[c].task, TRUE)
  /\ call' = [call EXCEPT ![c].pc = "head"]
  /\ UNCHANGED holder

(* git revert takes back what a commit did.  It fails when -m 1 is given    *)
(* for an ordinary commit or missing for a merge, and when there is nothing *)
(* left to take back.  (What reverting a commit of the person's own does is *)
(* left out.)                                                               *)
Revert(c, id) ==
  LET target == log[id[1]][id[2]] IN
  IF /\ id[2] # 0
     /\ (target.kind = "merge") = RevertsMerge(c)
     /\ Effective(checkout, target.task) = target.adds
  THEN /\ Commits("revert", target.task, ~target.adds)
       /\ call' = [call EXCEPT ![c].pc = "head"]
       /\ UNCHANGED holder
  ELSE Finish(c, "failed") /\ UNCHANGED log

(* The git command, in whatever is checked out by now.  A conflict is       *)
(* aborted and nothing has changed.                                         *)
RunGit(c) ==
  /\ call[c].pc = "git"
  /\ \/ /\ ~Reapplies(c) /\ call[c].op = "apply"
        /\ MergeNoFF(c)
     \/ /\ Reapplies(c) \/ call[c].op = "undo"
        /\ Revert(c, call[c].record.commit)
     \/ /\ Finish(c, "conflict")
        /\ UNCHANGED log
  /\ UNCHANGED <<checkout, events, calls, breaks>>

(* headOf: a second git command asks which commit the first one made. *)
ReadHead(c) ==
  /\ call[c].pc = "head"
  /\ call' = [call EXCEPT ![c] =
       [call[c] EXCEPT !.pc = "record", !.commit = HeadOf(checkout)]]
  /\ UNCHANGED <<checkout, log, events, holder, calls, breaks>>

NeverUnchanged(c) == FALSE   \* wrong variant: an empty merge is recorded

(* HEAD is where it was: there was nothing to apply. *)
Unchanged(c) == call[c].op = "apply" /\ call[c].commit = call[c].before

Entry(c) ==
  [type |-> IF call[c].op = "apply" THEN "applied" ELSE "undone",
   into |-> call[c].into, commit |-> call[c].commit, reapplied |-> Reapplies(c),
   undid |-> IF call[c].op = "undo" THEN call[c].record.commit ELSE NoCommit]

(* The event is appended and the transaction commits, releasing the lock. *)
Record(c) ==
  /\ call[c].pc = "record"
  /\ IF Unchanged(c)
     THEN Finish(c, "nothing") /\ UNCHANGED events
     ELSE /\ events' = [events EXCEPT ![call[c].task] = Append(@, Entry(c))]
          /\ Finish(c, "done")
  /\ UNCHANGED <<checkout, log, calls, breaks>>

(* The process dies, its time is up or the event cannot be written: the     *)
(* transaction is rolled back, and what git did stays.                      *)
Break(c) ==
  /\ breaks < MaxBreaks
  /\ InFlight(c)
  /\ breaks' = breaks + 1
  /\ Finish(c, "broken")
  /\ UNCHANGED <<checkout, log, events, calls>>

(* The person checks another branch out. *)
Switch(b) ==
  /\ b # checkout
  /\ SwitchesMidway \/ \A c \in Callers : ~InFlight(c)
  /\ checkout' = b
  /\ UNCHANGED <<log, events, holder, call, calls, breaks>>

Next ==
  \/ \E c \in Callers :
       \/ \E t \in Tasks, op \in {"apply", "undo"} : PrepareApply(c, t, op)
       \/ ResolveCommit(c) \/ RunGit(c) \/ ReadHead(c) \/ Record(c) \/ Break(c)
  \/ \E b \in Branches : Switch(b)

Spec == Init /\ [][Next]_vars

-----------------------------------------------------------------------------
(*                              Properties                                 *)

(* "Two `aidev task apply` at once run one after the other": a task's       *)
(* history alternates between applied and undone, and every undo names the  *)
(* apply before it, whichever calls overlapped or broke.                    *)
HistoryAlternates ==
  \A t \in Tasks : \A i \in DOMAIN events[t] :
    IF i % 2 = 1 THEN events[t][i].type = "applied"
    ELSE events[t][i].type = "undone" /\ events[t][i].undid = events[t][i - 1].commit

(* Each record names a commit that did what it says to its own task, on the *)
(* branch it says - even after a call whose commit was never recorded.      *)
RecordNamesOwnCommit ==
  \A t \in Tasks : \A i \in DOMAIN events[t] :
    LET e == events[t][i] IN
    /\ e.commit[1] = e.into
    /\ e.commit[2] \in DOMAIN log[e.into]
    /\ LET made == log[e.into][e.commit[2]] IN
       made.task = t /\ made.adds = (e.type = "applied")

(* When no call broke and none is running, the history tells the truth: the *)
(* change is in exactly the branch the last record says it was applied to.  *)
HistoryMatchesBranches ==
  breaks = 0 /\ (\A c \in Callers : ~InFlight(c)) =>
    \A t \in Tasks, b \in Branches :
      Effective(b, t) <=> /\ LastRecord(events[t]).type = "applied"
                          /\ LastRecord(events[t]).into = b

(* The history and git agree: every record names its own commit, and the    *)
(* branches hold what the last record says (Apply, Undo).                   *)
HistoryIsTrue == RecordNamesOwnCommit /\ HistoryMatchesBranches

(* git refuses an undo or a re-apply only for a conflict, never because of  *)
(* the kind of commit it was given: the record says what it is.             *)
GitNeverRefuses == breaks = 0 => \A c \in Callers : call[c].pc # "failed"

(* "After an Undo it re-applies by reverting the revert": an Apply that     *)
(* reports there was nothing to apply is right about it.                    *)
NothingToApply ==
  \A c \in Callers :
    call[c].pc = "record" /\ Unchanged(c) => Effective(call[c].into, call[c].task)

(* "applyState reads the last apply or undo from the task's history." *)
ReadsTheLast == \A t \in Tasks : ApplyState(t) = LastRecord(events[t])
=============================================================================
