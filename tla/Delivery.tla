------------------------------ MODULE Delivery ------------------------------
(***************************************************************************)
(* What the attempts of one task do to git, from the checkout of the first *)
(* to the commit that delivers the work: the files of the worktree, the    *)
(* snapshot taken when the agent is done, the guards and the verification  *)
(* pass that judge it, the commit built from it, and the hand-over of the  *)
(* directory from a failed attempt to the next (worker/run.go,             *)
(* worker/retry.go, verification/verification.go, git/*.go).               *)
(*                                                                         *)
(* The rows of the task are TaskLifecycle's; here the run owns its attempt *)
(* throughout.  The temporary checkouts of the base check and of the clean *)
(* mode are left out: a defer removes them after the ending is recorded,   *)
(* and only logs a failure.  A tree is the content of every path a commit  *)
(* can carry; a commit is numbered, and its number is its place in         *)
(* `commits`.                                                              *)
(***************************************************************************)
EXTENDS Integers, Sequences, FiniteSets

CONSTANTS
  Tracked,          \* the paths a commit can carry
  Ignored,          \* the paths git ignores
  Runners,          \* the paths from which a step loads what it runs
  Protected,        \* the paths the task protects
  CheckOutputs,     \* the paths the setup and verification steps may write
  SetupSteps,       \* the number of setup steps
  Checks,           \* the number of verification steps
  Modes,            \* the verification modes a task may ask for
  Gates,            \* whether a task may ask for the red-before-green gate
  MaxRetries,       \* the task's max_retries
  MaxEdits,         \* bound: the agent's writes and commits
  MaxMeddling,      \* bound: changes of what the worktrees share
  MaxOutputs        \* bound: the files written by steps

Paths == Tracked \cup Ignored

ASSUME DeliveryAssumption ==
  /\ Runners \subseteq Paths /\ Protected \subseteq Tracked
  /\ CheckOutputs \subseteq Paths
  /\ Tracked # {} /\ Tracked \cap Ignored = {}
  /\ SetupSteps \in Nat /\ Checks \in Nat \ {0}
  /\ Modes \subseteq {"in_place", "clean"} /\ Gates \subseteq BOOLEAN
  /\ {MaxRetries, MaxEdits, MaxMeddling, MaxOutputs} \subseteq Nat

(* No file, the base's content, and a content written later. *)
Contents == 0..2

Trees == [Tracked -> Contents]
BaseTree == [p \in Tracked |-> 1]

(* Refs: the branch of each attempt, the branch of the person's checkout,  *)
(* the branch of a task that runs beside this one, and one an agent made.  *)
Own(n) == <<"attempt", n>>
Main == <<"main", 0>>
Sibling == <<"sibling", 0>>
Stray == <<"stray", 0>>
Refs == {Own(n) : n \in 1..(MaxRetries + 1)} \cup {Main, Sibling, Stray}

(* What a linked worktree shares with its repository besides refs and      *)
(* HEAD: where the administrative directory is, config settings that can   *)
(* run something, settings that cannot, whether git can parse the config,  *)
(* the info files and the hooks.                                           *)
Channels == {"commondir", "config", "inert", "unparsable", "info", "hooks"}

VARIABLES
  mode,      \* the task's verification mode
  gate,      \* the task's expect_fail_on_base
  pc,        \* where the run is
  attempt,   \* r.attempt.AttemptNumber
  disk,      \* the files of the worktree
  index,     \* the tree of the worktree's real index
  commits,   \* the object database: [tree, past, kind]
  refs,      \* ref -> commit, 0 when there is none
  head,      \* the ref HEAD names
  shared,    \* the state of each channel
  before,    \* r.sharedBefore
  agentTree, \* r.agentTree, <<>> for ""
  agentHead, \* r.agentHead
  runs,      \* the records of the verification pass
  stepping,  \* a step's command is running
  stop,      \* why the pass's context ended: "none", "deadline", "cancel"
  cancelled, \* the run's own context was cancelled
  failure,   \* the FailureKind, and whether retrying may help
  outcome,   \* the task's ending
  reports,   \* the events that warn a reviewer
  seen       \* history variables: see Seen

task == <<mode, gate>>
gitVars == <<index, commits, refs, head>>
passVars == <<runs, stepping, stop>>
snapVars == <<agentTree, agentHead>>
vars == <<task, pc, attempt, disk, gitVars, shared, before, snapVars, passVars,
          cancelled, failure, outcome, reports, seen>>

(* What really happened, for the properties: the paths the agent wrote,    *)
(* whether an agent meddled with shared state or history, the tree         *)
(* the checks began on, what each retried attempt left, the attempt whose  *)
(* branch somebody else moved, the edits, commits and outputs so far, and  *)
(* what the base check found.                                              *)
Seen == [wrote: SUBSET Paths, meddled: BOOLEAN, judged: Trees \cup {<<>>},
         left: Seq(Trees), moved: Nat, edits: Nat, meddling: Nat,
         outputs: Nat, base: {"none", "red", "unknown"}]

-----------------------------------------------------------------------------
(* Git, as the run uses it. *)

(* Worktree.TreeOf *)
TreeOf(c) == commits[c].tree

HeadCommit == refs[head]

(* Worktree.CurrentTree: read-tree HEAD, add --all, write-tree. *)
CurrentTree == [p \in Tracked |-> disk[p]]

BaseCommit == 1

(* The commits reachable from c: what a commit is built on is settled when *)
(* it is made, and kept with it.                                           *)
History(c) == IF c = 0 THEN {} ELSE {c} \cup commits[c].past

NewCommit(tree, parent, kind) ==
  [tree |-> tree, past |-> History(parent), kind |-> kind]

BaseIsAncestor == BaseCommit \in History(HeadCommit)

(* Worktree.SnapshotSharedState *)
SharedState == [channels |-> shared, refs |-> refs, head |-> head]

(* Worktree.ChangedPaths: what differs from the base, and what git ignores *)
(* and nevertheless is there.                                              *)
Committable == {p \in Tracked : disk[p] # BaseTree[p]}
IgnoredThere == {p \in Ignored : disk[p] # 0}

(* What `git worktree remove` without --force asks for. *)
Clean == CurrentTree = index /\ index = TreeOf(HeadCommit)

-----------------------------------------------------------------------------
NoFailure == [kind |-> "NONE", retryable |-> FALSE]

Init ==
  /\ mode \in Modes /\ gate \in Gates
  /\ pc = "prepare" /\ attempt = 1
  /\ disk = [p \in Paths |-> 0]
  /\ index = BaseTree
  /\ commits = <<[tree |-> BaseTree, past |-> {}, kind |-> "base"]>>
  /\ refs = [r \in Refs |-> IF r \in {Main, Sibling} THEN BaseCommit ELSE 0]
  /\ head = Main
  /\ shared = [c \in Channels |-> 0]
  /\ before = SharedState
  /\ agentTree = <<>> /\ agentHead = 0
  /\ runs = <<>> /\ stepping = FALSE /\ stop = "none"
  /\ cancelled = FALSE
  /\ failure = NoFailure /\ outcome = "none" /\ reports = {}
  /\ seen = [wrote |-> {}, meddled |-> FALSE, judged |-> <<>>, left |-> <<>>,
             moved |-> 0, edits |-> 0, meddling |-> 0, outputs |-> 0,
             base |-> "none"]

FailWith(kind, retryable) ==
  /\ failure' = [kind |-> kind, retryable |-> retryable]
  /\ pc' = "fail"

(* prepareWorktree: Manager.Create checks the base out on the attempt's    *)
(* branch; the containment baseline is taken last.                         *)
PrepareWorktree ==
  /\ pc = "prepare"
  /\ disk' = [p \in Paths |-> IF p \in Tracked THEN BaseTree[p] ELSE 0]
  /\ refs' = [refs EXCEPT ![Own(1)] = BaseCommit]
  /\ head' = Own(1)
  /\ before' = [channels |-> shared, refs |-> refs', head |-> head']
  /\ pc' = IF gate THEN "base" ELSE "agent"
  /\ UNCHANGED <<task, attempt, index, commits, shared, snapVars, passVars,
                 cancelled, failure, outcome, reports, seen>>

PrepareFails ==
  /\ pc = "prepare"
  /\ FailWith("WORKTREE", FALSE)
  /\ UNCHANGED <<task, attempt, disk, gitVars, shared, before, snapVars, passVars,
                 cancelled, outcome, reports, seen>>

-----------------------------------------------------------------------------
(* The agent works. *)

AgentEdits(s) ==
  /\ pc = "agent" /\ seen.edits < MaxEdits
  /\ seen' = [s EXCEPT !.edits = @ + 1]
  /\ UNCHANGED <<task, pc, attempt, before, snapVars, passVars, cancelled,
                 failure, outcome, reports>>

AgentWrites(p, c) ==
  /\ disk[p] # c
  /\ disk' = [disk EXCEPT ![p] = c]
  /\ AgentEdits([seen EXCEPT !.wrote = @ \cup {p}])
  /\ UNCHANGED <<gitVars, shared>>

(* The agent commits its work itself; on a history of its own if onto is 0. *)
AgentCommits(onto) ==
  /\ commits' = Append(commits, NewCommit(CurrentTree, onto, "agent"))
  /\ refs' = [refs EXCEPT ![head] = Len(commits) + 1]
  /\ index' = CurrentTree
  /\ AgentEdits([seen EXCEPT !.meddled = @ \/ onto = 0])
  /\ UNCHANGED <<disk, head, shared>>

(* Somebody changes what the worktrees share while the agent runs: the     *)
(* agent, a task that runs beside it, an editor, a person.                 *)
Meddles(agent) ==
  /\ pc = "agent" /\ seen.meddling < MaxMeddling
  /\ seen' = [seen EXCEPT !.meddling = @ + 1, !.meddled = @ \/ agent]
  /\ UNCHANGED <<task, pc, attempt, disk, index, commits, before, snapVars, passVars,
                 cancelled, failure, outcome, reports>>

AgentTampers(c) ==
  /\ shared' = [shared EXCEPT ![c] = 1 - @]
  /\ Meddles(TRUE)
  /\ UNCHANGED <<refs, head>>

(* `git switch -c`: the branch is not there yet. *)
AgentSwitchesBranch ==
  /\ refs[Stray] = 0
  /\ head' = Stray
  /\ refs' = [refs EXCEPT ![Stray] = HeadCommit]
  /\ Meddles(TRUE)
  /\ UNCHANGED shared

EditorWritesConfig ==
  /\ shared' = [shared EXCEPT !["inert"] = 1 - @]
  /\ Meddles(FALSE)
  /\ UNCHANGED <<refs, head>>

RefMoves(r) ==
  /\ refs[r] # HeadCommit
  /\ refs' = [refs EXCEPT ![r] = HeadCommit]
  /\ Meddles(FALSE)
  /\ UNCHANGED <<head, shared>>

(* runAgent returns; a cancelled run's agent was stopped. *)
AgentEnds(result) ==
  /\ pc = "agent"
  /\ CASE cancelled -> FailWith("CANCELLED", FALSE)
       [] result = "done" /\ ~cancelled -> pc' = "contain" /\ UNCHANGED failure
       [] result = "stopped early" /\ ~cancelled -> FailWith("AGENT_EXIT", TRUE)
       [] result = "refused a tool" /\ ~cancelled -> FailWith("AGENT_ERROR", FALSE)
       [] result = "out of time" /\ ~cancelled -> FailWith("TIMEOUT", TRUE)
  /\ UNCHANGED <<task, attempt, disk, gitVars, shared, before, snapVars, passVars,
                 cancelled, outcome, reports, seen>>

-----------------------------------------------------------------------------
(* checkContainment *)

Changed(c) == before.channels[c] # shared[c]

(* SharedState.Diff knows the keys that moved only if both configs parse. *)
ConfigReadable == before.channels["unparsable"] = 0 /\ shared["unparsable"] = 0

(* Mistake: any change of the config file is a breach. *)
ConfigBreachByHash ==
  \E c \in {"config", "inert", "unparsable"} : Changed(c)

ConfigBreach ==
  /\ \E c \in {"config", "inert", "unparsable"} : Changed(c)
  /\ ConfigReadable => Changed("config")

Breach ==
  \/ Changed("commondir") \/ ConfigBreach \/ Changed("info") \/ Changed("hooks")
  \/ before.head # head
  \/ ~BaseIsAncestor

(* dropConcurrentBranches leaves out the branch of a task running beside   *)
(* this one, if the lookup of overlapping attempts answers.                *)
Foreign(answered) ==
  {r \in Refs : before.refs[r] # refs[r]}
    \ ({Own(attempt)} \cup (IF answered THEN {Sibling} ELSE {}))

CheckContainment(answered) ==
  /\ pc = "contain" /\ ~cancelled
  /\ reports' = reports \cup
       (IF Foreign(answered) # {} \/ (ConfigReadable /\ Changed("inert"))
        THEN {"shared refs changed"} ELSE {})
  /\ IF Breach THEN FailWith("CONTAINMENT", FALSE)
     ELSE pc' = "snapshot" /\ UNCHANGED failure
  /\ UNCHANGED <<task, attempt, disk, gitVars, shared, before, snapVars, passVars,
                 cancelled, outcome, seen>>

(* A git command fails, or is stopped with the run: nothing was found and  *)
(* nothing was proven.                                                     *)
InspectionFails ==
  /\ \/ pc \in {"contain", "snapshot", "checkout", "base"} /\ FailWith("WORKTREE", FALSE)
     \/ pc = "verify" /\ FailWith("INTERNAL", FALSE)
  /\ UNCHANGED <<task, attempt, disk, gitVars, shared, before, snapVars, passVars,
                 cancelled, outcome, reports, seen>>

(* snapshotAgentTree *)
SnapshotAgentTree ==
  /\ pc = "snapshot" /\ ~cancelled
  /\ agentHead' = HeadCommit
  /\ agentTree' = CurrentTree
  /\ pc' = "verify"
  /\ UNCHANGED <<task, attempt, disk, gitVars, shared, before, passVars, cancelled,
                 failure, outcome, reports, seen>>

-----------------------------------------------------------------------------
(* verify, and the pass of verification.Runner.Run. *)

(* Interceptions of all changes, Violations of what a commit would carry. *)
Refused ==
  \/ Runners \cap (Committable \cup IgnoredThere) # {}
  \/ Protected \cap Committable # {}

BeginPass(where) ==
  /\ runs' = <<>> /\ stepping' = FALSE
  /\ stop' = IF cancelled THEN "cancel" ELSE "none"
  /\ pc' = where

Verify ==
  /\ pc = "verify" /\ ~cancelled
  /\ IF Refused
     THEN FailWith("VERIFICATION", FALSE) /\ UNCHANGED <<passVars, seen>>
     ELSE /\ UNCHANGED failure
          /\ IF mode = "clean" THEN pc' = "checkout" /\ UNCHANGED <<passVars, seen>>
             ELSE BeginPass("pass") /\ seen' = [seen EXCEPT !.judged = CurrentTree]
  /\ UNCHANGED <<task, attempt, disk, gitVars, shared, before, snapVars, cancelled,
                 outcome, reports>>

(* cleanCheckout: the snapshot, committed and checked out detached. *)
CleanCheckout ==
  /\ pc = "checkout" /\ ~cancelled
  /\ seen' = [seen EXCEPT !.judged = agentTree]
  /\ BeginPass("pass")
  /\ UNCHANGED <<task, attempt, disk, gitVars, shared, before, snapVars, cancelled,
                 failure, outcome, reports>>

(* baseCheck: the pass runs on a detached checkout of the base. *)
BaseCheck ==
  /\ pc = "base"
  /\ BeginPass("basepass")
  /\ UNCHANGED <<task, attempt, disk, gitVars, shared, before, snapVars, cancelled,
                 failure, outcome, reports, seen>>

Passing == pc \in {"pass", "basepass"}
Plan == SetupSteps + Checks
Stopped == \E i \in DOMAIN runs : runs[i] # "PASSED"

StepBegins ==
  /\ Passing /\ ~stepping /\ ~Stopped /\ Len(runs) < Plan
  /\ \/ stop = "none" /\ stepping' = TRUE /\ UNCHANGED runs
     \/ stop = "deadline" /\ runs' = Append(runs, "TIMED_OUT") /\ UNCHANGED stepping
     \/ stop = "cancel" /\ runs' = Append(runs, "CANCELLED") /\ UNCHANGED stepping
  /\ UNCHANGED <<task, pc, attempt, disk, gitVars, shared, before, snapVars, stop,
                 cancelled, failure, outcome, reports, seen>>

(* Mistake: whatever ended the context of the step is a cancellation. *)
StepStatusAsReported(own) == IF stop # "none" THEN "CANCELLED" ELSE own

(* procexec reports a step whose context ended as cancelled, whatever the  *)
(* command did; Run tells the budget from the operator.                    *)
StepStatus(own) ==
  IF stop = "cancel" THEN "CANCELLED"
  ELSE IF stop = "deadline" THEN "TIMED_OUT" ELSE own

StepEnds(own) ==
  /\ Passing /\ stepping
  /\ runs' = Append(runs, StepStatus(own))
  /\ stepping' = FALSE
  /\ UNCHANGED <<task, pc, attempt, disk, gitVars, shared, before, snapVars, stop,
                 cancelled, failure, outcome, reports, seen>>

(* A step writes into its working directory, which is the agent's only for *)
(* in-place verification.                                                  *)
StepWrites(p, c) ==
  /\ pc = "pass" /\ stepping /\ mode = "in_place"
  /\ seen.outputs < MaxOutputs /\ disk[p] # c
  /\ disk' = [disk EXCEPT ![p] = c]
  /\ seen' = [seen EXCEPT !.outputs = @ + 1]
  /\ UNCHANGED <<task, pc, attempt, gitVars, shared, before, snapVars, passVars,
                 cancelled, failure, outcome, reports>>

SkipStep ==
  /\ Passing /\ Stopped /\ Len(runs) < Plan
  /\ runs' = Append(runs, "SKIPPED")
  /\ UNCHANGED <<task, pc, attempt, disk, gitVars, shared, before, snapVars, stepping,
                 stop, cancelled, failure, outcome, reports, seen>>

BudgetExpires ==
  /\ Passing /\ stop = "none" /\ Len(runs) < Plan
  /\ stop' = "deadline"
  /\ UNCHANGED <<task, pc, attempt, disk, gitVars, shared, before, snapVars, runs,
                 stepping, cancelled, failure, outcome, reports, seen>>

Cancel ==
  /\ ~cancelled /\ outcome = "none"
  /\ cancelled' = TRUE
  /\ stop' = IF Passing /\ stop = "none" THEN "cancel" ELSE stop
  /\ UNCHANGED <<task, pc, attempt, disk, gitVars, shared, before, snapVars, runs,
                 stepping, failure, outcome, reports, seen>>

(* Report.FailureKind: the kind of the step that stopped the pass. *)
PassFailure ==
  LET of == [FAILED |-> "VERIFICATION", TIMED_OUT |-> "TIMEOUT",
             CANCELLED |-> "CANCELLED"]
      i == CHOOSE i \in DOMAIN runs : runs[i] # "PASSED" /\ \A j \in 1..(i - 1) : runs[j] = "PASSED"
  IN of[runs[i]]

BaseReport ==
  /\ pc = "basepass" /\ Len(runs) = Plan
  /\ IF Stopped THEN pc' = "agent" /\ UNCHANGED failure
     ELSE FailWith("VERIFICATION", FALSE)
  /\ seen' = [seen EXCEPT !.base =
       IF \E i \in DOMAIN runs : i > SetupSteps /\ runs[i] = "FAILED"
       THEN "red" ELSE "unknown"]
  /\ runs' = <<>> /\ stop' = "none"
  /\ UNCHANGED <<task, attempt, disk, gitVars, shared, before, snapVars,
                 stepping, cancelled, outcome, reports>>

(* reportWorktreeDrift: a git command that fails is logged, and the run    *)
(* goes on without the report.                                             *)
Drift == mode = "in_place" /\ CurrentTree # agentTree

Report ==
  /\ pc = "pass" /\ Len(runs) = Plan
  /\ IF Stopped
     THEN FailWith(PassFailure, PassFailure = "VERIFICATION") /\ UNCHANGED reports
     ELSE /\ pc' = "deliver" /\ UNCHANGED failure
          /\ \/ UNCHANGED reports
             \/ Drift /\ reports' = reports \cup {"worktree modified"}
  /\ UNCHANGED <<task, attempt, disk, gitVars, shared, before, snapVars, passVars,
                 cancelled, outcome, seen>>

(* Somebody else commits to the attempt's branch while the checks run. *)
BranchMoves(tree) ==
  /\ pc \in {"pass", "deliver"} /\ seen.meddling < MaxMeddling
  /\ commits' = Append(commits, NewCommit(tree, refs[Own(attempt)], "intruder"))
  /\ refs' = [refs EXCEPT ![Own(attempt)] = Len(commits) + 1]
  /\ seen' = [seen EXCEPT !.meddling = @ + 1, !.moved = attempt]
  /\ UNCHANGED <<task, pc, attempt, disk, index, head, shared, before, snapVars,
                 passVars, cancelled, failure, outcome, reports>>

-----------------------------------------------------------------------------
(* succeed and commitAgentTree. *)

(* Mistake: the delivery goes on the commit the snapshot was taken on. *)
DeliveryParentIsHead == agentHead

(* A retry delivers one commit on the task's base. *)
DeliveryParent == IF attempt > 1 THEN BaseCommit ELSE agentHead

(* Mistake: the branch is moved wherever it is. *)
MoveBranchAnyway(expected) == TRUE

(* Worktree.UpdateBranch: a compare-and-set on the ref. *)
UpdateBranch(expected) == refs[Own(attempt)] = expected

(* The index after SyncIndex, which may fail: `git reset` realigns it with *)
(* HEAD.                                                                   *)
SyncIndex ==
  index' \in {index, commits'[refs'[head]].tree}

CommitAgentTree ==
  LET parent == DeliveryParent
      same == TreeOf(parent) = agentTree
  IN IF same /\ parent = agentHead
     THEN UNCHANGED <<commits, refs, index>>
     ELSE /\ UpdateBranch(agentHead)
          /\ commits' = IF same THEN commits
                        ELSE Append(commits, NewCommit(agentTree, parent, "delivery"))
          /\ refs' = [refs EXCEPT ![Own(attempt)] = IF same THEN parent ELSE Len(commits')]
          /\ SyncIndex

Succeed ==
  /\ pc = "deliver"
  /\ CommitAgentTree
  /\ outcome' = "SUCCEEDED" /\ pc' = "cleanup"
  /\ UNCHANGED <<task, attempt, disk, head, shared, before, snapVars, passVars,
                 cancelled, failure, reports, seen>>

(* A git command fails, or the branch is not where the snapshot found it. *)
CommitFails ==
  /\ pc = "deliver"
  /\ FailWith("WORKTREE", FALSE)
  /\ UNCHANGED <<task, attempt, disk, gitVars, shared, before, snapVars, passVars,
                 cancelled, outcome, reports, seen>>

(* Mistake: the removal is forced. *)
ForcedRemoval == TRUE

(* cleanupAfterSuccess: git removes only a clean worktree. *)
Removable == Clean

CleanupAfterSuccess ==
  /\ pc = "cleanup"
  /\ pc' = IF Removable THEN "removed" ELSE "kept"
  /\ UNCHANGED <<task, attempt, disk, gitVars, shared, before, snapVars, passVars,
                 cancelled, failure, outcome, reports, seen>>

-----------------------------------------------------------------------------
(* fail, scheduleRetry and continueWorktree. *)

WillRetry ==
  /\ failure.retryable /\ ~cancelled
  /\ failure.kind \in {"VERIFICATION", "AGENT_EXIT", "AGENT_ERROR"}
  /\ attempt <= MaxRetries

Snapshotted == agentTree # <<>>

(* Mistake: what the checks wrote stays in the directory. *)
LeaveFiles(tree) == UNCHANGED <<disk, index>>

(* Worktree.RestoreToHead: tracked files are reset, untracked ones are     *)
(* removed, ignored ones stay.                                             *)
RestoreToHead(tree) ==
  /\ disk' = [p \in Paths |-> IF p \in Tracked THEN tree[p] ELSE disk[p]]
  /\ index' = tree

(* commitPartialWork *)
CommitPartialWork ==
  LET tree == IF Snapshotted THEN agentTree ELSE CurrentTree
      onto == IF Snapshotted THEN agentHead ELSE HeadCommit
      same == TreeOf(onto) = tree
  IN /\ IF same THEN UNCHANGED <<commits, refs>>
        ELSE /\ UpdateBranch(onto)
             /\ commits' = Append(commits, NewCommit(tree, onto, "unverified"))
             /\ refs' = [refs EXCEPT ![Own(attempt)] = Len(commits')]
     /\ IF Snapshotted THEN RestoreToHead(commits'[refs'[head]].tree)
        ELSE /\ UNCHANGED disk
             /\ IF same THEN UNCHANGED index ELSE SyncIndex
     /\ seen' = [seen EXCEPT !.left = Append(@, tree)]

ScheduleRetry ==
  /\ pc = "fail" /\ WillRetry
  /\ CommitPartialWork
  /\ attempt' = attempt + 1
  /\ agentTree' = <<>> /\ agentHead' = 0
  /\ failure' = NoFailure
  /\ pc' = "continue"
  /\ UNCHANGED <<task, head, shared, before, passVars, cancelled, outcome,
                 reports>>

(* Also when the partial work could not be committed. *)
Fail ==
  /\ pc = "fail"
  /\ outcome' = IF failure.kind = "CANCELLED" \/ cancelled THEN "CANCELLED" ELSE "FAILED"
  /\ failure' = [failure EXCEPT !.kind = IF outcome' = "CANCELLED" THEN "CANCELLED" ELSE @]
  /\ pc' = "kept"
  /\ UNCHANGED <<task, attempt, disk, gitVars, shared, before, snapVars, passVars,
                 cancelled, reports, seen>>

(* continueWorktree: ContinueOnNewBranch creates the branch at HEAD and    *)
(* points HEAD at it; the baseline is taken again.                         *)
ContinueWorktree ==
  /\ pc = "continue" /\ ~cancelled
  /\ refs' = [refs EXCEPT ![Own(attempt)] = HeadCommit]
  /\ head' = Own(attempt)
  /\ before' = [channels |-> shared, refs |-> refs', head |-> head']
  /\ pc' = "agent"
  /\ UNCHANGED <<task, attempt, disk, index, commits, shared, snapVars, passVars,
                 cancelled, failure, outcome, reports, seen>>

ContinueFails ==
  /\ pc = "continue"
  /\ FailWith("WORKTREE", FALSE)
  /\ UNCHANGED <<task, attempt, disk, gitVars, shared, before, snapVars, passVars,
                 cancelled, outcome, reports, seen>>

-----------------------------------------------------------------------------
Agent ==
  \/ \E p \in Paths, c \in Contents : AgentWrites(p, c)
  \/ AgentCommits(HeadCommit)
  \/ AgentCommits(0)
  \/ \E c \in Channels \ {"inert"} : AgentTampers(c)
  \/ AgentSwitchesBranch
  \/ \E r \in {"done", "stopped early", "refused a tool", "out of time"} : AgentEnds(r)

Others ==
  \/ EditorWritesConfig
  \/ \E r \in {Main, Sibling} : RefMoves(r)
  \/ \E tree \in Trees : BranchMoves(tree)
  \/ BudgetExpires
  \/ Cancel

Steps ==
  \/ StepBegins
  \/ \E own \in {"PASSED", "FAILED", "TIMED_OUT"} : StepEnds(own)
  \/ \E p \in CheckOutputs, c \in Contents : StepWrites(p, c)
  \/ SkipStep

Attempt ==
  \/ PrepareWorktree \/ PrepareFails
  \/ BaseCheck \/ BaseReport
  \/ \E answered \in BOOLEAN : CheckContainment(answered)
  \/ InspectionFails
  \/ SnapshotAgentTree \/ Verify \/ CleanCheckout \/ Report
  \/ Succeed \/ CommitFails \/ CleanupAfterSuccess
  \/ ScheduleRetry \/ Fail
  \/ ContinueWorktree \/ ContinueFails

Next == Agent \/ Others \/ Steps \/ Attempt

Spec == Init /\ [][Next]_vars

-----------------------------------------------------------------------------
CommitKinds == {"base", "agent", "unverified", "delivery", "intruder"}
CommitRecords == [tree : Trees, past : SUBSET Nat, kind : CommitKinds]
FailureKinds == {"NONE", "WORKTREE", "AGENT_EXIT", "AGENT_ERROR", "TIMEOUT",
                 "CANCELLED", "CONTAINMENT", "INTERNAL", "VERIFICATION"}
StepStatuses == {"PASSED", "FAILED", "TIMED_OUT", "CANCELLED", "SKIPPED"}

GitTypes ==
  /\ disk \in [Paths -> Contents] /\ index \in Trees
  /\ commits \in Seq(CommitRecords)
  /\ \A c \in DOMAIN commits : commits[c].past \subseteq 1..(c - 1)
  /\ refs \in [Refs -> 0..Len(commits)] /\ head \in Refs
  /\ shared \in [Channels -> 0..1]
  /\ before \in [channels : [Channels -> 0..1], refs : [Refs -> Nat], head : Refs]
  /\ agentTree \in Trees \cup {<<>>} /\ agentHead \in 0..Len(commits)

RunTypes ==
  /\ mode \in Modes /\ gate \in Gates
  /\ pc \in {"prepare", "base", "basepass", "agent", "contain", "snapshot",
             "verify", "checkout", "pass", "deliver", "cleanup", "fail",
             "continue", "removed", "kept"}
  /\ attempt \in 1..(MaxRetries + 1)
  /\ stop \in {"none", "deadline", "cancel"} /\ stepping \in BOOLEAN
  /\ cancelled \in BOOLEAN
  /\ failure \in [kind : FailureKinds, retryable : BOOLEAN]
  /\ outcome \in {"none", "SUCCEEDED", "FAILED", "CANCELLED"}
  /\ reports \subseteq {"shared refs changed", "worktree modified"}

TypeOK == GitTypes /\ RunTypes /\ runs \in Seq(StepStatuses) /\ seen \in Seen

(* A delivered branch carries the snapshot that was taken when the agent   *)
(* was done, and that is the tree the checks began on - unless the run had *)
(* nothing to add to the branch, and somebody else committed to it while   *)
(* the checks ran: then nothing is compared.  And a directory that is      *)
(* removed held nothing that its branch does not: what in-place checks     *)
(* changed stays in the directory, with or without a report                *)
(* (snapshotAgentTree, cleanCheckout, commitAgentTree,                     *)
(* cleanupAfterSuccess).                                                   *)
DeliveredIsWhatWasJudged ==
  outcome = "SUCCEEDED" =>
    /\ \/ TreeOf(refs[Own(attempt)]) = agentTree
       \/ seen.moved = attempt /\ TreeOf(agentHead) = agentTree
    /\ seen.judged = agentTree
    /\ pc = "removed" => CurrentTree = TreeOf(refs[Own(attempt)])

(* No unverified commit of a failed attempt is in the range a reviewer     *)
(* merges, and of the task's own a retry delivers at most one commit on    *)
(* the task's base (commitAgentTree).                                      *)
NothingUnverifiedDelivered ==
  outcome = "SUCCEEDED" =>
    LET range == History(refs[Own(attempt)]) \ History(BaseCommit)
    IN /\ \A c \in range : commits[c].kind # "unverified"
       /\ attempt > 1 => Cardinality({c \in range : commits[c].kind # "intruder"}) <= 1

(* What a retried attempt left is a commit that some branch reaches: the   *)
(* attempt's own, or one its agent made and committed on.  And a commit    *)
(* that somebody else put on an attempt's branch stays on it               *)
(* (commitPartialWork, ContinueOnNewBranch, UpdateBranch).                 *)
NobodysWorkIsLost ==
  /\ \A n \in DOMAIN seen.left :
       \E r \in Refs : \E c \in History(refs[r]) : TreeOf(c) = seen.left[n]
  /\ seen.moved # 0 =>
       \E c \in History(refs[Own(seen.moved)]) : commits[c].kind = "intruder"

(* Somebody else committed a change of p to a branch of the task. *)
Intruded(p) ==
  \E c \in DOMAIN commits :
    commits[c].kind = "intruder" /\ p \in Tracked /\ TreeOf(c)[p] # BaseTree[p]

(* The agent is blamed only for what it did: verification is refused only  *)
(* if an agent of the task wrote a runner or a protected path, or somebody *)
(* committed a change of one to an attempt's branch, from where a retry    *)
(* takes it as the agent's; and an attempt ends as a containment breach    *)
(* only if an agent of the task meddled with shared state or history       *)
(* (verify, checkContainment, RestoreToHead).                              *)
BlameIsTheAgents ==
  /\ failure.kind = "CONTAINMENT" => seen.meddled
  /\ pc = "verify" /\ Refused =>
       \E p \in Runners \cup Protected : p \in seen.wrote \/ Intruded(p)

(* Only the operator's cancellation is recorded as one: the exhausted      *)
(* budget of a pass is a timeout of the step and of the task (Runner.Run,  *)
(* Report.FailureKind, fail).                                              *)
CancelledByTheOperator ==
  /\ outcome = "CANCELLED" \/ failure.kind = "CANCELLED" => cancelled
  /\ \A i \in DOMAIN runs : runs[i] = "CANCELLED" => cancelled

(* The agent is called only after a check of the task failed on the base   *)
(* (baseCheck, as its comment says; a setup step that fails, or a pass     *)
(* that runs out of time, counts as red too).                              *)
BaseIsRed == gate /\ pc = "agent" => seen.base = "red"

(* Checks judge no work while anything that can run a command differs from *)
(* how it was when the task's first attempt began.                         *)
NoTamperingVerified ==
  pc = "pass" => \A c \in {"config", "info", "hooks"} : shared[c] = 0

(* A task whose branch somebody moved after the snapshot is not delivered  *)
(* ("If anything moved it in between, publishing fails", the comment of    *)
(* commitAgentTree; the code compares only when it has something to write).*)
MovedIsNotDelivered == outcome = "SUCCEEDED" => seen.moved # attempt

=============================================================================
