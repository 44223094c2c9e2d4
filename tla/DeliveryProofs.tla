--------------------------- MODULE DeliveryProofs ---------------------------
(***************************************************************************)
(* What one task's attempts do to git, for every number of retries, every  *)
(* set of paths and every amount of writing and meddling: theorems about   *)
(* Delivery.                                                               *)
(***************************************************************************)
EXTENDS Delivery, SequenceTheorems, FiniteSetTheorems, TLAPS

-----------------------------------------------------------------------------
(* The inductive invariant. *)

(* A directory and its branch are there, and the run may still use them. *)
Retrying == pc = "fail" /\ failure.retryable
Begun == {"base", "basepass", "agent", "contain"}
Judging == {"verify", "checkout", "pass", "deliver"}

(* HEAD names the attempt's branch, unless its agent switched to one of    *)
(* its own and was not yet found out.                                      *)
HeadInv ==
  /\ pc = "prepare" => attempt = 1
  /\ pc \in Begun \cup {"snapshot"} \cup Judging \cup {"continue"} \/ Retrying \/ outcome = "SUCCEEDED"
       => refs[head] # 0
  /\ pc \in Begun \cup {"snapshot"} \cup Judging \/ Retrying \/ outcome = "SUCCEEDED"
       => refs[Own(attempt)] # 0
  /\ pc \in {"base", "basepass", "snapshot"} \cup Judging \/ outcome = "SUCCEEDED"
       => head = Own(attempt)
  /\ pc \in {"agent", "contain"} \/ Retrying => head \in {Own(attempt), Stray}
  /\ pc \in Begun => before.head = Own(attempt)

(* The order of a run: what is set and what is over at each point. *)
OrderInv ==
  /\ outcome # "none" => pc \in {"cleanup", "removed", "kept"}
  /\ pc \in {"cleanup", "removed"} => outcome = "SUCCEEDED"
  /\ pc \in {"prepare", "snapshot", "continue"} \cup Begun => agentTree = <<>>
  /\ pc \in Judging \/ outcome = "SUCCEEDED" => agentTree \in Trees /\ agentHead # 0
  /\ Retrying /\ agentTree # <<>> => head = Own(attempt) /\ agentHead # 0

(* The cancellation, and the temporary checkouts. *)
CancelInv ==
  /\ stop = "cancel" => cancelled
  /\ \A i \in DOMAIN runs : runs[i] = "CANCELLED" => cancelled
  /\ failure.kind = "CANCELLED" \/ outcome = "CANCELLED" => cancelled
  /\ Stopped => \E i \in DOMAIN runs :
                  /\ runs[i] \in {"FAILED", "TIMED_OUT", "CANCELLED"}
                  /\ \A j \in 1..(i - 1) : runs[j] = "PASSED"

(* Of the object database: the base is its first commit, and there is no   *)
(* unverified commit before the first retry.                               *)
BaseInv ==
  /\ Len(commits) > 0 /\ commits[BaseCommit].past = {}
  /\ commits[BaseCommit].tree = BaseTree
  /\ attempt = 1 => \A c \in DOMAIN commits : commits[c].kind # "unverified"

(* Between the snapshot and the delivery the branch is where the snapshot  *)
(* found it, or carries only somebody else's commits beyond it.            *)
Stacked ==
  /\ agentHead \in History(refs[Own(attempt)])
  /\ \A c \in History(refs[Own(attempt)]) :
       c \in History(agentHead) \/ commits[c].kind = "intruder"
  /\ IF seen.moved = attempt THEN agentHead < refs[Own(attempt)]
     ELSE refs[Own(attempt)] = agentHead

BranchInv ==
  /\ pc \in Judging \/ (Retrying /\ Snapshotted) => Stacked
  /\ seen.moved \in 0..attempt
  /\ seen.moved = attempt =>
       pc \in {"pass", "deliver", "fail", "cleanup", "removed", "kept"}
  /\ Retrying /\ seen.moved = attempt => Snapshotted
  /\ seen.moved # 0 =>
       \E c \in History(refs[Own(seen.moved)]) : commits[c].kind = "intruder"

(* What the checks judge, and what they may have changed since. *)
JudgedInv ==
  /\ pc \in {"verify", "checkout"} => CurrentTree = agentTree
  /\ pc = "pass" /\ mode = "clean" => CurrentTree = agentTree
  /\ pc \in {"pass", "deliver"} => seen.judged = agentTree

(* What attempt n left is on its branch, or on the one its agent made,     *)
(* which no later agent is on.                                             *)
LeftOn(r, n) == \E c \in History(refs[r]) : TreeOf(c) = seen.left[n]

LeftInv ==
  /\ Len(seen.left) = attempt - 1
  /\ \A n \in DOMAIN seen.left :
       \/ LeftOn(Own(n), n)
       \/ LeftOn(Stray, n) /\ (head = Stray => pc \notin Begun)

(* Without an agent that meddles, the shared state is as it was and every  *)
(* commit is built on the base.                                            *)
UnmeddledInv ==
  /\ failure.kind = "CONTAINMENT" => seen.meddled
  /\ ~seen.meddled =>
       /\ \A c \in Channels \ {"inert"} : shared[c] = 0 /\ before.channels[c] = 0
       /\ \A c \in DOMAIN commits : BaseCommit \in History(c)
       /\ pc \in Begun => head = before.head

(* A path that differs from the base was written by an agent of the task,  *)
(* or committed by somebody else, wherever a later attempt may find it.    *)
Accounted(tree) ==
  \A p \in Tracked : tree[p] # BaseTree[p] => p \in seen.wrote \/ Intruded(p)

WroteInv ==
  /\ \A c \in DOMAIN commits : Accounted(TreeOf(c))
  /\ agentTree # <<>> => Accounted(agentTree)
  /\ pc \in Begun \cup {"snapshot", "verify", "continue"} \/ (Retrying /\ ~Snapshotted)
       => Accounted(CurrentTree)
  /\ \A p \in Ignored : disk[p] # 0 => p \in seen.wrote \cup CheckOutputs

IInv ==
  /\ TypeOK /\ HeadInv /\ OrderInv /\ CancelInv /\ BaseInv /\ BranchInv
  /\ JudgedInv /\ LeftInv /\ UnmeddledInv /\ WroteInv
  /\ DeliveredIsWhatWasJudged /\ NothingUnverifiedDelivered

-----------------------------------------------------------------------------
(* Facts about refs, trees and commits. *)

(* No two of the refs are the same one. *)
LEMMA RefsDiffer ==
  /\ \A m, n \in Nat : Own(m) = Own(n) => m = n
  /\ \A n \in Nat : Own(n) # Main /\ Own(n) # Sibling /\ Own(n) # Stray
  /\ Main # Sibling /\ Main # Stray /\ Sibling # Stray
  /\ {Main, Sibling, Stray} \subseteq Refs
  BY DEF Own, Main, Sibling, Stray, Refs

(* The branch of the attempt is one of the refs. *)
LEMMA OwnIsARef ==
  ASSUME TypeOK
  PROVE  /\ attempt \in Nat \ {0} /\ MaxRetries \in Nat /\ attempt <= MaxRetries + 1
         /\ \A n \in 1..(MaxRetries + 1) : Own(n) \in Refs
         /\ Own(attempt) \in Refs
<1>1. MaxRetries \in Nat
  BY DeliveryAssumption
<1>2. attempt \in 1..(MaxRetries + 1)
  BY DEF TypeOK, RunTypes
<1>3. \A n \in 1..(MaxRetries + 1) : Own(n) \in Refs
  BY DEF Refs
<1> QED
  BY <1>1, <1>2, <1>3

(* A sequence that has grown by one. *)
LEMMA Appended ==
  ASSUME NEW S, NEW seq \in Seq(S), NEW row \in S, NEW longer, longer = Append(seq, row)
  PROVE  /\ longer \in Seq(S)
         /\ Len(longer) = Len(seq) + 1
         /\ \A i \in 1..Len(seq) : longer[i] = seq[i]
         /\ longer[Len(seq) + 1] = row
<1>1. /\ Append(seq, row) \in Seq(S)
      /\ Len(Append(seq, row)) = Len(seq) + 1
      /\ \A i \in 1..Len(seq) : Append(seq, row)[i] = seq[i]
      /\ Append(seq, row)[Len(seq) + 1] = row
  BY AppendProperties
<1> QED
  BY <1>1, Zenon

(* The places of a sequence are numbered from one. *)
LEMMA Places ==
  ASSUME NEW S, NEW seq \in Seq(S)
  PROVE  Len(seq) \in Nat /\ DOMAIN seq = 1..Len(seq) /\ \A i \in 1..Len(seq) : seq[i] \in S
  BY LenProperties, ElementOfSeq

(* What the commands write and read is a tree, and never the unset one. *)
LEMMA TreesAreTrees ==
  ASSUME TypeOK
  PROVE  CurrentTree \in Trees /\ BaseTree \in Trees /\ <<>> \notin Trees
<1>1. CurrentTree \in Trees
  BY DEF TypeOK, GitTypes, Trees, CurrentTree, Paths
<1>2. BaseTree \in Trees
  BY DEF Trees, BaseTree, Contents
<1>3. <<>> \notin Trees
  BY DeliveryAssumption DEF Trees
<1> QED
  BY <1>1, <1>2, <1>3

(* What is known of each commit. *)
LEMMA CommitFacts ==
  ASSUME TypeOK
  PROVE  /\ Len(commits) \in Nat /\ DOMAIN commits = 1..Len(commits)
         /\ \A c \in 1..Len(commits) :
              /\ commits[c].tree \in Trees /\ commits[c].kind \in CommitKinds
              /\ commits[c].past \subseteq 1..(c - 1)
              /\ History(c) \subseteq 1..c /\ c \in History(c)
         /\ History(0) = {}
<1>1. Len(commits) \in Nat /\ DOMAIN commits = 1..Len(commits)
      /\ \A c \in 1..Len(commits) : commits[c] \in CommitRecords
  BY Places DEF TypeOK, GitTypes
<1>2. \A c \in 1..Len(commits) : commits[c].past \subseteq 1..(c - 1)
  BY <1>1 DEF TypeOK, GitTypes
<1>3. \A c \in 1..Len(commits) : commits[c].tree \in Trees /\ commits[c].kind \in CommitKinds
  BY <1>1 DEF CommitRecords
<1>4. \A c \in 1..Len(commits) : History(c) \subseteq 1..c /\ c \in History(c)
  BY <1>1, <1>2 DEF History
<1> QED
  BY <1>1, <1>2, <1>3, <1>4 DEF History

(* One more commit, or none. *)
Makes(tree, parent, kind) ==
  /\ tree \in Trees /\ parent \in 0..Len(commits) /\ kind \in CommitKinds
  /\ commits' = Append(commits, NewCommit(tree, parent, kind))

(* Every commit stays what it is when one is made. *)
LEMMA Made ==
  ASSUME TypeOK, NEW tree, NEW parent, NEW kind, Makes(tree, parent, kind),
         NEW n, n = Len(commits)
  PROVE  /\ commits' \in Seq(CommitRecords)
         /\ n \in Nat /\ DOMAIN commits = 1..n
         /\ Len(commits') = n + 1 /\ DOMAIN commits' = 1..(n + 1)
         /\ \A c \in 1..n : commits'[c] = commits[c]
         /\ commits'[n + 1].tree = tree /\ commits'[n + 1].kind = kind
         /\ History(n + 1)' = {n + 1} \cup History(parent)
         /\ \A c \in 0..n : History(c)' = History(c)
         /\ \A c \in 1..n : TreeOf(c)' = TreeOf(c)
         /\ \A c \in DOMAIN commits' : commits'[c].past \subseteq 1..(c - 1)
<1> DEFINE new == NewCommit(tree, parent, kind)
<1>1. /\ n \in Nat /\ DOMAIN commits = 1..n /\ commits \in Seq(CommitRecords)
      /\ tree \in Trees /\ kind \in CommitKinds /\ parent \in 0..n
  BY CommitFacts DEF TypeOK, GitTypes, Makes
<1>2. History(parent) \subseteq 1..n
  BY <1>1, CommitFacts
<1>3. new = [tree |-> tree, past |-> History(parent), kind |-> kind] /\ new \in CommitRecords
  BY <1>1, <1>2 DEF NewCommit, CommitRecords
<1>4. commits' = Append(commits, new)
  BY DEF Makes
<1> HIDE DEF new
<1>5. /\ commits' \in Seq(CommitRecords) /\ Len(commits') = n + 1
      /\ \A c \in 1..n : commits'[c] = commits[c]
      /\ commits'[n + 1] = new
  BY <1>1, <1>3, <1>4, Appended
<1>6. DOMAIN commits' = 1..(n + 1)
  BY <1>5, Places
<1>7. \A c \in DOMAIN commits' : commits'[c].past \subseteq 1..(c - 1)
  <2> TAKE c \in DOMAIN commits'
  <2>1. CASE c = n + 1
    BY <2>1, <1>1, <1>2, <1>3, <1>5
  <2>2. CASE c \in 1..n
    BY <2>2, <1>1, <1>5, CommitFacts
  <2> QED
    BY <2>1, <2>2, <1>1, <1>6
<1>8. History(n + 1)' = {n + 1} \cup History(parent)
  <2>1. History(n + 1)' = {n + 1} \cup commits'[n + 1].past
    BY <1>1 DEF History
  <2> QED
    BY <2>1, <1>3, <1>5
<1>9. \A c \in 0..n : History(c)' = History(c)
  <2> TAKE c \in 0..n
  <2>1. c # 0 => commits'[c] = commits[c]
    BY <1>1, <1>5
  <2> QED
    BY <2>1 DEF History
<1>10. \A c \in 1..n : TreeOf(c)' = TreeOf(c)
  BY <1>5 DEF TreeOf
<1>11. commits'[n + 1].tree = tree /\ commits'[n + 1].kind = kind
  BY <1>3, <1>5
<1> QED
  BY <1>1, <1>5, <1>6, <1>7, <1>8, <1>9, <1>10, <1>11

Failure == [kind : FailureKinds, retryable : BOOLEAN]

(* A failure is one of the kinds the program knows. *)
LEMMA Failing ==
  ASSUME NEW kind \in FailureKinds, NEW retryable \in BOOLEAN, FailWith(kind, retryable)
  PROVE  failure' \in Failure /\ pc' = "fail" /\ failure'.kind = kind /\ failure'.retryable = retryable
  BY DEF FailWith, Failure

(* The step that stopped a pass was not one that was skipped. *)
LEMMA PassFailureKind ==
  ASSUME runs \in Seq(StepStatuses), CancelInv, Stopped
  PROVE  /\ PassFailure \in {"VERIFICATION", "TIMEOUT", "CANCELLED"}
         /\ PassFailure = "CANCELLED" => cancelled
<1> DEFINE First(i) == runs[i] # "PASSED" /\ \A j \in 1..(i - 1) : runs[j] = "PASSED"
<1>1. PICK i \in DOMAIN runs : /\ runs[i] \in {"FAILED", "TIMED_OUT", "CANCELLED"}
                               /\ \A j \in 1..(i - 1) : runs[j] = "PASSED"
  BY DEF CancelInv
<1>2. DOMAIN runs \subseteq Nat \ {0}
  <2>1. DOMAIN runs = 1..Len(runs) /\ Len(runs) \in Nat
    BY LenProperties
  <2> QED
    BY <2>1
<1>3. \A k \in DOMAIN runs : First(k) => k = i
  BY <1>1, <1>2
<1>4. (CHOOSE k \in DOMAIN runs : First(k)) = i
  BY <1>1, <1>3
<1>5. PassFailure = [FAILED |-> "VERIFICATION", TIMED_OUT |-> "TIMEOUT",
                     CANCELLED |-> "CANCELLED"][runs[i]]
  BY <1>4 DEF PassFailure
<1> QED
  BY <1>1, <1>5 DEF CancelInv

(* Every step keeps the types of the run. *)
LEMMA RunTypesStep ==
  ASSUME IInv, Next
  PROVE  RunTypes'
<1> DEFINE Pcs == {"prepare", "base", "basepass", "agent", "contain", "snapshot",
                   "verify", "checkout", "pass", "deliver", "cleanup", "fail",
                   "continue", "removed", "kept"}
<1>0. RunTypes /\ MaxRetries \in Nat
  BY DeliveryAssumption DEF IInv, TypeOK
<1>a. attempt \in 1..(MaxRetries + 1)
  BY <1>0 DEF RunTypes
<1> USE <1>0, <1>a DEF RunTypes, task, passVars, NoFailure
<1>1. ASSUME NEW p \in Paths, NEW c \in Contents, AgentWrites(p, c) PROVE RunTypes'
  BY <1>1 DEF AgentWrites, AgentEdits
<1>2. ASSUME AgentCommits(HeadCommit) PROVE RunTypes'
  BY <1>2 DEF AgentCommits, AgentEdits
<1>3. ASSUME AgentCommits(0) PROVE RunTypes'
  BY <1>3 DEF AgentCommits, AgentEdits
<1>4. ASSUME NEW c \in Channels \ {"inert"}, AgentTampers(c) PROVE RunTypes'
  BY <1>4 DEF AgentTampers, Meddles
<1>5. ASSUME NEW r \in {"done", "stopped early", "refused a tool", "out of time"}, AgentEnds(r) PROVE RunTypes'
  <2>1. failure' \in Failure /\ pc' \in Pcs
    BY <1>5, Failing DEF AgentEnds, Failure, FailureKinds
  <2> QED
    BY <1>5, <2>1 DEF AgentEnds, Failure
<1>6. ASSUME NEW r \in {Main, Sibling}, RefMoves(r) PROVE RunTypes'
  BY <1>6 DEF RefMoves, Meddles
<1>7. ASSUME NEW tree \in Trees, BranchMoves(tree) PROVE RunTypes'
  BY <1>7 DEF BranchMoves
<1>8. ASSUME NEW own \in {"PASSED", "FAILED", "TIMED_OUT"}, StepEnds(own) PROVE RunTypes'
  <2>1. /\ mode' = mode /\ gate' = gate /\ pc' = pc /\ attempt' = attempt /\ stop' = stop
        /\ cancelled' = cancelled /\ failure' = failure
        /\ outcome' = outcome /\ reports' = reports
        /\ stepping' \in BOOLEAN
    BY <1>8 DEF StepEnds
  <2> QED
    BY <2>1
<1>9. ASSUME NEW p \in CheckOutputs, NEW c \in Contents, StepWrites(p, c) PROVE RunTypes'
  BY <1>9 DEF StepWrites
<1>10. ASSUME NEW answered \in BOOLEAN, CheckContainment(answered) PROVE RunTypes'
  <2>1. failure' \in Failure /\ pc' \in Pcs
    BY <1>10, Failing DEF CheckContainment, Failure, FailureKinds
  <2> QED
    BY <1>10, <2>1 DEF CheckContainment, Failure
<1>11. CASE PrepareWorktree
  BY <1>11 DEF PrepareWorktree
<1>12. CASE PrepareFails
  BY <1>12 DEF PrepareFails, FailWith, FailureKinds
<1>13. CASE AgentSwitchesBranch
  BY <1>13 DEF AgentSwitchesBranch, Meddles
<1>14. CASE EditorWritesConfig
  BY <1>14 DEF EditorWritesConfig, Meddles
<1>15. CASE BudgetExpires
  BY <1>15 DEF BudgetExpires, Passing
<1>16. CASE Cancel
  BY <1>16 DEF Cancel
<1>17. CASE StepBegins
  <2>1. /\ mode' = mode /\ gate' = gate /\ pc' = pc /\ attempt' = attempt /\ stop' = stop
        /\ cancelled' = cancelled /\ failure' = failure
        /\ outcome' = outcome /\ reports' = reports
        /\ stepping' \in BOOLEAN
    BY <1>17 DEF StepBegins
  <2> QED
    BY <2>1
<1>18. CASE SkipStep
  <2>1. /\ mode' = mode /\ gate' = gate /\ pc' = pc /\ attempt' = attempt /\ stop' = stop
        /\ cancelled' = cancelled /\ failure' = failure
        /\ outcome' = outcome /\ reports' = reports /\ stepping' = stepping
    BY <1>18 DEF SkipStep
  <2> QED
    BY <2>1
<1>19. CASE BaseCheck
  BY <1>19 DEF BaseCheck, BeginPass
<1>20. CASE BaseReport
  <2>1. failure' \in Failure /\ pc' \in Pcs
    BY <1>20, Failing DEF BaseReport, Failure, FailureKinds
  <2> QED
    BY <1>20, <2>1 DEF BaseReport, Failure
<1>21. CASE InspectionFails
  <2>1. failure' \in Failure /\ pc' \in Pcs
    BY <1>21, Failing DEF InspectionFails, Failure, FailureKinds
  <2> QED
    BY <1>21, <2>1 DEF InspectionFails, Failure
<1>22. CASE SnapshotAgentTree
  BY <1>22 DEF SnapshotAgentTree
<1>23. CASE Verify
  <2>1. failure' \in Failure /\ pc' \in Pcs
    BY <1>23, Failing DEF Verify, BeginPass, Failure, FailureKinds
  <2> QED
    BY <1>23, <2>1 DEF Verify, BeginPass, Failure
<1>24. CASE CleanCheckout
  BY <1>24 DEF CleanCheckout, BeginPass
<1>25. CASE Report
  <2>1. failure' \in Failure /\ pc' \in Pcs
    BY <1>25, Failing, PassFailureKind DEF Report, IInv, TypeOK, Failure, FailureKinds
  <2> QED
    BY <1>25, <2>1 DEF Report, Failure
<1>26. CASE Succeed
  BY <1>26 DEF Succeed
<1>27. CASE CommitFails
  BY <1>27 DEF CommitFails, FailWith, FailureKinds
<1>28. CASE CleanupAfterSuccess
  BY <1>28 DEF CleanupAfterSuccess
<1>29. CASE ScheduleRetry
  <2>1. attempt' = attempt + 1 /\ attempt <= MaxRetries
    BY <1>29 DEF ScheduleRetry, WillRetry
  <2>a. attempt' \in 1..(MaxRetries + 1)
    <3> HIDE DEF RunTypes
    <3> QED
      BY <2>1
  <2>2. failure' \in Failure
    BY <1>29 DEF ScheduleRetry, Failure, FailureKinds
  <2> QED
    BY <1>29, <2>a, <2>2 DEF ScheduleRetry, Failure
<1>30. CASE Fail
  BY <1>30 DEF Fail, FailureKinds
<1>31. CASE ContinueWorktree
  BY <1>31 DEF ContinueWorktree
<1>32. CASE ContinueFails
  BY <1>32 DEF ContinueFails, FailWith, FailureKinds
<1> QED
  BY <1>1, <1>2, <1>3, <1>4, <1>5, <1>6, <1>7, <1>8, <1>9, <1>10, <1>11, <1>12, <1>13, <1>14, <1>15, <1>16, <1>17, <1>18, <1>19, <1>20, <1>21, <1>22, <1>23, <1>24, <1>25, <1>26, <1>27, <1>28, <1>29, <1>30, <1>31, <1>32 DEF Next, Agent, Others, Steps, Attempt

(* Every step keeps the records of the pass. *)
LEMMA RunsStep ==
  ASSUME IInv, Next
  PROVE  runs' \in Seq(StepStatuses)
<1>1. runs \in Seq(StepStatuses)
  BY DEF IInv, TypeOK
<1>2. <<>> \in Seq(StepStatuses)
  BY EmptySeq
<1>3. \A x \in StepStatuses : Append(runs, x) \in Seq(StepStatuses)
  BY <1>1, AppendProperties
<1>4. \/ runs' = runs \/ runs' = <<>>
      \/ \E x \in StepStatuses : runs' = Append(runs, x)
  BY DEF Next, Agent, Others, Steps, Attempt, task, passVars, PrepareWorktree, PrepareFails,
         AgentWrites, AgentCommits, AgentEdits, AgentTampers, AgentSwitchesBranch,
         EditorWritesConfig, RefMoves, Meddles, AgentEnds, BranchMoves, BudgetExpires, Cancel,
         StepBegins, StepEnds, StepStatus, StepStatuses, StepWrites, SkipStep, BaseCheck, BaseReport,
         BeginPass, CheckContainment, InspectionFails, SnapshotAgentTree, Verify, CleanCheckout,
         Report, Succeed, CommitFails, CleanupAfterSuccess, ScheduleRetry, Fail,
         ContinueWorktree, ContinueFails
<1> QED
  BY <1>1, <1>2, <1>3, <1>4

(* The histories with one of them changed. *)
LEMMA SeenUpdates ==
  ASSUME NEW s \in Seen
  PROVE  /\ \A n \in Nat : [s EXCEPT !.edits = n] \in Seen
         /\ \A n \in Nat : [s EXCEPT !.meddling = n] \in Seen
         /\ \A n \in Nat : [s EXCEPT !.moved = n] \in Seen
         /\ \A w \in SUBSET Paths : [s EXCEPT !.wrote = w] \in Seen
         /\ \A m \in BOOLEAN : [s EXCEPT !.meddled = m] \in Seen
         /\ s.edits \in Nat /\ s.meddling \in Nat /\ s.wrote \in SUBSET Paths
<1>1. \A n \in Nat : [s EXCEPT !.edits = n] \in Seen
  BY DEF Seen
<1>2. \A n \in Nat : [s EXCEPT !.meddling = n] \in Seen
  BY DEF Seen
<1>3. \A n \in Nat : [s EXCEPT !.moved = n] \in Seen
  BY DEF Seen
<1>4. \A w \in SUBSET Paths : [s EXCEPT !.wrote = w] \in Seen
  BY DEF Seen
<1>5. \A m \in BOOLEAN : [s EXCEPT !.meddled = m] \in Seen
  BY DEF Seen
<1>6. s.edits \in Nat /\ s.meddling \in Nat /\ s.wrote \in SUBSET Paths
  BY DEF Seen
<1> QED
  BY <1>1, <1>2, <1>3, <1>4, <1>5, <1>6

(* Every step keeps the types of the histories. *)
LEMMA SeenStep ==
  ASSUME IInv, Next
  PROVE  seen' \in Seen
<1>1. seen \in Seen /\ CurrentTree \in Trees /\ agentTree \in Trees \cup {<<>>}
      /\ attempt \in Nat /\ CheckOutputs \subseteq Paths
  BY TreesAreTrees, OwnIsARef, DeliveryAssumption DEF IInv, TypeOK, GitTypes
<1>2. ASSUME NEW p \in Paths, NEW c \in Contents, AgentWrites(p, c) PROVE seen' \in Seen
  <2> DEFINE s == [seen EXCEPT !.wrote = @ \cup {p}]
  <2>1. seen' = [s EXCEPT !.edits = s.edits + 1]
    BY <1>2 DEF AgentWrites, AgentEdits
  <2>2. s \in Seen
    BY <1>1, SeenUpdates
  <2> HIDE DEF s
  <2> QED
    BY <2>1, <2>2, SeenUpdates
<1>3. ASSUME NEW onto, AgentCommits(onto) PROVE seen' \in Seen
  <2> DEFINE s == [seen EXCEPT !.meddled = @ \/ onto = 0]
  <2>1. seen' = [s EXCEPT !.edits = s.edits + 1]
    BY <1>3 DEF AgentCommits, AgentEdits
  <2>2. (seen.meddled \/ onto = 0) \in BOOLEAN
    OBVIOUS
  <2>3. s \in Seen
    BY <1>1, <2>2, SeenUpdates
  <2> HIDE DEF s
  <2> QED
    BY <2>1, <2>3, SeenUpdates
<1>4. ASSUME NEW agent \in BOOLEAN, Meddles(agent) PROVE seen' \in Seen
  <2> DEFINE s == [seen EXCEPT !.meddling = @ + 1]
  <2>1. seen' = [s EXCEPT !.meddled = (s.meddled \/ agent)]
    BY <1>4 DEF Meddles
  <2>2. s \in Seen
    BY <1>1, SeenUpdates
  <2> HIDE DEF s
  <2>3. (s.meddled \/ agent) \in BOOLEAN
    OBVIOUS
  <2> QED
    BY <2>1, <2>2, <2>3, SeenUpdates
<1>5. ASSUME NEW tree \in Trees, BranchMoves(tree) PROVE seen' \in Seen
  <2> DEFINE s == [seen EXCEPT !.meddling = @ + 1]
  <2>1. seen' = [s EXCEPT !.moved = attempt]
    BY <1>5 DEF BranchMoves
  <2>2. s \in Seen
    BY <1>1, SeenUpdates
  <2> HIDE DEF s
  <2> QED
    BY <1>1, <2>1, <2>2, SeenUpdates
<1>6. ASSUME NEW p \in CheckOutputs, NEW c \in Contents, StepWrites(p, c) PROVE seen' \in Seen
  BY <1>1, <1>6, SMTT(30) DEF StepWrites, Seen
<1>7. CASE Verify
  BY <1>1, <1>7 DEF Verify, BeginPass, Seen
<1>8. CASE CleanCheckout
  BY <1>1, <1>8 DEF CleanCheckout, Seen
<1>9. CASE BaseReport
  BY <1>1, <1>9 DEF BaseReport, Seen
<1>10. CASE ScheduleRetry
  <2>1. PICK tree \in Trees : seen' = [seen EXCEPT !.left = Append(@, tree)]
    BY <1>1, <1>10 DEF ScheduleRetry, CommitPartialWork, Snapshotted
  <2>2. Append(seen.left, tree) \in Seq(Trees)
    BY <1>1, AppendProperties DEF Seen
  <2> QED
    BY <1>1, <2>1, <2>2 DEF Seen
<1>11. CASE UNCHANGED seen
  BY <1>1, <1>11
<1> QED
  BY <1>2, <1>3, <1>4, <1>5, <1>6, <1>7, <1>8, <1>9, <1>10, <1>11
     DEF Next, Agent, Others, Steps, Attempt, PrepareWorktree, PrepareFails,
         AgentTampers, AgentSwitchesBranch, EditorWritesConfig, RefMoves, AgentEnds,
         BudgetExpires, Cancel, StepBegins, StepEnds, SkipStep, BaseCheck, CheckContainment,
         InspectionFails, SnapshotAgentTree, Report, Succeed, CommitFails, CleanupAfterSuccess, Fail,
         ContinueWorktree, ContinueFails

-----------------------------------------------------------------------------
(* What the two actions that build commits do. *)

(* commitAgentTree has nothing to write, or moves the branch back to the   *)
(* base, or puts one commit on its parent; it writes only where the        *)
(* snapshot found the branch.                                              *)
LEMMA Delivers ==
  ASSUME IInv, Succeed, NEW n, n = Len(commits)
  PROVE  /\ pc = "deliver" /\ outcome = "none" /\ attempt' = attempt /\ head' = head /\ head = Own(attempt)
         /\ agentTree \in Trees /\ agentHead \in 1..n /\ n \in Nat
         /\ UNCHANGED <<disk, agentTree, agentHead, seen, reports>>
         /\ DeliveryParent \in 1..n /\ DeliveryParent = (IF attempt > 1 THEN 1 ELSE agentHead)
         /\ \/ /\ UNCHANGED <<commits, refs, index>>
               /\ DeliveryParent = agentHead /\ TreeOf(agentHead) = agentTree
            \/ /\ refs[Own(attempt)] = agentHead /\ SyncIndex
               /\ \/ /\ commits' = commits /\ attempt > 1
                     /\ TreeOf(1) = agentTree
                     /\ refs' = [refs EXCEPT ![Own(attempt)] = 1]
                  \/ /\ Makes(agentTree, DeliveryParent, "delivery")
                     /\ refs' = [refs EXCEPT ![Own(attempt)] = n + 1]
<1>1. /\ pc = "deliver" /\ attempt' = attempt /\ head' = head
      /\ UNCHANGED <<disk, agentTree, agentHead, seen, reports>> /\ CommitAgentTree
  BY DEF Succeed, snapVars
<1>2. /\ outcome = "none" /\ head = Own(attempt) /\ agentTree \in Trees /\ agentHead # 0
      /\ Len(commits) > 0
  BY <1>1 DEF IInv, HeadInv, OrderInv, BaseInv, Judging
<1>3. n \in Nat /\ agentHead \in 1..n /\ attempt \in Nat \ {0}
  BY <1>2, CommitFacts, OwnIsARef DEF IInv, TypeOK, GitTypes
<1>4. DeliveryParent = (IF attempt > 1 THEN 1 ELSE agentHead) /\ DeliveryParent \in 1..n
  BY <1>2, <1>3 DEF DeliveryParent, BaseCommit
<1>5. CASE TreeOf(DeliveryParent) = agentTree /\ DeliveryParent = agentHead
  BY <1>1, <1>2, <1>3, <1>4, <1>5 DEF CommitAgentTree
<1>6. CASE TreeOf(DeliveryParent) = agentTree /\ DeliveryParent # agentHead
  <2>1. /\ refs[Own(attempt)] = agentHead /\ SyncIndex /\ commits' = commits
        /\ refs' = [refs EXCEPT ![Own(attempt)] = DeliveryParent]
    BY <1>1, <1>6 DEF CommitAgentTree, UpdateBranch
  <2>2. attempt > 1 /\ DeliveryParent = 1
    BY <1>3, <1>4, <1>6
  <2> QED
    BY <1>1, <1>2, <1>3, <1>4, <1>6, <2>1, <2>2
<1>7. CASE TreeOf(DeliveryParent) # agentTree
  <2>1. /\ refs[Own(attempt)] = agentHead /\ SyncIndex
        /\ commits' = Append(commits, NewCommit(agentTree, DeliveryParent, "delivery"))
        /\ refs' = [refs EXCEPT ![Own(attempt)] = Len(commits')]
    BY <1>1, <1>7 DEF CommitAgentTree, UpdateBranch
  <2>2. Makes(agentTree, DeliveryParent, "delivery")
    BY <1>2, <1>3, <1>4, <2>1 DEF Makes, CommitKinds
  <2>3. Len(commits') = n + 1
    BY <2>2, Made DEF IInv
  <2> QED
    BY <1>1, <1>2, <1>3, <1>4, <2>1, <2>2, <2>3
<1> QED
  BY <1>5, <1>6, <1>7

(* What commitPartialWork keeps, and on what. *)
PartialTree == IF Snapshotted THEN agentTree ELSE CurrentTree
PartialOnto == IF Snapshotted THEN agentHead ELSE HeadCommit

(* commitPartialWork has nothing to write, or puts one commit where the    *)
(* branch is; a directory whose tree was snapshotted is reset to HEAD.     *)
LEMMA KeepsPartialWork ==
  ASSUME IInv, ScheduleRetry, NEW n, n = Len(commits)
  PROVE  /\ Retrying /\ attempt <= MaxRetries /\ attempt' = attempt + 1 /\ head' = head /\ pc' = "continue"
         /\ agentTree' = <<>> /\ agentHead' = 0 /\ ~cancelled
         /\ head \in {Own(attempt), Stray} /\ (Snapshotted => head = Own(attempt))
         /\ n \in Nat /\ PartialTree \in Trees /\ PartialOnto \in 1..n /\ refs[head] \in 1..n
         /\ seen' = [seen EXCEPT !.left = Append(@, PartialTree)]
         /\ \/ /\ UNCHANGED <<commits, refs>> /\ TreeOf(PartialOnto) = PartialTree
            \/ /\ refs[Own(attempt)] = PartialOnto
               /\ Makes(PartialTree, PartialOnto, "unverified")
               /\ refs' = [refs EXCEPT ![Own(attempt)] = n + 1]
         /\ IF Snapshotted THEN RestoreToHead(commits'[refs'[head]].tree)
            ELSE disk' = disk /\ (index' = index \/ SyncIndex)
<1>1. /\ pc = "fail" /\ WillRetry /\ CommitPartialWork /\ attempt' = attempt + 1
      /\ head' = head /\ pc' = "continue" /\ agentTree' = <<>> /\ agentHead' = 0
  BY DEF ScheduleRetry
<1>2. Retrying /\ attempt <= MaxRetries /\ ~cancelled
  BY <1>1 DEF WillRetry, Retrying
<1>3. /\ head \in {Own(attempt), Stray} /\ (Snapshotted => head = Own(attempt))
      /\ refs[head] # 0 /\ (Snapshotted => agentHead # 0 /\ agentTree \in Trees)
  BY <1>2 DEF IInv, HeadInv, OrderInv, TypeOK, GitTypes, Snapshotted
<1>4. n \in Nat /\ refs[head] \in 1..n /\ agentHead \in 0..n /\ CurrentTree \in Trees
  BY <1>3, CommitFacts, TreesAreTrees DEF IInv, TypeOK, GitTypes
<1>5. PartialTree \in Trees /\ PartialOnto \in 1..n
  BY <1>3, <1>4 DEF PartialTree, PartialOnto, HeadCommit
<1>6. /\ seen' = [seen EXCEPT !.left = Append(@, PartialTree)]
      /\ IF Snapshotted THEN RestoreToHead(commits'[refs'[head]].tree)
         ELSE disk' = disk /\ (index' = index \/ SyncIndex)
      /\ IF TreeOf(PartialOnto) = PartialTree THEN UNCHANGED <<commits, refs>>
         ELSE /\ refs[Own(attempt)] = PartialOnto
              /\ commits' = Append(commits, NewCommit(PartialTree, PartialOnto, "unverified"))
              /\ refs' = [refs EXCEPT ![Own(attempt)] = Len(commits')]
  BY <1>1 DEF CommitPartialWork, UpdateBranch, PartialTree, PartialOnto
<1>7. CASE TreeOf(PartialOnto) = PartialTree
  BY <1>1, <1>2, <1>3, <1>4, <1>5, <1>6, <1>7
<1>8. CASE TreeOf(PartialOnto) # PartialTree
  <2>1. Makes(PartialTree, PartialOnto, "unverified")
    BY <1>4, <1>5, <1>6, <1>8 DEF Makes, CommitKinds
  <2>2. Len(commits') = n + 1
    BY <2>1, Made DEF IInv
  <2> QED
    BY <1>1, <1>2, <1>3, <1>4, <1>5, <1>6, <1>8, <2>1, <2>2
<1> QED
  BY <1>7, <1>8

(* A ref moved to the newest commit. *)
LEMMA RefMoved ==
  ASSUME NEW R, NEW k \in Nat, NEW f \in [R -> 0..k], NEW x
  PROVE  [f EXCEPT ![x] = k + 1] \in [R -> 0..(k + 1)]
<1>1. \A y \in R : [f EXCEPT ![x] = k + 1][y] \in 0..(k + 1)
  <2> TAKE y \in R
  <2>1. f[y] \in 0..k
    OBVIOUS
  <2>2. CASE x = y
    BY <2>2
  <2>3. CASE x # y
    BY <2>1, <2>3
  <2> QED
    BY <2>2, <2>3
<1> QED
  BY <1>1

(* Every step keeps the types of what git holds. *)
LEMMA GitTypesStep ==
  ASSUME IInv, Next
  PROVE  GitTypes'
<1> DEFINE n == Len(commits)
<1>0. /\ GitTypes /\ TypeOK /\ n \in Nat /\ DOMAIN commits = 1..n /\ CurrentTree \in Trees
      /\ Own(attempt) \in Refs /\ {Main, Sibling, Stray} \subseteq Refs
      /\ CheckOutputs \subseteq Paths /\ attempt \in Nat
      /\ \A c \in 1..n : commits[c].tree \in Trees
  BY CommitFacts, TreesAreTrees, OwnIsARef, RefsDiffer, DeliveryAssumption DEF IInv, TypeOK
<1>n. n > 0
  BY <1>0 DEF IInv, BaseInv
<1>1. ASSUME NEW p \in Paths, NEW c \in Contents, AgentWrites(p, c) PROVE GitTypes'
  BY <1>0, <1>1 DEF AgentWrites, AgentEdits, GitTypes, gitVars, snapVars
<1>2. ASSUME NEW onto \in {HeadCommit, 0}, AgentCommits(onto) PROVE GitTypes'
  <2>1. Makes(CurrentTree, onto, "agent")
    BY <1>0, <1>2, SMTT(30) DEF AgentCommits, Makes, CommitKinds, GitTypes, HeadCommit
  <2>2. /\ commits' \in Seq(CommitRecords)
        /\ Len(commits') = n + 1
        /\ \A c \in DOMAIN commits' : commits'[c].past \subseteq 1..(c - 1)
    BY <1>0, <2>1, Made
  <2>3. /\ refs' = [refs EXCEPT ![head] = n + 1] /\ index' = CurrentTree
        /\ UNCHANGED <<disk, head, shared, before, agentTree, agentHead>>
    BY <1>2 DEF AgentCommits, AgentEdits, snapVars
  <2>4. refs' \in [Refs -> 0..Len(commits')] /\ agentHead' \in 0..Len(commits')
    <3>1. refs \in [Refs -> 0..n] /\ agentHead \in 0..n /\ n \in Nat
      BY <1>0 DEF GitTypes
    <3>2. Len(commits') = n + 1 /\ agentHead' = agentHead
      BY <2>2, <2>3
    <3> HIDE DEF n
    <3>3. [refs EXCEPT ![head] = n + 1] \in [Refs -> 0..(n + 1)]
      BY <3>1, RefMoved
    <3>4. refs' \in [Refs -> 0..(n + 1)] /\ agentHead' \in 0..(n + 1)
      BY <2>3, <3>1, <3>2, <3>3
    <3> QED
      BY <3>2, <3>4
  <2> QED
    BY <1>0, <2>2, <2>3, <2>4 DEF GitTypes
<1>3. ASSUME NEW c \in Channels \ {"inert"}, AgentTampers(c) PROVE GitTypes'
  <2>1. shared' = [shared EXCEPT ![c] = 1 - @] /\ shared[c] \in 0..1
    BY <1>0, <1>3 DEF AgentTampers, GitTypes
  <2>2. shared' \in [Channels -> 0..1]
    BY <1>0, <2>1, SMTT(30) DEF GitTypes
  <2> QED
    BY <1>0, <1>3, <2>2 DEF AgentTampers, Meddles, GitTypes, snapVars
<1>4. CASE AgentSwitchesBranch
  BY <1>0, <1>4 DEF AgentSwitchesBranch, Meddles, GitTypes, snapVars, HeadCommit
<1>5. CASE EditorWritesConfig
  <2>1. shared' = [shared EXCEPT !["inert"] = 1 - @] /\ shared["inert"] \in 0..1
    BY <1>0, <1>5 DEF EditorWritesConfig, GitTypes, Channels
  <2>2. shared' \in [Channels -> 0..1]
    <3>1. 1 - shared["inert"] \in 0..1 /\ shared \in [Channels -> 0..1]
      BY <1>0, <2>1, SMTT(30) DEF GitTypes
    <3> QED
      BY <2>1, <3>1
  <2> QED
    BY <1>0, <1>5, <2>2 DEF EditorWritesConfig, Meddles, GitTypes, snapVars
<1>6. ASSUME NEW r \in {Main, Sibling}, RefMoves(r) PROVE GitTypes'
  BY <1>0, <1>6 DEF RefMoves, Meddles, GitTypes, snapVars, HeadCommit
<1>7. ASSUME NEW tree \in Trees, BranchMoves(tree) PROVE GitTypes'
  <2>1. Makes(tree, refs[Own(attempt)], "intruder")
    BY <1>0, <1>7 DEF BranchMoves, Makes, CommitKinds, GitTypes
  <2>2. /\ commits' \in Seq(CommitRecords)
        /\ Len(commits') = n + 1
        /\ \A c \in DOMAIN commits' : commits'[c].past \subseteq 1..(c - 1)
    BY <1>0, <2>1, Made
  <2>3. /\ refs' = [refs EXCEPT ![Own(attempt)] = n + 1]
        /\ UNCHANGED <<disk, index, head, shared, before, agentTree, agentHead>>
    BY <1>7 DEF BranchMoves, snapVars
  <2>4. refs' \in [Refs -> 0..Len(commits')] /\ agentHead' \in 0..Len(commits')
    <3>1. refs \in [Refs -> 0..n] /\ agentHead \in 0..n /\ n \in Nat
      BY <1>0 DEF GitTypes
    <3>2. Len(commits') = n + 1 /\ agentHead' = agentHead
      BY <2>2, <2>3
    <3> HIDE DEF n
    <3>3. [refs EXCEPT ![Own(attempt)] = n + 1] \in [Refs -> 0..(n + 1)]
      BY <3>1, RefMoved
    <3>4. refs' \in [Refs -> 0..(n + 1)] /\ agentHead' \in 0..(n + 1)
      BY <2>3, <3>1, <3>2, <3>3
    <3> QED
      BY <3>2, <3>4
  <2> QED
    BY <1>0, <2>2, <2>3, <2>4 DEF GitTypes
<1>8. ASSUME NEW p \in CheckOutputs, NEW c \in Contents, StepWrites(p, c) PROVE GitTypes'
  BY <1>0, <1>8 DEF StepWrites, GitTypes, gitVars, snapVars
<1>9. CASE PrepareWorktree
  <2>1. /\ disk' = [p \in Paths |-> IF p \in Tracked THEN BaseTree[p] ELSE 0]
        /\ refs' = [refs EXCEPT ![Own(1)] = 1] /\ head' = Own(1)
        /\ before' = [channels |-> shared, refs |-> refs', head |-> head']
        /\ UNCHANGED <<index, commits, shared, agentTree, agentHead>>
    BY <1>9 DEF PrepareWorktree, snapVars, BaseCommit
  <2>2. disk' \in [Paths -> Contents]
    BY <2>1 DEF BaseTree, Contents
  <2>3. Own(1) \in Refs
    BY <1>0, <1>9 DEF IInv, HeadInv, PrepareWorktree
  <2>4. refs' \in [Refs -> 0..n] /\ refs' \in [Refs -> Nat] /\ head' \in Refs
    BY <1>0, <1>n, <2>1, <2>3, SMTT(30) DEF GitTypes
  <2>5. before' \in [channels : [Channels -> 0..1], refs : [Refs -> Nat], head : Refs]
    BY <1>0, <2>1, <2>4 DEF GitTypes
  <2> QED
    BY <1>0, <2>1, <2>2, <2>4, <2>5 DEF GitTypes
<1>10. CASE ContinueWorktree
  <2>1. /\ refs' = [refs EXCEPT ![Own(attempt)] = refs[head]] /\ head' = Own(attempt)
        /\ before' = [channels |-> shared, refs |-> refs', head |-> head']
        /\ UNCHANGED <<disk, index, commits, shared, agentTree, agentHead>>
    BY <1>10 DEF ContinueWorktree, snapVars, HeadCommit
  <2>2. refs' \in [Refs -> 0..n] /\ refs' \in [Refs -> Nat] /\ head' \in Refs
    BY <1>0, <2>1 DEF GitTypes
  <2>3. before' \in [channels : [Channels -> 0..1], refs : [Refs -> Nat], head : Refs]
    BY <1>0, <2>1, <2>2 DEF GitTypes
  <2> QED
    BY <1>0, <2>1, <2>2, <2>3 DEF GitTypes
<1>11. CASE SnapshotAgentTree
  BY <1>0, <1>11 DEF SnapshotAgentTree, GitTypes, gitVars, HeadCommit
<1>12. CASE Succeed
  <2>1. PICK m : m = n
    OBVIOUS
  <2>2. /\ head = Own(attempt) /\ head' = head /\ agentHead \in 1..m
        /\ UNCHANGED <<disk, agentTree, agentHead, shared, before>>
    BY <1>12, <2>1, Delivers DEF Succeed
  <2>3. CASE UNCHANGED <<commits, refs, index>>
    BY <1>0, <2>2, <2>3 DEF GitTypes
  <2>4. ASSUME SyncIndex, commits' = commits, refs' = [refs EXCEPT ![Own(attempt)] = 1] PROVE GitTypes'
    <3>1. refs' \in [Refs -> 0..n] /\ refs'[head] = 1
      BY <1>0, <1>n, <2>2, <2>4 DEF GitTypes
    <3>2. index' \in Trees
      BY <1>0, <1>n, <2>4, <3>1, SMTT(30) DEF GitTypes, SyncIndex
    <3> QED
      BY <1>0, <2>2, <2>4, <3>1, <3>2 DEF GitTypes
  <2>5. ASSUME SyncIndex, Makes(agentTree, DeliveryParent, "delivery"),
               refs' = [refs EXCEPT ![Own(attempt)] = m + 1] PROVE GitTypes'
    <3>1. /\ commits' \in Seq(CommitRecords)
          /\ Len(commits') = m + 1 /\ commits'[m + 1].tree = agentTree
          /\ \A c \in DOMAIN commits' : commits'[c].past \subseteq 1..(c - 1)
      BY <1>0, <2>1, <2>5, Made
    <3>2. /\ refs' \in [Refs -> 0..Len(commits')] /\ refs'[head] = m + 1
          /\ agentHead' \in 0..Len(commits')
      BY <1>0, <2>1, <2>2, <2>5, <3>1, SMTT(30) DEF GitTypes
    <3>3. index' \in Trees
      BY <1>0, <2>5, <3>1, <3>2 DEF GitTypes, SyncIndex, Makes
    <3> QED
      BY <1>0, <2>1, <2>2, <3>1, <3>2, <3>3 DEF GitTypes
  <2> QED
    BY <1>12, <2>1, <2>3, <2>4, <2>5, Delivers
<1>13. CASE ScheduleRetry
  <2>1. PICK m : m = n
    OBVIOUS
  <2>2. /\ head \in {Own(attempt), Stray} /\ head' = head /\ refs[head] \in 1..m
        /\ agentTree' = <<>> /\ agentHead' = 0 /\ UNCHANGED <<shared, before>>
        /\ PartialOnto \in 1..m /\ PartialTree \in Trees
        /\ (IF Snapshotted THEN RestoreToHead(commits'[refs'[head]].tree)
            ELSE disk' = disk /\ (index' = index \/ SyncIndex))
    BY <1>13, <2>1, KeepsPartialWork DEF ScheduleRetry
  <2> DEFINE Kept == /\ commits' \in Seq(CommitRecords)
                     /\ \A c \in DOMAIN commits' : commits'[c].past \subseteq 1..(c - 1)
                     /\ refs' \in [Refs -> 0..Len(commits')]
                     /\ commits'[refs'[head]].tree \in Trees
  <2>3. Kept
    <3>1. CASE UNCHANGED <<commits, refs>>
      BY <1>0, <2>1, <2>2, <3>1 DEF GitTypes
    <3>2. ASSUME Makes(PartialTree, PartialOnto, "unverified"),
                 refs' = [refs EXCEPT ![Own(attempt)] = m + 1]
          PROVE  Kept
      <4>1. /\ commits' \in Seq(CommitRecords)
            /\ Len(commits') = m + 1 /\ commits'[m + 1].tree = PartialTree
            /\ \A c \in 1..m : commits'[c] = commits[c]
            /\ \A c \in DOMAIN commits' : commits'[c].past \subseteq 1..(c - 1)
        BY <1>0, <2>1, <3>2, Made
      <4>2. refs \in [Refs -> 0..m] /\ head \in Refs
        BY <1>0, <2>1 DEF GitTypes
      <4>3. refs' \in [Refs -> 0..(m + 1)] /\ refs'[head] \in {m + 1, refs[head]}
        BY <1>0, <2>1, <3>2, <4>2
      <4>4. refs' \in [Refs -> 0..Len(commits')]
        BY <4>1, <4>3
      <4>5. commits'[refs'[head]].tree \in Trees
        BY <1>0, <2>1, <2>2, <4>1, <4>3
      <4> QED
        BY <4>1, <4>4, <4>5
    <3> HIDE DEF Kept
    <3> QED
      BY <1>13, <2>1, <3>1, <3>2, KeepsPartialWork
  <2>4. disk' \in [Paths -> Contents] /\ index' \in Trees
    <3>1. CASE Snapshotted
      BY <1>0, <2>2, <2>3, <3>1 DEF GitTypes, RestoreToHead, Trees
    <3>2. CASE ~Snapshotted
      BY <1>0, <2>2, <2>3, <3>2 DEF GitTypes, SyncIndex
    <3> QED
      BY <3>1, <3>2
  <2>5. agentHead' \in 0..Len(commits') /\ agentTree' \in Trees \cup {<<>>}
    <3>1. Len(commits') \in Nat
      BY <2>3, LenProperties
    <3> QED
      BY <2>2, <3>1
  <2>6. UNCHANGED <<shared, before, head>>
    BY <2>2
  <2> QED
    BY <1>0, <2>3, <2>4, <2>5, <2>6 DEF GitTypes
<1>14. CASE UNCHANGED <<disk, index, commits, refs, head, shared, before, agentTree, agentHead>>
  BY <1>0, <1>14 DEF GitTypes
<1> QED
  BY <1>1, <1>2, <1>3, <1>4, <1>5, <1>6, <1>7, <1>8, <1>9, <1>10, <1>11, <1>12, <1>13, <1>14
     DEF Next, Agent, Others, Steps, Attempt, PrepareFails, AgentEnds, gitVars, snapVars,
         BudgetExpires, Cancel, StepBegins, StepEnds, SkipStep, BaseCheck, BaseReport, CheckContainment,
         InspectionFails, Verify, CleanCheckout, Report, CommitFails, CleanupAfterSuccess, Fail,
         ContinueFails

(* Every step keeps the types. *)
LEMMA TypeStep ==
  ASSUME IInv, Next
  PROVE  TypeOK'
  BY RunTypesStep, RunsStep, SeenStep, GitTypesStep DEF TypeOK

-----------------------------------------------------------------------------
(* The cancellation. *)

(* A pass that goes on keeps the step that stopped it. *)
LEMMA StopStays ==
  ASSUME runs \in Seq(StepStatuses), NEW x \in StepStatuses, runs' = Append(runs, x),
         Stopped => \E i \in DOMAIN runs :
                      /\ runs[i] \in {"FAILED", "TIMED_OUT", "CANCELLED"}
                      /\ \A j \in 1..(i - 1) : runs[j] = "PASSED",
         x = "SKIPPED" => Stopped
  PROVE  /\ \A i \in DOMAIN runs' : runs'[i] = x \/ (i \in DOMAIN runs /\ runs'[i] = runs[i])
         /\ Stopped' => \E i \in DOMAIN runs' :
                          /\ runs'[i] \in {"FAILED", "TIMED_OUT", "CANCELLED"}
                          /\ \A j \in 1..(i - 1) : runs'[j] = "PASSED"
<1> DEFINE n == Len(runs)
<1>1. n \in Nat /\ DOMAIN runs = 1..n /\ \A i \in 1..n : runs[i] \in StepStatuses
  BY Places
<1>2. /\ runs' \in Seq(StepStatuses) /\ Len(runs') = n + 1
      /\ \A i \in 1..n : runs'[i] = runs[i] /\ runs'[n + 1] = x
  BY Appended
<1>3. DOMAIN runs' = 1..(n + 1) /\ runs'[n + 1] = x
  BY <1>2, Places, Appended
<1> HIDE DEF n
<1>4. CASE Stopped
  <2>1. PICK i \in DOMAIN runs : /\ runs[i] \in {"FAILED", "TIMED_OUT", "CANCELLED"}
                                 /\ \A j \in 1..(i - 1) : runs[j] = "PASSED"
    BY <1>4
  <2>2. i \in DOMAIN runs' /\ runs'[i] = runs[i] /\ \A j \in 1..(i - 1) : runs'[j] = runs[j]
    BY <1>1, <1>2, <1>3, <2>1
  <2>3. \A j \in 1..(i - 1) : runs'[j] = "PASSED"
    BY <2>1, <2>2
  <2> QED
    BY <1>1, <1>2, <1>3, <2>1, <2>2, <2>3
<1>5. CASE ~Stopped
  <2>1. \A i \in 1..n : runs'[i] = "PASSED"
    BY <1>1, <1>2, <1>5 DEF Stopped
  <2>2. x # "PASSED" => x \in {"FAILED", "TIMED_OUT", "CANCELLED"}
    BY <1>5 DEF StepStatuses
  <2>3. Stopped' => x # "PASSED"
    BY <1>1, <1>3, <2>1 DEF Stopped
  <2>4. n + 1 \in DOMAIN runs' /\ \A j \in 1..((n + 1) - 1) : runs'[j] = "PASSED"
    BY <1>1, <1>3, <2>1
  <2> QED
    BY <1>1, <1>2, <1>3, <2>2, <2>3, <2>4
<1> QED
  BY <1>4, <1>5

(* Every step keeps what is known of the cancellation. *)
LEMMA CancelStep ==
  ASSUME IInv, Next
  PROVE  CancelInv'
<1>0. /\ CancelInv /\ runs \in Seq(StepStatuses) /\ RunTypes
      /\ (outcome # "none" => pc \in {"cleanup", "removed", "kept"})
  BY DEF IInv, TypeOK, OrderInv
<1> USE DEF CancelInv, Stopped
<1>1. CASE UNCHANGED <<stop, cancelled, runs, failure, outcome>>
           /\ (pc' = pc \/ pc \notin {"basepass", "pass", "deliver", "fail"})
  BY <1>0, <1>1
<1>2. ASSUME UNCHANGED <<stop, cancelled, runs, outcome>>, pc # "basepass",
             NEW kind \in FailureKinds, NEW retryable \in BOOLEAN, FailWith(kind, retryable),
             kind = "CANCELLED" => cancelled
      PROVE  CancelInv'
  BY <1>0, <1>2, Failing
<1>3. ASSUME NEW r \in {"done", "stopped early", "refused a tool", "out of time"}, AgentEnds(r)
      PROVE  CancelInv'
  <2>1. pc = "agent" /\ UNCHANGED <<stop, cancelled, runs, outcome>>
    BY <1>3 DEF AgentEnds, passVars
  <2>2. \/ pc' = "contain" /\ UNCHANGED failure
        \/ \E kind \in FailureKinds, retryable \in BOOLEAN :
             FailWith(kind, retryable) /\ (kind = "CANCELLED" => cancelled)
    BY <1>3 DEF AgentEnds, FailureKinds
  <2> HIDE DEF CancelInv, Stopped
  <2> QED
    BY <1>1, <1>2, <2>1, <2>2
<1>4. ASSUME NEW answered \in BOOLEAN, CheckContainment(answered) PROVE CancelInv'
  <2>1. pc = "contain" /\ UNCHANGED <<stop, cancelled, runs, outcome>>
    BY <1>4 DEF CheckContainment, passVars
  <2>2. \/ pc' = "snapshot" /\ UNCHANGED failure
        \/ FailWith("CONTAINMENT", FALSE) /\ "CONTAINMENT" \in FailureKinds
    BY <1>4 DEF CheckContainment, FailureKinds
  <2> HIDE DEF CancelInv, Stopped
  <2> QED
    BY <1>1, <1>2, <2>1, <2>2
<1>5. CASE PrepareFails \/ InspectionFails \/ CommitFails \/ ContinueFails
  <2>1. UNCHANGED <<stop, cancelled, runs, outcome>> /\ pc # "basepass"
    BY <1>5 DEF PrepareFails, InspectionFails, CommitFails, ContinueFails, passVars
  <2>2. \E kind \in FailureKinds : FailWith(kind, FALSE) /\ kind # "CANCELLED"
    BY <1>5 DEF PrepareFails, InspectionFails, CommitFails, ContinueFails, FailureKinds
  <2> HIDE DEF CancelInv, Stopped
  <2> QED
    BY <1>2, <2>1, <2>2
<1>6. ASSUME NEW where, BeginPass(where), UNCHANGED <<cancelled, failure, outcome>>,
             pc \notin {"basepass", "pass", "deliver", "fail"},
             where \in {"pass", "basepass"}
      PROVE  CancelInv'
  BY <1>0, <1>6 DEF BeginPass
<1>7. CASE Verify
  <2>1. CASE Refused
    <3>1. UNCHANGED <<stop, cancelled, runs, outcome>> /\ pc # "basepass"
          /\ FailWith("VERIFICATION", FALSE) /\ "VERIFICATION" \in FailureKinds
      BY <1>7, <2>1 DEF Verify, passVars, FailureKinds
    <3> HIDE DEF CancelInv, Stopped
    <3> QED
      BY <1>2, <3>1
  <2>2. CASE ~Refused /\ mode = "clean"
    BY <1>0, <1>7, <2>2 DEF Verify, passVars
  <2>3. CASE ~Refused /\ mode # "clean"
    BY <1>6, <1>7, <2>3 DEF Verify
  <2> QED
    BY <2>1, <2>2, <2>3
<1>8. CASE CleanCheckout
  BY <1>6, <1>8 DEF CleanCheckout
<1>9. CASE BaseCheck
  BY <1>6, <1>9 DEF BaseCheck
<1>10. ASSUME NEW x \in StepStatuses, runs' = Append(runs, x), x = "SKIPPED" => Stopped,
              x = "CANCELLED" => cancelled,
              UNCHANGED <<pc, stop, cancelled, failure, outcome>>
       PROVE  CancelInv'
  BY <1>0, <1>10, StopStays
<1>11. CASE StepBegins
  <2> HIDE DEF CancelInv, Stopped
  <2>1. UNCHANGED <<pc, stop, cancelled, failure, outcome>>
    BY <1>11 DEF StepBegins
  <2>2. \/ runs' = runs
        \/ stop = "deadline" /\ runs' = Append(runs, "TIMED_OUT")
        \/ stop = "cancel" /\ runs' = Append(runs, "CANCELLED")
    BY <1>11 DEF StepBegins
  <2>3. stop = "cancel" => cancelled
    BY <1>0 DEF CancelInv
  <2> QED
    BY <1>1, <1>10, <2>1, <2>2, <2>3 DEF StepStatuses
<1>12. ASSUME NEW own \in {"PASSED", "FAILED", "TIMED_OUT"}, StepEnds(own) PROVE CancelInv'
  <2> HIDE DEF CancelInv, Stopped
  <2>1. UNCHANGED <<pc, stop, cancelled, failure, outcome>> /\ runs' = Append(runs, StepStatus(own))
    BY <1>12 DEF StepEnds
  <2>2. StepStatus(own) \in StepStatuses \ {"SKIPPED"} /\ (StepStatus(own) = "CANCELLED" => cancelled)
    BY <1>0 DEF StepStatus, StepStatuses, CancelInv
  <2> QED
    BY <1>10, <2>1, <2>2
<1>13. CASE SkipStep
  <2> HIDE DEF CancelInv, Stopped
  <2>1. /\ UNCHANGED <<pc, stop, cancelled, failure, outcome>>
        /\ runs' = Append(runs, "SKIPPED") /\ Stopped
    BY <1>13 DEF SkipStep
  <2> QED
    BY <1>10, <2>1 DEF StepStatuses
<1>14. CASE BudgetExpires
  BY <1>0, <1>14 DEF BudgetExpires
<1>15. CASE Cancel
  BY <1>0, <1>15 DEF Cancel
<1>16. CASE BaseReport
  <2>1. /\ runs' = <<>> /\ stop' = "none" /\ UNCHANGED <<cancelled, outcome>> /\ pc = "basepass"
        /\ \/ pc' = "agent" /\ UNCHANGED failure
           \/ FailWith("VERIFICATION", FALSE)
    BY <1>16 DEF BaseReport
  <2>2. failure' = failure \/ failure'.kind = "VERIFICATION"
    BY <2>1 DEF FailWith
  <2>3. DOMAIN runs' = {}
    BY <2>1
  <2> QED
    BY <1>0, <2>1, <2>2, <2>3
<1>17. CASE Report
  <2>1. pc = "pass" /\ UNCHANGED <<stop, cancelled, runs, outcome>>
    BY <1>17 DEF Report, passVars
  <2>2. CASE Stopped
    <3>1. PassFailure \in FailureKinds /\ (PassFailure = "CANCELLED" => cancelled)
      BY <1>0, <2>2, PassFailureKind DEF FailureKinds
    <3>2. FailWith(PassFailure, PassFailure = "VERIFICATION") /\ (PassFailure = "VERIFICATION") \in BOOLEAN
      BY <1>17, <2>2 DEF Report
    <3> HIDE DEF CancelInv, Stopped
    <3> QED
      BY <1>2, <2>1, <3>1, <3>2
  <2>3. CASE ~Stopped
    <3>1. pc' = "deliver" /\ UNCHANGED failure
      BY <1>17, <2>3 DEF Report
    <3> QED
      BY <1>0, <2>1, <3>1
  <2> QED
    BY <2>2, <2>3
<1>18. CASE Succeed
  BY <1>0, <1>18 DEF Succeed, passVars
<1>19. CASE ScheduleRetry
  BY <1>0, <1>19 DEF ScheduleRetry, passVars, NoFailure
<1>20. CASE Fail
  BY <1>0, <1>20 DEF Fail, passVars, RunTypes
<1> HIDE DEF CancelInv, Stopped
<1> QED
  BY <1>1, <1>3, <1>4, <1>5, <1>7, <1>8, <1>9, <1>11, <1>12, <1>13, <1>14, <1>15, <1>16, <1>17,
     <1>18, <1>19, <1>20
     DEF Next, Agent, Others, Steps, Attempt, passVars, AgentWrites, AgentCommits, AgentEdits,
         AgentTampers, AgentSwitchesBranch, EditorWritesConfig, RefMoves, Meddles, BranchMoves,
         StepWrites, PrepareWorktree, SnapshotAgentTree, ContinueWorktree, CleanupAfterSuccess

-----------------------------------------------------------------------------
(* HEAD and the order of a run. *)

(* Every step keeps what is known of HEAD and of the order of a run. *)
LEMMA OrderStep ==
  ASSUME IInv, Next
  PROVE  HeadInv' /\ OrderInv'
<1> DEFINE n == Len(commits)
<1>0. /\ HeadInv /\ OrderInv /\ TypeOK /\ RunTypes /\ n \in Nat /\ n > 0
      /\ refs \in [Refs -> 0..n] /\ head \in Refs /\ agentHead \in 0..n
      /\ Own(attempt) \in Refs /\ Own(1) \in Refs /\ {Main, Sibling, Stray} \subseteq Refs
      /\ attempt \in Nat \ {0}
  <2>1. TypeOK /\ HeadInv /\ OrderInv /\ Len(commits) > 0
    BY DEF IInv, BaseInv
  <2>2. 1 \in 1..(MaxRetries + 1)
    BY <2>1, OwnIsARef
  <2> QED
    BY <2>1, <2>2, CommitFacts, OwnIsARef, RefsDiffer DEF TypeOK, GitTypes
<1>r. /\ Own(attempt) # Main /\ Own(attempt) # Sibling /\ Own(attempt) # Stray
      /\ Main # Stray /\ Sibling # Stray
  BY <1>0, RefsDiffer
<1>t. CurrentTree \in Trees /\ <<>> \notin Trees
  BY <1>0, TreesAreTrees
<1> USE DEF HeadInv, OrderInv, Retrying, Begun, Judging, Snapshotted
<1>1. CASE UNCHANGED <<pc, attempt, refs, head, outcome, agentTree, agentHead, before, failure>>
  BY <1>0, <1>1
<1>2. ASSUME NEW kind \in FailureKinds, NEW retryable \in BOOLEAN, FailWith(kind, retryable),
             UNCHANGED <<attempt, refs, head, outcome, agentTree, agentHead, before>>,
             outcome = "none", pc \in {"agent", "pass"}
      PROVE  HeadInv' /\ OrderInv'
  BY <1>0, <1>2, <1>t, Failing
<1>f. ASSUME NEW kind \in FailureKinds, FailWith(kind, FALSE),
             UNCHANGED <<attempt, refs, head, outcome, agentTree, agentHead, before>>, outcome = "none"
      PROVE  HeadInv' /\ OrderInv'
  <2>1. pc' = "fail" /\ failure'.retryable = FALSE
    BY <1>f DEF FailWith
  <2> QED
    BY <1>0, <1>f, <2>1
<1>3. ASSUME NEW r \in {"done", "stopped early", "refused a tool", "out of time"}, AgentEnds(r)
      PROVE  HeadInv' /\ OrderInv'
  <2>1. /\ pc = "agent" /\ outcome = "none"
        /\ UNCHANGED <<attempt, refs, head, outcome, agentTree, agentHead, before>>
    BY <1>0, <1>3 DEF AgentEnds, gitVars, snapVars
  <2>2. \/ pc' = "contain" /\ UNCHANGED failure
        \/ \E kind \in FailureKinds, retryable \in BOOLEAN : FailWith(kind, retryable)
    BY <1>3 DEF AgentEnds, FailureKinds
  <2>3. CASE pc' = "contain" /\ UNCHANGED failure
    BY <1>0, <2>1, <2>3
  <2> HIDE DEF HeadInv, OrderInv
  <2> QED
    BY <1>2, <2>1, <2>2, <2>3
<1>4. ASSUME NEW answered \in BOOLEAN, CheckContainment(answered) PROVE HeadInv' /\ OrderInv'
  <2>1. /\ pc = "contain" /\ outcome = "none"
        /\ UNCHANGED <<attempt, refs, head, outcome, agentTree, agentHead, before>>
    BY <1>0, <1>4 DEF CheckContainment, gitVars, snapVars
  <2>2. CASE Breach
    <3>1. FailWith("CONTAINMENT", FALSE) /\ "CONTAINMENT" \in FailureKinds
      BY <1>4, <2>2 DEF CheckContainment, FailureKinds
    <3> HIDE DEF HeadInv, OrderInv
    <3> QED
      BY <1>f, <2>1, <3>1
  <2>3. CASE ~Breach
    <3>1. pc' = "snapshot" /\ UNCHANGED failure /\ before.head = head
      BY <1>4, <2>3 DEF CheckContainment, Breach
    <3> QED
      BY <1>0, <2>1, <3>1
  <2> QED
    BY <2>2, <2>3
<1>5. CASE PrepareFails \/ InspectionFails \/ CommitFails \/ ContinueFails
  <2>1. UNCHANGED <<attempt, refs, head, outcome, agentTree, agentHead, before>> /\ outcome = "none"
    BY <1>0, <1>5 DEF PrepareFails, InspectionFails, CommitFails, ContinueFails, gitVars, snapVars
  <2>2. \E kind \in FailureKinds : FailWith(kind, FALSE)
    BY <1>5 DEF PrepareFails, InspectionFails, CommitFails, ContinueFails, FailureKinds
  <2> HIDE DEF HeadInv, OrderInv
  <2> QED
    BY <1>f, <2>1, <2>2
<1>6. CASE Verify
  <2>1. /\ pc = "verify" /\ outcome = "none"
        /\ UNCHANGED <<attempt, refs, head, outcome, agentTree, agentHead, before>>
    BY <1>0, <1>6 DEF Verify, gitVars, snapVars
  <2>2. \/ FailWith("VERIFICATION", FALSE) /\ "VERIFICATION" \in FailureKinds
        \/ pc' \in {"checkout", "pass"} /\ UNCHANGED failure
    BY <1>6 DEF Verify, BeginPass, FailureKinds
  <2>3. CASE pc' \in {"checkout", "pass"} /\ UNCHANGED failure
    BY <1>0, <2>1, <2>3
  <2> HIDE DEF HeadInv, OrderInv
  <2> QED
    BY <1>f, <2>1, <2>2, <2>3
<1>7. CASE CleanCheckout
  BY <1>0, <1>7 DEF CleanCheckout, BeginPass, gitVars, snapVars
<1>8. CASE BaseCheck
  BY <1>0, <1>8 DEF BaseCheck, BeginPass, gitVars, snapVars
<1>9. CASE BaseReport
  <2>1. /\ pc = "basepass" /\ outcome = "none"
        /\ UNCHANGED <<attempt, refs, head, outcome, agentTree, agentHead, before>>
    BY <1>0, <1>9 DEF BaseReport, gitVars, snapVars
  <2>2. \/ FailWith("VERIFICATION", FALSE) /\ "VERIFICATION" \in FailureKinds
        \/ pc' = "agent" /\ UNCHANGED failure
    BY <1>9 DEF BaseReport, FailureKinds
  <2>3. CASE pc' = "agent" /\ UNCHANGED failure
    BY <1>0, <2>1, <2>3
  <2> HIDE DEF HeadInv, OrderInv
  <2> QED
    BY <1>f, <2>1, <2>2, <2>3
<1>10. CASE Report
  <2>1. /\ pc = "pass" /\ outcome = "none"
        /\ UNCHANGED <<attempt, refs, head, outcome, agentTree, agentHead, before>>
    BY <1>0, <1>10 DEF Report, gitVars, snapVars
  <2>2. CASE Stopped
    <3>1. PassFailure \in FailureKinds /\ (PassFailure = "VERIFICATION") \in BOOLEAN
      BY <2>2, PassFailureKind DEF FailureKinds, IInv, TypeOK
    <3>2. \E retryable \in BOOLEAN : FailWith(PassFailure, retryable)
      BY <1>10, <2>2, <3>1 DEF Report
    <3> HIDE DEF HeadInv, OrderInv
    <3> QED
      BY <1>2, <2>1, <3>1, <3>2
  <2>3. CASE ~Stopped
    <3>1. pc' = "deliver" /\ UNCHANGED failure
      BY <1>10, <2>3 DEF Report
    <3> QED
      BY <1>0, <2>1, <3>1
  <2> QED
    BY <2>2, <2>3
<1>11. CASE PrepareWorktree
  <2>1. /\ refs' = [refs EXCEPT ![Own(1)] = 1] /\ head' = Own(1) /\ before'.head = Own(1)
        /\ pc' \in {"base", "agent"} /\ pc = "prepare"
        /\ UNCHANGED <<attempt, outcome, agentTree, agentHead, failure>>
    BY <1>11 DEF PrepareWorktree, BaseCommit, snapVars
  <2> QED
    BY <1>0, <2>1
<1>12. CASE ContinueWorktree
  <2>1. /\ refs' = [refs EXCEPT ![Own(attempt)] = refs[head]] /\ head' = Own(attempt)
        /\ before'.head = Own(attempt) /\ pc' = "agent" /\ pc = "continue"
        /\ UNCHANGED <<attempt, outcome, agentTree, agentHead, failure>>
    BY <1>12 DEF ContinueWorktree, HeadCommit, snapVars
  <2> QED
    BY <1>0, <2>1
<1>13. CASE SnapshotAgentTree
  <2>1. /\ agentHead' = refs[head] /\ agentTree' \in Trees /\ pc' = "verify" /\ pc = "snapshot"
        /\ UNCHANGED <<attempt, refs, head, outcome, before, failure>>
    BY <1>13, <1>t DEF SnapshotAgentTree, HeadCommit, gitVars
  <2> QED
    BY <1>0, <2>1
<1>14. ASSUME NEW r \in Refs, NEW c \in 1..(n + 1), refs' = [refs EXCEPT ![r] = c],
              UNCHANGED <<pc, attempt, head, outcome, agentTree, agentHead, before, failure>>
       PROVE  HeadInv' /\ OrderInv'
  BY <1>0, <1>14
<1>15. ASSUME NEW onto \in {HeadCommit, 0}, AgentCommits(onto) PROVE HeadInv' /\ OrderInv'
  <2>1. /\ refs' = [refs EXCEPT ![head] = n + 1]
        /\ UNCHANGED <<pc, attempt, head, outcome, agentTree, agentHead, before, failure>>
    BY <1>15 DEF AgentCommits, AgentEdits, snapVars
  <2> HIDE DEF HeadInv, OrderInv
  <2> QED
    BY <1>0, <1>14, <2>1, n + 1 \in 1..(n + 1)
<1>16. ASSUME NEW r \in {Main, Sibling}, RefMoves(r) PROVE HeadInv' /\ OrderInv'
  <2>1. /\ refs' = [refs EXCEPT ![r] = refs[head]] /\ pc = "agent"
        /\ UNCHANGED <<pc, attempt, head, outcome, agentTree, agentHead, before, failure>>
    BY <1>16 DEF RefMoves, Meddles, snapVars, HeadCommit
  <2>2. refs[head] \in 1..(n + 1)
    BY <1>0, <2>1
  <2> HIDE DEF HeadInv, OrderInv
  <2> QED
    BY <1>0, <1>14, <2>1, <2>2
<1>17. CASE AgentSwitchesBranch
  <2>1. /\ refs' = [refs EXCEPT ![Stray] = refs[head]] /\ pc = "agent" /\ head' = Stray
        /\ UNCHANGED <<pc, attempt, outcome, agentTree, agentHead, before, failure>>
    BY <1>17 DEF AgentSwitchesBranch, Meddles, snapVars, HeadCommit
  <2> QED
    BY <1>0, <1>r, <2>1
<1>18. ASSUME NEW tree \in Trees, BranchMoves(tree) PROVE HeadInv' /\ OrderInv'
  <2>1. /\ refs' = [refs EXCEPT ![Own(attempt)] = n + 1]
        /\ UNCHANGED <<pc, attempt, head, outcome, agentTree, agentHead, before, failure>>
    BY <1>18 DEF BranchMoves, snapVars
  <2> HIDE DEF HeadInv, OrderInv
  <2> QED
    BY <1>0, <1>14, <2>1, n + 1 \in 1..(n + 1)
<1>19. CASE Succeed
  <2>1. PICK m : m = n
    OBVIOUS
  <2>2. /\ head = Own(attempt) /\ head' = head /\ agentHead \in 1..m /\ agentTree \in Trees
        /\ UNCHANGED <<agentTree, agentHead, attempt>> /\ refs[Own(attempt)] # 0
        /\ outcome' = "SUCCEEDED" /\ pc' = "cleanup"
    BY <1>0, <1>19, <2>1, Delivers DEF Succeed
  <2>3. refs' = refs \/ refs' = [refs EXCEPT ![Own(attempt)] = 1]
        \/ refs' = [refs EXCEPT ![Own(attempt)] = m + 1]
    BY <1>19, <2>1, Delivers
  <2>4. refs'[Own(attempt)] # 0
    BY <1>0, <2>1, <2>2, <2>3
  <2> QED
    BY <1>0, <2>2, <2>4
<1>20. CASE ScheduleRetry
  <2>1. PICK m : m = n
    OBVIOUS
  <2>2. /\ head' = head /\ refs[head] \in 1..m /\ agentTree' = <<>> /\ pc' = "continue"
        /\ outcome' = outcome /\ outcome = "none" /\ attempt' = attempt + 1
    BY <1>0, <1>20, <2>1, KeepsPartialWork DEF ScheduleRetry
  <2>3. refs' = refs \/ refs' = [refs EXCEPT ![Own(attempt)] = m + 1]
    BY <1>20, <2>1, KeepsPartialWork
  <2>4. refs'[head] # 0
    BY <1>0, <2>1, <2>2, <2>3
  <2> QED
    BY <1>0, <2>2, <2>4
<1>21. CASE Fail
  <2>1. /\ pc = "fail" /\ pc' = "kept" /\ outcome' \in {"CANCELLED", "FAILED"}
    BY <1>21 DEF Fail
  <2> QED
    BY <1>0, <2>1
<1>22. CASE CleanupAfterSuccess
  BY <1>0, <1>22 DEF CleanupAfterSuccess, gitVars, snapVars
<1>23. CASE Cancel \/ StepBegins \/ SkipStep \/ BudgetExpires
            \/ \E own \in {"PASSED", "FAILED", "TIMED_OUT"} : StepEnds(own)
  BY <1>1, <1>23 DEF Cancel, StepBegins, SkipStep, BudgetExpires, StepEnds, gitVars, snapVars
<1> HIDE DEF HeadInv, OrderInv
<1> QED
  BY <1>1, <1>3, <1>4, <1>5, <1>6, <1>7, <1>8, <1>9, <1>10, <1>11, <1>12, <1>13, <1>15, <1>16, <1>17,
     <1>18, <1>19, <1>20, <1>21, <1>22, <1>23
     DEF Next, Agent, Others, Steps, Attempt, gitVars, snapVars, AgentWrites, AgentEdits,
         AgentTampers, EditorWritesConfig, Meddles, StepWrites

-----------------------------------------------------------------------------
(* The object database. *)

(* Four actions make a commit, and only a retry makes an unverified one.   *)
(* A commit without a parent is an agent's, and remembered as its doing.   *)
LEMMA Commits ==
  ASSUME IInv, Next
  PROVE  /\ attempt' \in {attempt, attempt + 1}
         /\ \/ commits' = commits
            \/ \E tree, parent, kind :
                 /\ Makes(tree, parent, kind)
                 /\ kind = "unverified" => attempt' = attempt + 1
                 /\ parent = 0 => seen'.meddled
<1>0. /\ TypeOK /\ Len(commits) \in Nat /\ refs \in [Refs -> 0..Len(commits)] /\ head \in Refs
      /\ Own(attempt) \in Refs /\ CurrentTree \in Trees /\ seen \in Seen
  BY CommitFacts, OwnIsARef, TreesAreTrees DEF IInv, TypeOK, GitTypes
<1>1. ASSUME NEW onto \in {HeadCommit, 0}, AgentCommits(onto)
      PROVE  /\ attempt' = attempt /\ Makes(CurrentTree, onto, "agent") /\ (onto = 0 => seen'.meddled)
  <2>1. attempt' = attempt /\ Makes(CurrentTree, onto, "agent")
    BY <1>0, <1>1 DEF AgentCommits, AgentEdits, Makes, CommitKinds, HeadCommit
  <2>2. seen'.meddled = (seen.meddled \/ onto = 0)
    BY <1>0, <1>1 DEF AgentCommits, AgentEdits, Seen
  <2> QED
    BY <2>1, <2>2
<1>2. ASSUME NEW tree \in Trees, BranchMoves(tree)
      PROVE  attempt' = attempt /\ Makes(tree, refs[Own(attempt)], "intruder") /\ refs[Own(attempt)] # 0
  BY <1>0, <1>2 DEF BranchMoves, Makes, CommitKinds, IInv, HeadInv, Judging
<1>3. CASE Succeed
  <2>1. PICK m : m = Len(commits)
    OBVIOUS
  <2>2. attempt' = attempt /\ DeliveryParent \in 1..m
    BY <1>3, <2>1, Delivers
  <2>3. commits' = commits \/ Makes(agentTree, DeliveryParent, "delivery")
    BY <1>3, <2>1, Delivers
  <2> QED
    BY <2>2, <2>3
<1>4. CASE ScheduleRetry
  <2>1. PICK m : m = Len(commits)
    OBVIOUS
  <2>2. attempt' = attempt + 1 /\ PartialOnto \in 1..m
    BY <1>4, <2>1, KeepsPartialWork
  <2>3. commits' = commits \/ Makes(PartialTree, PartialOnto, "unverified")
    BY <1>4, <2>1, KeepsPartialWork
  <2> QED
    BY <2>2, <2>3
<1>5. CASE \E onto \in {HeadCommit, 0} : AgentCommits(onto)
  BY <1>1, <1>5
<1>6. CASE \E tree \in Trees : BranchMoves(tree)
  BY <1>2, <1>6
<1>7. CASE UNCHANGED <<commits, attempt>>
  BY <1>7
<1> QED
  BY <1>3, <1>4, <1>5, <1>6, <1>7
     DEF Next, Agent, Others, Steps, Attempt, PrepareWorktree, PrepareFails, AgentEnds, gitVars,
         AgentWrites, AgentEdits, AgentTampers, AgentSwitchesBranch, EditorWritesConfig, RefMoves,
         Meddles, StepWrites, SnapshotAgentTree, ContinueWorktree,
         BudgetExpires, Cancel, StepBegins, StepEnds, SkipStep, BaseCheck, BaseReport, CheckContainment,
         InspectionFails, Verify, CleanCheckout, Report, CommitFails, CleanupAfterSuccess, Fail,
         ContinueFails

(* No step changes or loses a commit. *)
LEMMA CommitsStay ==
  ASSUME IInv, Next, NEW n, n = Len(commits)
  PROVE  /\ n \in Nat /\ DOMAIN commits = 1..n /\ 1..n \subseteq DOMAIN commits'
         /\ \A c \in 1..n : commits'[c] = commits[c] /\ TreeOf(c)' = TreeOf(c)
         /\ \A c \in 0..n : History(c)' = History(c)
<1>1. n \in Nat /\ DOMAIN commits = 1..n /\ TypeOK
  BY CommitFacts DEF IInv
<1>2. CASE commits' = commits
  BY <1>1, <1>2 DEF TreeOf, History
<1>3. ASSUME NEW tree, NEW parent, NEW kind, Makes(tree, parent, kind)
      PROVE  /\ 1..n \subseteq DOMAIN commits'
             /\ \A c \in 1..n : commits'[c] = commits[c] /\ TreeOf(c)' = TreeOf(c)
             /\ \A c \in 0..n : History(c)' = History(c)
  <2>1. /\ DOMAIN commits' = 1..(n + 1)
        /\ \A c \in 1..n : commits'[c] = commits[c]
        /\ \A c \in 0..n : History(c)' = History(c)
        /\ \A c \in 1..n : TreeOf(c)' = TreeOf(c)
    BY <1>1, <1>3, Made
  <2> QED
    BY <1>1, <2>1
<1> QED
  BY <1>1, <1>2, <1>3, Commits

(* Every step keeps what is known of the base and of unverified commits. *)
LEMMA BaseStep ==
  ASSUME IInv, Next
  PROVE  BaseInv'
<1>1. PICK n : n = Len(commits)
  OBVIOUS
<1>2. /\ BaseInv /\ TypeOK /\ n \in Nat /\ n > 0 /\ attempt \in Nat \ {0}
      /\ 1..n \subseteq DOMAIN commits' /\ \A c \in 1..n : commits'[c] = commits[c]
      /\ DOMAIN commits = 1..n
  BY <1>1, CommitsStay, OwnIsARef DEF IInv, BaseInv
<1>3. /\ commits'[BaseCommit].past = {} /\ commits'[BaseCommit].tree = BaseTree
  BY <1>2 DEF BaseInv, BaseCommit
<1>4. CASE commits' = commits
  BY <1>2, <1>4, Commits DEF BaseInv
<1>5. ASSUME NEW tree, NEW parent, NEW kind, Makes(tree, parent, kind),
             kind = "unverified" => attempt' = attempt + 1
      PROVE  BaseInv'
  <2>1. Len(commits') = n + 1 /\ DOMAIN commits' = 1..(n + 1) /\ commits'[n + 1].kind = kind
    <3>1. TypeOK /\ Makes(tree, parent, kind)
      BY <1>2, <1>5
    <3> QED
      BY <1>1, <3>1, Made
  <2>2. ASSUME attempt' = 1, NEW c \in DOMAIN commits' PROVE commits'[c].kind # "unverified"
    <3>1. attempt = 1 /\ kind # "unverified"
      BY <1>2, <1>5, <2>2, Commits
    <3>2. CASE c = n + 1
      BY <2>1, <3>1, <3>2
    <3>3. CASE c \in 1..n
      BY <1>2, <3>1, <3>3 DEF BaseInv
    <3> QED
      BY <1>2, <2>1, <2>2, <3>2, <3>3
  <2> QED
    BY <1>2, <1>3, <2>1, <2>2 DEF BaseInv
<1> QED
  BY <1>4, <1>5, Commits

-----------------------------------------------------------------------------
(* The course of a run, and its branches. *)

Late == {"pass", "deliver", "fail", "cleanup", "removed", "kept"}

(* Where a run can have been one step earlier. *)
LEMMA Course ==
  ASSUME IInv, Next
  PROVE  /\ pc' \in Judging => pc \in Judging \/ SnapshotAgentTree
         /\ pc' \in {"pass", "deliver"} => pc \in Judging
         /\ pc \in Late => pc' \in Late \/ ScheduleRetry
         /\ Retrying' => pc \in {"agent", "pass"} \/ Retrying
         /\ pc' \in Begun => pc \in Begun \/ PrepareWorktree \/ ContinueWorktree
<1>1. /\ pc' \in Judging => pc \in Judging \/ SnapshotAgentTree
      /\ pc' \in {"pass", "deliver"} => pc \in Judging
  BY DEF Judging, FailWith, Next, Agent, Others, Steps, Attempt, PrepareWorktree, PrepareFails,
         AgentWrites, AgentCommits, AgentEdits, AgentTampers, AgentSwitchesBranch,
         EditorWritesConfig, RefMoves, Meddles, AgentEnds, BranchMoves, BudgetExpires, Cancel,
         StepBegins, StepEnds, StepWrites, SkipStep, BaseCheck, BaseReport,
         BeginPass, CheckContainment, InspectionFails, SnapshotAgentTree, Verify, CleanCheckout,
         Report, Succeed, CommitFails, CleanupAfterSuccess, ScheduleRetry, Fail,
         ContinueWorktree, ContinueFails
<1>2. pc \in Late => pc' \in Late \/ ScheduleRetry
  BY DEF Late, FailWith, Next, Agent, Others, Steps, Attempt, PrepareWorktree, PrepareFails,
         AgentWrites, AgentCommits, AgentEdits, AgentTampers, AgentSwitchesBranch,
         EditorWritesConfig, RefMoves, Meddles, AgentEnds, BranchMoves, BudgetExpires, Cancel,
         StepBegins, StepEnds, StepWrites, SkipStep, BaseCheck, BaseReport,
         BeginPass, CheckContainment, InspectionFails, SnapshotAgentTree, Verify, CleanCheckout,
         Report, Succeed, CommitFails, CleanupAfterSuccess, ScheduleRetry, Fail,
         ContinueWorktree, ContinueFails
<1>3. pc' \in Begun => pc \in Begun \/ PrepareWorktree \/ ContinueWorktree
  BY DEF Begun, FailWith, Next, Agent, Others, Steps, Attempt, PrepareWorktree, PrepareFails,
         AgentWrites, AgentCommits, AgentEdits, AgentTampers, AgentSwitchesBranch,
         EditorWritesConfig, RefMoves, Meddles, AgentEnds, BranchMoves, BudgetExpires, Cancel,
         StepBegins, StepEnds, StepWrites, SkipStep, BaseCheck, BaseReport,
         BeginPass, CheckContainment, InspectionFails, SnapshotAgentTree, Verify, CleanCheckout,
         Report, Succeed, CommitFails, CleanupAfterSuccess, ScheduleRetry, Fail,
         ContinueWorktree, ContinueFails
<1>4. Retrying' => pc \in {"agent", "pass"} \/ Retrying
  <2>1. \/ UNCHANGED <<pc, failure>>
        \/ pc' # "fail"
        \/ pc \in {"agent", "pass"}
        \/ \E kind \in FailureKinds : FailWith(kind, FALSE)
    BY DEF FailureKinds, Next, Agent, Others, Steps, Attempt, PrepareWorktree, PrepareFails,
         AgentWrites, AgentCommits, AgentEdits, AgentTampers, AgentSwitchesBranch,
         EditorWritesConfig, RefMoves, Meddles, AgentEnds, BranchMoves, BudgetExpires, Cancel,
         StepBegins, StepEnds, StepWrites, SkipStep, BaseCheck, BaseReport,
         BeginPass, CheckContainment, InspectionFails, SnapshotAgentTree, Verify, CleanCheckout,
         Report, Succeed, CommitFails, CleanupAfterSuccess, ScheduleRetry, Fail,
         ContinueWorktree, ContinueFails
  <2>2. ASSUME NEW kind, FailWith(kind, FALSE) PROVE ~Retrying'
    <3>1. failure'.retryable = FALSE
      BY <2>2 DEF FailWith
    <3> QED
      BY <3>1 DEF Retrying
  <2>3. CASE UNCHANGED <<pc, failure>>
    BY <2>3 DEF Retrying
  <2>4. pc' # "fail" => ~Retrying'
    BY DEF Retrying
  <2> QED
    BY <2>1, <2>2, <2>3, <2>4
<1> QED
  BY <1>1, <1>2, <1>3, <1>4

(* The branches of earlier attempts stay where they are. *)
LEMMA OldBranchesStay ==
  ASSUME IInv, Next, NEW m \in 1..(attempt - 1)
  PROVE  refs'[Own(m)] = refs[Own(m)]
<1>0. /\ TypeOK /\ attempt \in Nat \ {0} /\ m \in Nat /\ m # attempt /\ Own(m) \in Refs /\ attempt # 1
  BY OwnIsARef DEF IInv
<1>1. /\ Own(m) # Own(attempt) /\ Own(m) # Main /\ Own(m) # Sibling /\ Own(m) # Stray
      /\ refs \in [Refs -> 0..Len(commits)]
  BY <1>0, RefsDiffer DEF TypeOK, GitTypes
<1>2. ASSUME NEW r, r # Own(m), NEW c, refs' = [refs EXCEPT ![r] = c] PROVE refs'[Own(m)] = refs[Own(m)]
  BY <1>0, <1>1, <1>2
<1>3. CASE PrepareWorktree
  BY <1>0, <1>3 DEF PrepareWorktree, IInv, HeadInv
<1>4. ASSUME NEW onto, AgentCommits(onto) PROVE refs'[Own(m)] = refs[Own(m)]
  <2>1. head \in {Own(attempt), Stray} /\ refs' = [refs EXCEPT ![head] = Len(commits) + 1]
    BY <1>4 DEF AgentCommits, AgentEdits, IInv, HeadInv
  <2> QED
    BY <1>1, <1>2, <2>1
<1>5. CASE AgentSwitchesBranch
  BY <1>1, <1>2, <1>5 DEF AgentSwitchesBranch
<1>6. ASSUME NEW r \in {Main, Sibling}, RefMoves(r) PROVE refs'[Own(m)] = refs[Own(m)]
  BY <1>1, <1>2, <1>6 DEF RefMoves
<1>7. ASSUME NEW tree \in Trees, BranchMoves(tree) PROVE refs'[Own(m)] = refs[Own(m)]
  BY <1>1, <1>2, <1>7 DEF BranchMoves
<1>8. CASE Succeed
  <2>1. PICK k : k = Len(commits)
    OBVIOUS
  <2>2. refs' = refs \/ \E c : refs' = [refs EXCEPT ![Own(attempt)] = c]
    BY <1>8, <2>1, Delivers
  <2> QED
    BY <1>1, <1>2, <2>2
<1>9. CASE ScheduleRetry
  <2>1. PICK k : k = Len(commits)
    OBVIOUS
  <2>2. refs' = refs \/ \E c : refs' = [refs EXCEPT ![Own(attempt)] = c]
    BY <1>9, <2>1, KeepsPartialWork
  <2> QED
    BY <1>1, <1>2, <2>2
<1>10. CASE ContinueWorktree
  BY <1>1, <1>2, <1>10 DEF ContinueWorktree
<1>11. CASE UNCHANGED refs
  BY <1>11
<1> QED
  BY <1>3, <1>4, <1>5, <1>6, <1>7, <1>8, <1>9, <1>10, <1>11
     DEF Next, Agent, Others, Steps, Attempt, PrepareFails, AgentEnds, gitVars,
         AgentWrites, AgentTampers, EditorWritesConfig, StepWrites, SnapshotAgentTree,
         BudgetExpires, Cancel, StepBegins, StepEnds, SkipStep, BaseCheck, BaseReport, CheckContainment,
         InspectionFails, Verify, CleanCheckout, Report, CommitFails, CleanupAfterSuccess, Fail,
         ContinueFails

(* Only BranchMoves is remembered as somebody else's move. *)
LEMMA MovedByOthers ==
  ASSUME IInv, Next
  PROVE  \/ \E tree \in Trees : BranchMoves(tree)
         \/ seen'.moved = seen.moved
<1>1. seen \in Seen
  BY DEF IInv, TypeOK
<1>4. ASSUME NEW p, NEW c, AgentWrites(p, c) PROVE seen'.moved = seen.moved
  BY <1>1, <1>4 DEF AgentWrites, AgentEdits, Seen
<1>5. ASSUME NEW onto, AgentCommits(onto) PROVE seen'.moved = seen.moved
  BY <1>1, <1>5 DEF AgentCommits, AgentEdits, Seen
<1>6. ASSUME NEW agent, Meddles(agent) PROVE seen'.moved = seen.moved
  BY <1>1, <1>6 DEF Meddles, Seen
<1>7. CASE Verify
  BY <1>1, <1>7 DEF Verify, Seen
<1>8. CASE CleanCheckout \/ BaseReport
  BY <1>1, <1>8 DEF CleanCheckout, BaseReport, Seen
<1>9. CASE ScheduleRetry
  BY <1>1, <1>9 DEF ScheduleRetry, CommitPartialWork, Seen
<1>10. ASSUME NEW p, NEW c, StepWrites(p, c) PROVE seen'.moved = seen.moved
  BY <1>1, <1>10 DEF StepWrites, Seen
<1>11. CASE UNCHANGED seen
  BY <1>11
<1> QED
  BY <1>4, <1>5, <1>6, <1>7, <1>8, <1>9, <1>10, <1>11
     DEF Next, Agent, Others, Steps, Attempt, PrepareWorktree, PrepareFails,
         AgentTampers, AgentSwitchesBranch, EditorWritesConfig, RefMoves, AgentEnds,
         BudgetExpires, Cancel, StepBegins, StepEnds, SkipStep, BaseCheck, CheckContainment,
         InspectionFails, SnapshotAgentTree, Report, Succeed, CommitFails, CleanupAfterSuccess, Fail,
         ContinueWorktree, ContinueFails

(* Once the agent is done, three actions change the branch. *)
LEMMA JudgingIsQuiet ==
  ASSUME IInv, Next, pc \in Judging \/ pc \in Late
  PROVE  \/ \E tree \in Trees : BranchMoves(tree)
         \/ Succeed
         \/ ScheduleRetry
         \/ UNCHANGED <<refs, commits, agentHead, agentTree, attempt, head>>
  BY DEF Judging, Late, gitVars, snapVars, Next, Agent, Others, Steps, Attempt, PrepareWorktree, PrepareFails,
         AgentWrites, AgentCommits, AgentEdits, AgentTampers, AgentSwitchesBranch,
         EditorWritesConfig, RefMoves, Meddles, AgentEnds, BudgetExpires, Cancel,
         StepBegins, StepEnds, StepWrites, SkipStep, BaseCheck, BaseReport,
         CheckContainment, InspectionFails, SnapshotAgentTree, Verify, CleanCheckout,
         Report, CommitFails, CleanupAfterSuccess, Fail, ContinueWorktree, ContinueFails

(* What BranchMoves does to the branch. *)
LEMMA Intrudes ==
  ASSUME IInv, NEW tree \in Trees, BranchMoves(tree), NEW n, n = Len(commits)
  PROVE  /\ pc \in {"pass", "deliver"} /\ n \in Nat /\ refs[Own(attempt)] \in 1..n
         /\ Makes(tree, refs[Own(attempt)], "intruder")
         /\ refs' = [refs EXCEPT ![Own(attempt)] = n + 1] /\ refs'[Own(attempt)] = n + 1
         /\ seen'.moved = attempt
         /\ UNCHANGED <<pc, attempt, agentHead, agentTree, failure, outcome, disk, head, mode, reports>>
         /\ seen'.judged = seen.judged /\ seen'.left = seen.left
         /\ seen'.wrote = seen.wrote /\ seen'.meddled = seen.meddled
<1>1. /\ TypeOK /\ pc \in {"pass", "deliver"} /\ n \in Nat /\ Own(attempt) \in Refs
      /\ refs \in [Refs -> 0..n] /\ refs[Own(attempt)] # 0 /\ seen \in Seen
  BY CommitFacts, OwnIsARef DEF IInv, TypeOK, GitTypes, HeadInv, Judging, BranchMoves
<1>2. seen' = [seen EXCEPT !.meddling = @ + 1, !.moved = attempt]
  BY DEF BranchMoves
<1>3. /\ seen'.moved = attempt /\ seen'.judged = seen.judged /\ seen'.left = seen.left
      /\ seen'.wrote = seen.wrote /\ seen'.meddled = seen.meddled
  BY <1>1, <1>2 DEF Seen
<1>4. Makes(tree, refs[Own(attempt)], "intruder")
  BY <1>1 DEF BranchMoves, Makes, CommitKinds
<1>5. refs' = [refs EXCEPT ![Own(attempt)] = n + 1] /\ refs'[Own(attempt)] = n + 1
  BY <1>1 DEF BranchMoves
<1>6. UNCHANGED <<pc, attempt, agentHead, agentTree, failure, outcome, disk, head, mode, reports>>
  BY DEF BranchMoves, snapVars, task
<1> QED
  BY <1>1, <1>3, <1>4, <1>5, <1>6

(* Every step keeps what is known of the attempt's branch. *)
LEMMA BranchStep ==
  ASSUME IInv, Next
  PROVE  BranchInv'
<1>n. PICK n : n = Len(commits)
  OBVIOUS
<1>0. /\ TypeOK /\ BranchInv /\ HeadInv /\ OrderInv /\ attempt \in Nat \ {0}
      /\ n \in Nat /\ DOMAIN commits = 1..n /\ refs \in [Refs -> 0..n] /\ Own(attempt) \in Refs
      /\ agentHead \in 0..n /\ <<>> \notin Trees /\ head \in Refs
  BY <1>n, CommitFacts, OwnIsARef, TreesAreTrees DEF IInv, TypeOK, GitTypes
<1>1. /\ \A c \in 1..n : commits'[c] = commits[c]
      /\ \A c \in 0..n : History(c)' = History(c)
      /\ \A c \in 0..n : History(c) \subseteq 1..n
  <2>1. /\ \A c \in 1..n : commits'[c] = commits[c]
        /\ \A c \in 0..n : History(c)' = History(c)
    BY <1>n, CommitsStay
  <2>2. /\ \A c \in 1..n : History(c) \subseteq 1..c
        /\ History(0) = {}
    BY <1>0, <1>n, CommitFacts
  <2>3. \A c \in 1..n : 1..c \subseteq 1..n
    BY <1>0
  <2>4. \A c \in 0..n : c = 0 \/ c \in 1..n
    BY <1>0
  <2>5. \A c \in 0..n : History(c) \subseteq 1..n
    BY <2>2, <2>3, <2>4
  <2> QED
    BY <2>1, <2>5
<1>2. ASSUME NEW m \in 1..attempt, seen.moved = m, seen'.moved = m, refs'[Own(m)] = refs[Own(m)]
      PROVE  \E c \in History(refs[Own(seen.moved)])' : commits'[c].kind = "intruder"
  <2>1. PICK c \in History(refs[Own(m)]) : commits[c].kind = "intruder"
    BY <1>0, <1>2 DEF BranchInv
  <2>2. PICK b \in 0..n : b = refs[Own(m)]
    BY <1>0, <1>2, OwnIsARef
  <2>3. History(refs[Own(seen.moved)])' = History(b)'
    BY <1>2, <2>2
  <2>4. c \in History(b)' /\ commits'[c] = commits[c]
    BY <1>1, <2>1, <2>2
  <2> QED
    BY <2>1, <2>3, <2>4
<1>3. ASSUME seen'.moved = seen.moved, seen.moved < attempt, attempt' \in {attempt, attempt + 1}
      PROVE  /\ seen'.moved \in 0..attempt' /\ seen'.moved # attempt'
             /\ seen'.moved # 0 => \E c \in History(refs[Own(seen.moved)])' : commits'[c].kind = "intruder"
  <2>1. seen.moved \in 0..attempt
    BY <1>0 DEF BranchInv
  <2>2. seen.moved # 0 => refs'[Own(seen.moved)] = refs[Own(seen.moved)]
    <3>1. \A m \in 1..(attempt - 1) : refs'[Own(m)] = refs[Own(m)]
      BY OldBranchesStay
    <3> QED
      BY <1>0, <1>3, <2>1, <3>1
  <2>3. PICK m : m = seen.moved
    OBVIOUS
  <2>4. m # 0 => m \in 1..attempt
    BY <1>0, <2>1, <2>3
  <2>5. m # 0 => \E c \in History(refs[Own(seen.moved)])' : commits'[c].kind = "intruder"
    BY <1>2, <1>3, <2>2, <2>3, <2>4
  <2> QED
    BY <1>0, <1>3, <2>1, <2>3, <2>5
<1>4. ASSUME NEW tree \in Trees, BranchMoves(tree) PROVE BranchInv'
  <2>1. /\ pc \in {"pass", "deliver"} /\ refs[Own(attempt)] \in 1..n
        /\ Makes(tree, refs[Own(attempt)], "intruder") /\ refs'[Own(attempt)] = n + 1
        /\ seen'.moved = attempt /\ UNCHANGED <<pc, attempt, agentHead>>
    BY <1>n, <1>4, Intrudes
  <2>2. PICK b \in 1..n : b = refs[Own(attempt)]
    BY <2>1
  <2>3. /\ History(n + 1)' = {n + 1} \cup History(b) /\ commits'[n + 1].kind = "intruder"
    <3>1. Makes(tree, b, "intruder")
      BY <2>1, <2>2
    <3> QED
      BY <1>0, <1>n, <3>1, Made, ZenonT(30)
  <2>4. /\ agentHead \in History(b)
        /\ \A c \in History(b) : c \in History(agentHead) \/ commits[c].kind = "intruder"
    BY <1>0, <2>1, <2>2 DEF BranchInv, Stacked, Judging
  <2>5. History(refs[Own(attempt)])' = History(n + 1)' /\ History(agentHead)' = History(agentHead)
    <3>1. PICK a \in 0..n : a = agentHead
      BY <1>0
    <3>2. History(agentHead)' = History(a)'
      BY <2>1, <3>1
    <3>3. History(refs[Own(attempt)])' = History(n + 1)'
      BY <2>1
    <3> QED
      BY <1>1, <3>1, <3>2, <3>3
  <2>6. Stacked'
    <3>1. agentHead' \in History(refs[Own(attempt)])'
      BY <2>1, <2>3, <2>4, <2>5
    <3>2. ASSUME NEW c \in History(refs[Own(attempt)])'
          PROVE  c \in History(agentHead)' \/ commits'[c].kind = "intruder"
      <4>1. c = n + 1 \/ c \in History(b)
        BY <2>3, <2>5, <3>2
      <4>2. CASE c \in History(b)
        BY <1>1, <2>4, <2>5, <4>2
      <4> QED
        BY <2>3, <4>1, <4>2
    <3>3. seen'.moved = attempt' /\ agentHead' < refs'[Own(attempt')]
      BY <1>0, <2>1
    <3> QED
      BY <3>1, <3>2, <3>3 DEF Stacked
  <2>7. \E c \in History(refs[Own(seen.moved)])' : commits'[c].kind = "intruder"
    <3>1. History(refs[Own(seen.moved)])' = History(n + 1)'
      BY <2>1
    <3> QED
      BY <2>3, <3>1
  <2>8. ~Retrying'
    BY <2>1 DEF Retrying
  <2> QED
    BY <1>0, <2>1, <2>6, <2>7, <2>8 DEF BranchInv
<1>5. CASE SnapshotAgentTree
  <2>1. /\ pc = "snapshot" /\ pc' = "verify" /\ agentHead' = refs[head]
        /\ UNCHANGED <<attempt, refs, head, commits, seen, failure>>
    BY <1>5 DEF SnapshotAgentTree, gitVars, HeadCommit
  <2>2. /\ head = Own(attempt) /\ refs[head] # 0 /\ seen.moved # attempt
    BY <1>0, <2>1 DEF HeadInv, BranchInv
  <2>3. PICK b \in 1..n : b = refs[Own(attempt)]
    BY <1>0, <2>2
  <2>4. b \in History(b)
    BY DEF History
  <2>5. /\ History(refs[Own(attempt)])' = History(b)' /\ History(agentHead)' = History(b)'
        /\ agentHead' = b /\ refs'[Own(attempt')] = b
    BY <2>1, <2>2, <2>3
  <2>6. Stacked'
    BY <1>1, <2>1, <2>2, <2>3, <2>4, <2>5 DEF Stacked
  <2>7. ~Retrying'
    BY <2>1 DEF Retrying
  <2>8. seen.moved \in 0..attempt /\ seen.moved < attempt
    BY <1>0, <2>2 DEF BranchInv
  <2> QED
    BY <1>0, <1>3, <2>1, <2>6, <2>7, <2>8 DEF BranchInv
<1>6. CASE ScheduleRetry
  <2>1. /\ attempt' = attempt + 1 /\ pc' = "continue" /\ Retrying
        /\ (Snapshotted => PartialOnto = agentHead)
    BY <1>n, <1>6, KeepsPartialWork DEF PartialOnto
  <2>2. refs' = refs \/ refs[Own(attempt)] = PartialOnto
    BY <1>n, <1>6, KeepsPartialWork
  <2>3. seen'.moved = seen.moved
    BY <1>6, <1>0 DEF ScheduleRetry, CommitPartialWork, Seen, TypeOK
  <2>4. seen.moved = attempt => refs' = refs
    BY <1>0, <2>1, <2>2 DEF BranchInv, Stacked
  <2>5. seen'.moved \in 0..attempt' /\ seen'.moved # attempt'
    BY <1>0, <2>1, <2>3 DEF BranchInv
  <2>6. seen'.moved # 0 => \E c \in History(refs[Own(seen.moved)])' : commits'[c].kind = "intruder"
    <3>1. CASE seen.moved = attempt
      BY <1>0, <1>2, <2>3, <2>4, <3>1
    <3>2. CASE seen.moved # attempt
      <4>1. seen.moved < attempt
        BY <1>0, <3>2 DEF BranchInv
      <4> QED
        BY <1>3, <2>1, <2>3, <4>1
    <3> QED
      BY <3>1, <3>2
  <2>7. ~Retrying' /\ pc' \notin Judging
    BY <2>1 DEF Retrying, Judging
  <2> QED
    BY <2>5, <2>6, <2>7 DEF BranchInv
<1>7. CASE Succeed
  <2>1. /\ pc = "deliver" /\ attempt' = attempt /\ seen' = seen
        /\ (refs' = refs \/ refs[Own(attempt)] = agentHead)
    BY <1>n, <1>7, Delivers
  <2>2. pc' = "cleanup"
    BY <1>7 DEF Succeed
  <2>3. seen.moved = attempt => refs' = refs
    BY <1>0, <2>1 DEF BranchInv, Stacked, Judging
  <2>4. seen'.moved # 0 => \E c \in History(refs[Own(seen.moved)])' : commits'[c].kind = "intruder"
    <3>1. CASE seen.moved = attempt
      BY <1>0, <1>2, <2>1, <2>3, <3>1
    <3>2. CASE seen.moved # attempt
      <4>1. seen.moved < attempt
        BY <1>0, <3>2 DEF BranchInv
      <4> QED
        BY <1>3, <2>1, <4>1
    <3> QED
      BY <3>1, <3>2
  <2>5. ~Retrying' /\ pc' \notin Judging
    BY <2>2 DEF Retrying, Judging
  <2> QED
    BY <1>0, <2>1, <2>2, <2>4, <2>5 DEF BranchInv
<1>8. CASE /\ pc \in Judging \/ pc \in Late
           /\ UNCHANGED <<refs, commits, agentHead, agentTree, attempt, head>>
           /\ seen'.moved = seen.moved
           /\ ~ScheduleRetry
  <2>1. /\ Stacked' <=> Stacked
        /\ Snapshotted' <=> Snapshotted
    BY <1>8 DEF Stacked, Snapshotted, History
  <2>2. pc \in Late => pc' \in Late
    BY <1>8, Course
  <2>3. /\ pc' \in Judging => pc \in Judging
        /\ Retrying' => pc = "pass" \/ Retrying
    BY <1>8, Course DEF Judging, Late, SnapshotAgentTree
  <2>4. pc' \in Judging \/ (Retrying' /\ Snapshotted') => Stacked'
    BY <1>0, <2>1, <2>3 DEF BranchInv, Judging
  <2>5. seen.moved = attempt => pc' \in Late
    BY <1>0, <2>2 DEF BranchInv, Late
  <2>6. Retrying' /\ seen.moved = attempt => Snapshotted'
    BY <1>0, <2>1, <2>3 DEF BranchInv, OrderInv, Judging, Snapshotted
  <2>7. seen.moved # 0 => \E c \in History(refs[Own(seen.moved)])' : commits'[c].kind = "intruder"
    <3>1. PICK m : m = seen.moved
      OBVIOUS
    <3>2. m # 0 => m \in 1..attempt
      BY <1>0, <3>1 DEF BranchInv
    <3> QED
      BY <1>2, <1>8, <3>1, <3>2
  <2> QED
    BY <1>0, <1>8, <2>4, <2>5, <2>6, <2>7 DEF BranchInv, Late
<1>9. CASE /\ pc \notin Judging /\ pc \notin Late
           /\ seen'.moved = seen.moved
           /\ ~SnapshotAgentTree
  <2>1. pc' \notin Judging /\ (Retrying' => pc = "agent")
    BY <1>9, Course DEF Retrying, Late
  <2>2. seen.moved \in 0..attempt /\ seen.moved < attempt
    BY <1>0, <1>9 DEF BranchInv, Late
  <2>3. ~(Retrying' /\ Snapshotted')
    <3>1. pc = "agent" /\ pc' = "fail" => agentTree' = agentTree
      BY <2>1 DEF BranchMoves, Succeed, ScheduleRetry, snapVars, Next, Agent, Others, Steps, Attempt, PrepareWorktree, PrepareFails,
         AgentWrites, AgentCommits, AgentEdits, AgentTampers, AgentSwitchesBranch,
         EditorWritesConfig, RefMoves, Meddles, AgentEnds, BudgetExpires, Cancel,
         StepBegins, StepEnds, StepWrites, SkipStep, BaseCheck, BaseReport,
         CheckContainment, InspectionFails, SnapshotAgentTree, Verify, CleanCheckout,
         Report, CommitFails, CleanupAfterSuccess, Fail, ContinueWorktree, ContinueFails
    <3> QED
      BY <1>0, <2>1, <3>1 DEF Retrying, Snapshotted, OrderInv, Begun
  <2> QED
    BY <1>3, <1>9, <2>1, <2>2, <2>3, Commits DEF BranchInv
<1> QED
  BY <1>4, <1>5, <1>6, <1>7, <1>8, <1>9, JudgingIsQuiet, MovedByOthers

-----------------------------------------------------------------------------
(* What the attempts left. *)

(* Only a retry adds to what the attempts left. *)
LEMMA LeftByRetries ==
  ASSUME IInv, Next
  PROVE  ScheduleRetry \/ (seen'.left = seen.left /\ attempt' = attempt)
<1>1. seen \in Seen
  BY DEF IInv, TypeOK
<1>2. ASSUME NEW p, NEW c, AgentWrites(p, c) PROVE seen'.left = seen.left /\ attempt' = attempt
  BY <1>1, <1>2 DEF AgentWrites, AgentEdits, Seen
<1>3. ASSUME NEW onto, AgentCommits(onto) PROVE seen'.left = seen.left /\ attempt' = attempt
  BY <1>1, <1>3 DEF AgentCommits, AgentEdits, Seen
<1>4. ASSUME NEW agent, Meddles(agent) PROVE seen'.left = seen.left /\ attempt' = attempt
  BY <1>1, <1>4 DEF Meddles, Seen
<1>5. ASSUME NEW tree, BranchMoves(tree) PROVE seen'.left = seen.left /\ attempt' = attempt
  BY <1>1, <1>5 DEF BranchMoves, Seen
<1>6. CASE Verify
  BY <1>1, <1>6 DEF Verify, Seen
<1>7. CASE CleanCheckout \/ BaseReport
  BY <1>1, <1>7 DEF CleanCheckout, BaseReport, Seen
<1>8. ASSUME NEW p, NEW c, StepWrites(p, c) PROVE seen'.left = seen.left /\ attempt' = attempt
  BY <1>1, <1>8 DEF StepWrites, Seen
<1>9. CASE UNCHANGED <<seen, attempt>>
  BY <1>9
<1> QED
  BY <1>2, <1>3, <1>4, <1>5, <1>6, <1>7, <1>8, <1>9
     DEF Next, Agent, Others, Steps, Attempt, PrepareWorktree, PrepareFails,
         AgentTampers, AgentSwitchesBranch, EditorWritesConfig, RefMoves, AgentEnds,
         BudgetExpires, Cancel, StepBegins, StepEnds, SkipStep, BaseCheck, CheckContainment,
         InspectionFails, SnapshotAgentTree, Report, Succeed, CommitFails, CleanupAfterSuccess, Fail,
         ContinueWorktree, ContinueFails

(* The branch an agent made stays once no agent is on it. *)
LEMMA StrayStays ==
  ASSUME IInv, Next, head = Stray => pc \notin Begun, refs[Stray] # 0
  PROVE  refs'[Stray] = refs[Stray] /\ (head' = Stray => pc' \notin Begun)
<1>0. /\ TypeOK /\ attempt \in Nat /\ Own(attempt) # Stray /\ Own(1) # Stray
      /\ Main # Stray /\ Sibling # Stray
      /\ refs \in [Refs -> 0..Len(commits)] /\ Stray \in Refs
  BY OwnIsARef, RefsDiffer DEF IInv, TypeOK, GitTypes
<1>1. ASSUME NEW r, r # Stray, NEW c, refs' = [refs EXCEPT ![r] = c] PROVE refs'[Stray] = refs[Stray]
  BY <1>0, <1>1
<1>2. CASE PrepareWorktree \/ ContinueWorktree
  <2>1. head' \in {Own(1), Own(attempt)}
    BY <1>2 DEF PrepareWorktree, ContinueWorktree
  <2>2. \E r \in {Own(1), Own(attempt)} : \E c : refs' = [refs EXCEPT ![r] = c]
    BY <1>2 DEF PrepareWorktree, ContinueWorktree
  <2> QED
    BY <1>0, <1>1, <2>1, <2>2
<1>3. ASSUME NEW onto, AgentCommits(onto)
      PROVE  refs'[Stray] = refs[Stray] /\ head' = head /\ pc' = pc
  <2>1. pc = "agent" /\ head' = head /\ pc' = pc /\ refs' = [refs EXCEPT ![head] = Len(commits) + 1]
    BY <1>3 DEF AgentCommits, AgentEdits
  <2> QED
    BY <1>1, <2>1 DEF Begun
<1>4. AgentSwitchesBranch => FALSE
  BY DEF AgentSwitchesBranch
<1>5. ASSUME NEW r \in {Main, Sibling}, RefMoves(r)
      PROVE  refs'[Stray] = refs[Stray] /\ head' = head /\ pc' = pc
  BY <1>0, <1>1, <1>5 DEF RefMoves, Meddles
<1>6. ASSUME NEW tree, BranchMoves(tree)
      PROVE  refs'[Stray] = refs[Stray] /\ head' = head /\ pc' = pc
  BY <1>0, <1>1, <1>6 DEF BranchMoves
<1>7. CASE Succeed
  <2>1. PICK k : k = Len(commits)
    OBVIOUS
  <2>2. refs' = refs \/ \E c : refs' = [refs EXCEPT ![Own(attempt)] = c]
    BY <1>7, <2>1, Delivers
  <2> QED
    BY <1>0, <1>1, <1>7, <2>2 DEF Succeed, Begun
<1>8. CASE ScheduleRetry
  <2>1. PICK k : k = Len(commits)
    OBVIOUS
  <2>2. refs' = refs \/ \E c : refs' = [refs EXCEPT ![Own(attempt)] = c]
    BY <1>8, <2>1, KeepsPartialWork
  <2> QED
    BY <1>0, <1>1, <1>8, <2>2 DEF ScheduleRetry, Begun
<1>9. CASE UNCHANGED <<refs, head>> /\ ~PrepareWorktree /\ ~ContinueWorktree
  BY <1>9, Course
<1> QED
  BY <1>2, <1>3, <1>4, <1>5, <1>6, <1>7, <1>8, <1>9
     DEF Next, Agent, Others, Steps, Attempt, PrepareFails, AgentEnds, gitVars,
         AgentWrites, AgentTampers, EditorWritesConfig, StepWrites, SnapshotAgentTree,
         BudgetExpires, Cancel, StepBegins, StepEnds, SkipStep, BaseCheck, BaseReport, CheckContainment,
         InspectionFails, Verify, CleanCheckout, Report, CommitFails, CleanupAfterSuccess, Fail,
         ContinueFails

(* A branch that stays keeps what was left on it. *)
LEMMA LeftStays ==
  ASSUME IInv, Next, NEW r \in Refs, NEW m, LeftOn(r, m), refs'[r] = refs[r], seen'.left[m] = seen.left[m]
  PROVE  LeftOn(r, m)'
<1>1. PICK n : n = Len(commits)
  OBVIOUS
<1>2. /\ n \in Nat /\ refs[r] \in 0..n
      /\ \A c \in 0..n : History(c)' = History(c) /\ History(c) \subseteq 1..n
      /\ \A c \in 1..n : TreeOf(c)' = TreeOf(c)
  BY <1>1, CommitsStay, CommitFacts, SMTT(30) DEF IInv, TypeOK, GitTypes
<1>3. PICK b \in 0..n : b = refs[r]
  BY <1>2
<1>4. PICK c \in History(b) : TreeOf(c) = seen.left[m]
  BY <1>3 DEF LeftOn
<1>5. c \in History(b)' /\ TreeOf(c)' = seen'.left[m]
  BY <1>2, <1>4
<1>6. History(refs[r])' = History(b)'
  BY <1>3
<1> QED
  BY <1>5, <1>6 DEF LeftOn

(* Every step keeps what the attempts left. *)
LEMMA LeftStep ==
  ASSUME IInv, Next
  PROVE  LeftInv'
<1>n. PICK n : n = Len(commits)
  OBVIOUS
<1>0. /\ TypeOK /\ LeftInv /\ attempt \in Nat \ {0} /\ attempt <= MaxRetries + 1 /\ MaxRetries \in Nat
      /\ n \in Nat /\ refs \in [Refs -> 0..n] /\ Own(attempt) \in Refs /\ Stray \in Refs
      /\ seen \in Seen /\ seen.left \in Seq(Trees)
      /\ \A m \in 1..(MaxRetries + 1) : Own(m) \in Refs
  BY <1>n, CommitFacts, OwnIsARef, RefsDiffer DEF IInv, TypeOK, GitTypes, Seen
<1>1. Len(seen.left) = attempt - 1 /\ DOMAIN seen.left = 1..(attempt - 1)
  BY <1>0, Places DEF LeftInv
<1>2. ASSUME NEW m \in 1..(attempt - 1), seen'.left[m] = seen.left[m]
      PROVE  LeftOn(Own(m), m)' \/ (LeftOn(Stray, m)' /\ (head' = Stray => pc' \notin Begun))
  <2>1. CASE LeftOn(Own(m), m)
    <3>1. refs'[Own(m)] = refs[Own(m)] /\ Own(m) \in Refs
      BY <1>0, OldBranchesStay
    <3> QED
      BY <1>2, <2>1, <3>1, LeftStays
  <2>2. CASE LeftOn(Stray, m) /\ (head = Stray => pc \notin Begun)
    <3>1. refs[Stray] # 0
      BY <2>2 DEF LeftOn, History
    <3>2. refs'[Stray] = refs[Stray] /\ (head' = Stray => pc' \notin Begun)
      BY <2>2, <3>1, StrayStays
    <3> QED
      BY <1>0, <1>2, <2>2, <3>2, LeftStays
  <2> QED
    BY <1>0, <1>1, <2>1, <2>2 DEF LeftInv
<1>3. CASE seen'.left = seen.left /\ attempt' = attempt
  BY <1>1, <1>2, <1>3 DEF LeftInv
<1>4. CASE ScheduleRetry
  <2>1. /\ attempt' = attempt + 1 /\ head' = head /\ pc' = "continue"
        /\ head \in {Own(attempt), Stray} /\ (Snapshotted => head = Own(attempt)) /\ Retrying
        /\ PartialTree \in Trees /\ PartialOnto \in 1..n /\ refs[head] \in 1..n
        /\ seen' = [seen EXCEPT !.left = Append(@, PartialTree)]
    BY <1>n, <1>4, KeepsPartialWork
  <2>2. seen'.left = Append(seen.left, PartialTree)
    BY <1>0, <2>1 DEF Seen
  <2>3. /\ Len(seen'.left) = attempt /\ DOMAIN seen'.left = 1..attempt
        /\ \A m \in 1..(attempt - 1) : seen'.left[m] = seen.left[m]
        /\ seen'.left[attempt] = PartialTree
    <3>1. /\ seen'.left \in Seq(Trees) /\ Len(seen'.left) = Len(seen.left) + 1
          /\ \A m \in 1..Len(seen.left) : seen'.left[m] = seen.left[m]
          /\ seen'.left[Len(seen.left) + 1] = PartialTree
      BY <1>0, <2>1, <2>2, Appended
    <3> QED
      BY <1>0, <1>1, <3>1, Places
  <2>4. PICK a : a = attempt
    OBVIOUS
  <2>5. LeftOn(Own(a), a)' \/ LeftOn(Stray, a)'
    <3>1. CASE UNCHANGED <<commits, refs>> /\ TreeOf(PartialOnto) = PartialTree
      <4>1. PICK o \in 1..n : o = PartialOnto
        BY <2>1
      <4>2. o \in History(refs[head])
        <5>1. CASE Snapshotted
          BY <2>1, <4>1, <5>1 DEF IInv, BranchInv, Stacked, PartialOnto
        <5>2. CASE ~Snapshotted
          BY <2>1, <4>1, <5>2 DEF PartialOnto, HeadCommit, History
        <5> QED
          BY <5>1, <5>2
      <4>3. TreeOf(o)' = PartialTree /\ History(refs[head])' = History(refs[head])
        BY <2>1, <3>1, <4>1 DEF TreeOf, History
      <4>4. head' \in {Own(a), Stray}
        BY <2>1, <2>4
      <4>5. \E c \in History(refs[head])' : TreeOf(c)' = seen'.left[a]
        BY <2>3, <2>4, <4>2, <4>3
      <4> QED
        BY <4>4, <4>5 DEF LeftOn
    <3>2. CASE /\ Makes(PartialTree, PartialOnto, "unverified")
               /\ refs' = [refs EXCEPT ![Own(attempt)] = n + 1]
      <4>1. History(n + 1)' = {n + 1} \cup History(PartialOnto) /\ commits'[n + 1].tree = PartialTree
        BY <1>n, <1>0, <3>2, Made
      <4>2. refs'[Own(a)] = n + 1
        BY <1>0, <2>4, <3>2
      <4>3. n + 1 \in History(refs[Own(a)])' /\ TreeOf(n + 1)' = seen'.left[a]
        BY <2>3, <2>4, <4>1, <4>2 DEF TreeOf
      <4> QED
        BY <4>3 DEF LeftOn
    <3> QED
      BY <1>n, <1>4, <3>1, <3>2, KeepsPartialWork
  <2>6. ASSUME NEW m \in DOMAIN seen'.left
        PROVE  LeftOn(Own(m), m)' \/ (LeftOn(Stray, m)' /\ (head' = Stray => pc' \notin Begun))
    <3>1. CASE m = a
      BY <2>1, <2>5, <3>1 DEF Begun
    <3>2. CASE m \in 1..(attempt - 1)
      BY <1>2, <2>3, <3>2
    <3> QED
      BY <1>0, <2>3, <2>4, <3>1, <3>2
  <2> QED
    BY <1>0, <2>1, <2>3, <2>6 DEF LeftInv
<1> QED
  BY <1>3, <1>4, LeftByRetries

-----------------------------------------------------------------------------
(* What is judged. *)

(* Which actions keep a run between the snapshot and the delivery. *)
LEMMA JudgingGoesOn ==
  ASSUME IInv, Next, pc \in Judging, pc' \in Judging
  PROVE  \/ Verify \/ CleanCheckout \/ Report
         \/ \E p \in CheckOutputs, c \in Contents : StepWrites(p, c)
         \/ \E tree \in Trees : BranchMoves(tree)
         \/ UNCHANGED <<pc, disk, agentTree, mode, seen, reports>>
  BY DEF Judging, FailWith, snapVars, task, Next, Agent, Others, Steps, Attempt, PrepareWorktree, PrepareFails,
         AgentWrites, AgentCommits, AgentEdits, AgentTampers, AgentSwitchesBranch,
         EditorWritesConfig, RefMoves, Meddles, AgentEnds, BudgetExpires, Cancel,
         StepBegins, StepEnds, SkipStep, BaseCheck, BaseReport, CheckContainment, InspectionFails,
         SnapshotAgentTree, Succeed, CommitFails, CleanupAfterSuccess, ScheduleRetry, Fail,
         ContinueWorktree, ContinueFails

(* Every step keeps what is known of the judged tree. *)
LEMMA JudgedStep ==
  ASSUME IInv, Next
  PROVE  JudgedInv'
<1>0. JudgedInv /\ seen \in Seen /\ mode \in Modes /\ Modes \subseteq {"in_place", "clean"}
  BY DeliveryAssumption DEF IInv, TypeOK, RunTypes, OrderInv
<1>1. CASE pc' \notin Judging
  BY <1>1 DEF JudgedInv, Judging
<1>2. CASE SnapshotAgentTree
  <2>1. pc' = "verify" /\ agentTree' = CurrentTree /\ disk' = disk
    BY <1>2 DEF SnapshotAgentTree
  <2>2. CurrentTree' = CurrentTree
    BY <2>1 DEF CurrentTree
  <2> QED
    BY <2>1, <2>2 DEF JudgedInv
<1>3. CASE Verify /\ pc' \in Judging
  <2>1. /\ pc = "verify" /\ disk' = disk /\ agentTree' = agentTree /\ mode' = mode /\ reports' = reports
        /\ \/ mode = "clean" /\ pc' = "checkout" /\ seen' = seen
           \/ mode # "clean" /\ pc' = "pass" /\ seen' = [seen EXCEPT !.judged = CurrentTree]
    BY <1>3 DEF Verify, BeginPass, FailWith, snapVars, task, Judging
  <2>2. CurrentTree' = CurrentTree /\ CurrentTree = agentTree
    BY <1>0, <2>1 DEF CurrentTree, JudgedInv
  <2>3. pc' = "pass" => seen'.judged = CurrentTree
    BY <1>0, <2>1 DEF Seen
  <2> QED
    BY <2>1, <2>2, <2>3 DEF JudgedInv
<1>4. CASE CleanCheckout
  <2>1. /\ pc = "checkout" /\ pc' = "pass" /\ disk' = disk /\ agentTree' = agentTree
        /\ seen' = [seen EXCEPT !.judged = agentTree]
    BY <1>4 DEF CleanCheckout, BeginPass, snapVars
  <2>2. CurrentTree' = CurrentTree /\ CurrentTree = agentTree /\ seen'.judged = agentTree
    BY <1>0, <2>1 DEF CurrentTree, JudgedInv, Seen
  <2> QED
    BY <2>1, <2>2 DEF JudgedInv
<1>5. CASE Report /\ pc' \in Judging
  <2>1. /\ pc = "pass" /\ pc' = "deliver" /\ disk' = disk /\ agentTree' = agentTree /\ seen' = seen
    BY <1>5 DEF Report, FailWith, snapVars, Judging
  <2>2. CurrentTree' = CurrentTree
    BY <2>1 DEF CurrentTree
  <2> QED
    BY <1>0, <2>1, <2>2 DEF JudgedInv
<1>6. ASSUME NEW p \in CheckOutputs, NEW c \in Contents, StepWrites(p, c) PROVE JudgedInv'
  <2>1. /\ pc = "pass" /\ pc' = "pass" /\ agentTree' = agentTree /\ mode = "in_place" /\ mode' = mode
        /\ seen'.judged = seen.judged
    BY <1>0, <1>6 DEF StepWrites, snapVars, task, Seen
  <2> QED
    BY <1>0, <2>1 DEF JudgedInv
<1>7. ASSUME NEW tree \in Trees, BranchMoves(tree) PROVE JudgedInv'
  <2>1. PICK n : n = Len(commits)
    OBVIOUS
  <2>2. /\ UNCHANGED <<pc, agentTree, disk, mode, reports>> /\ seen'.judged = seen.judged
    BY <1>7, <2>1, Intrudes
  <2>3. CurrentTree' = CurrentTree
    BY <2>2 DEF CurrentTree
  <2> QED
    BY <1>0, <2>2, <2>3 DEF JudgedInv
<1>8. CASE UNCHANGED <<pc, disk, agentTree, mode, seen, reports>>
  <2>1. CurrentTree' = CurrentTree
    BY <1>8 DEF CurrentTree
  <2> QED
    BY <1>0, <1>8, <2>1 DEF JudgedInv
<1> QED
  BY <1>1, <1>2, <1>3, <1>4, <1>5, <1>6, <1>7, <1>8, Course, JudgingGoesOn

-----------------------------------------------------------------------------
(* Who is to blame. *)

(* What an agent did is not forgotten. *)
LEMMA SeenGrows ==
  ASSUME IInv, Next
  PROVE  seen.wrote \subseteq seen'.wrote /\ (seen.meddled => seen'.meddled)
<1> DEFINE G == seen.wrote \subseteq seen'.wrote /\ (seen.meddled => seen'.meddled)
<1>1. seen \in Seen
  BY DEF IInv, TypeOK
<1>2. ASSUME NEW p, NEW c, AgentWrites(p, c) PROVE G
  BY <1>1, <1>2 DEF AgentWrites, AgentEdits, Seen
<1>3. ASSUME NEW onto, AgentCommits(onto) PROVE G
  <2>1. seen'.meddled = (seen.meddled \/ onto = 0) /\ seen'.wrote = seen.wrote
    BY <1>1, <1>3 DEF AgentCommits, AgentEdits, Seen
  <2> QED
    BY <2>1
<1>4. ASSUME NEW agent, Meddles(agent) PROVE G
  <2>1. seen'.meddled = (seen.meddled \/ agent) /\ seen'.wrote = seen.wrote
    BY <1>1, <1>4 DEF Meddles, Seen
  <2> QED
    BY <2>1
<1>5. ASSUME NEW tree, BranchMoves(tree) PROVE G
  BY <1>1, <1>5 DEF BranchMoves, Seen
<1>6. CASE Verify
  BY <1>1, <1>6 DEF Verify, Seen
<1>7. CASE CleanCheckout \/ BaseReport
  BY <1>1, <1>7 DEF CleanCheckout, BaseReport, Seen
<1>8. ASSUME NEW p, NEW c, StepWrites(p, c) PROVE G
  BY <1>1, <1>8 DEF StepWrites, Seen
<1>9. CASE ScheduleRetry
  <2>1. \E tree : seen' = [seen EXCEPT !.left = Append(@, tree)]
    BY <1>9 DEF ScheduleRetry, CommitPartialWork
  <2> QED
    BY <1>1, <2>1 DEF Seen
<1>10. CASE UNCHANGED seen
  BY <1>10
<1> QED
  BY <1>2, <1>3, <1>4, <1>5, <1>6, <1>7, <1>8, <1>9, <1>10
     DEF Next, Agent, Others, Steps, Attempt, PrepareWorktree, PrepareFails,
         AgentTampers, AgentSwitchesBranch, EditorWritesConfig, RefMoves, AgentEnds,
         BudgetExpires, Cancel, StepBegins, StepEnds, SkipStep, BaseCheck, CheckContainment,
         InspectionFails, SnapshotAgentTree, Report, Succeed, CommitFails, CleanupAfterSuccess, Fail,
         ContinueWorktree, ContinueFails

(* A breach that is found is one an agent of the task made. *)
LEMMA BreachIsMade ==
  ASSUME IInv, Breach, pc = "contain"
  PROVE  seen.meddled
<1> SUFFICES ASSUME ~seen.meddled PROVE FALSE
  OBVIOUS
<1>1. /\ \A c \in Channels \ {"inert"} : shared[c] = 0 /\ before.channels[c] = 0
      /\ \A c \in DOMAIN commits : BaseCommit \in History(c)
      /\ head = before.head /\ refs[head] # 0
  BY DEF IInv, UnmeddledInv, HeadInv, Begun
<1>2. refs[head] \in DOMAIN commits
  BY <1>1, CommitFacts DEF IInv, TypeOK, GitTypes
<1>3. BaseIsAncestor
  BY <1>1, <1>2 DEF BaseIsAncestor, HeadCommit
<1>4. \A c \in {"commondir", "config", "unparsable", "info", "hooks"} : ~Changed(c)
  BY <1>1 DEF Changed, Channels
<1>5. ConfigReadable
  BY <1>1 DEF ConfigReadable, Channels
<1> QED
  BY <1>1, <1>3, <1>4, <1>5 DEF Breach, ConfigBreach

(* What is shared changes by an agent's doing or in a harmless setting, and *)
(* the baseline is taken of it.                                             *)
LEMMA SharedChanges ==
  ASSUME IInv, Next, ~seen'.meddled
  PROVE  /\ \A c \in Channels \ {"inert"} : shared'[c] = shared[c]
         /\ before' = before \/ before'.channels = shared
         /\ pc' \in Begun => \/ pc \in Begun /\ head' = head /\ before' = before
                             \/ head' = before'.head
<1>0. seen \in Seen /\ shared \in [Channels -> 0..1]
  BY DEF IInv, TypeOK, GitTypes
<1>1. ASSUME NEW agent, Meddles(agent) PROVE agent # TRUE
  <2>1. seen'.meddled = (seen.meddled \/ agent)
    BY <1>0, <1>1 DEF Meddles, Seen
  <2> QED
    BY <2>1
<1>2. ~AgentSwitchesBranch /\ \A c : ~AgentTampers(c)
  BY <1>1 DEF AgentSwitchesBranch, AgentTampers
<1>3. \/ UNCHANGED <<shared, before, head>>
      \/ EditorWritesConfig
      \/ PrepareWorktree \/ ContinueWorktree
  BY <1>2 DEF gitVars, Next, Agent, Others, Steps, Attempt, PrepareFails,
         AgentWrites, AgentCommits, AgentEdits,
         RefMoves, Meddles, AgentEnds, BranchMoves, BudgetExpires, Cancel,
         StepBegins, StepEnds, StepWrites, SkipStep, BaseCheck, BaseReport,
         BeginPass, CheckContainment, InspectionFails, SnapshotAgentTree, Verify, CleanCheckout,
         Report, Succeed, CommitFails, CleanupAfterSuccess, ScheduleRetry, Fail,
         ContinueFails
<1>4. CASE EditorWritesConfig
  <2>1. UNCHANGED <<before, head, pc>> /\ shared' = [shared EXCEPT !["inert"] = 1 - @]
    BY <1>4 DEF EditorWritesConfig, Meddles
  <2> QED
    BY <1>0, <2>1
<1>5. CASE PrepareWorktree \/ ContinueWorktree
  <2>1. shared' = shared /\ before' = [channels |-> shared, refs |-> refs', head |-> head']
    BY <1>5 DEF PrepareWorktree, ContinueWorktree
  <2> QED
    BY <2>1
<1>6. CASE UNCHANGED <<shared, before, head>>
  BY <1>5, <1>6, Course
<1> QED
  BY <1>3, <1>4, <1>5, <1>6

(* Every step keeps what is known while no agent meddles. *)
LEMMA UnmeddledStep ==
  ASSUME IInv, Next
  PROVE  UnmeddledInv'
<1>n. PICK n : n = Len(commits)
  OBVIOUS
<1>0. /\ UnmeddledInv /\ TypeOK /\ n \in Nat /\ DOMAIN commits = 1..n
      /\ \A c \in 0..n : History(c)' = History(c)
  BY <1>n, CommitFacts, CommitsStay DEF IInv
<1>1. failure'.kind = "CONTAINMENT" => seen'.meddled
  <2>1. ASSUME NEW answered \in BOOLEAN, CheckContainment(answered), failure'.kind = "CONTAINMENT"
        PROVE  seen'.meddled
    <3>1. Breach \/ failure' = failure
      BY <2>1 DEF CheckContainment
    <3>2. pc = "contain" /\ seen' = seen
      BY <2>1 DEF CheckContainment
    <3> QED
      BY <1>0, <2>1, <3>1, <3>2, BreachIsMade DEF UnmeddledInv
  <2>2. CASE Report
    <3>1. CASE Stopped
      <4>1. failure'.kind = PassFailure
        BY <2>2, <3>1 DEF Report, FailWith
      <4> QED
        BY <3>1, <4>1, PassFailureKind DEF IInv, TypeOK
    <3>2. CASE ~Stopped
      BY <1>0, <2>2, <3>2 DEF Report, UnmeddledInv
    <3> QED
      BY <3>1, <3>2
  <2>3. CASE Fail
    <3>1. failure'.kind \in {failure.kind, "CANCELLED"} /\ seen' = seen
      <4>1. failure \in [kind : FailureKinds, retryable : BOOLEAN]
        BY <1>0 DEF TypeOK, RunTypes
      <4> QED
        BY <2>3, <4>1 DEF Fail
    <3> QED
      BY <1>0, <3>1 DEF UnmeddledInv
  <2>4. CASE ScheduleRetry
    BY <2>4 DEF ScheduleRetry, NoFailure
  <2>5. CASE UNCHANGED failure
    BY <1>0, <2>5, SeenGrows DEF UnmeddledInv
  <2>6. ASSUME NEW kind \in FailureKinds \ {"CONTAINMENT"}, NEW retryable, FailWith(kind, retryable)
        PROVE  failure'.kind # "CONTAINMENT"
    BY <2>6 DEF FailWith
  <2>7. \/ \E answered \in BOOLEAN : CheckContainment(answered)
        \/ Report \/ Fail \/ ScheduleRetry
        \/ UNCHANGED failure
        \/ \E kind \in FailureKinds \ {"CONTAINMENT"}, retryable \in BOOLEAN : FailWith(kind, retryable)
    BY DEF FailureKinds, Next, Agent, Others, Steps, Attempt, PrepareWorktree, PrepareFails,
         AgentWrites, AgentCommits, AgentEdits, AgentTampers, AgentSwitchesBranch,
         EditorWritesConfig, RefMoves, Meddles, AgentEnds, BranchMoves, BudgetExpires, Cancel,
         StepBegins, StepEnds, StepWrites, SkipStep, BaseCheck, BaseReport,
         BeginPass, InspectionFails, SnapshotAgentTree, Verify, CleanCheckout,
         Succeed, CommitFails, CleanupAfterSuccess,
         ContinueWorktree, ContinueFails
  <2> QED
    BY <2>1, <2>2, <2>3, <2>4, <2>5, <2>6, <2>7
<1>2. ASSUME ~seen'.meddled PROVE \A c \in DOMAIN commits' : BaseCommit \in History(c)'
  <2>1. \A c \in 1..n : BaseCommit \in History(c)'
    <3>1. \A c \in 1..n : BaseCommit \in History(c)
      BY <1>0, <1>2, SeenGrows DEF UnmeddledInv
    <3> QED
      BY <1>0, <3>1
  <2>2. ASSUME NEW tree, NEW parent, NEW kind, Makes(tree, parent, kind), parent # 0
        PROVE  \A c \in DOMAIN commits' : BaseCommit \in History(c)'
    <3>1. parent \in 1..n
      BY <1>0, <1>n, <2>2 DEF Makes
    <3>2. BaseCommit \in History(parent)
      BY <1>0, <1>2, <3>1, SeenGrows DEF UnmeddledInv
    <3>3. History(n + 1)' = {n + 1} \cup History(parent) /\ DOMAIN commits' = 1..(n + 1)
      BY <1>0, <1>n, <2>2, Made
    <3> QED
      BY <1>0, <2>1, <3>2, <3>3
  <2> QED
    BY <1>0, <1>2, <2>1, <2>2, Commits
<1>3. ASSUME ~seen'.meddled
      PROVE  /\ \A c \in Channels \ {"inert"} : shared'[c] = 0 /\ before'.channels[c] = 0
             /\ pc' \in Begun => head' = before'.head
  <2>1. ~seen.meddled
    BY <1>3, SeenGrows
  <2> QED
    BY <1>0, <1>3, <2>1, SharedChanges DEF UnmeddledInv
<1> QED
  BY <1>1, <1>2, <1>3 DEF UnmeddledInv

(* What accounts for a path goes on accounting for it. *)
LEMMA AccountedStays ==
  ASSUME IInv, Next, NEW p, p \in seen.wrote \/ Intruded(p)
  PROVE  p \in seen'.wrote \/ Intruded(p)'
<1>n. PICK n : n = Len(commits)
  OBVIOUS
<1>1. CASE p \in seen.wrote
  BY <1>1, SeenGrows
<1>2. CASE Intruded(p)
  <2>1. PICK c \in DOMAIN commits :
          commits[c].kind = "intruder" /\ p \in Tracked /\ TreeOf(c)[p] # BaseTree[p]
    BY <1>2 DEF Intruded
  <2>2. c \in DOMAIN commits' /\ commits'[c] = commits[c] /\ TreeOf(c)' = TreeOf(c)
    BY <1>n, <2>1, CommitsStay
  <2> QED
    BY <2>1, <2>2 DEF Intruded, BaseTree
<1> QED
  BY <1>1, <1>2

(* A tree that is accounted for stays so. *)
LEMMA TreeStaysAccounted ==
  ASSUME IInv, Next, NEW tree, Accounted(tree)
  PROVE  Accounted(tree)'
<1>1. ASSUME NEW p \in Tracked, tree[p] # BaseTree[p] PROVE p \in seen'.wrote \/ Intruded(p)'
  BY <1>1, AccountedStays DEF Accounted
<1> QED
  BY <1>1 DEF Accounted, BaseTree

(* Every commit that is made carries a tree that is accounted for. *)
LEMMA CommitsAccounted ==
  ASSUME IInv, Next
  PROVE  \A c \in DOMAIN commits' : Accounted(TreeOf(c))'
<1>n. PICK n : n = Len(commits)
  OBVIOUS
<1>0. /\ TypeOK /\ WroteInv /\ n \in Nat /\ DOMAIN commits = 1..n
      /\ \A c \in 1..n : TreeOf(c)' = TreeOf(c)
  BY <1>n, CommitFacts, CommitsStay DEF IInv
<1>1. ASSUME NEW c \in 1..n PROVE Accounted(TreeOf(c))'
  <2>1. PICK t : t = TreeOf(c)
    OBVIOUS
  <2>2. Accounted(t)'
    BY <1>0, <1>1, <2>1, TreeStaysAccounted DEF WroteInv
  <2>3. TreeOf(c)' = t
    BY <1>0, <1>1, <2>1
  <2> QED
    BY <2>2, <2>3 DEF Accounted
<1>2. ASSUME NEW t, NEW parent, NEW kind, Makes(t, parent, kind), Accounted(t)'
      PROVE  \A c \in DOMAIN commits' : Accounted(TreeOf(c))'
  <2>1. DOMAIN commits' = 1..(n + 1) /\ commits'[n + 1].tree = t
    BY <1>0, <1>n, <1>2, Made
  <2>2. Accounted(TreeOf(n + 1))'
    BY <1>2, <2>1 DEF Accounted, TreeOf
  <2> QED
    BY <1>0, <1>1, <2>1, <2>2
<1>3. ASSUME NEW onto \in {HeadCommit, 0}, AgentCommits(onto)
      PROVE  \A c \in DOMAIN commits' : Accounted(TreeOf(c))'
  <2>1. Makes(CurrentTree, onto, "agent") /\ pc = "agent"
    <3>1. CurrentTree \in Trees /\ onto \in 0..Len(commits)
      BY <1>0, <1>n, <1>3, TreesAreTrees DEF TypeOK, GitTypes, HeadCommit
    <3> QED
      BY <1>3, <3>1 DEF AgentCommits, AgentEdits, Makes, CommitKinds
  <2>2. PICK t : t = CurrentTree
    OBVIOUS
  <2>3. Accounted(t)'
    BY <1>0, <2>1, <2>2, TreeStaysAccounted DEF WroteInv, Begun
  <2> QED
    BY <1>2, <2>1, <2>2, <2>3
<1>4. ASSUME NEW t \in Trees, BranchMoves(t)
      PROVE  \A c \in DOMAIN commits' : Accounted(TreeOf(c))'
  <2>1. PICK parent : parent = refs[Own(attempt)]
    OBVIOUS
  <2>2. Makes(t, parent, "intruder")
    BY <1>n, <1>4, <2>1, Intrudes
  <2>3. /\ DOMAIN commits' = 1..(n + 1) /\ commits'[n + 1].tree = t
        /\ commits'[n + 1].kind = "intruder"
    BY <1>0, <1>n, <2>2, Made
  <2>4. ASSUME NEW p \in Tracked, t[p] # BaseTree[p] PROVE Intruded(p)'
    <3>1. n + 1 \in DOMAIN commits'
      BY <1>0, <2>3
    <3> QED
      BY <2>3, <2>4, <3>1 DEF Intruded, TreeOf, BaseTree
  <2>5. Accounted(t)'
    BY <2>4 DEF Accounted, BaseTree
  <2> QED
    BY <1>2, <2>2, <2>5
<1>5. CASE Succeed
  <2>1. commits' = commits \/ Makes(agentTree, DeliveryParent, "delivery")
    BY <1>n, <1>5, Delivers
  <2>2. agentTree \in Trees
    BY <1>n, <1>5, Delivers
  <2>3. PICK t : t = agentTree
    OBVIOUS
  <2>4. Accounted(t)'
    BY <1>0, <2>2, <2>3, TreesAreTrees, TreeStaysAccounted DEF WroteInv
  <2> QED
    BY <1>0, <1>1, <1>2, <2>1, <2>3, <2>4
<1>6. CASE ScheduleRetry
  <2>1. commits' = commits \/ Makes(PartialTree, PartialOnto, "unverified")
    BY <1>n, <1>6, KeepsPartialWork
  <2>2. Retrying
    BY <1>n, <1>6, KeepsPartialWork
  <2>3. PICK t : t = PartialTree
    OBVIOUS
  <2>4. Accounted(t)
    BY <1>0, <2>2, <2>3 DEF WroteInv, PartialTree, Snapshotted
  <2>5. Accounted(t)'
    BY <2>4, TreeStaysAccounted
  <2> QED
    BY <1>0, <1>1, <1>2, <2>1, <2>3, <2>5
<1>7. CASE commits' = commits
  BY <1>0, <1>1, <1>7
<1> QED
  BY <1>3, <1>4, <1>5, <1>6, <1>7
     DEF Next, Agent, Others, Steps, Attempt, PrepareWorktree, PrepareFails, AgentEnds, gitVars,
         AgentWrites, AgentEdits, AgentTampers, AgentSwitchesBranch, EditorWritesConfig, RefMoves,
         Meddles, StepWrites, SnapshotAgentTree, ContinueWorktree,
         BudgetExpires, Cancel, StepBegins, StepEnds, SkipStep, BaseCheck, BaseReport, CheckContainment,
         InspectionFails, Verify, CleanCheckout, Report, CommitFails, CleanupAfterSuccess, Fail,
         ContinueFails

(* Where what is in the directory may become a later attempt's. *)
Kept == pc \in Begun \cup {"snapshot", "verify", "continue"} \/ (Retrying /\ ~Snapshotted)

(* Where a run that keeps its directory can have been one step earlier. *)
LEMMA KeptBefore ==
  ASSUME IInv, Next, Kept', ~PrepareWorktree, ~ScheduleRetry
  PROVE  Kept
<1>1. OrderInv /\ <<>> \notin Trees
  BY TreesAreTrees DEF IInv
<1>2. pc' \in {"snapshot", "verify", "continue"} => pc \in {"contain", "snapshot", "verify", "continue"}
  BY DEF FailWith, Next, Agent, Others, Steps, Attempt, PrepareFails,
         AgentWrites, AgentCommits, AgentEdits, AgentTampers, AgentSwitchesBranch,
         EditorWritesConfig, RefMoves, Meddles, AgentEnds, BranchMoves, BudgetExpires, Cancel,
         StepBegins, StepEnds, StepWrites, SkipStep, BaseCheck, BaseReport,
         BeginPass, CheckContainment, InspectionFails, SnapshotAgentTree, Verify, CleanCheckout,
         Report, Succeed, CommitFails, CleanupAfterSuccess, Fail,
         ContinueWorktree, ContinueFails
<1>3. pc' \in Begun => pc \in Begun \/ pc = "continue"
  BY Course DEF ContinueWorktree
<1>4. Retrying' /\ ~Snapshotted' => pc = "agent" \/ (Retrying /\ ~Snapshotted)
  <2>1. Retrying' => pc \in {"agent", "pass"} \/ Retrying
    BY Course
  <2>2. pc \in {"pass", "fail"} => agentTree' = agentTree
    BY DEF Next, Agent, Others, Steps, Attempt, PrepareFails, snapVars,
         AgentWrites, AgentCommits, AgentEdits, AgentTampers, AgentSwitchesBranch,
         EditorWritesConfig, RefMoves, Meddles, AgentEnds, BranchMoves, BudgetExpires, Cancel,
         StepBegins, StepEnds, StepWrites, SkipStep, BaseCheck, BaseReport,
         CheckContainment, InspectionFails, SnapshotAgentTree, Verify, CleanCheckout,
         Report, Succeed, CommitFails, CleanupAfterSuccess, Fail,
         ContinueWorktree, ContinueFails
  <2> QED
    BY <1>1, <2>1, <2>2 DEF OrderInv, Snapshotted, Judging, Retrying
<1> QED
  BY <1>2, <1>3, <1>4 DEF Kept, Begun

(* Every step keeps the account of what differs from the base. *)
LEMMA WroteStep ==
  ASSUME IInv, Next
  PROVE  WroteInv'
<1>n. PICK n : n = Len(commits)
  OBVIOUS
<1>0. /\ TypeOK /\ WroteInv /\ seen \in Seen /\ disk \in [Paths -> Contents]
      /\ Tracked \cap Ignored = {} /\ Paths = Tracked \cup Ignored
      /\ (Kept => Accounted(CurrentTree))
  BY DeliveryAssumption DEF IInv, TypeOK, GitTypes, WroteInv, Kept, Paths
<1>1. agentTree' # <<>> => Accounted(agentTree)'
  <2>1. agentTree' \in {agentTree, <<>>} \/ (pc = "snapshot" /\ agentTree' = CurrentTree)
    BY DEF snapVars, Next, Agent, Others, Steps, Attempt, PrepareWorktree, PrepareFails,
         AgentWrites, AgentCommits, AgentEdits, AgentTampers, AgentSwitchesBranch,
         EditorWritesConfig, RefMoves, Meddles, AgentEnds, BranchMoves, BudgetExpires, Cancel,
         StepBegins, StepEnds, StepWrites, SkipStep, BaseCheck, BaseReport,
         CheckContainment, InspectionFails, SnapshotAgentTree, Verify, CleanCheckout,
         Report, Succeed, CommitFails, CleanupAfterSuccess, ScheduleRetry, Fail,
         ContinueWorktree, ContinueFails
  <2>2. PICK t : t = agentTree'
    OBVIOUS
  <2>3. t # <<>> => Accounted(t)
    BY <1>0, <2>1, <2>2 DEF WroteInv
  <2>4. t # <<>> => Accounted(t)'
    BY <2>3, TreeStaysAccounted
  <2> QED
    BY <2>2, <2>4 DEF Accounted
<1>2. ASSUME disk' = disk, Kept' => Kept
      PROVE  /\ Kept' => Accounted(CurrentTree)'
             /\ \A p \in Ignored : disk'[p] # 0 => p \in seen'.wrote \cup CheckOutputs
  <2>1. PICK t : t = CurrentTree
    OBVIOUS
  <2>2. CurrentTree' = t
    BY <1>2, <2>1 DEF CurrentTree
  <2>3. Kept' => Accounted(t)'
    BY <1>0, <1>2, <2>1, TreeStaysAccounted
  <2>4. Kept' => Accounted(CurrentTree)'
    BY <2>2, <2>3 DEF Accounted
  <2> QED
    BY <1>0, <1>2, <2>4, SeenGrows DEF WroteInv
<1>3. ASSUME NEW q \in Paths, NEW k \in Contents, AgentWrites(q, k)
      PROVE  /\ Accounted(CurrentTree)'
             /\ \A p \in Ignored : disk'[p] # 0 => p \in seen'.wrote \cup CheckOutputs
  <2>1. pc = "agent" /\ disk' = [disk EXCEPT ![q] = k] /\ seen'.wrote = seen.wrote \cup {q}
    BY <1>0, <1>3 DEF AgentWrites, AgentEdits, Seen
  <2>2. ASSUME NEW p \in Tracked, disk'[p] # BaseTree[p] PROVE p \in seen'.wrote \/ Intruded(p)'
    <3>1. CASE p = q
      BY <2>1, <3>1
    <3>2. CASE p # q
      <4>1. CurrentTree[p] # BaseTree[p]
        BY <1>0, <2>1, <2>2, <3>2 DEF CurrentTree
      <4>2. p \in seen.wrote \/ Intruded(p)
        BY <1>0, <2>1, <4>1 DEF Accounted, Kept, Begun
      <4> QED
        BY <4>2, AccountedStays
    <3> QED
      BY <3>1, <3>2
  <2>3. Accounted(CurrentTree)'
    BY <2>2 DEF Accounted, CurrentTree, BaseTree
  <2> QED
    BY <1>0, <2>1, <2>3 DEF WroteInv
<1>4. ASSUME NEW q \in CheckOutputs, NEW k \in Contents, StepWrites(q, k)
      PROVE  /\ ~Kept'
             /\ \A p \in Ignored : disk'[p] # 0 => p \in seen'.wrote \cup CheckOutputs
  <2>1. pc' = "pass" /\ disk' = [disk EXCEPT ![q] = k] /\ seen'.wrote = seen.wrote
    BY <1>0, <1>4 DEF StepWrites, Seen
  <2>2. ~Kept'
    BY <2>1 DEF Kept, Retrying, Begun
  <2> QED
    BY <1>0, <2>1, <2>2 DEF WroteInv
<1>5. CASE PrepareWorktree
  <2>1. disk' = [p \in Paths |-> IF p \in Tracked THEN BaseTree[p] ELSE 0]
    BY <1>5 DEF PrepareWorktree
  <2>2. \A p \in Tracked : disk'[p] = BaseTree[p]
    BY <1>0, <2>1
  <2>3. \A p \in Ignored : disk'[p] = 0
    BY <1>0, <2>1
  <2>4. Accounted(CurrentTree)'
    BY <2>2 DEF Accounted, CurrentTree, BaseTree
  <2> QED
    BY <1>0, <1>1, <2>3, <2>4, CommitsAccounted DEF WroteInv
<1>6. CASE ScheduleRetry
  <2>1. /\ Retrying /\ head' = head /\ refs'[head] \in DOMAIN commits'
        /\ IF Snapshotted THEN RestoreToHead(commits'[refs'[head]].tree) ELSE disk' = disk
    <3>1. /\ Retrying /\ head' = head /\ refs[head] \in 1..n /\ n \in Nat
          /\ IF Snapshotted THEN RestoreToHead(commits'[refs'[head]].tree) ELSE disk' = disk
      BY <1>n, <1>6, KeepsPartialWork
    <3>2. GitTypes' /\ head' \in Refs
      BY GitTypesStep DEF GitTypes
    <3>3. refs'[head] # 0
      <4>1. pc' = "continue"
        BY <1>n, <1>6, KeepsPartialWork
      <4> QED
        BY <3>1, <4>1, OrderStep DEF HeadInv
    <3>4. refs'[head] \in 0..Len(commits') /\ Len(commits') \in Nat
          /\ DOMAIN commits' = 1..Len(commits')
      BY <3>1, <3>2, Places DEF GitTypes
    <3> QED
      BY <3>1, <3>3, <3>4
  <2>2. CASE ~Snapshotted
    <3>1. Kept /\ disk' = disk
      BY <2>1, <2>2 DEF Kept
    <3> QED
      BY <1>1, <1>2, <3>1, CommitsAccounted DEF WroteInv, Kept
  <2>3. CASE Snapshotted
    <3>1. PICK c \in DOMAIN commits' : c = refs'[head]
      BY <2>1
    <3>2. disk' = [p \in Paths |-> IF p \in Tracked THEN commits'[c].tree[p] ELSE disk[p]]
      BY <2>1, <2>3, <3>1 DEF RestoreToHead
    <3>3. Accounted(TreeOf(c))'
      BY <3>1, CommitsAccounted
    <3>4. \A p \in Tracked : disk'[p] = commits'[c].tree[p]
      BY <1>0, <3>2
    <3>5. \A p \in Ignored : disk'[p] = disk[p]
      BY <1>0, <3>2
    <3>6. Accounted(CurrentTree)'
      BY <3>3, <3>4 DEF Accounted, CurrentTree, TreeOf, BaseTree
    <3> QED
      BY <1>0, <1>1, <3>5, <3>6, CommitsAccounted, SeenGrows DEF WroteInv
  <2> QED
    BY <2>2, <2>3
<1>7. \/ disk' = disk
      \/ \E q \in Paths, k \in Contents : AgentWrites(q, k)
      \/ \E q \in CheckOutputs, k \in Contents : StepWrites(q, k)
      \/ PrepareWorktree \/ ScheduleRetry
  BY DEF Next, Agent, Others, Steps, Attempt, PrepareFails,
         AgentCommits, AgentEdits, AgentTampers, AgentSwitchesBranch,
         EditorWritesConfig, RefMoves, Meddles, AgentEnds, BranchMoves, BudgetExpires, Cancel,
         StepBegins, StepEnds, SkipStep, BaseCheck, BaseReport,
         CheckContainment, InspectionFails, SnapshotAgentTree, Verify, CleanCheckout,
         Report, Succeed, CommitFails, CleanupAfterSuccess, Fail,
         ContinueWorktree, ContinueFails
<1>8. ASSUME /\ Kept' => Accounted(CurrentTree)'
             /\ \A p \in Ignored : disk'[p] # 0 => p \in seen'.wrote \cup CheckOutputs
      PROVE  WroteInv'
  BY <1>1, <1>8, CommitsAccounted DEF WroteInv, Kept
<1> QED
  BY <1>2, <1>3, <1>4, <1>5, <1>6, <1>7, <1>8, KeptBefore

-----------------------------------------------------------------------------
(* What is delivered. *)

(* A task is delivered by one action, and nothing but the clean-up follows. *)
LEMMA DeliveredOnce ==
  ASSUME IInv, Next, outcome' = "SUCCEEDED"
  PROVE  \/ Succeed
         \/ /\ outcome = "SUCCEEDED" /\ CleanupAfterSuccess
            /\ UNCHANGED <<attempt, disk, commits, refs, head, index, agentTree, agentHead, reports, seen>>
<1>1. outcome # "none" => pc \in {"cleanup", "removed", "kept"}
  BY DEF IInv, OrderInv
<1>2. Succeed \/ CleanupAfterSuccess
  BY <1>1 DEF Next, Agent, Others, Steps, Attempt, PrepareWorktree, PrepareFails, Passing,
         AgentWrites, AgentCommits, AgentEdits, AgentTampers, AgentSwitchesBranch,
         EditorWritesConfig, RefMoves, Meddles, AgentEnds, BranchMoves, BudgetExpires, Cancel,
         StepBegins, StepEnds, StepWrites, SkipStep, BaseCheck, BaseReport,
         CheckContainment, InspectionFails, SnapshotAgentTree, Verify, CleanCheckout,
         Report, CommitFails, ScheduleRetry, Fail, ContinueWorktree, ContinueFails
<1> QED
  BY <1>2 DEF CleanupAfterSuccess, gitVars, snapVars

(* Every step delivers what was judged. *)
LEMMA DeliveredStep ==
  ASSUME IInv, Next
  PROVE  DeliveredIsWhatWasJudged'
<1> SUFFICES ASSUME outcome' = "SUCCEEDED" PROVE DeliveredIsWhatWasJudged'
  BY DEF DeliveredIsWhatWasJudged
<1>n. PICK n : n = Len(commits)
  OBVIOUS
<1>0. /\ TypeOK /\ n \in Nat /\ refs \in [Refs -> 0..n] /\ Own(attempt) \in Refs
  BY <1>n, CommitFacts, OwnIsARef DEF IInv, TypeOK, GitTypes
<1>1. CASE Succeed
  <2>1. /\ pc = "deliver" /\ UNCHANGED <<attempt, disk, agentTree, agentHead, seen, reports>>
        /\ agentHead \in 1..n
    BY <1>n, <1>1, Delivers
  <2>2. seen.judged = agentTree /\ Stacked
    BY <2>1 DEF IInv, JudgedInv, BranchInv, Judging
  <2>3. pc' = "cleanup" /\ CurrentTree' = CurrentTree
    BY <1>1, <2>1 DEF Succeed, CurrentTree
  <2>4. \/ commits'[refs'[Own(attempt)]].tree = agentTree
        \/ seen.moved = attempt /\ commits'[agentHead].tree = agentTree
    <3>1. CASE UNCHANGED <<commits, refs>> /\ TreeOf(agentHead) = agentTree
      BY <2>2, <3>1 DEF Stacked, TreeOf
    <3>2. CASE /\ commits' = commits /\ TreeOf(1) = agentTree
               /\ refs' = [refs EXCEPT ![Own(attempt)] = 1]
      BY <1>0, <3>2 DEF TreeOf
    <3>3. CASE /\ Makes(agentTree, DeliveryParent, "delivery")
               /\ refs' = [refs EXCEPT ![Own(attempt)] = n + 1]
      <4>1. PICK t, parent : t = agentTree /\ parent = DeliveryParent
        OBVIOUS
      <4>2. commits'[n + 1].tree = t
        BY <1>0, <1>n, <3>3, <4>1, Made
      <4> QED
        BY <1>0, <3>3, <4>1, <4>2
    <3> QED
      BY <1>n, <1>1, <3>1, <3>2, <3>3, Delivers
  <2>5. \/ TreeOf(refs[Own(attempt)])' = agentTree'
        \/ seen'.moved = attempt' /\ TreeOf(agentHead)' = agentTree'
    BY <2>1, <2>4 DEF TreeOf
  <2> QED
    BY <2>1, <2>2, <2>3, <2>5 DEF DeliveredIsWhatWasJudged
<1>2. CASE /\ outcome = "SUCCEEDED" /\ CleanupAfterSuccess
           /\ UNCHANGED <<attempt, disk, commits, refs, head, index, agentTree, agentHead, reports, seen>>
  <2>1. CurrentTree' = CurrentTree
    BY <1>2 DEF CurrentTree
  <2>2. /\ TreeOf(refs[Own(attempt)])' = TreeOf(refs[Own(attempt)])
        /\ TreeOf(agentHead)' = TreeOf(agentHead)
    BY <1>2 DEF TreeOf
  <2>3. head = Own(attempt)
    BY <1>2 DEF IInv, HeadInv
  <2>4. pc' = "removed" => CurrentTree = TreeOf(refs[Own(attempt)])
    BY <1>2, <2>3 DEF CleanupAfterSuccess, Removable, Clean, HeadCommit
  <2> QED
    BY <1>2, <2>1, <2>2, <2>4 DEF IInv, DeliveredIsWhatWasJudged
<1> QED
  BY <1>1, <1>2, DeliveredOnce

(* No step delivers unverified work. *)
LEMMA UnverifiedStep ==
  ASSUME IInv, Next
  PROVE  NothingUnverifiedDelivered'
<1> SUFFICES ASSUME outcome' = "SUCCEEDED" PROVE NothingUnverifiedDelivered'
  BY DEF NothingUnverifiedDelivered
<1>n. PICK n : n = Len(commits)
  OBVIOUS
<1>0. /\ TypeOK /\ n \in Nat /\ refs \in [Refs -> 0..n] /\ Own(attempt) \in Refs /\ attempt \in Nat \ {0}
      /\ n > 0 /\ DOMAIN commits = 1..n /\ BaseInv
  BY <1>n, CommitFacts, OwnIsARef DEF IInv, TypeOK, GitTypes, BaseInv
<1>1. History(1) = {1}
  BY <1>0 DEF History, BaseInv, BaseCommit
<1>2. /\ \A c \in 1..n : commits'[c] = commits[c]
      /\ \A c \in 0..n : History(c)' = History(c) /\ History(c) \subseteq 1..n
  BY <1>0, <1>n, CommitsStay, CommitFacts
<1>3. ASSUME NEW branch, branch = refs'[Own(attempt')],
             NEW R, R = History(branch)' \ {1},
             \A c \in R : commits'[c].kind # "unverified",
             attempt' > 1 => Cardinality({c \in R : commits'[c].kind # "intruder"}) <= 1
      PROVE  NothingUnverifiedDelivered'
  <2>1. History(refs[Own(attempt)])' = History(branch)' /\ History(BaseCommit)' = {1}
    <3>1. History(1)' = {1}
      BY <1>0, <1>1, <1>2
    <3> QED
      BY <1>3, <3>1 DEF BaseCommit
  <2>2. History(refs[Own(attempt)])' \ History(BaseCommit)' = R
    BY <1>3, <2>1
  <2> QED
    BY <1>3, <2>2 DEF NothingUnverifiedDelivered
<1>4. CASE Succeed
  <2>1. /\ pc = "deliver" /\ attempt' = attempt
        /\ agentHead \in 1..n /\ DeliveryParent \in 1..n
        /\ DeliveryParent = (IF attempt > 1 THEN 1 ELSE agentHead)
    BY <1>n, <1>4, Delivers
  <2>2. Stacked
    BY <2>1 DEF IInv, BranchInv, Judging
  <2>3. ASSUME NEW R, R \subseteq {} PROVE Cardinality(R) <= 1
    <3>1. R = {}
      BY <2>3
    <3> QED
      BY <3>1, FS_EmptySet
  <2>4. CASE UNCHANGED <<commits, refs>> /\ DeliveryParent = agentHead
    <3>1. PICK branch \in 0..n : branch = refs[Own(attempt)]
      BY <1>0
    <3>2. PICK R : R = History(branch) \ {1}
      OBVIOUS
    <3>3. branch = refs'[Own(attempt')] /\ R = History(branch)' \ {1} /\ R \subseteq 1..n
      BY <1>2, <2>1, <2>4, <3>1, <3>2
    <3>4. CASE attempt = 1
      BY <1>0, <1>2, <1>3, <2>1, <3>3, <3>4, SMTT(30) DEF BaseInv
    <3>5. CASE attempt > 1
      <4>1. agentHead = 1
        BY <2>1, <2>4, <3>5
      <4>2. \A c \in R : commits[c].kind = "intruder"
        BY <1>1, <2>2, <3>1, <3>2, <4>1 DEF Stacked
      <4>3. \A c \in R : commits'[c].kind = "intruder"
        BY <1>2, <3>3, <4>2
      <4>4. Cardinality({c \in R : commits'[c].kind # "intruder"}) <= 1
        BY <2>3, <4>3
      <4> QED
        BY <1>3, <3>3, <4>3, <4>4
    <3> QED
      BY <1>0, <3>4, <3>5
  <2>5. CASE commits' = commits /\ refs' = [refs EXCEPT ![Own(attempt)] = 1]
    <3>1. refs'[Own(attempt')] = 1 /\ History(1)' \ {1} = {}
      BY <1>0, <1>1, <1>2, <2>1, <2>5
    <3>2. Cardinality({c \in {} : commits'[c].kind # "intruder"}) <= 1
      BY <2>3
    <3> QED
      BY <1>3, <3>1, <3>2
  <2>6. CASE /\ Makes(agentTree, DeliveryParent, "delivery")
             /\ refs' = [refs EXCEPT ![Own(attempt)] = n + 1]
    <3>1. PICK t, parent : t = agentTree /\ parent = DeliveryParent
      OBVIOUS
    <3>2. /\ History(n + 1)' = {n + 1} \cup History(parent) /\ commits'[n + 1].kind = "delivery"
      BY <1>0, <1>n, <2>6, <3>1, Made, SMTT(30)
    <3>3. PICK R : R = History(n + 1)' \ {1}
      OBVIOUS
    <3>4. n + 1 = refs'[Own(attempt')]
      BY <1>0, <2>1, <2>6
    <3>5. CASE attempt = 1
      <4>1. \A c \in R : c = n + 1 \/ c \in 1..n
        BY <1>2, <2>1, <3>1, <3>2, <3>3
      <4>2. \A c \in R : commits'[c].kind # "unverified"
        BY <1>0, <1>2, <3>2, <3>5, <4>1 DEF BaseInv
      <4> QED
        BY <1>3, <2>1, <3>3, <3>4, <3>5, <4>2
    <3>6. CASE attempt > 1
      <4>1. R = {n + 1}
        BY <1>0, <1>1, <2>1, <3>1, <3>2, <3>3, <3>6
      <4>2. {c \in R : commits'[c].kind # "intruder"} = {n + 1}
        BY <3>2, <4>1
      <4>3. Cardinality({n + 1}) = 1
        BY FS_Singleton
      <4> QED
        BY <1>3, <3>2, <3>3, <3>4, <4>1, <4>2, <4>3
    <3> QED
      BY <1>0, <3>5, <3>6
  <2> QED
    BY <1>n, <1>4, <2>4, <2>5, <2>6, Delivers
<1>5. CASE /\ outcome = "SUCCEEDED"
           /\ UNCHANGED <<attempt, disk, commits, refs, head, index, agentTree, agentHead, reports, seen>>
  <2>1. /\ History(refs[Own(attempt)])' = History(refs[Own(attempt)])
        /\ History(BaseCommit)' = History(BaseCommit)
    BY <1>5 DEF History, BaseCommit
  <2> QED
    BY <1>5, <2>1 DEF IInv, NothingUnverifiedDelivered
<1> QED
  BY <1>4, <1>5, DeliveredOnce

-----------------------------------------------------------------------------
(* The theorems. *)

(* A run begins in a state of the invariant. *)
LEMMA InitInv ==
  ASSUME Init
  PROVE  IInv
<1>0. /\ MaxRetries \in Nat /\ Modes \subseteq {"in_place", "clean"} /\ Gates \subseteq BOOLEAN
      /\ Paths = Tracked \cup Ignored
  BY DeliveryAssumption DEF Paths
<1>1. /\ BaseTree \in Trees /\ Own(1) \in Refs /\ {Main, Sibling, Stray} \subseteq Refs
  BY <1>0, RefsDiffer DEF BaseTree, Trees, Contents, Refs
<1>2. PICK base : base = [tree |-> BaseTree, past |-> {}, kind |-> "base"]
  OBVIOUS
<1>3. /\ base \in CommitRecords /\ base.past = {} /\ base.tree = BaseTree /\ base.kind = "base"
  BY <1>1, <1>2 DEF CommitRecords, CommitKinds
<1>4. commits = <<base>> /\ commits \in Seq(CommitRecords) /\ Len(commits) = 1 /\ DOMAIN commits = {1}
      /\ commits[1] = base
  BY <1>2, <1>3 DEF Init
<1>5. TypeOK
  <2>1. disk \in [Paths -> Contents] /\ index \in Trees
    BY <1>1 DEF Init, Contents
  <2>2. refs \in [Refs -> 0..Len(commits)] /\ head \in Refs
    BY <1>1, <1>4 DEF Init, BaseCommit
  <2>3. shared \in [Channels -> 0..1]
    BY DEF Init
  <2>4. before \in [channels : [Channels -> 0..1], refs : [Refs -> Nat], head : Refs]
    <3>1. before = [channels |-> shared, refs |-> refs, head |-> head]
      BY DEF Init, SharedState
    <3>2. refs \in [Refs -> Nat]
      BY <1>4, <2>2
    <3> QED
      BY <2>2, <2>3, <3>1, <3>2
  <2>5. \A c \in DOMAIN commits : commits[c].past \subseteq 1..(c - 1)
    BY <1>3, <1>4
  <2>6. agentTree \in Trees \cup {<<>>} /\ agentHead \in 0..Len(commits)
    BY <1>4 DEF Init
  <2>7. GitTypes
    BY <1>4, <2>1, <2>2, <2>3, <2>4, <2>5, <2>6 DEF GitTypes
  <2>8. RunTypes
    <3>1. NoFailure \in [kind : FailureKinds, retryable : BOOLEAN]
      BY DEF NoFailure, FailureKinds
    <3>2. failure \in [kind : FailureKinds, retryable : BOOLEAN] /\ mode \in Modes /\ gate \in Gates
      BY <3>1 DEF Init
    <3>3. attempt \in 1..(MaxRetries + 1)
      BY <1>0 DEF Init
    <3> QED
      BY <3>2, <3>3 DEF Init, RunTypes
  <2>9. runs \in Seq(StepStatuses)
    BY DEF Init
  <2>10. seen \in Seen
    BY DEF Init, Seen
  <2> QED
    BY <2>7, <2>8, <2>9, <2>10 DEF TypeOK
<1>6. pc = "prepare" /\ attempt = 1 /\ outcome = "none" /\ failure = NoFailure /\ runs = <<>>
      /\ agentTree = <<>> /\ stop = "none"
  BY DEF Init
<1>7. /\ seen.moved = 0 /\ seen.left = <<>>
  BY DEF Init
<1>8. ~Retrying /\ pc \notin Begun /\ pc \notin Judging
  BY <1>6 DEF Retrying, Begun, Judging
<1>9. HeadInv /\ OrderInv
  BY <1>6, <1>8 DEF HeadInv, OrderInv
<1>10. CancelInv
  <2>1. DOMAIN runs = {}
    BY <1>6
  <2> QED
    BY <1>6, <2>1 DEF CancelInv, Stopped, NoFailure
<1>11. BaseInv
  BY <1>3, <1>4 DEF BaseInv, BaseCommit
<1>12. BranchInv
  BY <1>6, <1>7, <1>8 DEF BranchInv
<1>13. JudgedInv
  BY <1>6 DEF JudgedInv
<1>14. LeftInv
  BY <1>6, <1>7 DEF LeftInv
<1>15. UnmeddledInv
  <2>1. \A c \in Channels \ {"inert"} : shared[c] = 0 /\ before.channels[c] = 0
    BY DEF Init, SharedState
  <2>2. \A c \in DOMAIN commits : BaseCommit \in History(c)
    BY <1>4 DEF History, BaseCommit
  <2> QED
    BY <1>6, <1>8, <2>1, <2>2 DEF UnmeddledInv, NoFailure
<1>16. WroteInv
  <2>1. \A c \in DOMAIN commits : Accounted(TreeOf(c))
    BY <1>3, <1>4 DEF Accounted, TreeOf
  <2>2. \A p \in Ignored : disk[p] = 0
    BY <1>0 DEF Init
  <2> QED
    BY <1>6, <1>8, <2>1, <2>2 DEF WroteInv
<1> QED
  BY <1>5, <1>6, <1>9, <1>10, <1>11, <1>12, <1>13, <1>14, <1>15, <1>16
     DEF IInv, DeliveredIsWhatWasJudged, NothingUnverifiedDelivered

(* The invariant says nothing of what is not a variable. *)
LEMMA StutterInv ==
  ASSUME IInv, UNCHANGED vars
  PROVE  IInv'
<1>1. /\ UNCHANGED <<mode, gate, pc, attempt, disk, index, commits, refs, head>>
      /\ UNCHANGED <<shared, before, agentTree, agentHead, runs, stepping, stop>>
      /\ UNCHANGED <<cancelled, failure, outcome, reports, seen>>
  BY DEF vars, task, gitVars, passVars, snapVars
<1>2. TypeOK'
  <2>1. GitTypes'
    BY <1>1 DEF IInv, TypeOK, GitTypes
  <2>2. RunTypes'
    BY <1>1, Zenon DEF IInv, TypeOK, RunTypes
  <2> QED
    BY <1>1, <2>1, <2>2 DEF IInv, TypeOK
<1>3. HeadInv' /\ OrderInv' /\ CancelInv' /\ BaseInv'
  BY <1>1 DEF IInv, HeadInv, OrderInv, CancelInv, BaseInv, Retrying, Stopped
<1>4. BranchInv'
  BY <1>1 DEF IInv, BranchInv, Stacked, Retrying, Snapshotted, History
<1>5. JudgedInv' /\ LeftInv'
  BY <1>1 DEF IInv, JudgedInv, LeftInv, LeftOn, CurrentTree, History, TreeOf
<1>6. UnmeddledInv'
  BY <1>1 DEF IInv, UnmeddledInv, History
<1>7. WroteInv'
  BY <1>1 DEF IInv, WroteInv, Accounted, Intruded, TreeOf, CurrentTree, Retrying, Snapshotted
<1>8. DeliveredIsWhatWasJudged' /\ NothingUnverifiedDelivered'
  BY <1>1 DEF IInv, DeliveredIsWhatWasJudged, NothingUnverifiedDelivered, TreeOf, CurrentTree,
              History, BaseCommit
<1> QED
  BY <1>2, <1>3, <1>4, <1>5, <1>6, <1>7, <1>8 DEF IInv

(* Whatever agents, people and checks do, and however often the task is    *)
(* retried, the invariant of worker/run.go and worker/retry.go holds.      *)
THEOREM Invariance == Spec => []IInv
<1>1. Init => IInv
  BY InitInv
<1>2. IInv /\ [Next]_vars => IInv'
  <2>1. ASSUME IInv, Next PROVE IInv'
    BY <2>1, TypeStep, OrderStep, CancelStep, BaseStep, BranchStep, JudgedStep, LeftStep,
       UnmeddledStep, WroteStep, DeliveredStep, UnverifiedStep DEF IInv
  <2> QED
    BY <2>1, StutterInv
<1> QED
  BY <1>1, <1>2, PTL DEF Spec

(* Every delivery is of the tree that was judged: commitAgentTree writes   *)
(* the snapshot or finds it on the branch, and a directory that is removed *)
(* held what its branch holds.                                             *)
THEOREM Delivered == Spec => []DeliveredIsWhatWasJudged
<1>1. IInv => DeliveredIsWhatWasJudged
  BY DEF IInv
<1> QED
  BY <1>1, Invariance, PTL

(* No delivery of commitAgentTree carries a failed attempt's unverified    *)
(* commit, and a retry's is at most one commit on the base.                *)
THEOREM NothingUnverified == Spec => []NothingUnverifiedDelivered
<1>1. IInv => NothingUnverifiedDelivered
  BY DEF IInv
<1> QED
  BY <1>1, Invariance, PTL

(* commitPartialWork leaves every retried attempt's work on a branch, and  *)
(* UpdateBranch drops nobody's commit.                                     *)
THEOREM NobodysWork == Spec => []NobodysWorkIsLost
<1>1. ASSUME IInv PROVE NobodysWorkIsLost
  <2>1. TypeOK /\ LeftInv /\ BranchInv /\ seen \in Seen
    BY <1>1 DEF IInv, TypeOK
  <2>2. attempt \in Nat \ {0} /\ attempt <= MaxRetries + 1 /\ MaxRetries \in Nat
        /\ (\A n \in 1..(MaxRetries + 1) : Own(n) \in Refs) /\ Stray \in Refs
    BY <2>1, OwnIsARef, RefsDiffer
  <2>3. DOMAIN seen.left = 1..(attempt - 1)
    <3>1. seen.left \in Seq(Trees)
      BY <2>1 DEF Seen
    <3> QED
      BY <2>1, <3>1, Places DEF LeftInv
  <2>4. ASSUME NEW n \in DOMAIN seen.left
        PROVE  \E r \in Refs : \E c \in History(refs[r]) : TreeOf(c) = seen.left[n]
    <3>1. Own(n) \in Refs
      BY <2>2, <2>3, <2>4
    <3>2. LeftOn(Own(n), n) \/ LeftOn(Stray, n)
      BY <2>1, <2>4 DEF LeftInv
    <3> QED
      BY <2>2, <3>1, <3>2 DEF LeftOn
  <2> QED
    BY <2>1, <2>4 DEF NobodysWorkIsLost, BranchInv
<1> QED
  BY <1>1, Invariance, PTL

(* checkContainment and verify blame an agent only for what an agent of    *)
(* the task did or somebody committed to its branch, as long as no setup   *)
(* or verification step writes an ignored path that steps load code from:  *)
(* ignored files stay in the directory from one attempt to the next.       *)
THEOREM Blame ==
  ASSUME CheckOutputs \cap Ignored \cap Runners = {}
  PROVE  Spec => []BlameIsTheAgents
<1>1. ASSUME IInv PROVE BlameIsTheAgents
  <2>1. failure.kind = "CONTAINMENT" => seen.meddled
    BY <1>1 DEF IInv, UnmeddledInv
  <2>2. ASSUME pc = "verify", Refused
        PROVE  \E p \in Runners \cup Protected : p \in seen.wrote \/ Intruded(p)
    <3>1. /\ Accounted(CurrentTree)
          /\ \A p \in Ignored : disk[p] # 0 => p \in seen.wrote \cup CheckOutputs
      BY <1>1, <2>2 DEF IInv, WroteInv
    <3>2. \A p \in Committable : p \in seen.wrote \/ Intruded(p)
      BY <3>1 DEF Accounted, CurrentTree, Committable
    <3>3. \A p \in Runners \cap IgnoredThere : p \in seen.wrote
      BY <3>1 DEF IgnoredThere
    <3> QED
      BY <2>2, <3>2, <3>3 DEF Refused
  <2> QED
    BY <2>1, <2>2 DEF BlameIsTheAgents
<1> QED
  BY <1>1, Invariance, PTL

(* Runner.Run, FailureKind and fail record a cancellation only when the    *)
(* operator cancelled.                                                     *)
THEOREM Cancelled == Spec => []CancelledByTheOperator
<1>1. ASSUME IInv PROVE CancelledByTheOperator
  BY <1>1 DEF IInv, CancelInv, CancelledByTheOperator
<1> QED
  BY <1>1, Invariance, PTL

=============================================================================
